SPECIFICATION FairSpec
CONSTANTS
  Byte <- AllBytes
  Zero = "NUL"
  UintMod = 64
  Object <- Objects
  Wire <- Wires
  NoObject = NoObject
INVARIANTS TypeOK RoundTrip PositionInBuffer BlankLineKept
PROPERTIES ParseEnds
