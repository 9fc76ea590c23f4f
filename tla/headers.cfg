SPECIFICATION Spec
CONSTANTS
  Byte <- AllBytes
  Zero = "NUL"
  UintMod = 64
  Object <- Objects
  Wire <- Wires
  NoObject = NoObject
INVARIANTS HeadersEndAtBlankLine
