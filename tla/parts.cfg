SPECIFICATION PartsSpec
CONSTANTS
  Byte <- Bytes
  Zero = "NUL"
  UintMod = 64
  Width <- Widths
  MaxSize = 3
  MaxPos = 4
  SendItem = {s1, s2, s3, s4}
  NoItem = NoItem
  Part <- Parts
  First3 <- PartBegins
  Line <- Lines
  Value <- HeaderValues
  Long <- LongValues
  Garbage = Garbage
INVARIANTS TypeOK StreamInOrder CarefulInside ReplaceMeetsFind PutSelfDoubles
INVARIANTS DeletedOnce HeadersOfLine
PROPERTIES WritesInPlace OldestFirst HeadersLeft
