SPECIFICATION FairClientSpec
CONSTANTS
  Conn = {c1, c2}
  NoConn = NoConn
  MaxFd = 2
  Request <- Heads0To2
  Body = Body
  MaxSend = 3
  Slots = 2
  NoFile = NoFile
  MaxBlocks = 2
INVARIANTS ClientTypeOK
PROPERTIES AnsweredIsSaved PostEnds UploadLoopLeft
