SPECIFICATION FairSpec
CONSTANTS
  Conn = {c1}
  NoConn = NoConn
  MaxFd = 1
  Request <- TwoBlocks
  Body = Body
  MaxSend = 2
  NoClient = NoClient
  NoLength = NoLength
PROPERTIES ErrorIsDetected
