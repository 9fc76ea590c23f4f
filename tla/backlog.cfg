SPECIFICATION EndlessSpec
CONSTANTS
  Conn = {c1, c2}
  NoConn = NoConn
  MaxFd = 1
  Request <- Heads
  Body = Body
  MaxSend = 2
  NoClient = NoClient
  NoLength = NoLength
INVARIANTS UploadNotRefused
PROPERTIES BacklogIsAccepted PendingIsRead
