SPECIFICATION EndlessSpec
CONSTANTS
  Conn = {c1, c2, c3}
  NoConn = NoConn
  MaxFd = 2
  Request <- NoRequest
  Body = Body
  MaxSend = 1
  NoClient = NoClient
  NoLength = NoLength
PROPERTIES PendingIsRead
