SPECIFICATION Spec
CONSTANTS
  Conn = {c1, c2}
  NoConn = NoConn
  MaxFd = 2
  Request <- Posts
  Body = Body
  MaxSend = 1
  Slots = 2
PROPERTIES ReadsReportedClient
