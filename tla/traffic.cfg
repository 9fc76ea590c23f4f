SPECIFICATION Spec
CONSTANTS
  Conn = {c1, c2, c3}
  NoConn = NoConn
  MaxFd = 2
  Request <- OneBlock
  Body = Body
  MaxSend = 2
  NoClient = NoClient
  NoLength = NoLength
SYMMETRY Symmetry
INVARIANTS TypeOK TableConsistent WatchedBelowMaxfd QueueIsOwn NoUnsolicitedReply
PROPERTIES ImplementsService
