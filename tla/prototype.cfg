SPECIFICATION Spec
CONSTANTS
  Conn = {c1, c2, c3}
  NoConn = NoConn
  MaxFd = 2
  Request <- Posts
  Body = Body
  MaxSend = 2
  Slots = 1
SYMMETRY Symmetry
INVARIANTS UploadTypeOK SlotsConsistent AloneScanned
PROPERTIES AloneServed
