SPECIFICATION FairSpec
CONSTANTS
  Path <- Paths
  Node <- Nodes
  NoNode = "none"
  Attr <- Attrs
  Layout <- Layouts
  Request <- Requests
  TooLong <- Long
  MaxSize = 2
  MaxChanges = 3
INVARIANTS TypeOK  OneFile
PROPERTIES EveryCallAnswered
