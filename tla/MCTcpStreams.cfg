\* More clients than descriptors, one connection that may wait.
CONSTANTS
  Clients = {c1, c2, c3}
  c1 = c1
  c2 = c2
  c3 = c3
  Absent = Absent
  Size <- Sizes
  BufSize = 2
  Waiting = 1
  Sock = 0
  LastFd = 2
SPECIFICATION Spec
INVARIANTS
  NeverBlocks
PROPERTIES
  ImplementsLinks
  Served
