\* Three descriptors and three blocks for three players and two peers: the map's
\* list has a middle, lists of up to three nodes are walked, and descriptors and
\* blocks are used again.  The quota covers a turn's messages, as the 10 of main.c
\* does for nine clients.
CONSTANTS
  NULL = NULL
  MapHead = MapHead
  Addrs = {a1, a2, a3}
  MaxPlayers = 3
  XLen = 2
  Visibility = 1
  Messages <- AllMessages
  NotANumber = NotANumber
  OutOfRange = OutOfRange
  AnyInt <- Wild
  Maps <- OneMap
  Dispatch = 4
  MaxQueue = 4
  AllocMayFail = FALSE
  Sock = 0
  LastFd = 3
  Peers = {p1, p2}
  MaxPeerIds = 2
  Absent = Absent
  OffMap = OffMap
SPECIFICATION Spec
SYMMETRY Interchangeable
INVARIANTS
  TypeOK
  RegistryMatchesSockets
  ScanCoversSockets
  PeersIdentified
  NoStaleCommand
  QuotaKeepsUp
  StaysUp
  MapListSound
  BroadcastExact
