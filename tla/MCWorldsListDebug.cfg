\* A player joins the map and leaves; its block is used again.
CONSTANTS
  NULL = NULL
  MapHead = MapHead
  Addrs = {a1, a2}
  MaxPlayers = 3
  XLen = 2
  Visibility = 1
  Messages <- OnePlace
  NotANumber = NotANumber
  OutOfRange = OutOfRange
  AnyInt <- Wild
  Maps <- OneMap
  Dispatch = 3
  MaxQueue = 3
  AllocMayFail = FALSE
  Sock = 0
  LastFd = 2
  Peers = {}
  MaxPeerIds = 2
  Absent = Absent
  OffMap = OffMap
SPECIFICATION Spec
INVARIANTS
  ListDebugPasses
