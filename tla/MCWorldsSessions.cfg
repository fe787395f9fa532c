\* Two descriptors and one peer that may come back send three messages a turn, and
\* the quota is one: the queue fills up and turns begin with a backlog.  Any malloc
\* may fail.  Two places to ask for, two players in two blocks: what clients see,
\* and what the process does for ever.
CONSTANTS
  NULL = NULL
  MapHead = MapHead
  Addrs = {a1, a2}
  MaxPlayers = 2
  XLen = 1
  Visibility = 1
  Messages <- TwoPlaces
  NotANumber = NotANumber
  OutOfRange = OutOfRange
  AnyInt <- Wild
  Maps <- OneMap
  Dispatch = 1
  MaxQueue = 3
  AllocMayFail = TRUE
  Sock = 0
  LastFd = 2
  Peers = {p1}
  MaxPeerIds = 2
  Absent = Absent
  OffMap = OffMap
SPECIFICATION Spec
PROPERTIES
  ImplementsSessions
  MainLoopTurns
  ShutdownCompletes
  RequestsAnswered
