-------------------------- MODULE LifecycleProofs ---------------------------
(***************************************************************************)
(* Theorems about starting and stopping, for every set of modules built    *)
(* in, every order of them and any number of descriptors.                  *)
(***************************************************************************)
EXTENDS Lifecycle, TLAPS

USE LifecycleAssumption DEF LifecycleAssumption, Listeners, Fds, NoFd

-----------------------------------------------------------------------------
(***************************************************************************)
(* Types.                                                                  *)
(***************************************************************************)
LEMMA TablesAreSequences ==
  ASSUME NEW t \in Tables
  PROVE  t \in Seq(Modules) /\ Len(t) \in Nat /\ \A k \in 1 .. Len(t) : t[k] \in Modules
<1>1. PICK n \in 0 .. Cardinality(Modules) : t \in [1 .. n -> Modules]
  BY DEF Tables
<1>2. n \in Nat
  BY <1>1
<1>3. t \in Seq(Modules)
  BY <1>1, <1>2
<1> QED
  BY <1>3

LEMMA InitTyped == Init => TypeOK
<1> SUFFICES ASSUME Init PROVE TypeOK
  OBVIOUS
<1>1. table \in Tables /\ i \in 0 .. Len(table) + 1
  BY TablesAreSequences DEF Init
<1>2. files \in [Fds -> {"free", "std", "stray", "listening", "udp", "client"}]
  BY DEF Init
<1> QED
  BY <1>1, <1>2 DEF Init, TypeOK

\* What GoOn leaves alone.
LEMMA StepTyped ==
  ASSUME TypeOK, UNCHANGED <<table, i, registered, cur, created>>,
         pc' \in {"modules", "create", "name", "mgr", "init", "getaddrinfo", "socket",
                  "socket2", "bind", "listen", "init_fail", "mgr_fail", "alloc_fail",
                  "add", "start", "start_game", "loop", "poll_game", "destroy",
                  "unload", "exited", "failed", "crashed"},
         heap' \subseteq Listeners \X Parts,
         files' \in [Fds -> {"free", "std", "stray", "listening", "udp", "client"}],
         {ssock', sock', shost'} \subseteq Fds \cup {NoFd},
         {ready', addrinfo', running', starved', deaf'} \subseteq BOOLEAN,
         misclosed' \subseteq Fds \cup {NoFd}
  PROVE  TypeOK'
BY DEF TypeOK

LEMMA OpenTyped ==
  ASSUME TypeOK, NEW fd \in Fds, NEW kind \in {"stray", "listening", "udp", "client"},
         Open(fd, kind)
  PROVE  files' \in [Fds -> {"free", "std", "stray", "listening", "udp", "client"}]
BY DEF Open, TypeOK

LEMMA CloseTyped ==
  ASSUME TypeOK, NEW fd \in Fds \cup {NoFd}, NEW kind, Close(fd, kind)
  PROVE  /\ files' \in [Fds -> {"free", "std", "stray", "listening", "udp", "client"}]
         /\ misclosed' \subseteq Fds \cup {NoFd}
BY DEF Close, TypeOK

LEMMA AllocTyped ==
  ASSUME TypeOK, NEW part \in Parts, NEW next, NEW label, Alloc(part, next, label)
  PROVE  /\ heap' \subseteq Listeners \X Parts
         /\ pc' \in {next, label}
         /\ UNCHANGED <<table, i, registered, cur, created, ready, starved, running>>
BY DEF Alloc, GoOn, TypeOK, upVars

LEMMA TypeStep == TypeOK /\ [Next]_vars => TypeOK'
<1> SUFFICES ASSUME TypeOK, [Next]_vars PROVE TypeOK'
  OBVIOUS
<1>1. CASE SubsysInit \/ TableMissing \/ NullHead \/ ModulesDone \/ ExitHandler
  BY <1>1 DEF SubsysInit, TableMissing, ReadThroughNull, NullHead, ModulesDone, ExitHandler, TypeOK,
     upVars, fdVars, moreVars
<1>2. CASE ModuleInit
  <2>1. table[i] \in Modules
    <3>1. table \in Seq(Modules) /\ i \in Nat \ {0} /\ i <= Len(table)
      BY <1>2, TablesAreSequences DEF ModuleInit, TypeOK
    <3> QED
      BY <3>1
  <2> QED
    BY <1>2, <2>1, TablesAreSequences DEF ModuleInit, TypeOK, upVars, fdVars, moreVars
<1>3. CASE Create \/ AllocName \/ AllocManager
  <2>1. {"listener", "name", "mgr"} \subseteq Parts
    BY DEF Parts
  <2>2. CASE Create
    <3>1. heap' = heap \/ heap' = heap \cup {<<cur, "listener">>}
      BY <2>2 DEF Create, Alloc
    <3>2. sock' \in Fds \cup {NoFd}
      BY <2>2 DEF Create, TypeOK
    <3>3. heap' \subseteq Listeners \X Parts
      BY <2>1, <3>1 DEF TypeOK
    <3>4. pc' \in {"name", "failed"}
      BY <2>2 DEF Create, Alloc, GoOn
    <3>5. UNCHANGED <<table, i, registered, cur, created, ready, starved, running>>
      BY <2>2 DEF Create, Alloc, GoOn, upVars
    <3> QED
      BY <2>2, <3>2, <3>3, <3>4, <3>5 DEF Create, TypeOK, moreVars
  <2>3. CASE AllocName
    BY <2>1, <2>3, AllocTyped, StepTyped DEF AllocName, TypeOK, fdVars, moreVars
  <2>4. CASE AllocManager
    BY <2>1, <2>4, AllocTyped, StepTyped DEF AllocManager, GoOn, TypeOK, upVars, fdVars,
       moreVars
  <2> QED
    BY <1>3, <2>2, <2>3, <2>4
<1>4. CASE GetAddrInfo \/ Listen \/ InitFail \/ MgrFail \/ AllocFail \/ PollGame
  BY <1>4 DEF GetAddrInfo, Listen, InitFail, MgrFail, AllocFail, PollGame, GoOn, TypeOK,
     upVars, fdVars, moreVars
<1>5. CASE FirstSocket \/ SecondSocket \/ StartGame
  BY <1>5, OpenTyped, StepTyped DEF FirstSocket, SecondSocket, StartGame, GoOn, TypeOK,
     upVars, moreVars
<1>6. CASE CloseStale \/ Bind \/ StartLogin
  BY <1>6, CloseTyped, StepTyped DEF CloseStale, Bind, StartLogin, GoOn, TypeOK,
     upVars, moreVars
<1>7. CASE AddListener
  BY <1>7 DEF AddListener, TypeOK, upVars, fdVars, moreVars
<1>8. CASE PollLogin
  BY <1>8, OpenTyped, CloseTyped, StepTyped DEF PollLogin, ServeLogin, GoOn, TypeOK,
     upVars, moreVars
<1>9. CASE LoopExit \/ DestroyLogin \/ DestroyGame
  <2>1. Len(table) \in 0 .. Len(table) + 1
    BY TablesAreSequences DEF TypeOK
  <2>2. CASE LoopExit
    BY <2>2 DEF LoopExit, TypeOK, upVars, fdVars, moreVars
  <2>3. CASE DestroyLogin
    BY <2>3, CloseTyped DEF DestroyLogin, TypeOK, upVars
  <2>4. CASE DestroyGame
    BY <2>1, <2>4, CloseTyped DEF DestroyGame, TypeOK, upVars
  <2> QED
    BY <1>9, <2>2, <2>3, <2>4
<1>10. CASE ModuleExit \/ Exit
  <2>1. CASE ModuleExit
    BY <2>1, TablesAreSequences DEF ModuleExit, TypeOK, upVars, fdVars, moreVars
  <2>2. CASE Exit
    BY <2>2 DEF Exit, TypeOK, upVars, fdVars, moreVars
  <2> QED
    BY <1>10, <2>1, <2>2
<1>11. CASE UNCHANGED vars
  BY <1>11 DEF vars, TypeOK
<1> QED
  BY <1>1, <1>2, <1>3, <1>4, <1>5, <1>6, <1>7, <1>8, <1>9, <1>10, <1>11
     DEF Next, ProcessStep, ComingUp, Up, GoingDown, Done

\* Every variable keeps its type, whatever modules are built in.
THEOREM Typed == Spec => []TypeOK
<1> QED
  BY InitTyped, TypeStep, PTL DEF Spec

-----------------------------------------------------------------------------
(***************************************************************************)
(* The blocks of listeners: which are live is a matter of where the        *)
(* process stands, on the way out through the labels as on the way in.     *)
(***************************************************************************)
InTcpInit == pc \in {"init", "getaddrinfo", "socket", "socket2", "bind", "listen",
                     "init_fail"}

PartsNow ==
  IF pc \in {"name", "alloc_fail"} THEN {"listener"}
  ELSE IF pc \in {"mgr", "mgr_fail"} THEN {"listener", "name"}
  ELSE IF InTcpInit \/ pc = "add" THEN {"listener", "name", "mgr"}
  ELSE {}

CreatedNow ==
  IF Serving \/ (pc = "destroy" /\ cur = Login) THEN {Login, Game}
  ELSE IF pc = "destroy" THEN {Game}
  ELSE IF pc \in {"unload", "exited"} \/ cur = Login THEN {}
  ELSE {Login}

HeapInv ==
  /\ pc \in {"subsys", "modules"} \/ InTcpInit => cur = Login
  /\ pc # "crashed" =>
       /\ created = CreatedNow
       /\ \A l \in Listeners, part \in Parts :
            <<l, part>> \in heap <=> l \in created \/ (l = cur /\ part \in PartsNow)

LEMMA HeapStep == TypeOK /\ HeapInv /\ [Next]_vars => HeapInv'
<1> SUFFICES ASSUME TypeOK, HeapInv, [Next]_vars PROVE HeapInv'
  OBVIOUS
<1> USE DEF HeapInv, CreatedNow, PartsNow, InTcpInit, Serving, Parts
<1>1. CASE SubsysInit \/ TableMissing \/ NullHead \/ ModulesDone \/ ExitHandler \/ ModuleInit
  BY <1>1 DEF SubsysInit, TableMissing, ReadThroughNull, NullHead, ModulesDone, ExitHandler, ModuleInit
<1>2. CASE Create
  BY <1>2 DEF Create, Alloc, GoOn, TypeOK
<1>3. CASE AllocName
  BY <1>3 DEF AllocName, Alloc, GoOn, TypeOK
<1>4. CASE AllocManager
  BY <1>4 DEF AllocManager, Alloc, GoOn, TypeOK
<1>5. CASE CloseStale \/ GetAddrInfo \/ FirstSocket \/ SecondSocket \/ Bind \/ Listen
  BY <1>5 DEF CloseStale, GetAddrInfo, FirstSocket, SecondSocket, Bind, Listen, GoOn
<1>6. CASE InitFail \/ MgrFail \/ AllocFail
  BY <1>6 DEF InitFail, MgrFail, AllocFail, GoOn, TypeOK
<1>7. CASE AddListener
  BY <1>7 DEF AddListener, TypeOK
<1>8. CASE StartLogin \/ StartGame \/ PollLogin \/ PollGame \/ LoopExit
  BY <1>8 DEF StartLogin, StartGame, PollLogin, ServeLogin, PollGame, LoopExit, GoOn
<1>9. CASE DestroyLogin
  BY <1>9 DEF DestroyLogin
<1>10. CASE DestroyGame
  BY <1>10 DEF DestroyGame
<1>11. CASE ModuleExit \/ Exit \/ UNCHANGED vars
  BY <1>11 DEF ModuleExit, Exit, vars
<1> QED
  BY <1>1, <1>2, <1>3, <1>4, <1>5, <1>6, <1>7, <1>8, <1>9, <1>10, <1>11
     DEF Next, ProcessStep, ComingUp, Up, GoingDown, Done

LEMMA InitHeap == Init => HeapInv
BY DEF Init, HeapInv, CreatedNow, PartsNow, InTcpInit, Serving

\* No failure path of net_listener_create leaves a part of a listener behind,
\* and destroying leaves nothing.
THEOREM WholeKept == Spec => []WholeListenersOnly
<1>1. TypeOK /\ HeapInv => WholeListenersOnly
  <2> SUFFICES ASSUME TypeOK, HeapInv, Serving \/ pc \in {"failed", "unload", "exited"}
               PROVE  heap = created \X Parts
    BY DEF WholeListenersOnly
  <2>1. \A l \in Listeners, part \in Parts : <<l, part>> \in heap <=> l \in created
    BY DEF HeapInv, PartsNow, InTcpInit, Serving
  <2> QED
    BY <2>1 DEF TypeOK
<1> QED
  BY <1>1, InitTyped, InitHeap, TypeStep, HeapStep, PTL DEF Spec

-----------------------------------------------------------------------------
(***************************************************************************)
(* What a listener uses is registered: checked when it is created, and     *)
(* modules are unloaded when no listener is left.                          *)
(***************************************************************************)
UseInv ==
  /\ pc \in {"name", "mgr"} => Type[cur] \in registered
  /\ PartsInUseRegistered

LEMMA UseStep == TypeOK /\ HeapInv /\ UseInv /\ [Next]_vars => UseInv'
<1> SUFFICES ASSUME TypeOK, HeapInv, UseInv, [Next]_vars PROVE UseInv'
  OBVIOUS
<1> USE DEF UseInv, PartsInUseRegistered
<1>1. CASE SubsysInit \/ TableMissing \/ NullHead \/ ModulesDone \/ ExitHandler \/ ModuleInit
  BY <1>1 DEF SubsysInit, TableMissing, ReadThroughNull, NullHead, ModulesDone, ExitHandler, ModuleInit
<1>2. CASE Create \/ AllocName
  BY <1>2 DEF Create, AllocName, Alloc, GoOn
<1>3. CASE AllocManager
  BY <1>3 DEF AllocManager, Alloc, GoOn, Uses
<1>4. CASE CloseStale \/ GetAddrInfo \/ FirstSocket \/ SecondSocket \/ Bind \/ Listen
  BY <1>4 DEF CloseStale, GetAddrInfo, FirstSocket, SecondSocket, Bind, Listen, GoOn
<1>5. CASE InitFail \/ MgrFail \/ AllocFail \/ AddListener
  BY <1>5 DEF InitFail, MgrFail, AllocFail, AddListener, GoOn
<1>6. CASE StartLogin \/ StartGame \/ PollLogin \/ PollGame \/ LoopExit
  BY <1>6 DEF StartLogin, StartGame, PollLogin, ServeLogin, PollGame, LoopExit, GoOn
<1>7. CASE DestroyLogin \/ DestroyGame
  BY <1>7 DEF DestroyLogin, DestroyGame
<1>8. CASE ModuleExit
  BY <1>8 DEF ModuleExit, HeapInv, CreatedNow, PartsNow, InTcpInit, Serving, Parts
<1>9. CASE Exit \/ UNCHANGED vars
  BY <1>9 DEF Exit, vars
<1> QED
  BY <1>1, <1>2, <1>3, <1>4, <1>5, <1>6, <1>7, <1>8, <1>9
     DEF Next, ProcessStep, ComingUp, Up, GoingDown, Done

\* No listener outlives its type, its command set or its protocol.
THEOREM UsesKept == Spec => []PartsInUseRegistered
<1>1. Init => UseInv
  BY DEF Init, UseInv, PartsInUseRegistered
<1>2. UseInv => PartsInUseRegistered
  BY DEF UseInv
<1> QED
  BY <1>1, <1>2, InitTyped, InitHeap, TypeStep, HeapStep, UseStep, PTL DEF Spec

-----------------------------------------------------------------------------
(***************************************************************************)
(* Descriptors.                                                            *)
(***************************************************************************)
IsOpenAs(fd, kind) == fd \in Fds /\ files[fd] = kind

\* The other points at which there is no ENet host yet.
BeforeHost == {"subsys", "modules", "create", "name", "mgr", "add", "start", "start_game"}

FdInv ==
  ~deaf =>
    /\ misclosed \subseteq {0}
    /\ pc \in {"name", "mgr", "init"} /\ cur = Login => sock = 0
    /\ pc \in {"bind", "listen"} => IsOpenAs(ssock, "listening")
    /\ (pc = "add" /\ cur = Login) \/ Login \in created => IsOpenAs(sock, "listening")
    /\ shost # NoFd => /\ IsOpenAs(shost, "udp")
                       /\ ~InTcpInit /\ pc \notin BeforeHost

LEMMA FdStep == TypeOK /\ HeapInv /\ FdInv /\ [Next]_vars => FdInv'
<1> SUFFICES ASSUME TypeOK, HeapInv, FdInv, [Next]_vars, ~deaf' PROVE FdInv'
  BY DEF FdInv
<1> USE DEF FdInv, IsOpenAs, fdVars, moreVars, InTcpInit, BeforeHost
<1>1. CASE SubsysInit \/ TableMissing \/ NullHead \/ ModulesDone \/ ExitHandler \/ ModuleInit
  BY <1>1 DEF SubsysInit, TableMissing, ReadThroughNull, NullHead, ModulesDone, ExitHandler, ModuleInit
<1>2. CASE Create
  BY <1>2 DEF Create, Alloc, GoOn, HeapInv, CreatedNow, Serving
<1>3. CASE AllocName \/ AllocManager
  BY <1>3 DEF AllocName, AllocManager, Alloc, GoOn
<1>4. CASE CloseStale
  BY <1>4 DEF CloseStale, Close, GoOn, HeapInv, InTcpInit, CreatedNow, Serving, TypeOK
<1>5. CASE GetAddrInfo \/ Listen
  BY <1>5 DEF GetAddrInfo, Listen, GoOn, HeapInv, InTcpInit, CreatedNow, Serving
<1>6. CASE FirstSocket \/ SecondSocket
  BY <1>6, ZenonT(60) DEF FirstSocket, SecondSocket, Open, IsFree, GoOn, TypeOK
<1>7. CASE Bind
  BY <1>7 DEF Bind, Close, GoOn, HeapInv, InTcpInit, CreatedNow, Serving, TypeOK
<1>8. CASE InitFail \/ MgrFail \/ AllocFail \/ AddListener
  BY <1>8 DEF InitFail, MgrFail, AllocFail, AddListener, GoOn, TypeOK
<1>9. CASE StartLogin \/ PollGame \/ LoopExit
  BY <1>9 DEF StartLogin, PollGame, LoopExit, GoOn
<1>10. CASE StartGame
  BY <1>10 DEF StartGame, Open, IsFree, GoOn, TypeOK
<1>11. CASE PollLogin
  BY <1>11 DEF PollLogin, ServeLogin, Open, Close, IsFree, GoOn, TypeOK
<1>12. CASE DestroyLogin
  BY <1>12 DEF DestroyLogin, Close, HeapInv, CreatedNow, Serving, TypeOK
<1>13. CASE DestroyGame
  BY <1>13 DEF DestroyGame, Close, HeapInv, CreatedNow, Serving, TypeOK
<1>14. CASE ModuleExit \/ Exit \/ UNCHANGED vars
  BY <1>14 DEF ModuleExit, Exit, vars
<1> QED
  BY <1>1, <1>2, <1>3, <1>4, <1>5, <1>6, <1>7, <1>8, <1>9, <1>10, <1>11, <1>12, <1>13, <1>14
     DEF Next, ProcessStep, ComingUp, Up, GoingDown, Done

\* The login socket stays the listener's own while clients and ENet open and
\* close descriptors around it, and nothing else is closed by mistake.
THEOREM DescriptorsKept == Spec => []DescriptorsOwned
<1>1. Init => FdInv
  BY DEF Init, FdInv, IsOpenAs, InTcpInit
<1>2. HeapInv /\ FdInv => DescriptorsOwned
  BY DEF HeapInv, CreatedNow, Serving, FdInv, IsOpenAs, DescriptorsOwned
<1> QED
  BY <1>1, <1>2, InitTyped, InitHeap, TypeStep, HeapStep, FdStep, PTL DEF Spec

-----------------------------------------------------------------------------
(***************************************************************************)
(* How the process may crash.                                              *)
(***************************************************************************)

\* The list heads are initialised before the first module is.
CrashInv ==
  /\ pc # "subsys" => ready \/ starved
  /\ CrashesExplained

LEMMA CrashStep == TypeOK /\ HeapInv /\ CrashInv /\ [Next]_vars => CrashInv'
<1> SUFFICES ASSUME TypeOK, HeapInv, CrashInv, [Next]_vars PROVE CrashInv'
  OBVIOUS
<1> USE DEF CrashInv, CrashesExplained, upVars, fdVars, moreVars
<1>1. CASE SubsysInit \/ TableMissing \/ NullHead \/ ModulesDone \/ ExitHandler \/ ModuleInit
  BY <1>1 DEF SubsysInit, TableMissing, NullHead, ModulesDone, ExitHandler, ModuleInit
<1>2. CASE Create \/ AllocName \/ AllocManager
  BY <1>2 DEF Create, AllocName, AllocManager, Alloc, GoOn
<1>3. CASE CloseStale \/ GetAddrInfo \/ FirstSocket \/ SecondSocket \/ Bind \/ Listen
  BY <1>3 DEF CloseStale, GetAddrInfo, FirstSocket, SecondSocket, Bind, Listen, GoOn
<1>4. CASE InitFail \/ MgrFail \/ AllocFail \/ AddListener
  BY <1>4 DEF InitFail, MgrFail, AllocFail, AddListener, GoOn
<1>5. CASE StartLogin \/ StartGame \/ PollLogin \/ LoopExit
  BY <1>5 DEF StartLogin, StartGame, PollLogin, ServeLogin, LoopExit, GoOn
<1>6. CASE PollGame
  BY <1>6 DEF PollGame, GoOn, HeapInv, CreatedNow, Serving
<1>7. CASE DestroyLogin \/ DestroyGame \/ ModuleExit \/ Exit
  BY <1>7 DEF DestroyLogin, DestroyGame, ModuleExit, Exit
<1>8. CASE UNCHANGED vars
  BY <1>8 DEF vars
<1> QED
  BY <1>1, <1>2, <1>3, <1>4, <1>5, <1>6, <1>7, <1>8
     DEF Next, ProcessStep, ComingUp, Up, GoingDown, Done

\* A start, a loop or a shutdown in which any of the calls fails crashes only
\* for want of the ENet host that main does not check, or of a table.
THEOREM CrashesKnown == Spec => []CrashesExplained
<1>1. Init => CrashInv
  BY DEF Init, CrashInv, CrashesExplained
<1>2. CrashInv => CrashesExplained
  BY DEF CrashInv
<1> QED
  BY <1>1, <1>2, InitTyped, InitHeap, TypeStep, HeapStep, CrashStep, PTL DEF Spec

-----------------------------------------------------------------------------
(***************************************************************************)
(* The registries on the way up and on the way down: the modules before    *)
(* the loop variable, then all of them, then again those before it.        *)
(***************************************************************************)
UpToModule(n) == { table[k] : k \in 1 .. n }

RegInv ==
  ~starved =>
    /\ pc = "subsys" => i = 1 /\ registered = {}
    /\ pc = "modules" => i >= 1 /\ registered = UpToModule(i - 1)
    /\ pc \notin {"subsys", "modules", "unload", "exited", "crashed"}
         => registered = UpToModule(Len(table))
    /\ pc = "destroy" => Protocol[Login] \in registered
    /\ pc = "unload" => registered = UpToModule(i) \cup {Protocol[Login]}
                        /\ i <= Len(table)
    /\ RegistriesEmptied

\* A module stands in the table once.
LEMMA TableDistinct ==
  ASSUME TypeOK
  PROVE  /\ Len(table) \in Nat /\ i \in Int
         /\ \A k, m \in 1 .. Len(table) : table[k] = table[m] => k = m
<1>1. PICK n \in 0 .. Cardinality(Modules) :
        /\ table \in [1 .. n -> Modules]
        /\ \A k, m \in 1 .. n : table[k] = table[m] => k = m
  BY DEF TypeOK, Tables
<1>2. n \in Nat /\ Len(table) = n
  BY <1>1
<1> QED
  BY <1>1, <1>2 DEF TypeOK

LEMMA RegStep == TypeOK /\ HeapInv /\ UseInv /\ RegInv /\ [Next]_vars => RegInv'
<1> SUFFICES ASSUME TypeOK, HeapInv, UseInv, RegInv, [Next]_vars, ~starved' PROVE RegInv'
  BY DEF RegInv
<1> USE TableDistinct DEF RegInv, RegistriesEmptied, upVars
\* Steps that leave the registries and the table alone and stay between the
\* last ModuleInit and the first ModuleExit.
<1>1. ASSUME UNCHANGED <<table, starved, registered>>,
             pc \notin {"subsys", "modules", "unload", "exited", "crashed"},
             pc' \notin {"subsys", "modules", "unload", "exited", "destroy"}
      PROVE  RegInv'
  BY <1>1 DEF UpToModule
<1>2. CASE SubsysInit
  BY <1>2 DEF SubsysInit, UpToModule
<1>3. CASE TableMissing
  BY <1>3 DEF TableMissing
<1>4. CASE ModuleInit
  <2>1. i \in 1 .. Len(table) /\ registered' = UpToModule(i - 1) \cup {table[i]} /\ i' = i + 1
        /\ pc' = "modules" /\ table' = table
    BY <1>4 DEF ModuleInit
  <2>2. UpToModule(i - 1) \cup {table[i]} = UpToModule(i)
    BY <2>1 DEF UpToModule
  <2>3. UpToModule(i)' = UpToModule(i + 1)
    BY <2>1 DEF UpToModule
  <2>4. UpToModule(i - 1)' = UpToModule(i)
    BY <2>1 DEF UpToModule
  <2> QED
    BY <2>1, <2>2, <2>4
<1>5. CASE NullHead
  BY <1>5 DEF NullHead
<1>6. CASE ModulesDone
  <2>1. i = Len(table) + 1
    BY <1>6 DEF ModulesDone, TypeOK
  <2> QED
    BY <1>6, <2>1 DEF ModulesDone, UpToModule
<1>7. CASE Create \/ AllocName \/ AllocManager
  BY <1>1, <1>7 DEF Create, AllocName, AllocManager, Alloc, GoOn
<1>8. CASE CloseStale \/ GetAddrInfo \/ FirstSocket \/ SecondSocket \/ Bind \/ Listen
  BY <1>1, <1>8 DEF CloseStale, GetAddrInfo, FirstSocket, SecondSocket, Bind, Listen, GoOn
<1>9. CASE InitFail \/ MgrFail \/ AllocFail \/ AddListener
  BY <1>1, <1>9 DEF InitFail, MgrFail, AllocFail, AddListener, GoOn
<1>10. CASE StartLogin \/ StartGame \/ PollLogin \/ PollGame
  BY <1>1, <1>10 DEF StartLogin, StartGame, PollLogin, ServeLogin, PollGame, GoOn
<1>11. CASE LoopExit
  <2>1. <<Login, "mgr">> \in heap
    BY <1>11 DEF LoopExit, HeapInv, CreatedNow, Serving, Parts
  <2>2. Protocol[Login] \in registered
    BY <2>1 DEF UseInv, PartsInUseRegistered, Uses
  <2> QED
    BY <1>11, <2>2 DEF LoopExit, UpToModule
<1>12. CASE DestroyLogin
  BY <1>12 DEF DestroyLogin, UpToModule
<1>13. CASE DestroyGame
  <2>1. /\ registered = UpToModule(Len(table)) /\ Protocol[Login] \in registered
        /\ pc' = "unload" /\ i' = Len(table) /\ UNCHANGED <<table, registered>>
    BY <1>13 DEF DestroyGame
  <2>2. UpToModule(i)' = UpToModule(Len(table))
    BY <2>1 DEF UpToModule
  <2> QED
    BY <2>1, <2>2
<1>14. CASE ModuleExit
  <2>1. /\ registered = UpToModule(i) \cup {Protocol[Login]} /\ i \in 1 .. Len(table)
        /\ registered' = registered \ ({table[i]} \ {Protocol[Login]})
        /\ i' = i - 1 /\ pc' = "unload" /\ table' = table
    BY <1>14 DEF ModuleExit
  <2>2. UpToModule(i - 1) \ {table[i]} = UpToModule(i - 1)
    BY <2>1 DEF UpToModule
  <2>3. UpToModule(i) = UpToModule(i - 1) \cup {table[i]}
    BY <2>1 DEF UpToModule
  <2>4. UpToModule(i)' = UpToModule(i - 1)
    BY <2>1 DEF UpToModule
  <2> QED
    BY <2>1, <2>2, <2>3, <2>4
<1>15. CASE Exit
  BY <1>15 DEF Exit, UpToModule
<1>16. CASE UNCHANGED vars \/ ExitHandler
  BY <1>16 DEF vars, ExitHandler, UpToModule
<1> QED
  BY <1>2, <1>3, <1>4, <1>5, <1>6, <1>7, <1>8, <1>9, <1>10, <1>11, <1>12, <1>13, <1>14,
     <1>15, <1>16
     DEF Next, ProcessStep, ComingUp, Up, GoingDown, Done

\* Whatever modules are built in and however they are ordered, a process that
\* had its tables and exits has unregistered every item again: only the
\* protocol is left.
THEOREM RegistriesEmpty == Spec => []RegistriesEmptied
<1>1. Init => UseInv /\ RegInv
  BY DEF Init, UseInv, PartsInUseRegistered, RegInv, RegistriesEmptied
<1>2. RegInv => RegistriesEmptied
  BY DEF RegInv, RegistriesEmptied
<1> QED
  BY <1>1, <1>2, InitTyped, InitHeap, TypeStep, HeapStep, UseStep, RegStep, PTL DEF Spec
=============================================================================
