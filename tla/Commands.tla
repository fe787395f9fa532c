------------------------------ MODULE Commands ------------------------------
(***************************************************************************)
(* command.c with the "json" protocol and the "basic_game" command set:    *)
(* from a message to a queued command, and the dispatcher's quota.         *)
(*                                                                         *)
(* A message is abstracted to what the code looks at: whether it is valid  *)
(* JSON, its "command", and the three numbers of a join_map.  A number is  *)
(* an integer in tenths, NotANumber when the member is missing or has      *)
(* another type, or OutOfRange when the C type cannot hold it: converting  *)
(* that double is undefined in C and yields any member of AnyInt.          *)
(***************************************************************************)
EXTENDS Integers, Sequences, CcanList

CONSTANTS
  Messages,                 \* what a client may send
  NotANumber, OutOfRange, AnyInt,
  Maps,                     \* the ids of the registered maps
  Dispatch,                 \* the argument of command_dispatch
  MaxQueue,                 \* model bound on the length of the queue
  AllocMayFail              \* whether malloc may return NULL

ASSUME CommandsAssumption ==
  /\ AnyInt \subseteq Int
  /\ Dispatch \in Nat
  /\ MaxQueue \in Nat
  /\ AllocMayFail \in BOOLEAN
  /\ \A d \in Messages :
       /\ DOMAIN d = {"json", "command", "map_id", "x", "y"}
       /\ {d.map_id, d.x, d.y} \subseteq Int \cup {NotANumber, OutOfRange}

VARIABLES
  queue,        \* command_queue
  budget        \* n in command_dispatch: how many more commands it may run

commandVars == <<queue, budget>>

CommandsInit ==
  /\ queue = << >>
  /\ budget = 0

\* A cast of a double to an integer type: truncation toward zero.
Truncate(tenths) ==
  IF tenths >= 0 THEN tenths \div 10 ELSE -((-tenths) \div 10)

\* The values the cast of a JSON number may yield; none when it is no number.
Casts(n) ==
  CASE n = NotANumber -> {}
    [] n = OutOfRange -> AnyInt
    [] OTHER          -> { Truncate(n) }

\* bgame_join_map_create: where the command may want to go.  There is none
\* (NULL) when a member is missing, the map is unknown or malloc fails.
JoinMapCreate(d) ==
  LET wanted == { [x |-> x, y |-> y] : x \in Casts(d.x), y \in Casts(d.y) }
  IN  { j \in wanted : Casts(d.map_id) \cap Maps # {} }
        \cup { j \in {NULL} : \/ wanted = {}
                              \/ ~(Casts(d.map_id) \subseteq Maps)
                              \/ Casts(d.map_id) = {}
                              \/ AllocMayFail }

\* normalize, json_check, identify, command_type_find and create.
Interpret(d) ==
  IF d.json /\ d.command = "join_map" THEN JoinMapCreate(d) ELSE {NULL}

\* list_add in place of list_add_tail: the newest command is the next.
QueueUpFirst(a, id, j) ==
  queue' = << [entity |-> a, id |-> id, x |-> j.x, y |-> j.y] >> \o queue

\* The end of command_manager_handle: the command keeps a bare pointer to the
\* entity.  "id" is not in the code: it tells which player the block then held.
QueueUp(a, id, j) ==
  queue' = Append(queue, [entity |-> a, id |-> id, x |-> j.x, y |-> j.y])

\* command_dispatch stops one command early (--n > 0).
DispatchDoneEarly == budget <= 1 \/ queue = << >>

\* command_dispatch returns.
DispatchDone == budget = 0 \/ queue = << >>

\* list_top and list_del.
TakeCommand ==
  /\ queue' = Tail(queue)
  /\ budget' = budget - 1
=============================================================================
