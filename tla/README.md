# Verification of the Worlds server

Worlds is a small single-threaded game server in C (`src/lib`).  This directory
holds TLA+ models of it, TLC configurations that check them on small instances,
and theorems checked by TLAPS for instances of every size.

    tlc -config MCWorldsCore.cfg MCWorlds      # one of the runs listed below
    tlapm WorldsProofs.tla                     # the proofs

Paths below are relative to `src/lib`.

## 1. The system

| part | source | state it keeps | operations |
|---|---|---|---|
| ccan list | `include/ccan/list.h`, `ccan/list.c` | `next`/`prev` of intrusive nodes and heads | `list_add`, `list_add_tail`, `list_del`, `list_top`, `list_for_each`, `list_check` |
| entities, players | `entity.c`, `player.c` | the blocks, the lists `entities` and `players`, `next_id` | create, register, unregister, destroy, search by client id |
| virtual maps | `vmap/vmap.c`, `vmap/tilemap/tilemap.c` | the registered maps, each map's list of entities | add and remove an entity, make a broadcast list |
| commands | `command/command.c`, `command/sets/basic_game.c`, `command/protocols/json_proto.c` | `command_queue`; registered sets, types and protocols | interpret a message, queue a command, dispatch up to *n*, run `join_map` |
| tcp listener | `net/tcp/tcp_server.c` | the listening socket, the `fd_set` of clients, `fdmin`, `fdmax` | init, start, poll, exit |
| enet listener | `net/enet/enet_server.c` | the list of (peer, client id), `next_client_id` | init, start, poll, exit |
| net dispatch | `net/net.c` | registered listener types, created listeners | create, start, poll, destroy; the callback for a client's message |
| main loop | `main.c` | `running`, the two listeners | start-up, the loop, SIGINT, shutdown, connect/disconnect callbacks |
| modules | `include/worlds/module.h`, `ccan/autodata.c` | tables of modules and subsystems, found by a search of the process's own memory | make a table; init in order, exit in reverse |
| ptr_valid | `ccan/ptr_valid.c` | a batch's page cache, the pipes to a probing child | may this address be read or written? |
| json | `ccan/json.c` | trees of nodes; the growing buffer it prints into | parse, edit, check, print; strings and numbers; UTF-8 and UTF-16 |

How they meet.  `main` polls the `login` listener (TCP), then the `game`
listener (ENet), then runs up to ten queued commands, for ever.  A listener
calls back into `main.c` when a client connects or disconnects, and into
`net.c` when it sends: that looks the client id up in `entities`, decodes the
message and appends a command, which holds a *bare pointer* to the entity.  The
dispatcher later hands the command to `join_map`, which links the entity into
the map's list and walks that list to make a broadcast.  A disconnect frees the
entity's block.  Nothing counts references, so the design rests on an order of
events: a client's commands must have run, and the entity must have left the
map, before its block is freed.  The first holds most of the time and for a
subtle reason (section 4); the second is not done by anyone.

Under that lie two libraries that the server uses in ways of its own.  A
message is a tree of `json.c` nodes, taken apart while it is looked at: the
protocol, the command set and the dispatcher each delete members or the whole.
Start-up asks `ptr_valid` which pages around its own data may be read, and
searches them for the records that `MODULE_REGISTER` left.

What is hard here: pointers that outlive what they point to, across any
sequence of connects, messages and hang-ups; descriptors and blocks that the
kernel and `malloc` hand out again at once; a fixed dispatch quota against an
open number of clients; malloc failures half-way through an operation; byte
streams that `recv` cuts anywhere; texts that break off anywhere; SIGINT at any
moment.  There are no threads and nothing is persisted, so there are no data
races and there is no recovery.  `PROJECT.json` lists each hazard at its line.

What makes each part correct:

- *ccan list*: each list is a sequence, and no operation disturbs another list.
- *entities, players*: the registries and the open sockets are always the same
  population.
- *virtual maps*: the map's list holds the entities whose `vmap` is set; a
  broadcast goes to the others within sight.
- *commands*: a queued command's entity is alive and is the one that sent it;
  commands are run in the order they came, however many wait.
- *listeners*: every open descriptor is served, every peer has its own id; what
  a client sends arrives in order and at most once, under its own id.
- *main loop*: it turns for ever, and ends after SIGINT.
- *modules, registries, life cycle of listeners*: what init registers exit
  unregisters, a failure undoes what was done, a listener owns its socket and
  outlives nothing it points to; a table holds exactly the registered modules.
- *ptr_valid*: maps, child and cache all give the answer the kernel would give.
- *json*: the nodes are an ordered forest, none is lost or freed twice; what is
  printed parses to the same tree, but for what `%.16g` rounds, and nothing is
  written past the buffer.

## 2. Modules

    AbstractLists <~~ LinkedLists -> CcanList          (~~ : is implemented by)
                                        ^
             Entities <- Tilemap -------+------ Commands, EnetServer, TcpServer
                            ^                        ^             ^
                            +-------- Worlds --------+             |
                                        ^                          |
         PlayerSessions <~~ PlayerSessionsRefinement               |
                                                                   |
                                      LossyLinks <~~ TcpStreams ---+

    JsonNodes <- JsonTree <- JsonText <- JsonCallers ~~> AbstractForests
    Utf8 <- JsonLexemes           PtrValid <- AutodataScan           Lifecycle

| module | models |
|---|---|
| `CcanList` | the list operations as functions on a memory of `next` and `prev` pointers, stores in the order of the C code; `list_for_each` as the places its loop variable takes, so that a loop that never ends and one that meets NULL can be told apart |
| `AbstractLists` | what lists promise: disjoint sequences |
| `LinkedLists` | several lists over one set of nodes, used by callers that keep the header's contract; implements `AbstractLists` |
| `Entities` | blocks, both registries, `malloc` and `free` of players |
| `Tilemap` | the map: its list pointer by pointer, the bounds test, the distance test, the broadcast list |
| `Commands` | messages, the conversion of their numbers, the queue and the quota |
| `TcpServer` | the descriptors, `fdmin`/`fdmax`, one pass of the scan |
| `TcpStreams` | `tcp_listener_poll` against the kernel: connections that wait, streams, hang-ups, descriptors used again |
| `LossyLinks` | what the `login` listener promises a client; implemented by `TcpStreams` |
| `EnetServer` | the table of peers |
| `Worlds` | the process: main loop, callbacks, join handler, crashes; all its properties |
| `PlayerSessions`, `PlayerSessionsRefinement` | a client's view of a session, and the mapping under which the server implements it |
| `Lifecycle` | `main` around its loop: `__modules_init` and `__modules_exit`, the registries, `net_listener_create`, `start` and `destroy` with every failure label, down to each descriptor |
| `PtrValid` | a batch of `ptr_valid`: its page cache, the maps, the probing child and its pipes |
| `AutodataScan` | `autodata_make_table`: the search of memory for a table, one question to `PtrValid` at a time |
| `JsonNodes` | the nodes of `json.c` in a pool of blocks: making, linking, unlinking, freeing |
| `JsonTree` | what walks a tree: deleting, finding, `json_check`, and the value a tree stands for |
| `JsonText` | the grammar over tokens: `json_decode`, `json_validate`, plain and indented printing |
| `JsonCallers` | who uses them: any caller within the contract, and the server with a client's message; implements `AbstractForests` |
| `AbstractForests` | what the tree functions promise: an ordered forest |
| `Utf8` | UTF-8 and surrogate pairs as functions, and what Unicode says of them |
| `JsonLexemes` | `emit_string`, `parse_string`, `parse_number` byte by byte, with the growing buffer they write to |
| `MC...` | small instances for TLC |
| `Iteration` | lemmas: a set of naturals has a least element, induction up to a bound, functions that iterate a step |
| `CcanListProofs` | lemmas: walks in a memory of pointers, and what each list operation does to the walks |
| `LinkedListsProofs`, `WorldsProofs`, `LifecycleProofs`, `TcpStreamsProofs`, `AutodataScanProofs`, `JsonProofs` | the theorems; those of `PtrValid` stand in `AutodataScanProofs`, its client |

`Lifecycle` and `Worlds` meet at the loop.  `Worlds` begins where everything was
created and started, which `Lifecycle` shows to be a state with two whole
listeners and a login socket of its own (`WholeListenersOnly`,
`DescriptorsOwned`); `Lifecycle` leaves of the loop only that it opens and
closes client descriptors.

### State

| TLA+ | code |
|---|---|
| `ent[a]`, `allocated` | the `struct s_entity` in the block at address `a`; whether `malloc` has handed the block out |
| `entities`, `players` | the two global lists, as sets: the code only adds, deletes and searches by client id, and `LinkedLists` shows that list operations amount to that |
| `links` | `next`/`prev` of `tmap->entities` and of every `map_list` |
| `bcast` | the list `command_join_map_handle` prints, until the next turn |
| `queue`, `budget` | `command_queue`; the commands `command_dispatch` may still run |
| `master`, `fdmin`, `fdmax`, `readFds`, `at` | the fields of `struct tcp_listener` and the locals of `tcp_listener_poll` |
| `linked`, `clients`, `nextClientId` | ENet's connected peers; the listener's table and counter |
| `pc`, `running` | the place in the main loop, and the global |

Three things in the state are not in the code.  A queue record's `id` remembers
which player the block held when the command was queued.  `carried` remembers
that the turn began with commands queued.  `strayOnMap` remembers that the
map's list has held a freed block.  No action's guard reads them.

### Steps

The process has one thread, so the only interleaving is with the kernel,
clients, ENet and the signal handler.  A step is one round of a loop in the
code: one poll of a listener up to its scan, one descriptor of the scan, one
command of the dispatcher.  Each includes the whole handler it calls.

| action | code |
|---|---|
| `AcceptClient`, `AcceptWithoutMemory` | `tcp_listener_poll`, the accept branch, with `g_connect` |
| `PollNothing` | the early returns of `tcp_listener_poll` |
| `SelectClients`, `ScanData`, `ScanHangup`, `ScanSkip`, `ScanEnd` | its scan, with `net_listener_generic_client_sent` and `g_disconnect` |
| `GameNothing`, `GameConnect`, `GameDisconnect`, `GameReceive` | `enet_listener_poll` |
| `GameReceiveOverrun` | the same, with a packet that `json_validate` cannot take to its end |
| `ScanDataWithoutMemory`, `GameReceiveWithoutMemory` | `out_of_memory()` in `json.c`, which exits the process |
| `JoinIgnored`, `Join`, `JoinHangs`, `DispatchReturn` | one round of `command_dispatch` with `command_join_map_handle` |
| `DispatchCrashes` | the same round when it touches memory it must not |
| `ExitHandler`, `LoopExit` | SIGINT, and the end of `main` |

In `Lifecycle` a step is one call of `net_listener_create`,
`tcp_listener_init` or `main` that may fail, or one round of the two loops over
modules; `pc` holds the place or the `goto` label (`init_fail`, `mgr_fail`,
`alloc_fail`).  `files` says what each descriptor refers to, and `misclosed`
remembers a `close` by code that did not own the descriptor.  In `PtrValid` a
question is one step of the parent up to the blocking `read`, and the child
touches its range in between.  `AutodataScan` adds the steps of the search
between the questions: widening the range page by page, `memchr`, copying a
record, testing its name character by character, entering it in the table.  An
address is a word there and a character takes one; the memory does not change
while it is searched.

`TcpStreams` has the steps of `tcp_listener_poll` and, in between, those of the
kernel and the clients.  A message is its length and its number in its client's
stream; a chunk that `recv` returns is handled when it is exactly one message.
A message is an object, as every command is, and `json_validate` refuses half of
one and two in one.  (Half of a number standing alone it would accept, but no
command is such a text.)  The buffer is zeroed before each `recv`; a chunk that
fills it leaves no terminator, and `json_validate` may or may not accept what
follows.

The JSON code is cut where its functions are: a string or a number is one token
of `JsonText`, and `JsonLexemes` has the bytes of that token.  The spelling of a
number is kept apart from its value: `Strtod` takes a numeral to a double, which
for 1e400 is infinity, and `Numeral` is what `%.16g` prints of one, which need not
lead back to it (0.1 + 0.2 is printed as 0.3) and is no number for infinity and
NaN, where `emit_number` prints `null`.  In `JsonLexemes`
a step is one character: what `emit_string` or `parse_string` does after one
`sb_need`.  In `JsonCallers` a step is one call of a function of `json.h`, or
one of the functions of the server that look at a message
(`proto_json_normalize`, `proto_json_identify`, `bgame_join_map_create`,
`dictionary_destroy`).  A node's pointers are those of the struct; the blocks
that hold keys and texts are counted.  A freed block holds junk, so that a walk
through one is an error that TLC reports.

*Freed memory.*  `free` leaves a block's contents alone in the model, and the
block may be handed out again.  A step that touches a freed block has two kinds
of outcome: it proceeds with what the block holds, or the process crashes
(`DispatchCrashes`).  A list walk that meets NULL crashes; one caught in a cycle
that misses the head hangs (`JoinHangs`).

*Packets.*  ENet hands over a packet as it came: the length is not passed on by
`proto_json_normalize`, nothing ends the text, and only ENet bounds it.  So
`json_validate` may read to a zero byte behind the packet, and take what it finds
for another message (`GameReceive` takes any); or it may meet a page that cannot
be read, or nest deeper than the stack holds (`GameReceiveOverrun`).

*Numbers.*  A message's number is an integer in tenths.  The C cast truncates
toward zero, so 0.5 and -0.5 are both position 0; a double that an `int` cannot
hold may become anything (`AnyInt`).

*The environment.*  The kernel gives `accept` the lowest free descriptor and
lets `select` report any set of open ones; ENet reports CONNECT only for a peer
that is not connected, DISCONNECT and RECEIVE only for one that is.

## 3. Runs

| run | instance | shows |
|---|---|---|
| `lists` | 2 heads, 3 nodes | `list_check` succeeds, traversal finds the members in order, the pointers implement sequences |
| `core` | 3 descriptors, 3 blocks, 3 players, 2 ENet peers, 7 kinds of message, quota 4 | registries, scan range, peer ids, no stale command, no backlog, no crash or hang, the map's list and the broadcasts until a player leaves the server while on the map |
| `sessions` | 2 descriptors, 2 blocks, 2 players, a peer that comes back, three messages a turn against a quota of 1, any `malloc` may fail | the refinement of `PlayerSessions`, and liveness, with an overloaded dispatcher |
| `list_debug` | 1 place | *violation*, see below |
| `tcp` | 3 clients, 2 descriptors, messages of 1 and 2 bytes, a buffer of 2 | no blocking `recv`, the refinement of `LossyLinks`, every client served |
| `lifecycle` | 5 modules, 7 descriptors | start-up, failures, shutdown, liveness |
| `ptr_valid` | 3 pages, ranges to 3 bytes | exact answers, no child left, every question answered |
| `ptr_valid_write` | the same, ranges to 4 bytes | *violation*, see below |
| `autodata` | 7 pages, up to 4 pieces of data, 3 layouts of the mappings | the scan reads only what may be read, and its table is exact |
| `json` | 4 nodes for a caller, 7 for a message | sound trees, nothing lost, printing and parsing are inverse up to rounding, the refinement of `AbstractForests` |
| `json_lexemes` | 22 code points, 24 pieces of text, numerals to 6 characters | the buffer suffices, strings and numbers are exact |
| `json_control` | every character below 7F | *violation*, see below |

*Bounds.*  `MaxPlayers` players are ever created, `MaxPeerIds` ENet ids given
out, and `MaxQueue` limits the queue.  The first two leave reuse in: `malloc`
may hand out any free block, and the kernel hands out the lowest free descriptor.
In `core` `MaxQueue` is not reached, as the quota covers a turn's messages, and
the three players are the fewest for which the map's list has a middle; the map is
3 by 3 with a range of sight of 1, so that (0,0) and (0,2) do not see one another.

`sessions` is the other case: `main.c:119` runs ten commands a turn, and there may
be some thousand descriptors.  Two descriptors and a peer send up to three
messages, the quota is one, and the queue fills up to its bound, so that turns
begin with a backlog of one or two; a message that finds the queue at its bound is
dropped, as when `malloc` fails.  The map has the places (0,0) and (0,1).

Two descriptors and three clients are the fewest for a descriptor that changes
hands while another is open and a third client waits.  In `autodata` a record
can begin at any word and reach over the end of a page or of the data, with a
false match before it, after it or within it.  In `json_lexemes` the code points
are the first and last of every range that the code tells apart; strings of two
characters, behind any number of `[` up to ten, put each of them at every fill
of the sixteen bytes that the buffer begins with.  In `json` the messages are a
`join_map` in which each member may be missing, of another type or come twice,
and every text cut short; the texts are all sequences of up to four tokens, and
those of up to seven that begin like an object.

Deadlock is checked in every run but three: a process that has ended takes
`Done` steps.  `json`, `json_lexemes` and `json_control` are runs of a function
on one text, and end with it.  `core` uses the symmetry of block addresses
and of peers, which appear in no other constant and are never compared.

**`list_debug`.**  `g_disconnect` (`main.c:45-59`) frees a player
without `s_vmap_remove_entity`, which nobody calls.  The block stays linked in
the map's list.  When `malloc` gives it to the next player, whose `map_list` is
cleared, the list no longer closes, and the check that `list_add` ends with
(`list_debug(h)`, `include/ccan/list.h:164`) fails at the next join.  Without
that check the walk that follows meets a null pointer; if the new player joins
first, the node is linked twice.  The other properties about the map are stated
up to the first such disconnection (`~strayOnMap`).

**Conditions in the properties.**  `StaysUp` and `NoStaleCommand` speak of turns
without a backlog; `QuotaKeepsUp` says when there is none: the ten of
`command_dispatch(10)` must cover one message per descriptor and one ENet event.
`core` keeps the quota above that; `sessions` goes below it, and the theorems
`NoStale`, `QuotaEnough` and `RegistryKept` speak of every quota.
`ImplementsSessions` says nothing of a turn that begins with a backlog, where a
command may outlive its client and be run for the next owner of the block, but
everything of the turns after it.  `RequestsAnswered` has no such condition.  That
the queue drains is not claimed: more clients than the quota keep it from that for
as long as they like.

`StaysUp` sets malloc failure aside because the code visibly does: it dereferences
the NULL (`main.c:42`) or exits (`ccan/json.c:32`).  It does not count the end in
`GameReceiveOverrun`, the one message that ends the process.  `PeersIdentified`
keeps the ids apart whatever fails, and excepts from having one only a peer for
whose entry there was no memory: its messages go out as those of client 0
(`enet_server.c:154`).

**Mutants.**  Next to some definitions stands a variant with a plausible bug
(`UnregisterPlayerOnly`, `TcpEnterStaleMax`, ...).  `PROJECT.json` names, for
every property of a passing run, the variant that makes it fail.

**Life cycle.** `lifecycle` takes every order of every subset of the five
modules `config.mk` may build, descriptors 0 to 6 (the standard three, two
sockets of the login listener or one and ENet's, and clients), and a failure at
every call, `malloc` included.  `DescriptorsOwned` makes two exceptions, which
are what the code does. Descriptor 0 is closed by the first `tcp_listener_init`,
whose test `sock != -1` meets a zeroed listener (`tcp_server.c:73`); the first
of the two `socket` calls gets it back. When the second `listen` fails,
`tcp_listener_start` closes the socket and keeps its number (`deaf`), and later
`close`s can hit another owner.  `CrashesExplained` names the two ways in which
start-up and shutdown, or the loop for what they left behind, crash:
`enet_host_create` fails, `main` ignores it, and the poll dereferences NULL; or
the `realloc` of a table of modules fails at `autodata.c:66` after the first
entry, and the loops read the counted entries through NULL (`starved`).
`RegistriesEmptied` makes an exception for the protocol, since
`json_proto_mod_exit` registers instead of unregistering.

**Streams.**  `LossyLinks` allows messages to be lost, because they are: `recv`
may cut a message or join two, and then neither is one JSON value.  What it does
not allow is a message handed over twice, out of order, under another client's
id, or after the end of its connection.  `NeverBlocks` is the condition under
which the blocking descriptors do no harm.  `Served` has a premise, `[]<>` of a
poll that reaches the scan: a poll that accepts a connection serves nobody, so
new connections can starve the old ones; and when a connection waits and no
descriptor is left, `accept` fails in every turn, the ends of clients are never
seen, and no descriptor becomes free again.

**ptr_valid.**  Three pages of two bytes and ranges of up to three bytes: a
range lies in one page or two, in one mapping, two, or none, and the cached page
can change.  `AnswersExact` holds for batches of reads alone or writes alone.
A *violation* (`ptr_valid_write`) shows what the header promises and the code
does not keep: `ptr_valid_batch` forgets whether its cached answer was for a
read or a write.  `autodata.c`, the only caller here, asks about reads only.

**autodata.**  `ReadsSafe` is about start-up itself: whatever lies around in
memory, what `memchr`, `memcpy` and the string test load may be read.
`TableExact` says what is found: every record with the name, in the order of the
addresses, within the stretch of pages that can be read without a gap around the
example.  It makes an exception for a child that could not be made and for a
`realloc` that fails.

**json.** `TreesChecked` runs `json_check` on every tree, and asks what
`json_check` cannot see from a root: that a node with a parent is in that
parent's list, that a root has no neighbours and no key, and that going up from
any node ends. `NothingLost` counts: the live nodes are those of the trees
somebody holds, and there is one string for each key and text. It covers a text
that breaks off anywhere and every early return on the way of a message.
`PrintedIsRead` goes from trees to texts and back: what is read is the tree with
its numbers rounded to what `%.16g` prints, infinity and NaN having become null.
`ReadIsExact` goes from texts to trees and
back: an accepted text is the one its tree prints, white space and the spelling
of its numbers aside. The instance has a number that is printed exactly, one
that is rounded, one that overflows and a NaN. `Utf8Exact` and `NumbersExact`
compare the code with what Unicode and the grammar of JSON say, `RoundTrip` the
printer with the parser. A *violation* (`json_control`) shows where these two
disagree: `emit_string` escapes the characters below 1F (`c < 0x1F`,
`json.c:1180`), `parse_string` refuses those up to 1F ("Control characters are
not allowed in string literals", `json.c:868`), so a string that holds the
character 1F is printed as a text that does not parse. `RoundTrip` makes an
exception for it.

## 4. Why it holds

*Registries* (`RegistryKept`).  A block enters `allocated`, `entities` and
`players` in one callback and leaves them in one callback, in the same call of
`tcp_listener_poll` that changes `master`.  The descriptor is fresh because the
kernel gives out one that is not open.  `fdmin` and `fdmax` are part of the
inductive invariant (`Coupled`), since a hang-up is only seen inside the scan.

*No stale command* (`NoStale`).  Inside one scan each descriptor is read once:
a client either sends or hangs up, so its hang-up is seen a turn later at the
earliest, after a dispatch.  The invariant `QueueLive` says more: during the
scan, the commands queued in this turn come from descriptors the scan has
already passed, so the hang-up at the current one frees none of their entities.
This is what the mutant that keeps reading one descriptor breaks.

*The quota* (`QuotaEnough`).  `QueueBounded` bounds the queue at every place of
the loop: by the descriptors passed during the scan, by one more after the ENet
poll, by the remaining budget during dispatch.

*The map's list.* Its pointers form a ring (`MapRing`, a part of the inductive
invariant). The ring survives a join because `list_add` touches the head, the
old first node and the new node only, and the new node is not on the list yet
because its `vmap` is not set. It survives a connection because the block that
is cleared is not allocated, hence not among the registered entities on the map.

*Lists.* The same of `LinkedLists` (`Rings`), with the same argument for
`list_add`, `list_add_tail` and `list_del`, for any number of lists in one
memory.

*Walks* (`ListsWalked`, `MapListKept`).  That pointers form a ring does not say
that a walk reaches every member: two rings over one set of nodes are locally
as good as one.  The invariant therefore carries the walk: from the head, `next`
comes to each member once and back to the head (`CcanListProofs`).  An insertion
at either end makes the walk longer by the new node, a deletion shorter by the
old one, and neither touches a pointer on the walk of another head.  The length
of a walk is a number, so this goes by induction over the naturals, which
`Iteration` derives from the well-foundedness of `<`.

*Lists as sequences* (`SequencesImplemented`).  The walk from a head orders the
entries, so a list is the sequence of its members in the order of the loop
(`EntriesOf`); the walk makes that sequence unique (`OneOrder`).  `list_add` puts
the new entry before the first stop of the walk, `list_add_tail` behind the last,
`list_del` joins the stops on both sides, and the walk of any other head meets
none of the pointers stored to.  Under that mapping `Add` is `AddFirst`, `AddTail`
is `AddLast`, `Del` and `TakeTop` are `TakeOut`.

*No crash* (`ServerStaysUp`, `BroadcastRight`). The theorem is about the memory
of the server's own lists; an ENet packet may still end the process (section 2).
With the walk known, `Join` adds one node to a list that ends, and the loop of
`s_vmap_get_broadcast_list` meets the entities on the map and no others. The
dispatcher's commands touch only entities that are alive, by `QueueLive`.

*UTF-8* (`WrittenIsRead`, `DecoderExact`, `PairsExact`).  By the number of bytes:
`utf8_validate_cz` accepts a lead byte and tails exactly when they are what
`utf8_write_char` makes of one code point, for every text and position, and the
two surrogate conversions are inverse.

*The buffer* (`BufferKept`).  `emit_string` asks for fourteen bytes before its
opening quote, which leaves thirteen, and for fourteen again after each character.
`EncodeBounded` says that no character takes more than twelve, so that one is
left for the closing quote; `DecodeBounded` that `parse_string` writes at most
four for one character.  The inductive invariant (`Fitting`) adds to the types
how much room is left at each place (`Room`).  `DecoderKept` follows from
`DecoderExact` and the types.

*Numbers* (`NumbersRead`).  A run of digits ends at the least position that holds
none, which exists because the text ends (`RunExists`).  The positions where the
parts of `parse_number` stop are those the pattern speaks of, and the other way
round: a numeral that fits the pattern leaves each part no other place to stop.

*Strings* (`RoundTripKept`).  The proof keeps a relation between the places of the
string and those of its literal (`Coded`): one pair for each character begun, from
behind the opening quote to where emitting stands, each with its bytes in the
literal, so that the next pair follows from `EncodeDecode`: what `emit_string`
writes for a character, in any of its four forms, `parse_string` reads as that
character, and only 1F is refused.  While it reads, the position is in the
relation, and what is read is the string up to there.  That what is finished is
valid UTF-8 (`Sound`) goes along: `utf8_validate` succeeds exactly when there is a
set of places each of which leads to the next (`ValidIsCut`), and such strings may
be joined (`SoundConcat`).

*Nodes* (`NodeMade`, `ElementAttached`, `MemberAttached`, `NodeRemoved`,
`NodeFreed`).  A heap is `Consistent` with `kids`, the sequence of children of
every node, when `head` and `next` lead through each sequence and `tail` and `prev`
through it backwards, `parent` names the one sequence a node is in, a member has a
key exactly in an object (`Linked`), going up from any node ends at a root
(`Grounded`), and the strings are as many as keys and string nodes together
(`Accounted`).  These are conjuncts of `TreesChecked` and `NothingLost`, with `kids`
read off the heap.  The stores of each function are worked out once, for all
cases of first, last and only child (`AppendStores`, `PrependStores`,
`RemoveStores`); one list changes and no pointer of another (`OneListChanged`).  A
root goes under a node only if it is not above it: the set of nodes above the new
parent witnesses that, and without it a cycle would be cut off (`ParentAdded`).
The theorems hold for a pool of any size and trees of any shape, and say of each
function which step of `AbstractForests` it makes, the freeing of a node, which
is part of a `Prune`, excepted.

*Life cycle* (`WholeKept`, `UsesKept`, `DescriptorsKept`).  The invariant says
for every place of `net_listener_create` which parts of the listener under
construction exist, what its parts have looked up in the registries, and which
descriptor `ssock` and `sock` name.  The registries only grow until
`modules_exit`, which begins when the last listener is gone.

*Its ends* (`CrashesKnown`, `RegistriesEmpty`).  A crash needs a poll of a
listener without a host, which only the failure of `enet_host_create` leaves, or
a table whose entries are NULL while its count is not, which only `starved` is.
Between `modules_exit` of one module and the next, a registry holds what the
modules that are still up have put there, and the protocol.

*Peers* (`PeersKnown`).  An id in the table is below `next_client_id`, so a new one
is not there; a lookup by peer finds one entry, as a peer connects only when it
is not connected.

*A batch* (`BatchesExact`, `NoChildLeft`).  The invariant `BatchInv` has a part
for each place the truth can be: an answer that was given is the kernel's
(`AnswerTrue`), the cached page's answer is that of any byte of the page
(`CacheTrue`), a question in the pipe is the one the parent waits for and the
answer in the other pipe is its own (`Conversation`), and pipes and child exist
together (`ChildrenReaped`).  Mappings begin and end at pages, so a question
within one page is a question about any byte of it.  The recursion over the
sorted maps, which looks at one mapping at a time and is exact only if a range
that leaves one mapping begins the next one (`CheckWithMapsExact`), goes by
induction over their number.

*The scan* (`ScanReadsSafely`).  The range that is searched has been asked about
page by page (`RangeRead`); the question that is open is about the page next to
it, so an answer of yes extends it by what may be read, and a record is copied
only when it ends within it (`TagInRange`, `AsksPointer`).  The questions are all
about reads, so the flaw behind `ptr_valid_write` does not reach the scan, which
`ScanAnswersExact` states.

*What the scan finds* (`TableFound`).  Each loop ends at a byte that cannot be
read (`Bounded`), so that the range is exactly what can be reached from the
example without a gap (`ReachIsRange`) and every record lies in it.  Behind a hit
that has been dealt with, the table lists the records so far (`TableSoFar`); what
has been tested of the hit at hand (`Looking`) decides whether it is the next.
The string test and `strcmp` agree with "the name stands here" because a name
has its first zero at its end (`NamedExact`).  The invariant `TableInv` speaks of
positions by counting the records up to an address, and so needs only that a set
of addresses is finite.

*Streams* (`RecvNeverBlocks`).  The invariant `StreamInv` relates each client to
the descriptor that stands for it, each open descriptor to a client whose end
has not been seen, and the bytes that wait to the messages sent, as sums of
their lengths.  What `select` reported ready stays so until the scan comes to
it: bytes and ends are taken by this descriptor's own turn only (`ReadyStill`).

*Sessions* (`SessionsImplemented`). Under the refinement mapping an accepted
connection is the abstract `Connect`, a queued command an `Ask`, a dispatched
one an `Answer`, a hang-up a `Disconnect`, and every other step a stutter. A
command answers the session that sent it because `QueueLive` ties it to a
registered entity, and `Disconnect` finds nothing unanswered because the
commands of this turn came from lower descriptors. Both need a turn that begins
with an empty queue, and `carried` excepts the others: the invariant says
nothing of the queue while there is a backlog, and holds again once it is worked
off, as an empty queue names nobody. `SessionsRefined` assumes a quota that
covers a turn, when there is no backlog, and has the refinement without
exception. Both take the two marks of a session without a place to differ from
every place.

*Links* (`LinksImplemented`).  Under the refinement mapping a client's `Connect`,
`Send` and `Hangup` are the abstract ones, `recv` of exactly one message is a
delivery, of anything else a loss, and every other step is a stutter.  A chunk
is the next message exactly when it begins where the sum of the messages before
it ends, so that the number under which it is handed over is larger than every
number handed over before.

The theorems assume the `ASSUME`d facts about constants only: numbers are
numbers, the map's head is not a block, NULL is not a cell, messages have
their five fields, the listening socket is below the client descriptors, the
modules, the blocks and the cells are finitely many and the two listeners
differ; a memory is made of mappings that begin and end at pages, and its first
and its last page are not mapped, as on every system this runs on; strings, texts
and the name of a table hold no byte 0, and a string to be emitted is valid UTF-8,
as `emit_string` asserts; NULL is not a string.
The type invariants of `LinkedLists` and `Lifecycle` are theorems only.

**Model-checked only.**  The properties of `JsonCallers` as a whole (`TreesChecked`,
`NothingLost`, `PrintedIsRead`, `ReadIsExact`, `ImplementsForests`): its trees are
walked by recursive operators (`JsonTree`, `JsonText`), which the prover cannot use.
What is proved is each store they are built from, above; that `json_delete` visits
every node under the one it is given, and what the grammar reads and prints, is
checked on the instances.  Liveness and deadlock freedom are out of the prover's
reach.

**Fairness.**  `Spec` assumes that the process takes a step whenever it can
(weak fairness of `ServerStep`): the operating system schedules it.  Nothing is
assumed of clients, ENet, SIGINT or of which outcome the kernel chooses.
`MainLoopTurns` counts a wedged map list as an end of the process; that this
happens only after a player has left while on the map is `StaysUp`.
`RequestsAnswered` needs no more: a turn runs at least one command, the queue is
first in, first out, and what arrives meanwhile stands behind.
`Lifecycle` and `TcpStreams` assume the same of their process: of the kernel's
and the clients' steps, nothing.  `PtrValid` assumes that the child
runs and that a `read` whose answer is there returns; of its client, nothing.

## 5. Not modelled

Left out, and why:

- `s_vmap_remove_entity`: it has no caller, which is what `list_debug` is about;
  nor are there several maps, as one module registers one map.
- How `/proc/self/maps` is parsed: the models have its result, the list of
  mappings, or none when it cannot be read.
- Descriptors beyond `FD_SETSIZE`: the usual limit of open descriptors is the same
  number, and nothing in the repository raises it.
- The stack.  The recursion of `json.c` is as deep as a message nests, which
  `CONFIG_BUFSIZE` bounds for TCP.  For ENet nothing in the code does, and there
  the models only say that the process may end (`GameReceiveOverrun`), not for
  which packets.  Nor are trees modelled that contain themselves, which the
  asserts of `json.c` do not exclude: no caller builds trees.
- `json_find_element`, which has no caller and changes nothing; `realloc` moving
  a table during the scan, while the maps of the batch are those of its beginning:
  the pointers asked about lead into static data, which does not move.
- Logging, compile-time helper headers, `noerr.c` (no caller), the fields of
  `s_entity` that nothing reads (`state`, `target_x`, `target_y`),
  `net_listener_send` and `net_listener_disconnect` (no caller, and neither
  listener implements them).
