# SocketNcurses: specification and proofs

SocketNcurses is a small game: a server and any number of clients exchange UDP
datagrams; every client has a player, moves it with `w a s d`, and draws the
players the server tells it about. This directory holds TLA+ modules of the
program, TLC runs on small instances, and TLAPS proofs for all instances.
Paths like `Network.cpp:601` are relative to the repository's `src/`.

## 1. Inventory

### Components, their state and their operations

| Component | State | Operations |
|---|---|---|
| `Server` (main thread) | `clients`: id → `SV_Client`; `state`: the game | `run`: 60 times a second one event, `handleNetEvent`/`addClient` or `handleKeyEvent`, then `sendUpdate` |
| `Client` (main thread) | `Server_ID`; `state`: its view of the game; in `connect` a count and a timer | `connect`: request, wait, retry; `run`: one event, at most one key, drawing |
| `Network` (one object in either process; a thread of its own in `run`) | `connections`: id → address; `nextId`; `eventList`, a mailbox of one event; `status`; `setup` | `run`: receive, acknowledge, register, post; `sendEvent`; `getEvent`; `getStatus`/`setStatus`; `Setup` |
| `GameState`, `Player` | id → position | add, get, set, `getPlayers`, `getGameUpdate`, `setGameUpdate` |
| `NetworkStatistics` | bytes, KiB, MiB in and out; a mutex | `addBytes` with carries, from both threads; `getMebibytes`, of a copy |
| `Timer` | when it was started | `start`, `stop`, `getTime`; the waits of `connect` and of every frame |
| `Network::Setup` | `sfd`, `setup`, the thread | a socket, then a thread; called with every request of a client |
| `LinkedList` | nodes | push, pop, free, copy, iterate (its only instance, `Network::frameQueue`, is never used) |
| `Common`, `main` | `debug`, the arguments | `log` with its marks; two walks over the arguments |

### Interaction

A process has two threads. The **network thread** receives a frame, answers it
with an ACK, and turns it into an event in the mailbox; the **main thread** takes
what is in the mailbox once per frame and sends frames itself. They share

* the mailbox, under a mutex, one event deep: the last one posted wins;
* `status`, read by `Client::connect` and set by the network thread, without a lock;
* `connections`, read, written and inserted into by both, without a lock.

Between the processes: `CONNECTION_REQUEST` → registration, then an event →
`addClient`, then `CONNECTION_REQUEST_ACK`; `DATA/KEY_DOWN` → an event → a move;
`DATA/GAMEUPDATE` to every client in every server frame. The rest of the handshake
of `docs/design:154-163` is not implemented.

### What is hard here

* **Threads**: the mailbox forgets; post and set-status are two steps; the
  main thread of a client reads them in the other order.
* **Network**: requests, answers, keys and updates are lost, repeated, late and
  reordered; the ACKs that `sendACK` sends are ignored by everyone.
* **Timeouts**: the client's retry races the answer to its earlier request.
* **`std::map::operator[]`**: every read of an absent key inserts; every walk is
  `for(i = 0; i < m.size(); i++) m[i]`, so the walk extends what it walks, and
  does not end at all once there is a negative key.
* **Numbers**: carries of counters at exact multiples; a clock that is set while a
  timer runs; sockets and threads that cannot be made; a null pointer after the
  last argument.
* **A copy without the lock**: the statistics are copied, mutex and all, while the
  other thread writes them.
* **Restart**: the server forgets everybody, and the clients do not notice.
* **Limits**: 32 clients, 8 players in an update, 5 attempts.

`PROJECT.json` lists each hazard at its line with the properties aimed at it.

### What makes the components correct

* Network/Server: one id per address, for good, without gaps; a client that was
  told it is connected has a slot; the server always gets to its next frame.
* Game: players move by their users' keys only, a cell at a time; what is shown
  was true.
* Client: connecting comes to an end; a player that plays sees itself.
* Statistics: no byte is lost between the threads; what is shown was true.
* Timer: its time is the time that has passed; frames last as long as they should.
* Setup: requests come from one address, the one the thread listens to.
* LinkedList: its objects are sequences, and no node is leaked or shared.
* Logging and arguments: every argument is printed in its place; the last option wins.

## 2. Modules

```
StdMap ── GameState ── Wire ── Network ─┬─ Server ─┐
   │                                    └─ Client ─┴─ Game ─┬─ MCGame
SizeLoop ── MCSizeLoop                                      ├─ DocClaims ── MCDocClaims
   └─ SizeLoopProofs                     Lobby ── (INSTANCE)┘
                       Game ── GameProofs ── PlayerProofs ── LobbyProofs ── RequestProofs

CommandLine ─┐
Log ─────────┼─ Process ─┬─ MCProcess       NetworkStatistics ─┬─ MCNetworkStatistics
Timer ───────┤           └─ ProcessProofs                      ├─ NetworkStatisticsProofs
Sockets ─────┘                                                 └─ StatisticsClaims
                                            Deques ── (INSTANCE) LinkedList ─┬─ MCLinkedList
                                                                             └─ LinkedListProofs
```

| Module | Models | Correspondence |
|---|---|---|
| `StdMap` | the map as the program uses it | `Put`, `Get`, `Touch` are `operator[]`; `Fill` is a walk that ends, `WalkEnds` says when it does |
| `SizeLoop` | one such walk, index by index | justifies `Fill` and `WalkEnds`; the loops are `GameState.cpp:47`, `:28`, `Server.cpp:169`, `Network.cpp:605` |
| `GameState` | `GameState`, `Player` | a player is its position |
| `Wire` | UDP | what is in flight is a set of frames; `Lose`, duplicates in `TakeFrom` |
| `Network` | what both sides share of `class Network` | `findId`, the mailbox, events |
| `Server` | both threads of the server, and its restart | `svNetPc` and `svPc` are where the threads are |
| `Client` | both threads of every client | `clNetPc[c]` and `clPc[c]` |
| `Game` | the whole | one step is one step of one thread, of a client's clock, of the network, or a restart |
| `Lobby` | the connection protocol without threads, frames or retries | abstract; `Game` implements it |
| `DocClaims`, `StatisticsClaims` | what the documents and the screen say and the code does not do | one run per claim |
| `NetworkStatistics` | the byte counters of a client, under both its threads | a step of `addBytes` is one write, a step of the copy reads one member |
| `CommandLine` | `main` up to the choice of server or client | `checkForDebug` is one step, and each turn of the walk for the options is one |
| `Log` | `log` | a step is one mark of the format |
| `Timer` | the timer and the loops that wait by it | a tick is a unit of the clock, which may also be set |
| `Sockets` | `Setup`, `CreateSocket` | every call may fail, before or after a socket is made |
| `Process` | a process from `main` to its frames | composes the four before; the game is left out |
| `LinkedList` | the list, over a heap of nodes | an operation with a loop takes a step per turn |
| `Deques` | sequences | abstract; `LinkedList` implements it |
| `*Proofs` | proofs, see section 4 | |

**Granularity.** A step is what one thread does between two accesses to what it
shares with others. The network thread takes a frame (with its ACK and, on the
server, the registration) in one step, posts in a second, and on a client sets the
status in a third. The server's main thread takes an event, handles it (with the
answer), and sends the updates, in three steps; on a client, `connect` reads the
status in one step (`ClientCheck`) and the timer and the mailbox in the next
(`ClientPoll`, `ClientRetry`), and a frame of the game is one step. The operations
on `connections` are atomic in the model: the program's race inside `std::map` is
undefined and is listed as a hazard that no property covers.

**Left out of the data.** Frame numbers (nothing reads them but the ACK that echoes
them), the player's character, and drawing. Logging and statistics have modules of
their own, since nothing in the game depends on them; of the lines the program logs, only the
arguments are formatted there. `SV_Client::status` is kept because a document speaks of it. The
loop of `connect` that spins while the status is `CONNECTED` changes nothing and is no step.

**What is in flight** is a set, so two frames that are the same in every field are one while
both are on their way; that a frame arrives twice is what `MaxDup` is for. A thread whose
`epoll_create` or `epoll_ctl` fails ends at once (`Network.cpp:240-242`) and has no outcome of
its own in the model: for the others it is a server with `svUp` FALSE, or a client all of whose
frames are lost; in `Sockets` it counts as a thread that listens.

**Setup.** In `Game`, `CreateSocket` is an arbitrary outcome: the server that gets no
socket runs on and hears nothing (`svUp`), the client tries again with its next
request. A socket whose thread cannot be started belongs, for everyone else, to
another address that never answers; which sockets that are is in `Sockets`.

**A client is an address.** Every run of the client program has a port of its own,
so a process that has ended (`failed`, `quit`) does not start again; its frames may
still be on their way. A client of `MayBeNamed` may have been given the server's
address in another form than `getnameinfo` reports (`-ip localhost`), which
`clAddress` says: then `findId` does not find the server (`Network.cpp:267, 609`).

**The walk that does not end** is the value `"endless"` of a thread's counter.

**Statistics.** The writes of one `addBytes` and the reads of one copy may come in any
order, as nothing orders them between the threads; `atStart` remembers what a copy at
once would have shown at the beginning. The calls are those of a client that plays
(frames and ACKs in, ACKs and keys out); a failed `recvfrom` counts -1.

**Time.** `elapsed` counts the ticks since the timer was started, `moved` by how much the
clock was set since then, once at most: together they say what the timer should
show. `usleep` waits in real time, whatever the clock does, and exactly as long as
it is told: that it may wait longer only lengthens frames, and that a signal may cut it short
(`SIGWINCH`, under ncurses) is left out.

**The list** has callers that do anything the class offers, since the program has none.
During a call, an object has for its caller the elements from before (`before`), and a
copy that is under construction does not exist yet.

## 3. Runs

Bounds are constants: `BufCap` frames in flight to one receiver (what does not fit
is dropped, as a full socket buffer does), `MaxDup` duplicates, `MaxRestarts`,
`MaxKeys` key presses per client, `CONNECTION_ATTEMPTS` (5 in the code), `MaxClients`
(32), `MaxEnts` (8), and `Acks`: whether the ACK frames, which change nothing, are
carried at all. `Process` and `Statistics` are small in the units instead: a second of
four milliseconds of two ticks each, a kibibyte of three bytes.

| Run | Instance | Shows |
|---|---|---|
| `Walk` | all maps with keys in -2..4, two values | the walk ends iff no key is negative, and then is `Fill` (`WalkFills`, `NegativeKeyKeepsAhead`, `WalkStops`); `LoopInv` |
| `Game_one` | 1 client, with a numeric address or a host name, keys `a d`, 2 presses, 2 in flight, ACKs, a duplicate, a restart | `TypeOK`, `IInv`, `PlayersMoveByKeys`, `NoTeleport`, `ClientSearchTerminates`, `KeysGoToServer` |
| `Game_two` | 2 clients, two requests and a press each, room for one player in an update | `RegistrationIsInjective`, `ToldMeansListed`, `ServerLoopTerminates`, `PicturesAreOfPlayers`, `UpdatesShowWhoFits`, `ImplementsLobby` (refinement) |
| `Game_live` | 1 client, 2 attempts, a duplicate | `ConnectResolves`, `SeesItself` (liveness) |
| `Statistics` | both threads, 5 bytes in and 12 out, a kibibyte of 3 bytes, a failure | `TypeOK`, `CountsEveryByte`, `ShownIsBetween`, `UnitsNeverFall` |
| `List` | 2 objects, 2 elements, 4 nodes, every operation | `HeapIsTheLists`, `ImplementsDeques` (refinement), `CallsReturn` (liveness) |
| `Process` | every argv of up to 3 arguments, every format of up to 5 symbols, 2 retries, a clock set by seven distances | `LastOptionWins`, `PrintsArgumentsInPlace`, `TimeIsElapsed`, `NoFasterThanMaxFps`, `SleepsTheRest`, `RetriesAfterTimeout`, `HearsItsAnswers`, `AsksFromOneAddress` |
| `Doc_*` | the smallest instance that shows it | a document's claim and a counterexample, see section 5 |

**Why the bounds are enough.** One client suffices for what concerns the two
threads, the timer and the wire; two for what concerns ids, each other's slots and
the order of registration. One duplicate and two frames in flight give every overtaking and every
repetition of a pair. One attempt gives two requests, so late and repeated answers;
more attempts repeat the same loop. `MaxClients = 3` with at most two clients lets
every `addClient` succeed although it counts a client that is listed already; runs
about the limit set it to 1. `MaxEnts = 1` in `Game_two` puts the two clients on either
side of the room in an update; elsewhere it is 8 and never reached. A restart happens at any moment, and one is enough
since the server comes back empty. In `Statistics`, frames are of one or two thirds of a
kibibyte, so that 12 bytes out carry into bytes, kibibytes and mebibytes, with and
without a remainder, and from either thread. In `Process`, the clock is set by less
than a millisecond, by more, by more than a second, and by more than `useconds_t` holds;
five symbols hold two marks with text before, between and behind them; three arguments
hold an option with its value and one more, and an option that is the value of another.
In `List`, four nodes hold two lists of two elements, equal or not, or one that shrinks
and grows while it is copied to.

`CHECK_DEADLOCK FALSE` is given where everything may really stop: in `Game_one` and
`Doc_restart` when the client has ended and the server is in the endless walk; in
`Walk` when the walk has ended; in `Process` when the program has returned, crashed or
given up connecting.

**Fairness** (`FairSpec`). The operating system schedules both threads of every
process (weak fairness of each receive, post and main step) and clocks advance
(`ClientTick`). Nobody has to press a key, restart the server or lose a frame.
`FairNetSpec` adds that a network which is given an update again and again (the
server sends 60 a second) delivers one at last: strong fairness of receiving an
update. `ConnectResolves` does not depend on that: without any answer, the timer
and the count end the loop. Fairness of a client's main thread is that of
`ClientRuns`, which leaves out the user: a frame without a key, and no quitting.
In `LinkedList`, `FairSpec` is weak fairness of `Continue`: a call that has begun is run
on by its thread; nobody has to make another.

## 4. Proofs

Every theorem is about all values of the constants: any set of clients, any bounds,
any length of a second or a kibibyte.

| Module | Theorems |
|---|---|
| `GameProofs` | `Invariant` (`IInv`), `TypeCorrect` (`TypeOK`), `RegistrationIsSafe` (`RegistrationIsInjective`), `ServerKeepsWalking` (`ServerLoopTerminates`) |
| `PlayerProofs` | `SearchEnds` (`ClientSearchTerminates`), `KeysAreSent` (`KeysGoToServer`), `PlayersMove` (`PlayersMoveByKeys`), `PicturesArePlayers` (`PicturesAreOfPlayers`) |
| `LobbyProofs` | `GameImplementsLobby` (`ImplementsLobby`, when the server is not restarted), `ToldIsListed` (`ToldMeansListed`) and `UpdatesShowPlayers` (`UpdatesShowWhoFits`), both when there are fewer clients than slots |
| `RequestProofs` | `NobodyTeleports` (`NoTeleport`) |
| `SizeLoopProofs` | `LoopInvariant` (`LoopInv`), `WalkIsFill` (`WalkFills`), `NegativeKeyNeverLeft` (`NegativeKeyKeepsAhead`) |
| `NetworkStatisticsProofs` | `TypeCorrect` (`TypeOK`), `Counts` (`CountsEveryByte`), `UnitsRise` (`UnitsNeverFall`), `ShowsBetween` (`ShownIsBetween`, when `recvfrom` fails less often than a kibibyte has bytes) |
| `ProcessProofs` | `ReadsElapsed` (`TimeIsElapsed`), `FramesLast` (`NoFasterThanMaxFps`), `FramesEnd` (`SleepsTheRest`), `RetriesWhenDue` (`RetriesAfterTimeout`), `LastOptions` (`LastOptionWins`), `ArgumentsInPlace` (`PrintsArgumentsInPlace`), `AnswersAreHeard` (`HearsItsAnswers`), `OneAddress` (`AsksFromOneAddress`) |
| `LinkedListProofs` | `Invariant` (its `IInv`), `HeapIsAlwaysTheLists` (`HeapIsTheLists`), `ListImplementsDeques` (`ImplementsDeques`) |

### The game

**`IInv`.** `ServerLoopTerminates` is not inductive: it says that no player
has a negative id, and a key event with the id -1 in the mailbox would break it in
the next step. Such an event is made when the address a key comes from is not
registered. So one needs: whoever sends a key is registered (`KnownInv`). A client
sends keys only when it plays, it plays only after an answer, and an answer is sent
only to a registered address. The answer travels: it is in flight, then in the
network thread's hand, then in the mailbox (where it may be overwritten while the
status remembers it), and `Told` names all those places; `KeyOnItsWay` adds the key
in flight, which may outlive its client's process. Events are handled later than
they are made, so `IdsInv` says that every event, slot and player refers to an id
below `nextId`, that `connections` has exactly these, and no address twice.
`RequestsInv` bounds the retries, for `TypeOK`. The conjunction with `TypeOK` is
`IInv`; after a restart only the parts remain that a restart does not break, which
is why they are guarded by `svRestarts = 0`. The proof has a lemma per action, under
it a step per conjunct, and lemmas on maps, events and frames first.

**`AddressInv`** (`PlayerProofs`) follows the address a client was given: its search of the
server's id goes wrong only after a key that was sent to connection -1, and such a key is
sent only by a client whose Server_ID is -1, which an answer from a numeric address never
makes it. So the keys of a client with a numeric address go to a connection it has
(`KeysAreSent`), and all its connections are to that address.

**`KeysInv`** (`PlayerProofs`) counts: each key that was pressed, or repeated by the
network, is in flight, in the hand of the network thread, in the mailbox, or has moved its
player a cell. `PicturesArePlayers` then needs only that pictures are taken of the players
and that players' distances are bounded by keys that are never taken back.

**The refinement** (`LobbyProofs`) needs `StartedInv`, that a request in flight comes from a
client that has started; the step of the abstract protocol is then taken by the network
thread of the server (an id), by the client that starts and by the one that reads its
answer, and all others stutter. A restarted server gives ids anew, which the abstract
protocol does not allow, hence `MaxRestarts = 0`.

`ToldIsListed` is a count: `addClient` refuses when the list is full, and the list has no more
slots than clients have ids, so there is room when there are fewer clients than slots.
One more is needed because `addClient` counts a client also when it is listed already.

`UpdatesShowPlayers` goes on from there: a client that plays was told, so it is listed; whoever
is listed has a player (`SlotsHavePlayers`, since `sendUpdate` walks the players before the
slots and so never makes a slot without a player); and the update takes every player whose id
is below `MaxEnts`.

**`StrangersInv` and `PendingInv`** (`RequestProofs`): a player is put back only by a request
that is handled after the player was registered. A client that has asked once has its
request in one place (the wire, the network thread's hand, the mailbox, the main thread's
hand), and until that has been handled nobody knows the client, so it has no player to move.

### Walks, statistics, processes

`SizeLoopProofs` proves for every map with finitely many integer keys

* `WalkIsFill`: a walk that is left has read 0, 1, ... up to the largest key and
  left the map `Fill` returns;
* `NegativeKeyNeverLeft`: with a negative key the loop condition stays true.

The invariant `LoopInv` says that the map is the first one with 0..i-1 added, and
that the loop has come to i only because of a key not smaller than i-1 or negative.
`CountKeys` turns the comparison with `size()` into that: a finite set of integers
that contains 0..n-1 has more than n elements iff one of them is outside.

`NetworkStatisticsProofs`: between the writes of one `addBytes` the counters are neither the
old nor the new ones. `CountersInv` says of every call that there is one end its writes lead
to, in any order (`Leads`), and that there the bytes are all counted (`Settled`); of the
counters at rest it says the latter. `LockInv` says that only the holder of the lock has writes
left. `CopyInv` keeps the copied members between what they were in the beginning and what
they are; it is here that `kibi` must never go down, which is the error of
`NetworkStatistics.cpp:187` turned into a guarantee.

`ProcessProofs`: `TimerInv` says that the clock is the start of the timer, what has passed and
what it was set by; a lemma on division bounds what is rounded off, and the sleep of a
frame follows. `ArgumentsInv` says where the walk over the arguments is and `OptionsInv` what it has found so far.
`SocketsInv` says that of the sockets in use or asked from all but one have got no thread.

**The log.** What `log` should print is `Replaced`: symbol by symbol of the format a piece, which
the mark itself, its type or a plain symbol decides. `LogInv` says that before the turn for the
nth mark `startOffset` is the end of the mark before it and the output is `Replaced` up to
there. A turn keeps it because between two marks there is no symbol that belongs to one
(`NoMarkBetween`, from counting the marks passed) and the difference `markTypes` has put
down is the length of just that text (`NextMark`).

### The list

`LinkedListProofs` speaks of *chains*: the addresses of the nodes of each object, found by
following `next` as often as it counts. `HeapIsTheLists` is about the time between calls
only; its `IInv` also says how far a call has come:

* `FitsInv`: each node of the heap is in one chain, once; each chain ends in a node
  without a next, begins at `head` and ends at `tail`. While `free` runs, a list counts nodes
  it has deleted already, hence `Sizes`;
* `WalkInv`: the walk to the last node is at a node of its list, and `lastNode` is the one
  before;
* `CopyInv`: the elements so far are those of the source, and the iterator is at the next;
* `FreeInv`, `EmptyInv`, and `ListsType` for the rest.

An operation changes one chain in one of six ways (a node put at either end, taken from
either end, the chain made or left), and a lemma about each says what becomes of all
chains. The refinement follows from the same lemmas: a loop's turns change what the object
contains but not what its caller may see (`before`), and the last step of a call is the step
of `Deques`.

### Induction

What an operator defined by recursion yields for every length (`Path`, `FlattenSeq`) is
proved by induction over a set: a set of naturals with 0 and with n + 1 for each n in it has
all of them, as otherwise its complement had a least member (`WFMin`, on
`NatLessThanWellFounded`). The definitions themselves are recursive functions.

**Assumptions** are those on the constants (`KeysAssumption`, `WireAssumption`,
`ServerAssumption`, `ClientAssumption`, `SizeLoopAssumption`, `StatisticsAssumption`,
`CommandLineAssumption`, `LogAssumption`, `TimerAssumption`, `SocketsAssumption`,
`LinkedListAssumption`), which TLC evaluates, and those told above, each in its
theorem's ASSUME: no restart (`GameImplementsLobby`), fewer clients than slots (`ToldIsListed`,
`UpdatesShowPlayers`), and fewer failures than a kibibyte has bytes (`ShowsBetween`).

**Model-checked only**: liveness (`ConnectResolves`, `SeesItself`, `WalkStops`,
`CallsReturn`), which needs ENABLED and is out of the prover's reach. `LogInv` and the `IInv`
of the list were checked by TLC on the instances of `Process` and `List` before they
were proved.

## 5. Where the code and the documents part

Each `Doc_*` run checks one sentence of the repository and ends in a counterexample.

| Run | Sentence | Behaviour found |
|---|---|---|
| `Doc_connect` | `docs/design:60-64` connecting is followed by the game or an error | the status is set before the mailbox is looked at, and `connect` spins (`Client.cpp:53`) |
| `Doc_restart` | `docs/design:29-32` the server's loop goes on | a key from an unknown address is played on id -1 (`GameState.cpp:47`) |
| `Doc_limit` | `docs/design:13` up to 32 clients | the walk of `sendUpdate` adds slots untested (`Server.cpp:172`) |
| `Doc_answer` | `docs/design:148-150` an answer means a slot | the refusal of `addClient` is dropped (`Server.cpp:97`) |
| `Doc_mebibytes` | `Client.cpp:221` "MB's" | after a carry `outKibibytes` stays, and from then on each kibibyte counts as a mebibyte (`NetworkStatistics.cpp:187`) |

The limits are small in these runs, as the code compares with its own in the same way:
`MaxClients = 1` for 32 in `Doc_limit` and `Doc_answer`, and a kibibyte of three bytes in
`Doc_mebibytes`, where `CountsEveryByte` is the part that holds.

Further differences, told here without a run of their own:

* `CONNECTION_ATTEMPTS` is the "Amount of connection attempts before it gives up"
  (`include/Client.h:32`); the first request is not counted (`Client.cpp:47`), so that six are sent.
* `main` has messages for `-ip` and `-port` without a value (`main.cpp:89, 101`) which are never
  printed: the test before them lets `argc` through (`main.cpp:75, 94`), and the null pointer at
  the end of `argv` is read (`Crash`).
* "Once connected you can move your character" (`README.md:29`), but not a client that was given
  a host name: `findId` does not find the server by it (`Network.cpp:609`), `Server_ID` is -1, and
  the keys go to no connection. `KeysGoToServer` is about all other clients.
* Clients "can see each other move around" (`README.md:42`), but an update takes the players with
  the first eight ids (`Network.cpp:582`) and the server 32 clients, so the others are seen by
  nobody. `UpdatesShowWhoFits` is about the first eight.
* A client is connected when it has acknowledged (`docs/design:159-163`), but `addClient` has it
  as connected before it is answered (`Server.cpp:73`), also when it hears no answer and gives up.
* `-ip` is to "set the ip to listen on if a server" (`README.md:16`); `CreateSocket` does not look
  at the address of a server (`Network.cpp:175`).
* `Iterator`'s `==` compares elements, not places, and `end()` is the last element; its `!=`,
  "BROKEN ATM DON'T USE" (`Iterator.h:71`), is used by `operator=` (`LinkedList.h:212`), and copies
  whole lists because it ignores its argument (`ImplementsDeques`, with the mutant `NotSameData`).
* The slots that the walk of `sendUpdate` makes have id 0, whereas a client has the id of its
  event in `docs/design:148-149`.

## 6. Not modelled, and the plan

Not modelled: drawing (but for its walk over the players), and the build files; functions that
nothing calls (`handleConnectionRequest`, `ReceiveFrame`, `Server::startNetwork`,
`handleFrame`, `Timer::pause`, `unpause`, `isPaused`, `isStarted` and `printTime`, `delay`, and
`NetworkStatistics::getBytes` and `getKibibytes`), and frame types nobody sends. Two hazards are
left open: the race of two threads inside `std::map` (`Network.cpp:300`), which has no outcome to
enumerate, and a signal that cuts `usleep` short.

What could come next: that every loop comes nearer to its end with each turn, which is the part
of the liveness properties that can be proved.
