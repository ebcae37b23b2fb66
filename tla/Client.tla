------------------------------- MODULE Client -------------------------------
(***************************************************************************)
(* The clients, one for each address.  Client::run in the main thread      *)
(* first loops in Client::connect and then plays; Network::run, in a       *)
(* thread that the first successful Setup starts, receives frames and      *)
(* posts events.  They share the mailbox, under a lock, and the status of  *)
(* the Network object, without one.                                        *)
(***************************************************************************)
EXTENDS Network

CONSTANTS
  CONNECTION_ATTEMPTS,  \* 5
  MayBeNamed,           \* clients whose users may give the server's address in
                        \*   a form the socket does not report (a host name)
  MaxKeys               \* bound: keys the user of a client presses

ASSUME ClientAssumption ==
  CONNECTION_ATTEMPTS \in Nat /\ MayBeNamed \subseteq Clients /\ MaxKeys \in Nat

VARIABLES
  clAddress,    \* Server_Address, the -ip its user has given
  clPc,         \* main thread: "start", "check" and "timed" in connect(),
                \*   "play", and "failed" or "quit" when the process has ended
  clAttempts,   \* connectCount
  clExpired,    \* the timer reads more than CONNECTION_TIMEOUT
  clStatus,     \* Network::status
  clSetup,      \* Network::setup
  clConns,      \* Network::connections, id -> address
  clSlot,       \* Network::eventList, the mailbox
  clNetPc,      \* network thread: "recv", "post", "status"; "endless" in
                \*   a walk over the connections that does not stop
  clNetEv,      \* the event in its hand
  clServerId,   \* Server_ID
  clView,       \* Client::state
  clRequests,   \* history: connection requests sent
  clKeys        \* history, and bounded by MaxKeys: keys pressed

clVars == <<clAddress, clPc, clAttempts, clExpired, clStatus, clSetup, clConns,
            clSlot, clNetPc, clNetEv, clServerId, clView, clRequests, clKeys>>

Numeric == "numeric"    \* the server's address as getnameinfo reports it
Name    == "name"       \* the same, in another form
Nowhere == "nowhere"    \* the connection that operator[] makes

ServerAddress(c) == clAddress[c]

(* The connections a client can have: the one to the server, which         *)
(* sendEvent makes, and the one that operator[] makes of findId's -1.      *)
ClientIds == {-1, 0}

ClientTypeOK ==
  /\ clAddress \in [Clients -> {Numeric, Name}]
  /\ clPc \in [Clients -> {"start", "check", "timed", "play", "failed", "quit"}]
  /\ clAttempts \in [Clients -> 0..CONNECTION_ATTEMPTS]
  /\ clExpired \in [Clients -> BOOLEAN]
  /\ clStatus \in [Clients -> {"DISCONNECTED", "CONNECTED"}]
  /\ clSetup \in [Clients -> BOOLEAN]
  /\ DOMAIN clConns = Clients /\ DOMAIN clSlot = Clients
  /\ DOMAIN clNetEv = Clients /\ DOMAIN clView = Clients
  /\ \A c \in Clients : MapOver(clConns[c], ClientIds, {Numeric, Name, Nowhere})
  /\ \A c \in Clients : IsEvent(clSlot[c]) /\ clSlot[c].id \in ClientIds
  /\ clNetPc \in [Clients -> {"recv", "post", "status", "endless"}]
  /\ \A c \in Clients : IsEvent(clNetEv[c]) /\ clNetEv[c].id \in ClientIds
  /\ clServerId \in [Clients -> ClientIds]
  /\ \A c \in Clients : MapOver(clView[c], Nat, Position)
  /\ clRequests \in [Clients -> 0..(CONNECTION_ATTEMPTS + 1)]
  /\ clKeys \in [Clients -> 0..MaxKeys]

ClientInit ==
  /\ clAddress \in [Clients -> {Numeric, Name}]
  /\ \A c \in Clients \ MayBeNamed : clAddress[c] = Numeric
  /\ clPc = [c \in Clients |-> "start"]
  /\ clAttempts = [c \in Clients |-> 0]
  /\ clExpired = [c \in Clients |-> FALSE]
  /\ clStatus = [c \in Clients |-> "DISCONNECTED"]
  /\ clSetup = [c \in Clients |-> FALSE]
  /\ clConns = [c \in Clients |-> EmptyMap]
  /\ clSlot = [c \in Clients |-> NoEvent]
  /\ clNetPc = [c \in Clients |-> "recv"]
  /\ clNetEv = [c \in Clients |-> NoEvent]
  /\ clServerId = [c \in Clients |-> -1]   \* not initialized, and not read
  /\ clView = [c \in Clients |-> EmptyMap] \*   before connect() sets it
  /\ clRequests = [c \in Clients |-> 0]
  /\ clKeys = [c \in Clients |-> 0]

(* The process is running. *)
Running(c) == clPc[c] \notin {"failed", "quit"}

Connecting(c) == clPc[c] \in {"check", "timed"}

-----------------------------------------------------------------------------
(* The main thread in Client::connect. *)

(* sendEvent with EVENT_NET_CONNECT: Setup, unless it has succeeded        *)
(* before, then connection 0, then the request.  A Setup that got no       *)
(* socket leaves connection 0 without a peer, and the frame goes nowhere.  *)
(* (A Setup that got a socket and no thread sends a request whose answer   *)
(* nobody reads and is followed by one from another socket: to everyone    *)
(* else it is a client of another address that hears nothing.)             *)
SendRequest(c) ==
  /\ \E ok \in CreateSocket : clSetup' = [clSetup EXCEPT ![c] = @ \/ ok]
  /\ clConns' = [clConns EXCEPT ![c] = Put(@, 0, ServerAddress(c))]
  /\ clRequests' = [clRequests EXCEPT ![c] = @ + 1]
  /\ toServer' = IF clSetup'[c]
                 THEN AfterSendToServer({ToServer(c, "CONNECTION_REQUEST", NoKey)})
                 ELSE toServer
  /\ UNCHANGED <<toClient, dups>>

(* The first request, and timer.start(). *)
ClientStart(c) ==
  /\ clPc[c] = "start"
  /\ SendRequest(c)
  /\ clPc' = [clPc EXCEPT ![c] = "check"]
  /\ UNCHANGED <<clAttempts, clExpired, clStatus, clSlot, clNetPc, clNetEv,
                 clServerId, clView,
                 clKeys, clAddress>>

(* The clock passes CONNECTION_TIMEOUT. *)
ClientTick(c) ==
  /\ Connecting(c)
  /\ ~clExpired[c]
  /\ clExpired' = [clExpired EXCEPT ![c] = TRUE]
  /\ UNCHANGED <<wireVars, clPc, clAttempts, clStatus, clSetup, clConns, clSlot,
                 clNetPc, clNetEv, clServerId, clView, clRequests,
                 clKeys, clAddress>>

(* Mutant of TriesLeft: one more. *)
TriesOneMore(c) == clAttempts[c] <= CONNECTION_ATTEMPTS

(* The loop condition, which fails only by the count: a client that has    *)
(* its answer leaves the loop in ClientPoll.                               *)
TriesLeft(c) == clAttempts[c] < CONNECTION_ATTEMPTS

(* The process ends, and nothing of it is left but the frames it sent. *)
EndProcess(c, how) ==
  /\ clPc' = [clPc EXCEPT ![c] = how]
  /\ clAttempts' = [clAttempts EXCEPT ![c] = 0]
  /\ clExpired' = [clExpired EXCEPT ![c] = FALSE]
  /\ clStatus' = [clStatus EXCEPT ![c] = "DISCONNECTED"]
  /\ clSetup' = [clSetup EXCEPT ![c] = FALSE]
  /\ clConns' = [clConns EXCEPT ![c] = EmptyMap]
  /\ clSlot' = [clSlot EXCEPT ![c] = NoEvent]
  /\ clNetPc' = [clNetPc EXCEPT ![c] = "recv"]
  /\ clNetEv' = [clNetEv EXCEPT ![c] = NoEvent]
  /\ clServerId' = [clServerId EXCEPT ![c] = -1]
  /\ clView' = [clView EXCEPT ![c] = EmptyMap]
  /\ UNCHANGED <<wireVars, clRequests, clKeys, clAddress>>

(* The head of the loop.  While the status is CONNECTED the body does      *)
(* nothing and the loop spins: a step that changes no state.               *)
ClientCheck(c) ==
  /\ clPc[c] = "check"
  /\ TriesLeft(c)
  /\ clStatus[c] # "CONNECTED"
  /\ clPc' = [clPc EXCEPT ![c] = "timed"]
  /\ UNCHANGED <<wireVars, clAttempts, clExpired, clStatus, clSetup, clConns,
                 clSlot, clNetPc, clNetEv, clServerId, clView, clRequests,
                 clKeys, clAddress>>

(* Mutant of ClientGiveUp: the loop ends only if the status says so. *)
GiveUpIfConnected(c) ==
  /\ clPc[c] = "check"
  /\ ~TriesLeft(c)
  /\ clStatus[c] = "CONNECTED"
  /\ EndProcess(c, "failed")

(* The loop has ended without an answer: connect() and the program return. *)
ClientGiveUp(c) ==
  /\ clPc[c] = "check"
  /\ ~TriesLeft(c)
  /\ EndProcess(c, "failed")

(* The timer has run out: the request again, and the timer from zero. *)
ClientRetry(c) ==
  /\ clPc[c] = "timed"
  /\ clExpired[c]
  /\ SendRequest(c)
  /\ clAttempts' = [clAttempts EXCEPT ![c] = @ + 1]
  /\ clExpired' = [clExpired EXCEPT ![c] = FALSE]
  /\ clPc' = [clPc EXCEPT ![c] = "check"]
  /\ UNCHANGED <<clStatus, clSlot, clNetPc, clNetEv, clServerId, clView,
                 clKeys, clAddress>>

(* It has not: getEvent, and only EVENT_NET_CONNECT_ACK is looked at.      *)
(* connectCount is gone when connect() returns.                            *)
ClientPoll(c) ==
  /\ clPc[c] = "timed"
  /\ ~clExpired[c]
  /\ clSlot' = [clSlot EXCEPT ![c] = AfterGetEvent(@)]
  /\ \/ /\ clSlot[c].type = "EVENT_NET_CONNECT_ACK"
        /\ clServerId' = [clServerId EXCEPT ![c] = clSlot[c].id]
        /\ clPc' = [clPc EXCEPT ![c] = "play"]
        /\ clAttempts' = [clAttempts EXCEPT ![c] = 0]
     \/ /\ clSlot[c].type # "EVENT_NET_CONNECT_ACK"
        /\ clPc' = [clPc EXCEPT ![c] = "check"]
        /\ UNCHANGED <<clServerId, clAttempts>>
  /\ UNCHANGED <<wireVars, clExpired, clStatus, clSetup, clConns,
                 clNetPc, clNetEv, clView, clRequests,
                 clKeys, clAddress>>

-----------------------------------------------------------------------------
(* The main thread in Client::run. *)

(* sendKey: the frame goes to connection Server_ID.  An id that is not     *)
(* there gets a connection without a peer.                                 *)
SendKey(c, key) ==
  /\ clKeys[c] < MaxKeys
  /\ clKeys' = [clKeys EXCEPT ![c] = @ + 1]
  /\ clConns' = [clConns EXCEPT ![c] = Touch(@, {clServerId[c]}, Nowhere)]
  /\ toServer' = IF clServerId[c] = 0
                 THEN AfterSendToServer({ToServer(c, "DATA_KEY_DOWN", key)})
                 ELSE toServer

(* An update is put over the view; other events are dropped. *)
handleEvent(view, event) ==
  IF event.type = "EVENT_GAMEUPDATE" THEN setGameUpdate(view, event.ents) ELSE view

(* One frame: the event, at most one key, and the drawing, which walks     *)
(* the players.  Nobody has put a negative id among those.                 *)
ClientFrame(c) ==
  /\ clPc[c] = "play"
  /\ clSlot' = [clSlot EXCEPT ![c] = AfterGetEvent(@)]
  /\ clView' = [clView EXCEPT ![c] = getPlayers(handleEvent(@, clSlot[c]))]
  /\ \/ \E key \in Keys : SendKey(c, key)
     \/ UNCHANGED <<clKeys, clConns, toServer>>
  /\ UNCHANGED <<toClient, dups, clPc, clAttempts, clExpired, clStatus, clSetup,
                 clNetPc, clNetEv, clServerId, clRequests, clAddress>>

(* A frame in which the user presses 'q': the program returns. *)
ClientQuit(c) ==
  /\ clPc[c] = "play"
  /\ EndProcess(c, "quit")

ClientMain(c) ==
  \/ ClientStart(c) \/ ClientCheck(c) \/ ClientGiveUp(c)
  \/ ClientRetry(c) \/ ClientPoll(c)
  \/ ClientFrame(c) \/ ClientQuit(c)

(* What of this the main thread does by itself, without its user. *)
ClientRuns(c) ==
  \/ ClientStart(c) \/ ClientCheck(c) \/ ClientGiveUp(c)
  \/ ClientRetry(c) \/ ClientPoll(c)
  \/ ClientFrame(c) /\ UNCHANGED clKeys

-----------------------------------------------------------------------------
(* The network thread: Network::run and addEvent. *)

(* The answer to a request: findId walks the connections. *)
HearAck(c) ==
  \/ /\ WalkEnds(clConns[c])
     /\ clNetEv' = [clNetEv EXCEPT ![c] =
                      NetEvent("EVENT_NET_CONNECT_ACK", findId(clConns[c], Numeric))]
     /\ clNetPc' = [clNetPc EXCEPT ![c] = "post"]
  \/ /\ ~WalkEnds(clConns[c])
     /\ clNetPc' = [clNetPc EXCEPT ![c] = "endless"]
     /\ UNCHANGED clNetEv

HearUpdate(c, ents) ==
  /\ clNetEv' = [clNetEv EXCEPT ![c] = UpdateEvent(ents)]
  /\ clNetPc' = [clNetPc EXCEPT ![c] = "post"]

ClientRecv(c, f) ==
  /\ Running(c) /\ clSetup[c]
  /\ clNetPc[c] = "recv"
  /\ f \in toClient /\ f.to = c
  /\ TakeFrom(toClient, toClient', f)
  /\ toServer' = AfterSendToServer({ToServer(c, t, NoKey) :
                                      t \in AckTypes(f.type)})
  /\ \/ f.type = "CONNECTION_REQUEST_ACK" /\ HearAck(c)
     \/ f.type = "DATA_GAMEUPDATE" /\ HearUpdate(c, f.ents)
     \/ f.type = "ACK" /\ UNCHANGED <<clNetEv, clNetPc>>
  /\ UNCHANGED <<clPc, clAttempts, clExpired, clStatus, clSetup, clConns, clSlot,
                 clServerId, clView, clRequests,
                 clKeys, clAddress>>

(* addEvent; after a CONNECT_ACK the status is still to be set. *)
ClientPost(c) ==
  /\ Running(c)
  /\ clNetPc[c] = "post"
  /\ clSlot' = [clSlot EXCEPT ![c] = clNetEv[c]]
  /\ clNetEv' = [clNetEv EXCEPT ![c] = NoEvent]
  /\ clNetPc' = [clNetPc EXCEPT ![c] =
                   IF clNetEv[c].type = "EVENT_NET_CONNECT_ACK" THEN "status" ELSE "recv"]
  /\ UNCHANGED <<wireVars, clPc, clAttempts, clExpired, clStatus, clSetup, clConns,
                 clServerId, clView, clRequests,
                 clKeys, clAddress>>

(* setStatus(EVENT_NET_CONNECTED) *)
ClientSetStatus(c) ==
  /\ Running(c)
  /\ clNetPc[c] = "status"
  /\ clStatus' = [clStatus EXCEPT ![c] = "CONNECTED"]
  /\ clNetPc' = [clNetPc EXCEPT ![c] = "recv"]
  /\ UNCHANGED <<wireVars, clPc, clAttempts, clExpired, clSetup, clConns, clSlot,
                 clNetEv, clServerId, clView, clRequests,
                 clKeys, clAddress>>

ClientNet(c) ==
  (\E f \in toClient : ClientRecv(c, f)) \/ ClientPost(c) \/ ClientSetStatus(c)

=============================================================================
