------------------------------- MODULE Server -------------------------------
(***************************************************************************)
(* The server: Network::run in its own thread receives frames, registers   *)
(* the addresses it hears from and posts events; Server::run in the main   *)
(* thread takes one event a frame, plays it on the game and sends every    *)
(* client the positions of the players.  The two threads share the         *)
(* connections and the mailbox; only the mailbox has a lock.               *)
(***************************************************************************)
EXTENDS Network

CONSTANTS
  MaxClients,   \* 32, the limit addClient tests
  MaxEnts,      \* 8, the players that fit in one update frame
  MaxRestarts   \* bound: times the server is killed and started again

ASSUME ServerAssumption ==
  MaxClients \in Nat /\ MaxEnts \in Nat /\ MaxRestarts \in Nat

VARIABLES
  svUp,         \* did Network::Setup get a socket and a thread?
  svNetPc,      \* network thread: "recv", or "post" with an event in hand
  svNetEv,      \* that event
  svConns,      \* Network::connections, id -> address
  svNextId,     \* Network::nextId
  svSlot,       \* Network::eventList, the mailbox
  svPc,         \* main thread: "poll", "handle", "update"; "endless" in a
                \*   walk over the players that does not stop
  svEvent,      \* the event of this server frame
  svClients,    \* Server::clients, id -> SV_Client
  svPlayers,    \* Server::state
  svRestarts

svVars == <<svUp, svNetPc, svNetEv, svConns, svNextId, svSlot, svPc, svEvent,
            svClients, svPlayers, svRestarts>>
svMainVars == <<svPc, svEvent, svClients, svPlayers>>
svNetVars  == <<svNetPc, svNetEv, svNextId>>

(* A connection that operator[] made has no address. *)
NoAddress == "no address"

(* SV_Client: what is read of it, and the all-zero one operator[] makes. *)
SV_Client == [id : Nat, status : {"UNKNOWN", "CONNECTED"}]
ZeroClient == [id |-> 0, status |-> "UNKNOWN"]

ServerTypeOK ==
  /\ svUp \in BOOLEAN
  /\ svNetPc \in {"recv", "post"}
  /\ IsEvent(svNetEv)
  /\ MapOver(svConns, Int, Clients \cup {NoAddress})
  /\ svNextId \in Nat
  /\ IsEvent(svSlot)
  /\ svPc \in {"poll", "handle", "update", "endless"}
  /\ IsEvent(svEvent)
  /\ MapOver(svClients, Nat, SV_Client)
  /\ MapOver(svPlayers, Int, Position)
  /\ svRestarts \in 0..MaxRestarts

(* A new process: Server::Server, then Setup, whose failure Server::run    *)
(* does not look at.                                                       *)
ServerInit ==
  /\ svUp \in CreateSocket
  /\ svNetPc = "recv"
  /\ svNetEv = NoEvent
  /\ svConns = EmptyMap
  /\ svNextId = 0
  /\ svSlot = NoEvent
  /\ svPc = "poll"
  /\ svEvent = NoEvent
  /\ svClients = EmptyMap
  /\ svPlayers = EmptyMap
  /\ svRestarts = 0

-----------------------------------------------------------------------------
(* The network thread: Network::run and addEvent. *)

(* Mutant of Register: nextId stays as it is. *)
RegisterSameId(c) ==
  LET known == findId(svConns, c)
      id == IF known = -1 THEN svNextId ELSE known
  IN  /\ svConns' = Put(svConns, id, c)
      /\ svNetEv' = NetEvent("EVENT_NET_CONNECT", id)
      /\ svNetPc' = "post"
      /\ UNCHANGED svNextId

(* A CONNECTION_REQUEST: the address keeps the id it has, or gets the next *)
(* one, and the connection is written anew.                                *)
Register(c) ==
  LET known == findId(svConns, c)
      id == IF known = -1 THEN svNextId ELSE known
  IN  /\ svNextId' = IF known = -1 THEN svNextId + 1 ELSE svNextId
      /\ svConns' = Put(svConns, id, c)
      /\ svNetEv' = NetEvent("EVENT_NET_CONNECT", id)
      /\ svNetPc' = "post"

(* A key press: its event carries -1 when the address is not known. *)
HearKey(c, key) ==
  /\ svNetEv' = KeyEvent(findId(svConns, c), key)
  /\ svNetPc' = "post"
  /\ UNCHANGED <<svConns, svNextId>>

ServerRecv(f) ==
  /\ svUp
  /\ svNetPc = "recv"
  /\ f \in toServer
  /\ TakeFrom(toServer, toServer', f)
  /\ toClient' = AfterSendToClients({ToClient(f.from, t, EmptyMap) :
                                       t \in AckTypes(f.type)})
  /\ \/ f.type = "CONNECTION_REQUEST" /\ Register(f.from)
     \/ f.type = "DATA_KEY_DOWN" /\ HearKey(f.from, f.key)
     \/ f.type = "ACK" /\ UNCHANGED <<svConns, svNetPc, svNetEv, svNextId>>
  /\ UNCHANGED <<svUp, svSlot, svMainVars, svRestarts>>

(* addEvent: the mailbox holds one event, the last. *)
ServerPost ==
  /\ svNetPc = "post"
  /\ svSlot' = svNetEv
  /\ svNetEv' = NoEvent
  /\ svNetPc' = "recv"
  /\ UNCHANGED <<wireVars, svUp, svConns, svNextId, svMainVars, svRestarts>>

-----------------------------------------------------------------------------
(* The main thread: Server::run. *)

ServerPoll ==
  /\ svPc = "poll"
  /\ svEvent' = svSlot
  /\ svSlot' = AfterGetEvent(svSlot)
  /\ svPc' = "handle"
  /\ UNCHANGED <<wireVars, svUp, svNetVars, svConns, svClients, svPlayers,
                 svRestarts>>

(* Network::sendEvent to the connection of an id: an id without one gets   *)
(* an empty connection, and a frame to that goes nowhere.                  *)
FrameTo(connections, id, type, ents) ==
  {ToClient(c, type, ents) : c \in {Get(connections, id, NoAddress)} \ {NoAddress}}

(* Mutant of addClient: the slot is the next free one, not that of the id. *)
AddAtEnd(id) ==
  IF Cardinality(DOMAIN svClients) + 1 <= MaxClients
  THEN /\ svPlayers' = addPlayer(svPlayers, id)
       /\ svClients' = Put(svClients, Cardinality(DOMAIN svClients),
                           [id |-> id, status |-> "CONNECTED"])
  ELSE UNCHANGED <<svPlayers, svClients>>

(* addClient: another player and another slot under the event's id, if     *)
(* there is room for one more, also when the id has them already.          *)
addClient(id) ==
  IF Cardinality(DOMAIN svClients) + 1 <= MaxClients
  THEN /\ svPlayers' = addPlayer(svPlayers, id)
       /\ svClients' = Put(svClients, id, [id |-> id, status |-> "CONNECTED"])
  ELSE UNCHANGED <<svPlayers, svClients>>

(* handleNetEvent: the answer goes out whatever addClient returned. *)
HandleConnect ==
  /\ svEvent.type = "EVENT_NET_CONNECT"
  /\ addClient(svEvent.id)
  /\ svConns' = Touch(svConns, {svEvent.id}, NoAddress)
  /\ toClient' = AfterSendToClients(
       FrameTo(svConns, svEvent.id, "CONNECTION_REQUEST_ACK", EmptyMap))

(* Mutant of HandleKey: any event that is not a connection is a key. *)
HandleAsKey ==
  /\ svEvent.type # "EVENT_NET_CONNECT"
  /\ svPlayers' = movePlayer(svPlayers, svEvent.id, svEvent.key)
  /\ UNCHANGED <<svConns, svClients, toClient>>

(* handleKeyEvent *)
HandleKey ==
  /\ svEvent.type = "EVENT_KEY"
  /\ svPlayers' = movePlayer(svPlayers, svEvent.id, svEvent.key)
  /\ UNCHANGED <<svConns, svClients, toClient>>

HandleNothing ==
  /\ svEvent.type \notin {"EVENT_NET_CONNECT", "EVENT_KEY"}
  /\ UNCHANGED <<svConns, svPlayers, svClients, toClient>>

ServerHandle ==
  /\ svPc = "handle"
  /\ svPc' = "update"
  /\ HandleConnect \/ HandleKey \/ HandleNothing
  /\ UNCHANGED <<toServer, dups, svUp, svNetVars, svSlot, svEvent, svRestarts>>

(* Mutant of FirstEnts: the last place of the frame is not used. *)
AllButLastEnt(players) ==
  [i \in {k \in DOMAIN players : k + 1 < MaxEnts} |-> players[i]]

(* The players an update frame has room for. *)
FirstEnts(players) ==
  [i \in {k \in DOMAIN players : k < MaxEnts} |-> players[i]]

(* Mutant of Recipients: the walk starts at 1. *)
AllButFirst(clients) == {clients[i].id : i \in DOMAIN clients \ {0}}

(* Whom an update goes to: the id in each slot, which in a slot that       *)
(* operator[] made is 0.                                                   *)
Recipients(clients) == {clients[i].id : i \in DOMAIN clients}

(* sendUpdate: the walk over the players, then the walk over the clients,  *)
(* with a frame to the id each of them holds.                              *)
SendUpdate ==
  /\ svPc = "update"
  /\ WalkEnds(svPlayers)
  /\ svPlayers' = getGameUpdate(svPlayers)
  /\ svClients' = Fill(svClients, ZeroClient)
  /\ LET ids == Recipients(svClients')
     IN  /\ svConns' = Touch(svConns, ids, NoAddress)
         /\ toClient' = AfterSendToClients(
              UNION {FrameTo(svConns, id, "DATA_GAMEUPDATE", FirstEnts(svPlayers')) :
                       id \in ids})
  /\ svEvent' = NoEvent
  /\ svPc' = "poll"
  /\ UNCHANGED <<toServer, dups, svUp, svNetVars, svSlot, svRestarts>>

(* The walk over the players does not stop: the main thread never returns  *)
(* from getGameUpdate.                                                     *)
GetStuck ==
  /\ svPc = "update"
  /\ ~WalkEnds(svPlayers)
  /\ svPc' = "endless"
  /\ UNCHANGED <<wireVars, svUp, svNetVars, svConns, svSlot, svEvent, svClients,
                 svPlayers, svRestarts>>

ServerMain == ServerPoll \/ ServerHandle \/ SendUpdate \/ GetStuck

-----------------------------------------------------------------------------

(* The server is killed and run again, on the same port: it remembers      *)
(* nothing, and the clients notice nothing.                                *)
ServerRestart ==
  /\ svUp
  /\ svRestarts < MaxRestarts
  /\ svRestarts' = svRestarts + 1
  /\ svNetPc' = "recv"
  /\ svNetEv' = NoEvent
  /\ svConns' = EmptyMap
  /\ svNextId' = 0
  /\ svSlot' = NoEvent
  /\ svPc' = "poll"
  /\ svEvent' = NoEvent
  /\ svClients' = EmptyMap
  /\ svPlayers' = EmptyMap
  /\ UNCHANGED <<wireVars, svUp>>

=============================================================================
