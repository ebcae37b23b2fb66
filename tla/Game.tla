-------------------------------- MODULE Game --------------------------------
(***************************************************************************)
(* The whole program: one server, its clients, the network between them.   *)
(* Every step is a step of one thread of one process, of the clock of a    *)
(* client, of the network, or of the person who restarts the server.       *)
(***************************************************************************)
EXTENDS Server, Client

vars == <<wireVars, svVars, clVars>>

Init == WireInit /\ ServerInit /\ ClientInit

ServerNet == (\E f \in toServer : ServerRecv(f)) \/ ServerPost

ServerStep ==
  /\ ServerNet \/ ServerMain \/ ServerRestart
  /\ UNCHANGED clVars

ClientStep(c) ==
  /\ ClientMain(c) \/ ClientTick(c) \/ ClientNet(c)
  /\ UNCHANGED svVars

NetworkStep == Lose /\ UNCHANGED <<svVars, clVars>>

Next == ServerStep \/ (\E c \in Clients : ClientStep(c)) \/ NetworkStep

Spec == Init /\ [][Next]_vars

(* Every thread runs, and clocks advance. *)
ThreadsRun ==
  /\ WF_vars((\E f \in toServer : ServerRecv(f)) /\ UNCHANGED clVars)
  /\ WF_vars(ServerPost /\ UNCHANGED clVars)
  /\ WF_vars(ServerMain /\ UNCHANGED clVars)
  /\ \A c \in Clients :
       /\ WF_vars(ClientRuns(c) /\ UNCHANGED svVars)
       /\ WF_vars(ClientTick(c) /\ UNCHANGED svVars)
       /\ WF_vars(ClientNet(c) /\ UNCHANGED svVars)

(* A network that does not lose every update it is given. *)
SomeUpdatesArrive ==
  \A c \in Clients :
    SF_vars(/\ \E f \in toClient : f.type = "DATA_GAMEUPDATE" /\ ClientRecv(c, f)
            /\ UNCHANGED svVars)

FairSpec == Spec /\ ThreadsRun
FairNetSpec == FairSpec /\ SomeUpdatesArrive

-----------------------------------------------------------------------------

(* Every variable has a value of its type. *)
TypeOK == WireTypeOK /\ ServerTypeOK /\ ClientTypeOK

(* The walk over the players (Server.cpp:160, GameState.cpp:47) ends: as   *)
(* long as the server has not been restarted, no event has the id -1 that  *)
(* findId returns for a stranger, because a client sends a key only after  *)
(* an answer to a request that has made it known.                          *)
ServerLoopTerminates == svRestarts = 0 => svPc # "endless" /\ WalkEnds(svPlayers)

(* Ids are handed out without gaps, to one address each (Network.cpp:288-  *)
(* 300), whichever requests are lost, repeated or late, and whatever the   *)
(* main thread's operator[] adds to the map.                               *)
RegistrationIsInjective ==
  /\ DOMAIN svConns = 0..(svNextId - 1)
  /\ \A i, j \in DOMAIN svConns : svConns[i] = svConns[j] => i = j

(* c has been told by the server that it is connected. *)
Told(c) ==
  \/ \E f \in toClient : f.to = c /\ f.type = "CONNECTION_REQUEST_ACK"
  \/ clNetEv[c].type = "EVENT_NET_CONNECT_ACK"
  \/ clNetPc[c] = "status"
  \/ clSlot[c].type = "EVENT_NET_CONNECT_ACK"
  \/ clStatus[c] = "CONNECTED"
  \/ clPc[c] = "play"

Listed(c) == \E i \in DOMAIN svConns \cap DOMAIN svClients :
                svConns[i] = c /\ svClients[i].id = i

(* A client that has been told it is connected has a slot of its own on    *)
(* the server, and so is sent updates (Server.cpp:97-104, 169-174), even   *)
(* though the event that asked for the slot may have been overwritten in   *)
(* the mailbox, the slot may have been made by operator[] first, and the   *)
(* answer may belong to another request.  (With more clients than slots    *)
(* it is false: see AnsweredMeansListed of DocClaims.)                     *)
ToldMeansListed == svRestarts = 0 => \A c \in Clients : Told(c) => Listed(c)

(* How far c's player may be from where it started. *)
Presses(c) == clKeys[c] + dups

(* On the server, a player is at most one cell away from its start for     *)
(* every key its own user pressed, and one for every duplicate the network *)
(* made: keys are never played twice or on another player, through the     *)
(* mailbox, the search of the sender's id, retries, and restarts.          *)
PlayersMoveByKeys ==
  \A i \in DOMAIN svPlayers \cap DOMAIN svConns :
    svConns[i] \in Clients => Distance(svPlayers[i], Origin) <= Presses(svConns[i])

(* The same for every picture of the game: in flight, in a client's        *)
(* mailbox or on a client's screen, however old it is.                     *)
Shows(ents) ==
  \A i \in DOMAIN ents :
    /\ i \in DOMAIN svConns
    /\ Distance(ents[i], Origin) <= Presses(svConns[i])

PicturesAreOfPlayers ==
  svRestarts = 0 =>
    /\ \A f \in toClient : Shows(f.ents)
    /\ \A c \in Clients : Shows(clNetEv[c].ents) /\ Shows(clSlot[c].ents) /\ Shows(clView[c])

(* The search for the server's id in a client's connections                *)
(* (Network.cpp:605) ends, unless the client was given the server's        *)
(* address in a form the socket does not report: then its Server_ID is -1, *)
(* and its first key puts that id into the map.                            *)
ClientSearchTerminates ==
  \A c \in Clients : clNetPc[c] = "endless" => clAddress[c] = Name /\ clKeys[c] > 0

(* Otherwise the id a client plays with (Client.cpp:73) is that of its     *)
(* connection to the server, and its keys make no connection to nowhere    *)
(* (Network.cpp:570): whichever of its requests was answered, and whatever *)
(* was posted to its mailbox before or after the answer.                   *)
KeysGoToServer ==
  \A c \in Clients :
    clAddress[c] = Numeric =>
      /\ clPc[c] = "play" => clServerId[c] \in DOMAIN clConns[c]
      /\ \A i \in DOMAIN clConns[c] : clConns[c][i] = Numeric

StepsOrAskedTwice ==
  \A i \in DOMAIN svPlayers \cap DOMAIN svPlayers' \cap DOMAIN svConns :
    Distance(svPlayers[i], svPlayers'[i]) > 1 =>
      clRequests[svConns[i]] > 1 \/ dups > 0

(* A player moves one cell at a time on the server, except that a repeated *)
(* connection request of its client puts it back at its start              *)
(* (Server.cpp:80): one that was sent again, or duplicated on the way.     *)
NoTeleport == [][StepsOrAskedTwice]_vars

ShowsWhoFits ==
  svRestarts = 0 =>
    \A f \in toClient' \ toClient :
      f.type = "DATA_GAMEUPDATE" =>
        \A c \in Clients :
          clPc[c] = "play" /\ findId(svConns, c) < MaxEnts =>
            findId(svConns, c) \in DOMAIN f.ents

(* Every update that is sent while a client plays shows its player, if its *)
(* id is below the number of players an update holds (Network.cpp:582):    *)
(* the limit cuts off ids, and not a player of those that it takes.        *)
UpdatesShowWhoFits == [][ShowsWhoFits]_vars

-----------------------------------------------------------------------------

(* Client::connect comes to an end, or its network thread has set the      *)
(* status to CONNECTED (Client.cpp:50-81): requests, answers and the       *)
(* timer cannot keep it there for ever in any other way.                   *)
ConnectResolves ==
  \A c \in Clients :
    Connecting(c) ~> (clPc[c] \in {"play", "failed"} \/ clStatus[c] = "CONNECTED")

(* A client that plays, and whose player fits in an update, sees its       *)
(* player, unless its user quits first; the updates pass two mailboxes     *)
(* that forget and a network that may lose any of them but not all.        *)
SeesItself ==
  \A c \in Clients :
    clPc[c] = "play" /\ findId(svConns, c) < MaxEnts
      ~> findId(svConns, c) \in DOMAIN clView[c] \/ clPc[c] = "quit"

-----------------------------------------------------------------------------
(* Why the safety properties hold: an invariant every step preserves. *)

Ids == 0..(svNextId - 1)

(* The address of c has an id. *)
Known(c) == \E i \in Ids : svConns[i] = c

(* An event of the server that names an id names one that was given; of a  *)
(* key event that is so until the server is restarted.                     *)
NamesAnId(e) ==
  e.type = "EVENT_NET_CONNECT" \/ (e.type = "EVENT_KEY" /\ svRestarts = 0) => e.id \in Ids

(* Registered clients, and what refers to them: the events on their way to *)
(* the game, the slots, the players, and the clients that were answered.   *)
IdsInv ==
  /\ DOMAIN svConns = Ids
  /\ \A i \in Ids : svConns[i] \in Clients
  /\ \A i, j \in Ids : svConns[i] = svConns[j] => i = j
  /\ NamesAnId(svNetEv) /\ NamesAnId(svSlot) /\ NamesAnId(svEvent)
  /\ DOMAIN svClients \subseteq Ids
  /\ \A i \in DOMAIN svClients : svClients[i].id \in Ids

PlayersInv == svRestarts = 0 => DOMAIN svPlayers \subseteq Ids /\ svPc # "endless"

KeyOnItsWay(c) == \E f \in toServer : f.from = c /\ f.type = "DATA_KEY_DOWN"

(* A client that was answered is known, and so is one whose key is on its  *)
(* way, since it was answered before.                                      *)
KnownInv ==
  svRestarts = 0 =>
    \A c \in Clients : Told(c) \/ KeyOnItsWay(c) => Known(c)

(* connect() sends one request more than it has counted. *)
RequestsInv ==
  \A c \in Clients :
    /\ clPc[c] = "start" => clRequests[c] = 0 /\ clAttempts[c] = 0
    /\ Connecting(c) => clRequests[c] = clAttempts[c] + 1
    /\ clPc[c] = "timed" => TriesLeft(c)

IInv == TypeOK /\ IdsInv /\ PlayersInv /\ KnownInv /\ RequestsInv

-----------------------------------------------------------------------------
(* The game implements the lobby. *)

lobbyIds == [i \in 1..svNextId |-> svConns[i - 1]]

lobbyPhase ==
  [c \in Clients |-> CASE clPc[c] = "start" -> "out"
                       [] clPc[c] = "play" -> "playing"
                       [] clPc[c] \in {"failed", "quit"} -> "left"
                       [] OTHER -> "joining"]

L == INSTANCE Lobby WITH ids <- lobbyIds, phase <- lobbyPhase

(* Every step of the program is a step of the lobby or none: no id is ever *)
(* taken back, changed or given twice, and nobody plays without one.       *)
ImplementsLobby == L!Spec

=============================================================================
