----------------------------- MODULE LobbyProofs -----------------------------
(***************************************************************************)
(* Proofs about the connections the program promises: that the game        *)
(* implements the lobby, that whoever has been told it is connected is in  *)
(* the server's list, and that whoever plays is in every update.  The      *)
(* first holds for servers that are not restarted, the others for as many  *)
(* clients as leave room in the list.                                      *)
(***************************************************************************)
EXTENDS PlayerProofs, SequenceTheorems

-----------------------------------------------------------------------------
(* Requests. *)

(* A request on its way comes from a client that has started. *)
StartedInv ==
  \A f \in toServer : f.type = "CONNECTION_REQUEST" => clPc[f.from] # "start"

(* What a step of a client does to its phase, and what it sends. *)
LEMMA ClientPhases ==
  ASSUME IInv, NEW c \in Clients, ClientStep(c)
  PROVE  /\ \E p \in {"start", "check", "timed", "play", "failed", "quit"} :
              /\ clPc' = [clPc EXCEPT ![c] = p]
              /\ \/ p = clPc[c]
                 \/ clPc[c] = "start" /\ p = "check"
                 \/ clPc[c] = "check" /\ p = "timed"
                 \/ clPc[c] = "check" /\ p = "failed"
                 \/ clPc[c] = "timed" /\ p = "check"
                 \/ clPc[c] = "timed" /\ p = "play" /\ Told(c)
                 \/ clPc[c] = "play" /\ p = "quit"
         /\ \/ clPc[c] \in {"start", "timed"} /\ clPc'[c] = "check"
            \/ \A f \in toServer' \ toServer : f.type # "CONNECTION_REQUEST"
         /\ \A f \in toServer' \ toServer : f.from = c
<1>1. clPc \in [Clients -> {"start", "check", "timed", "play", "failed", "quit"}]
  BY DEF IInv, TypeOK, ClientTypeOK
<1> USE <1>1
<1>2. CASE ClientStart(c) \/ ClientRetry(c)
  <2>1. toServer' \subseteq toServer \cup {ToServer(c, "CONNECTION_REQUEST", NoKey)}
    BY <1>2, SendLemma DEF ClientStart, ClientRetry, SendRequest
  <2> QED
    BY <1>2, <2>1 DEF ClientStart, ClientRetry, ToServer
<1>3. CASE ClientCheck(c) \/ ClientGiveUp(c) \/ ClientQuit(c)
  BY <1>3 DEF ClientCheck, ClientGiveUp, ClientQuit, EndProcess, wireVars
<1>4. CASE ClientPoll(c)
  BY <1>4 DEF ClientPoll, wireVars, Told
<1>5. CASE ClientFrame(c)
  <2>1. ASSUME NEW key \in Keys, SendKey(c, key)
        PROVE  toServer' \subseteq toServer \cup {ToServer(c, "DATA_KEY_DOWN", key)}
    BY <2>1, SendLemma DEF SendKey
  <2>2. clPc' = clPc /\ \A f \in toServer' \ toServer : f.type # "CONNECTION_REQUEST" /\ f.from = c
    BY <1>5, <2>1 DEF ClientFrame, ToServer
  <2> QED
    BY <2>2
<1>6. CASE ClientTick(c) \/ ClientPost(c) \/ ClientSetStatus(c)
  BY <1>6 DEF ClientTick, ClientPost, ClientSetStatus, wireVars
<1>7. ASSUME NEW g \in toClient, ClientRecv(c, g)
      PROVE  /\ clPc' = clPc
             /\ \A f \in toServer' \ toServer : f.type # "CONNECTION_REQUEST" /\ f.from = c
  <2>1. toServer' \subseteq toServer \cup {ToServer(c, t, NoKey) : t \in AckTypes(g.type)}
    BY <1>7, SendLemma DEF ClientRecv
  <2>2. \A f \in toServer' \ toServer : f = ToServer(c, "ACK", NoKey)
    BY <2>1, AckTypesLemma
  <2> QED
    BY <1>7, <2>2 DEF ClientRecv, ToServer
<1> QED
  BY <1>2, <1>3, <1>4, <1>5, <1>6, <1>7 DEF ClientStep, ClientMain, ClientNet

(* The server and the network take requests and make none. *)
LEMMA NoNewRequests ==
  ASSUME IInv, ServerStep \/ NetworkStep \/ UNCHANGED vars
  PROVE  toServer' \subseteq toServer /\ UNCHANGED clVars
<1>1. CASE ServerStep
  <2>1. ASSUME NEW f \in toServer, ServerRecv(f) PROVE toServer' \subseteq toServer
    BY <2>1 DEF ServerRecv, TakeFrom
  <2> QED
    BY <1>1, <2>1
       DEF ServerStep, ServerNet, ServerMain, ServerPost, ServerPoll, ServerHandle,
           SendUpdate, GetStuck, ServerRestart, wireVars
<1>2. CASE NetworkStep \/ UNCHANGED vars
  BY <1>2 DEF NetworkStep, Lose, vars, wireVars
<1> QED
  BY <1>1, <1>2

LEMMA StartedStep ==
  ASSUME IInv, StartedInv, [Next]_vars
  PROVE  StartedInv'
<1>1. clPc \in [Clients -> {"start", "check", "timed", "play", "failed", "quit"}]
  BY DEF IInv, TypeOK, ClientTypeOK
<1>2. CASE ServerStep \/ NetworkStep \/ UNCHANGED vars
  BY <1>2, NoNewRequests DEF StartedInv, clVars
<1>3. ASSUME NEW c \in Clients, ClientStep(c) PROVE StartedInv'
  <2>1. PICK p \in {"start", "check", "timed", "play", "failed", "quit"} :
          /\ clPc' = [clPc EXCEPT ![c] = p]
          /\ p = clPc[c] \/ p # "start"
    BY <1>3, ClientPhases
  <2>2. \A b \in Clients : clPc[b] # "start" => clPc'[b] # "start"
    BY <1>1, <2>1
  <2>3. \A f \in toServer : f.from \in Clients
    BY DEF IInv, TypeOK, WireTypeOK, ServerFrame
  <2>4. ASSUME NEW f \in toServer' \ toServer, f.type = "CONNECTION_REQUEST"
        PROVE  clPc'[f.from] # "start"
    BY <1>3, <2>4, ClientPhases
  <2> QED
    BY <2>2, <2>3, <2>4 DEF StartedInv
<1> QED
  BY <1>2, <1>3 DEF Next

LEMMA Started == Spec => []StartedInv
<1>1. Init => StartedInv
  BY DEF Init, WireInit, StartedInv
<1>2. IInv /\ StartedInv /\ [Next]_vars => StartedInv'
  BY StartedStep
<1> QED
  BY <1>1, <1>2, Invariant, PTL DEF Spec

-----------------------------------------------------------------------------
(* The lobby. *)

(* The lobby's ids are a sequence of clients, with those that are known.   *)
LEMMA LobbyIds ==
  ASSUME IInv
  PROVE  /\ lobbyIds \in Seq(Clients) /\ Len(lobbyIds) = svNextId
         /\ DOMAIN lobbyIds = 1..svNextId
         /\ \A i \in 1..svNextId : lobbyIds[i] = svConns[i - 1]
         /\ \A c \in Clients : L!HasId(c) <=> Known(c)
<1>1. svNextId \in Nat /\ \A i \in 0..(svNextId - 1) : svConns[i] \in Clients
  BY DEF IInv, TypeOK, ServerTypeOK, IdsInv, Ids
<1>2. \A i \in 1..svNextId : i - 1 \in 0..(svNextId - 1)
  BY <1>1
<1>3. /\ lobbyIds \in [1..svNextId -> Clients]
      /\ DOMAIN lobbyIds = 1..svNextId
      /\ \A i \in 1..svNextId : lobbyIds[i] = svConns[i - 1]
  BY <1>1, <1>2 DEF lobbyIds
<1>4. lobbyIds \in Seq(Clients) /\ Len(lobbyIds) = svNextId
  BY <1>1, <1>3
<1>5. ASSUME NEW c \in Clients PROVE L!HasId(c) <=> Known(c)
  <2>1. L!HasId(c) <=> \E i \in 1..svNextId : svConns[i - 1] = c
    BY <1>3 DEF L!HasId
  <2>2. ASSUME NEW i \in 0..(svNextId - 1), svConns[i] = c
        PROVE  \E j \in 1..svNextId : svConns[j - 1] = c
    <3>1. i + 1 \in 1..svNextId /\ (i + 1) - 1 = i
      BY <1>1
    <3> QED
      BY <2>2, <3>1
  <2> QED
    BY <1>2, <2>1, <2>2 DEF Known, Ids
<1> QED
  BY <1>3, <1>4, <1>5

(* The same ids, or one more. *)
LEMMA SameIds ==
  ASSUME IInv, IInv', svNextId' = svNextId, \A i \in Ids : svConns'[i] = svConns[i]
  PROVE  lobbyIds' = lobbyIds
<1>1. svNextId \in Nat
  BY DEF IInv, TypeOK, ServerTypeOK
<1>2. \A i \in 1..svNextId : svConns'[i - 1] = svConns[i - 1]
  <2>1. \A i \in 1..svNextId : i - 1 \in Ids
    BY <1>1 DEF Ids
  <2> QED
    BY <2>1
<1> QED
  BY <1>2 DEF lobbyIds

LEMMA OneMoreId ==
  ASSUME IInv, IInv', svNextId' = svNextId + 1, \A i \in Ids : svConns'[i] = svConns[i],
         NEW c \in Clients, svConns'[svNextId] = c
  PROVE  lobbyIds' = Append(lobbyIds, c)
<1>1. PICK n \in Nat : n = svNextId
  BY DEF IInv, TypeOK, ServerTypeOK
<1>2. /\ lobbyIds \in Seq(Clients) /\ Len(lobbyIds) = n
      /\ \A i \in 1..n : lobbyIds[i] = svConns[i - 1]
  BY <1>1, LobbyIds
<1>3. lobbyIds' = [i \in 1..(n + 1) |-> svConns'[i - 1]]
  BY <1>1 DEF lobbyIds
<1>4. Append(lobbyIds, c) = [i \in 1..(n + 1) |-> IF i = n + 1 THEN c ELSE lobbyIds[i]]
  <2>1. /\ Append(lobbyIds, c) \in Seq(Clients)
        /\ Len(Append(lobbyIds, c)) = n + 1
        /\ \A i \in 1..n : Append(lobbyIds, c)[i] = lobbyIds[i]
        /\ Append(lobbyIds, c)[n + 1] = c
    BY <1>2, AppendProperties
  <2> DEFINE A == Append(lobbyIds, c)
  <2> HIDE DEF A
  <2>2. A \in Seq(Clients) /\ Len(A) = n + 1
    BY <2>1 DEF A
  <2>3. A = [i \in 1..(n + 1) |-> A[i]]
    BY <2>2
  <2>4. \A i \in 1..(n + 1) : A[i] = IF i = n + 1 THEN c ELSE lobbyIds[i]
    BY <2>1 DEF A
  <2>5. A = [i \in 1..(n + 1) |-> IF i = n + 1 THEN c ELSE lobbyIds[i]]
    BY <2>3, <2>4
  <2> QED
    BY <2>5 DEF A
<1>5. ASSUME NEW i \in 1..(n + 1)
      PROVE  svConns'[i - 1] = IF i = n + 1 THEN c ELSE lobbyIds[i]
  <2>1. CASE i = n + 1
    BY <1>1, <2>1
  <2>2. CASE i # n + 1
    <3>1. i \in 1..n /\ i - 1 \in Ids
      BY <1>1, <2>2 DEF Ids
    <3> QED
      BY <1>2, <2>2, <3>1
  <2> QED
    BY <2>1, <2>2
<1> QED
  BY <1>3, <1>4, <1>5

(* A step of the server that is not a restart gives at most one id, to the *)
(* sender of a request.                                                    *)
LEMMA ServerIds ==
  ASSUME IInv, IInv', AddressInv, ServerStep, svRestarts' = 0
  PROVE  \/ lobbyIds' = lobbyIds
         \/ \E f \in toServer : /\ f.type = "CONNECTION_REQUEST" /\ ~Known(f.from)
                                /\ lobbyIds' = Append(lobbyIds, f.from)
<1>1. svNextId \in Nat /\ svNextId' \in Nat
  BY DEF IInv, TypeOK, ServerTypeOK
<1>2. ASSUME UNCHANGED <<svConns, svNextId>> PROVE lobbyIds' = lobbyIds
  BY <1>2, SameIds
<1>3. ASSUME NEW f \in toServer, ServerRecv(f)
      PROVE  \/ lobbyIds' = lobbyIds
             \/ /\ f.type = "CONNECTION_REQUEST" /\ ~Known(f.from)
                /\ lobbyIds' = Append(lobbyIds, f.from)
  <2>1. CASE f.type = "CONNECTION_REQUEST"
    <3>1. PICK id \in Nat :
            /\ Ids' = Ids \cup {id}
            /\ svConns'[id] = f.from
            /\ \A i \in Ids : svConns'[i] = svConns[i]
            /\ \/ id = svNextId /\ id \notin Ids
               \/ id \in Ids /\ svConns[id] = f.from
      BY <1>3, <2>1, RegisterEffect
    <3>2. f.from \in Clients
      BY DEF IInv, TypeOK, WireTypeOK, ServerFrame
    <3>3. CASE id \in Ids
      <4>1. svNextId' = svNextId
        BY <1>1, <3>1, <3>3 DEF Ids
      <4> QED
        BY <3>1, <4>1, SameIds
    <3>4. CASE id = svNextId /\ id \notin Ids
      <4>1. svNextId' = svNextId + 1
        BY <1>1, <3>1, <3>4 DEF Ids
      <4>2. ~Known(f.from)
        <5>1. SUFFICES ASSUME NEW i \in Ids, svConns[i] = f.from PROVE FALSE
          BY DEF Known
        <5>2. i \in Ids' /\ id \in Ids' /\ svConns'[i] = svConns'[id] /\ i # id
          BY <3>1, <3>4, <5>1
        <5> QED
          BY <5>2 DEF IInv, IdsInv
      <4> QED
        BY <2>1, <3>1, <3>2, <3>4, <4>1, <4>2, OneMoreId
    <3> QED
      BY <3>1, <3>3, <3>4
  <2>2. CASE f.type = "DATA_KEY_DOWN"
    BY <1>2, <1>3, <2>2, HearKeyEffect
  <2>3. CASE f.type = "ACK"
    BY <1>2, <1>3, <2>3 DEF ServerRecv
  <2> QED
    BY <1>3, <2>1, <2>2, <2>3 DEF ServerRecv
<1>4. CASE ServerPost \/ ServerPoll \/ GetStuck
  BY <1>2, <1>4 DEF ServerPost, ServerPoll, GetStuck, svNetVars
<1>5. CASE ServerHandle
  BY <1>2, <1>5, HandleEffect
<1>6. CASE SendUpdate
  BY <1>2, <1>6, UpdateEffect DEF AddressInv
<1>7. ~ServerRestart
  BY DEF ServerRestart, IInv, TypeOK, ServerTypeOK
<1> QED
  BY <1>3, <1>4, <1>5, <1>6, <1>7 DEF ServerStep, ServerNet, ServerMain

PhaseOf(p) ==
  CASE p = "start" -> "out"
    [] p = "play" -> "playing"
    [] p \in {"failed", "quit"} -> "left"
    [] OTHER -> "joining"

(* A step of a client is one of the lobby's that gives no id. *)
LEMMA ClientLobbyStep ==
  ASSUME IInv, svRestarts = 0, NEW c \in Clients, ClientStep(c)
  PROVE  [L!Next]_(L!lobbyVars)
<1>1. clPc \in [Clients -> {"start", "check", "timed", "play", "failed", "quit"}]
  BY DEF IInv, TypeOK, ClientTypeOK
<1>2. lobbyIds' = lobbyIds
  BY DEF ClientStep, svVars, lobbyIds
<1>3. PICK p \in {"start", "check", "timed", "play", "failed", "quit"} :
        /\ clPc' = [clPc EXCEPT ![c] = p]
        /\ \/ p = clPc[c]
           \/ clPc[c] = "start" /\ p = "check"
           \/ clPc[c] = "check" /\ p = "timed"
           \/ clPc[c] = "check" /\ p = "failed"
           \/ clPc[c] = "timed" /\ p = "check"
           \/ clPc[c] = "timed" /\ p = "play" /\ Told(c)
           \/ clPc[c] = "play" /\ p = "quit"
  BY ClientPhases
<1>4. lobbyPhase = [b \in Clients |-> PhaseOf(clPc[b])]
  BY DEF lobbyPhase, PhaseOf
<1>5. lobbyPhase' = [lobbyPhase EXCEPT ![c] = PhaseOf(p)]
  <2>1. lobbyPhase' = [b \in Clients |-> PhaseOf(clPc'[b])]
    BY DEF lobbyPhase, PhaseOf
  <2> QED
    BY <1>1, <1>3, <1>4, <2>1
<1>6. lobbyPhase[c] = PhaseOf(clPc[c])
  BY <1>4
<1>7. /\ PhaseOf("start") = "out" /\ PhaseOf("play") = "playing"
      /\ PhaseOf("failed") = "left" /\ PhaseOf("quit") = "left"
      /\ PhaseOf("check") = "joining" /\ PhaseOf("timed") = "joining"
  BY DEF PhaseOf
<1>8. CASE PhaseOf(p) = PhaseOf(clPc[c])
  <2>1. lobbyPhase' = lobbyPhase
    BY <1>4, <1>5, <1>6, <1>8
  <2> QED
    BY <1>2, <2>1 DEF L!lobbyVars
<1>9. CASE clPc[c] = "start" /\ p = "check"
  <2>1. L!Join(c)
    BY <1>2, <1>5, <1>6, <1>7, <1>9 DEF L!Join
  <2> QED
    BY <2>1 DEF L!Next
<1>10. CASE \/ clPc[c] = "check" /\ p = "failed"
            \/ clPc[c] = "play" /\ p = "quit"
  <2>1. L!Leave(c)
    BY <1>2, <1>5, <1>6, <1>7, <1>10 DEF L!Leave
  <2> QED
    BY <2>1 DEF L!Next
<1>11. CASE clPc[c] = "timed" /\ p = "play" /\ Told(c)
  <2>1. L!HasId(c)
    BY <1>11, LobbyIds DEF IInv, KnownInv
  <2>2. L!Play(c)
    BY <1>2, <1>5, <1>6, <1>7, <1>11, <2>1 DEF L!Play
  <2> QED
    BY <2>2 DEF L!Next
<1> QED
  BY <1>3, <1>7, <1>8, <1>9, <1>10, <1>11

LEMMA LobbyStep ==
  ASSUME MaxRestarts = 0, IInv, IInv', AddressInv, StartedInv, [Next]_vars
  PROVE  [L!Next]_(L!lobbyVars)
<1>1. svRestarts = 0 /\ svRestarts' = 0
  BY DEF IInv, TypeOK, ServerTypeOK
<1>2. CASE NetworkStep \/ UNCHANGED vars
  BY <1>2 DEF NetworkStep, vars, svVars, clVars, lobbyIds, lobbyPhase, L!lobbyVars
<1>3. ASSUME NEW c \in Clients, ClientStep(c) PROVE [L!Next]_(L!lobbyVars)
  BY <1>1, <1>3, ClientLobbyStep
<1>4. CASE ServerStep
  <2>1. lobbyPhase' = lobbyPhase
    BY <1>4 DEF ServerStep, clVars, lobbyPhase
  <2>2. CASE lobbyIds' = lobbyIds
    BY <2>1, <2>2 DEF L!lobbyVars
  <2>3. ASSUME NEW f \in toServer, f.type = "CONNECTION_REQUEST", ~Known(f.from),
               lobbyIds' = Append(lobbyIds, f.from)
        PROVE  L!Next
    <3>1. f.from \in Clients /\ clPc[f.from] # "start"
      BY <2>3 DEF IInv, TypeOK, WireTypeOK, ServerFrame, StartedInv
    <3>2. lobbyPhase[f.from] # "out"
      BY <3>1 DEF lobbyPhase
    <3>3. ~L!HasId(f.from)
      BY <2>3, <3>1, LobbyIds
    <3>4. L!GiveId(f.from)
      BY <2>1, <2>3, <3>2, <3>3 DEF L!GiveId
    <3> QED
      BY <3>1, <3>4 DEF L!Next
  <2> QED
    BY <1>1, <1>4, <2>2, <2>3, ServerIds
<1> QED
  BY <1>2, <1>3, <1>4 DEF Next

(* A server that is not restarted implements the lobby, however many       *)
(* clients there are and whatever the network does: ids are given in order *)
(* and for good, to those who ask, and nobody plays without one.           *)
THEOREM GameImplementsLobby ==
  ASSUME MaxRestarts = 0
  PROVE  Spec => ImplementsLobby
<1>1. Init => L!Init
  <2>1. SUFFICES ASSUME Init PROVE lobbyIds = <<>> /\ lobbyPhase = [c \in Clients |-> "out"]
    BY DEF L!Init
  <2>2. lobbyIds = <<>>
    BY <2>1 DEF Init, ServerInit, lobbyIds
  <2>3. lobbyPhase = [c \in Clients |-> "out"]
    BY <2>1 DEF Init, ClientInit, lobbyPhase
  <2> QED
    BY <2>2, <2>3
<1>2. IInv /\ IInv' /\ AddressInv /\ StartedInv /\ [Next]_vars => [L!Next]_(L!lobbyVars)
  BY LobbyStep
<1> QED
  BY <1>1, <1>2, Invariant, Addresses, Started, PTL DEF Spec, ImplementsLobby, L!Spec

-----------------------------------------------------------------------------
(* Slots. *)

(* No step of a client makes it believe anything new: an answer that it    *)
(* acts on was on its way to it.                                           *)
LEMMA ClientTold ==
  ASSUME IInv, NEW c \in Clients, ClientStep(c), NEW b \in Clients, Told(b)'
  PROVE  Told(b)
<1>1. ClientTypeOK
  BY DEF IInv, TypeOK
<1>2. NoEvent.type # "EVENT_NET_CONNECT_ACK"
  BY NoEventType
<1>3. toClient' \subseteq toClient
  BY ClientPictures
<1> USE <1>1, <1>2, <1>3 DEF ClientTypeOK
<1>4. CASE ClientStart(c)
  BY <1>4 DEF ClientStart, SendRequest, Told
<1>5. CASE ClientCheck(c) \/ ClientTick(c)
  BY <1>5 DEF ClientCheck, ClientTick, Told
<1>6. CASE ClientGiveUp(c) \/ ClientQuit(c)
  BY <1>6 DEF ClientGiveUp, ClientQuit, EndProcess, Told
<1>7. CASE ClientRetry(c)
  BY <1>7 DEF ClientRetry, SendRequest, Told
<1>8. CASE ClientPoll(c)
  BY <1>8 DEF ClientPoll, AfterGetEvent, Told
<1>9. CASE ClientFrame(c)
  BY <1>9 DEF ClientFrame, AfterGetEvent, Told
<1>10. ASSUME NEW f \in toClient, ClientRecv(c, f) PROVE Told(b)
  <2>1. UNCHANGED <<clPc, clStatus, clSlot>>
    BY <1>10 DEF ClientRecv
  <2>2. CASE f.type = "CONNECTION_REQUEST_ACK"
    <3>1. CASE b = c
      BY <1>10, <2>2, <3>1 DEF ClientRecv, Told
    <3>2. CASE b # c
      BY <1>10, <2>1, <3>2, OthersKept DEF ClientStep, ClientNet, Told
    <3> QED
      BY <3>1, <3>2
  <2>3. CASE f.type = "DATA_GAMEUPDATE"
    <3>1. /\ clNetEv' = [clNetEv EXCEPT ![c] = UpdateEvent(f.ents)]
          /\ clNetPc' = [clNetPc EXCEPT ![c] = "post"]
      BY <1>10, <2>3 DEF ClientRecv, HearUpdate
    <3>2. UpdateEvent(f.ents).type # "EVENT_NET_CONNECT_ACK"
      BY DEF UpdateEvent, Event
    <3> QED
      BY <2>1, <3>1, <3>2 DEF Told
  <2>4. CASE f.type = "ACK"
    BY <1>10, <2>1, <2>4 DEF ClientRecv, Told
  <2> QED
    BY <1>10, <2>2, <2>3, <2>4 DEF ClientRecv
<1>11. CASE ClientPost(c) \/ ClientSetStatus(c)
  BY <1>11 DEF ClientPost, ClientSetStatus, Told
<1> QED
  BY <1>4, <1>5, <1>6, <1>7, <1>8, <1>9, <1>10, <1>11
     DEF ClientStep, ClientMain, ClientNet

(* With more room in the list than there are clients, there is always room *)
(* for one more.                                                           *)
LEMMA RoomForOneMore ==
  ASSUME IInv, IsFiniteSet(Clients), Cardinality(Clients) < MaxClients
  PROVE  Cardinality(DOMAIN svClients) + 1 <= MaxClients
<1>1. /\ svNextId \in Nat /\ DOMAIN svClients \subseteq Ids
      /\ \A i \in Ids : svConns[i] \in Clients
      /\ \A i, j \in Ids : svConns[i] = svConns[j] => i = j
  BY DEF IInv, TypeOK, ServerTypeOK, IdsInv
<1>2. IsFiniteSet(Ids) /\ Cardinality(Ids) \in Nat
  <2>1. svNextId - 1 \in Int
    BY <1>1
  <2>2. IsFiniteSet(Ids)
    BY <2>1, FS_Interval DEF Ids
  <2> QED
    BY <2>2, FS_CardinalityType
<1> DEFINE owner == [i \in Ids |-> svConns[i]]
<1>3. owner \in Injection(Ids, Clients)
  BY <1>1 DEF Injection, IsInjective
<1>4. Cardinality(Ids) <= Cardinality(Clients)
  BY <1>3, FS_Injection
<1>5. Cardinality(DOMAIN svClients) <= Cardinality(Ids)
  BY <1>1, <1>2, FS_Subset
<1>6. Cardinality(Clients) \in Nat /\ Cardinality(DOMAIN svClients) \in Nat
  BY <1>1, <1>2, FS_CardinalityType, FS_Subset
<1> QED
  BY <1>2, <1>4, <1>5, <1>6, ServerAssumption

(* A slot is kept, and an answer goes to a client with a slot. *)
LEMMA ServerLists ==
  ASSUME IInv, IInv', AddressInv, IsFiniteSet(Clients), Cardinality(Clients) < MaxClients,
         ServerStep, svRestarts' = 0, NEW c \in Clients
  PROVE  /\ Listed(c) => Listed(c)'
         /\ \A f \in toClient' \ toClient :
              f.type = "CONNECTION_REQUEST_ACK" /\ f.to = c => Listed(c)'
<1>1. /\ DOMAIN svConns = Ids /\ DOMAIN svConns' = Ids'
      /\ DOMAIN svClients \subseteq Ids
  BY DEF IInv, IdsInv
<1>2. Ids \subseteq Ids' /\ \A i \in Ids : svConns'[i] = svConns[i]
  BY NothingTaken DEF Next
<1>3. ASSUME svClients' = svClients PROVE Listed(c) => Listed(c)'
  BY <1>1, <1>2, <1>3 DEF Listed
<1>4. ASSUME NEW f \in toServer, ServerRecv(f)
      PROVE  /\ svClients' = svClients
             /\ \A g \in toClient' \ toClient : g.type # "CONNECTION_REQUEST_ACK"
  BY <1>4, AckTypesLemma DEF ServerRecv, svMainVars, AfterSendToClients, ToClient
<1>5. CASE ServerPost \/ ServerPoll \/ GetStuck
  BY <1>3, <1>5 DEF ServerPost, ServerPoll, GetStuck, svMainVars, wireVars
<1>6. CASE ServerHandle
  <2>1. svConns' = svConns
    BY <1>6, HandleEffect
  <2>2. CASE HandleConnect
    <3>1. PICK id : id = svEvent.id
      OBVIOUS
    <3>2. /\ id \in Ids
          /\ svClients' = Put(svClients, id, [id |-> id, status |-> "CONNECTED"])
          /\ toClient' = AfterSendToClients(
               FrameTo(svConns, id, "CONNECTION_REQUEST_ACK", EmptyMap))
      BY <2>2, <3>1, RoomForOneMore DEF HandleConnect, addClient, IInv, IdsInv, NamesAnId
    <3>3. /\ DOMAIN svClients' = DOMAIN svClients \cup {id}
          /\ svClients'[id].id = id
          /\ \A i \in DOMAIN svClients \ {id} : svClients'[i] = svClients[i]
      <4> DEFINE slot == [id |-> id, status |-> "CONNECTED"]
      <4>1. slot.id = id /\ svClients' = Put(svClients, id, slot)
        BY <3>2
      <4> HIDE DEF slot
      <4>2. svClients'[id] = slot
        BY <4>1 DEF Put, Overlay
      <4> QED
        BY <4>1, <4>2 DEF Put, Overlay
    <3>4. Listed(c) => Listed(c)'
      BY <1>1, <2>1, <3>3 DEF Listed
    <3>5. ASSUME NEW f \in toClient' \ toClient, f.to = c PROVE Listed(c)'
      <4>1. f \in FrameTo(svConns, id, "CONNECTION_REQUEST_ACK", EmptyMap)
        BY <3>2, <3>5 DEF AfterSendToClients
      <4>2. svConns[id] = c
        BY <1>1, <3>2, <3>5, <4>1 DEF FrameTo, ToClient, Get
      <4> QED
        BY <1>1, <2>1, <3>2, <3>3, <4>2 DEF Listed
    <3> QED
      BY <3>4, <3>5
  <2>3. CASE HandleKey \/ HandleNothing
    BY <1>3, <2>3 DEF HandleKey, HandleNothing
  <2> QED
    BY <1>6, <2>2, <2>3 DEF ServerHandle
<1>7. CASE SendUpdate
  <2>1. svConns' = svConns
    BY <1>7, UpdateEffect DEF AddressInv
  <2>2. /\ DOMAIN svClients \subseteq DOMAIN svClients'
        /\ \A i \in DOMAIN svClients : svClients'[i] = svClients[i]
    <3>1. svClients' = Fill(svClients, ZeroClient)
      BY <1>7 DEF SendUpdate
    <3> QED
      BY <3>1 DEF Fill, Touch, Overlay
  <2>3. \A f \in toClient' \ toClient : f.type # "CONNECTION_REQUEST_ACK"
    <3> DEFINE ids == Recipients(svClients')
    <3>1. toClient' = AfterSendToClients(
            UNION {FrameTo(svConns, id, "DATA_GAMEUPDATE", FirstEnts(svPlayers')) : id \in ids})
      BY <1>7 DEF SendUpdate
    <3>2. ASSUME NEW f \in toClient' \ toClient PROVE f.type = "DATA_GAMEUPDATE"
      <4>1. PICK id \in ids : f \in FrameTo(svConns, id, "DATA_GAMEUPDATE", FirstEnts(svPlayers'))
        BY <3>1, <3>2 DEF AfterSendToClients
      <4> QED
        BY <4>1 DEF FrameTo, ToClient
    <3> QED
      BY <3>2
  <2> QED
    BY <1>1, <2>1, <2>2, <2>3 DEF Listed
<1>8. ~ServerRestart
  BY ServerAssumption DEF ServerRestart, IInv, TypeOK, ServerTypeOK
<1> QED
  BY <1>3, <1>4, <1>5, <1>6, <1>7, <1>8 DEF ServerStep, ServerNet, ServerMain

LEMMA ListedStep ==
  ASSUME IInv, IInv', AddressInv, IsFiniteSet(Clients), Cardinality(Clients) < MaxClients,
         ToldMeansListed, [Next]_vars
  PROVE  ToldMeansListed'
<1> SUFFICES ASSUME svRestarts' = 0, NEW c \in Clients, Told(c)' PROVE Listed(c)'
  BY DEF ToldMeansListed
<1>1. svRestarts = 0
  BY NothingTaken
<1>2. Told(c) => Listed(c)
  BY <1>1 DEF ToldMeansListed
<1>3. CASE ServerStep
  <2>1. \/ Told(c)
        \/ \E f \in toClient' \ toClient : f.to = c /\ f.type = "CONNECTION_REQUEST_ACK"
    BY <1>3 DEF ServerStep, clVars, Told
  <2> QED
    BY <1>2, <1>3, <2>1, ServerLists
<1>4. CASE \E b \in Clients : ClientStep(b)
  <2>1. Told(c) /\ UNCHANGED <<svConns, svClients>>
    BY <1>4, ClientTold DEF ClientStep, svVars
  <2> QED
    BY <1>2, <2>1 DEF Listed
<1>5. CASE NetworkStep \/ UNCHANGED vars
  <2>1. Told(c) /\ UNCHANGED <<svConns, svClients>>
    BY <1>5 DEF NetworkStep, Lose, vars, wireVars, clVars, svVars, Told
  <2> QED
    BY <1>2, <2>1 DEF Listed
<1> QED
  BY <1>3, <1>4, <1>5 DEF Next

(* When the list has room for one more than there are clients, every       *)
(* client that has been told it is connected has a slot of its own, so     *)
(* that updates are sent to it, until the server is restarted.             *)
THEOREM ToldIsListed ==
  ASSUME IsFiniteSet(Clients), Cardinality(Clients) < MaxClients
  PROVE  Spec => []ToldMeansListed
<1>1. Init => ToldMeansListed
  BY NoEventType DEF Init, WireInit, ServerInit, ClientInit, ToldMeansListed, Told
<1>2. IInv /\ IInv' /\ AddressInv /\ ToldMeansListed /\ [Next]_vars => ToldMeansListed'
  BY ListedStep
<1> QED
  BY <1>1, <1>2, Invariant, Addresses, PTL DEF Spec

-----------------------------------------------------------------------------
(* Updates. *)

(* Whoever has a slot has a player: sendUpdate walks the players before    *)
(* the slots, so a slot that the walk adds has one too.                    *)
SlotsHavePlayers == DOMAIN svClients \subseteq DOMAIN svPlayers

LEMMA SlotsStep ==
  ASSUME SlotsHavePlayers, [Next]_vars
  PROVE  SlotsHavePlayers'
<1>1. CASE UNCHANGED svMainVars
  BY <1>1 DEF svMainVars, SlotsHavePlayers
<1>2. CASE ServerHandle
  <2>1. CASE HandleConnect
    <3>1. \/ /\ svPlayers' = Put(svPlayers, svEvent.id, Origin)
             /\ svClients' = Put(svClients, svEvent.id, [id |-> svEvent.id, status |-> "CONNECTED"])
          \/ UNCHANGED <<svPlayers, svClients>>
      BY <2>1 DEF HandleConnect, addClient, addPlayer
    <3> QED
      BY <3>1 DEF SlotsHavePlayers, Put, Overlay
  <2>2. CASE HandleKey
    <3>1. svClients' = svClients /\ DOMAIN svPlayers \subseteq DOMAIN svPlayers'
      BY <2>2 DEF HandleKey, movePlayer, Put, Overlay
    <3> QED
      BY <3>1 DEF SlotsHavePlayers
  <2>3. CASE HandleNothing
    BY <2>3 DEF HandleNothing, SlotsHavePlayers
  <2> QED
    BY <1>2, <2>1, <2>2, <2>3 DEF ServerHandle
<1>3. CASE SendUpdate
  <2>1. /\ DOMAIN svPlayers' = DOMAIN svPlayers \cup Walked(svPlayers)
        /\ DOMAIN svClients' = DOMAIN svClients \cup Walked(svClients)
    BY <1>3, TouchLemma DEF SendUpdate, getGameUpdate, Fill
  <2>2. Walked(svClients) \subseteq Walked(svPlayers)
    BY DEF Walked, SlotsHavePlayers
  <2> QED
    BY <2>1, <2>2 DEF SlotsHavePlayers
<1>4. CASE ServerPoll \/ GetStuck
  BY <1>4 DEF ServerPoll, GetStuck, SlotsHavePlayers
<1>5. CASE ServerRestart
  BY <1>5 DEF ServerRestart, SlotsHavePlayers, EmptyMap
<1>6. CASE ServerNet
  BY <1>1, <1>6 DEF ServerNet, ServerRecv, ServerPost
<1>7. CASE NetworkStep \/ (\E c \in Clients : ClientStep(c)) \/ UNCHANGED vars
  BY <1>1, <1>7 DEF NetworkStep, ClientStep, vars, svVars, svMainVars
<1> QED
  BY <1>2, <1>3, <1>4, <1>5, <1>6, <1>7 DEF Next, ServerStep, ServerMain

(* An update that is sent holds what fits of the players. *)
LEMMA UpdateFrames ==
  ASSUME IInv, [Next]_vars, NEW f \in toClient' \ toClient, f.type = "DATA_GAMEUPDATE"
  PROVE  SendUpdate /\ f.ents = FirstEnts(svPlayers')
<1>1. ServerStep
  <2>1. ~NetworkStep /\ ~UNCHANGED vars
    BY DEF NetworkStep, Lose, vars, wireVars
  <2>2. \A c \in Clients : ~ClientStep(c)
    BY ClientPictures
  <2> QED
    BY <2>1, <2>2 DEF Next
<1>2. ~ServerPost /\ ~ServerPoll /\ ~GetStuck /\ ~ServerRestart
  BY DEF ServerPost, ServerPoll, GetStuck, ServerRestart, wireVars
<1>3. \A g \in toServer : ~ServerRecv(g)
  BY AckTypesLemma DEF ServerRecv, AfterSendToClients, ToClient
<1>4. ~ServerHandle
  BY DEF ServerHandle, HandleConnect, HandleKey, HandleNothing,
         AfterSendToClients, FrameTo, ToClient
<1>5. SendUpdate
  BY <1>1, <1>2, <1>3, <1>4 DEF ServerStep, ServerNet, ServerMain
<1> DEFINE ids == Recipients(svClients')
<1>6. toClient' = AfterSendToClients(
        UNION {FrameTo(svConns, id, "DATA_GAMEUPDATE", FirstEnts(svPlayers')) : id \in ids})
  BY <1>5 DEF SendUpdate
<1>7. PICK id \in ids : f \in FrameTo(svConns, id, "DATA_GAMEUPDATE", FirstEnts(svPlayers'))
  BY <1>6 DEF AfterSendToClients
<1> QED
  BY <1>5, <1>7 DEF FrameTo, ToClient

LEMMA UpdateShowsListed ==
  ASSUME IInv, AddressInv, ToldMeansListed, SlotsHavePlayers, [Next]_vars
  PROVE  ShowsWhoFits
<1> SUFFICES ASSUME svRestarts = 0,
                    NEW f \in toClient' \ toClient, f.type = "DATA_GAMEUPDATE",
                    NEW c \in Clients, clPc[c] = "play", findId(svConns, c) < MaxEnts
             PROVE  findId(svConns, c) \in DOMAIN f.ents
  BY DEF ShowsWhoFits
<1>1. /\ DOMAIN svConns \subseteq Int
      /\ \A i, j \in DOMAIN svConns : svConns[i] = svConns[j] => i = j
  BY DEF IInv, TypeOK, ServerTypeOK, MapOver, IdsInv
<1>2. PICK i \in DOMAIN svConns \cap DOMAIN svClients : svConns[i] = c
  BY DEF ToldMeansListed, Told, Listed
<1>3. findId(svConns, c) = i
  BY <1>1, <1>2, FindIdLemma
<1>4. SendUpdate /\ f.ents = FirstEnts(svPlayers')
  BY UpdateFrames
<1>5. i \in DOMAIN svPlayers'
  <2>1. svPlayers' = Touch(svPlayers, Walked(svPlayers), Origin)
    BY <1>4 DEF SendUpdate, getGameUpdate, Fill
  <2>2. DOMAIN svPlayers \subseteq DOMAIN svPlayers'
    BY <2>1 DEF Touch, Overlay
  <2> QED
    BY <1>2, <2>2 DEF SlotsHavePlayers
<1> QED
  BY <1>3, <1>4, <1>5 DEF FirstEnts

(* With more room in the list than there are clients, every update shows   *)
(* the player of every client that plays, if its id fits in an update.     *)
THEOREM UpdatesShowPlayers ==
  ASSUME IsFiniteSet(Clients), Cardinality(Clients) < MaxClients
  PROVE  Spec => UpdatesShowWhoFits
<1>1. Init => SlotsHavePlayers
  BY DEF Init, ServerInit, SlotsHavePlayers
<1>2. SlotsHavePlayers /\ [Next]_vars => SlotsHavePlayers'
  BY SlotsStep
<1>3. IInv /\ AddressInv /\ ToldMeansListed /\ SlotsHavePlayers /\ [Next]_vars => [ShowsWhoFits]_vars
  BY UpdateShowsListed
<1>4. Spec => []ToldMeansListed
  BY ToldIsListed
<1> QED
  BY <1>1, <1>2, <1>3, <1>4, Invariant, Addresses, PTL DEF Spec, UpdatesShowWhoFits

=============================================================================
