---------------------------- MODULE PlayerProofs ----------------------------
(***************************************************************************)
(* Proofs about what a user's keys do: to the connections of the client,   *)
(* whose search for the server they can keep from ending, and to the       *)
(* player on the server and its pictures, however many clients there are   *)
(* and whatever the network does.                                          *)
(***************************************************************************)
EXTENDS GameProofs, FiniteSetTheorems

-----------------------------------------------------------------------------
(* What the steps of the server do to the ids, the events and the players. *)

(* A registration gives the sender an id, the next one or the one it has,  *)
(* and leaves the others theirs.                                           *)
LEMMA RegisterEffect ==
  ASSUME IInv, NEW f \in toServer, ServerRecv(f), f.type = "CONNECTION_REQUEST"
  PROVE  \E id \in Nat :
           /\ Ids' = Ids \cup {id}
           /\ svConns'[id] = f.from
           /\ \A i \in Ids : svConns'[i] = svConns[i]
           /\ \/ id = svNextId /\ id \notin Ids
              \/ id \in Ids /\ svConns[id] = f.from
           /\ svNetEv' = NetEvent("EVENT_NET_CONNECT", id)
<1>1. /\ svNextId \in Nat /\ DOMAIN svConns = Ids
      /\ \A i, j \in Ids : svConns[i] = svConns[j] => i = j
  BY DEF IInv, TypeOK, ServerTypeOK, IdsInv
<1> DEFINE known == findId(svConns, f.from)
           id == IF known = -1 THEN svNextId ELSE known
<1>2. known = -1 \/ (known \in Ids /\ svConns[known] = f.from)
  BY <1>1, FindIdLemma DEF Ids
<1> HIDE DEF known
<1>3. /\ svNextId' = IF known = -1 THEN svNextId + 1 ELSE svNextId
      /\ svConns' = Put(svConns, id, f.from)
      /\ svNetEv' = NetEvent("EVENT_NET_CONNECT", id)
  BY DEF ServerRecv, Register, known
<1>4. id \in Nat /\ Ids' = Ids \cup {id}
  BY <1>1, <1>2, <1>3 DEF Ids
<1>5. \/ id = svNextId /\ id \notin Ids
      \/ id \in Ids /\ svConns[id] = f.from
  <2>1. CASE known = -1
    BY <1>1, <2>1 DEF Ids
  <2>2. CASE known \in Ids /\ svConns[known] = f.from
    <3>1. known # -1
      BY <1>1, <2>2 DEF Ids
    <3> QED
      BY <2>2, <3>1
  <2> QED
    BY <1>2, <2>1, <2>2
<1> HIDE DEF id
<1>6. svConns'[id] = f.from /\ \A i \in Ids \ {id} : svConns'[i] = svConns[i]
  BY <1>1, <1>3, PutValue, PutOthers
<1>7. \A i \in Ids : svConns'[i] = svConns[i]
  BY <1>5, <1>6
<1> QED
  BY <1>3, <1>4, <1>5, <1>6, <1>7

(* A key that is received becomes an event of its sender's id, or of -1.   *)
LEMMA HearKeyEffect ==
  ASSUME IInv, NEW f \in toServer, ServerRecv(f), f.type = "DATA_KEY_DOWN"
  PROVE  /\ UNCHANGED <<svConns, svNextId>>
         /\ svNetEv'.type = "EVENT_KEY"
         /\ \/ svNetEv'.id = -1
            \/ svNetEv'.id \in Ids /\ svConns[svNetEv'.id] = f.from
<1>1. /\ svNextId \in Nat /\ DOMAIN svConns = Ids
      /\ \A i, j \in Ids : svConns[i] = svConns[j] => i = j
  BY DEF IInv, TypeOK, ServerTypeOK, IdsInv
<1> DEFINE known == findId(svConns, f.from)
<1>2. known = -1 \/ (known \in Ids /\ svConns[known] = f.from)
  BY <1>1, FindIdLemma DEF Ids
<1> HIDE DEF known
<1>3. UNCHANGED <<svConns, svNextId>> /\ svNetEv' = KeyEvent(known, f.key)
  BY DEF ServerRecv, HearKey, known
<1>4. svNetEv'.type = "EVENT_KEY" /\ svNetEv'.id = known
  BY <1>3 DEF KeyEvent, Event
<1> QED
  BY <1>2, <1>3, <1>4

(* Playing an event replaces the player of an id by a new one, or moves a  *)
(* player, or does nothing.                                                *)
LEMMA HandleEffect ==
  ASSUME IInv, ServerHandle
  PROVE  /\ svPc = "handle" /\ svPc' = "update"
         /\ UNCHANGED <<toServer, dups, svNetEv, svSlot, svEvent, svNextId, svConns>>
         /\ \/ svPlayers' = svPlayers
            \/ /\ svEvent.type = "EVENT_NET_CONNECT" /\ svEvent.id \in Ids
               /\ svPlayers' = Put(svPlayers, svEvent.id, Origin)
            \/ /\ svEvent.type = "EVENT_KEY"
               /\ svPlayers' = movePlayer(svPlayers, svEvent.id, svEvent.key)
<1>1. /\ svPc = "handle" /\ svPc' = "update"
      /\ UNCHANGED <<toServer, dups, svNetEv, svSlot, svEvent, svNextId>>
  BY DEF ServerHandle, svNetVars
<1>2. CASE HandleConnect
  <2>1. svEvent.type = "EVENT_NET_CONNECT" /\ svEvent.id \in Ids
    BY <1>2 DEF HandleConnect, IInv, IdsInv, NamesAnId
  <2>2. svConns' = svConns
    BY <1>2, <2>1, TouchNothing
    DEF HandleConnect, IInv, TypeOK, IdsInv, ServerTypeOK, MapOver
  <2>3. \/ svPlayers' = svPlayers
        \/ svPlayers' = Put(svPlayers, svEvent.id, Origin)
    BY <1>2 DEF HandleConnect, addClient, addPlayer
  <2> QED
    BY <1>1, <2>1, <2>2, <2>3
<1>3. CASE HandleKey
  BY <1>1, <1>3 DEF HandleKey
<1>4. CASE HandleNothing
  BY <1>1, <1>4 DEF HandleNothing
<1> QED
  BY <1>2, <1>3, <1>4 DEF ServerHandle

(* Sending the updates adds new players, only at ids, and changes none.    *)
LEMMA UpdateEffect ==
  ASSUME IInv, SendUpdate, DOMAIN svPlayers \subseteq Ids \cup {-1}
  PROVE  /\ svPc' = "poll" /\ svEvent' = NoEvent
         /\ UNCHANGED <<toServer, dups, svNetEv, svSlot, svNextId, svConns>>
         /\ DOMAIN svPlayers \subseteq Ids /\ DOMAIN svPlayers' \subseteq Ids
         /\ \A i \in DOMAIN svPlayers : svPlayers'[i] = svPlayers[i]
         /\ \A i \in DOMAIN svPlayers' \ DOMAIN svPlayers : svPlayers'[i] = Origin
<1>1. /\ svPc' = "poll" /\ svEvent' = NoEvent
      /\ WalkEnds(svPlayers)
      /\ svPlayers' = Fill(svPlayers, Origin)
      /\ svClients' = Fill(svClients, ZeroClient)
      /\ svConns' = Touch(svConns, Recipients(svClients'), NoAddress)
      /\ UNCHANGED <<toServer, dups, svNetEv, svNextId, svSlot>>
  BY DEF SendUpdate, svNetVars, getGameUpdate
<1>2. /\ svNextId \in Nat /\ DOMAIN svConns = Ids
      /\ svConns = [k \in DOMAIN svConns |-> svConns[k]]
      /\ DOMAIN svClients \subseteq Ids /\ \A i \in DOMAIN svClients : svClients[i].id \in Ids
  BY DEF IInv, TypeOK, ServerTypeOK, IdsInv, MapOver
<1>3. DOMAIN svPlayers \subseteq 0..(svNextId - 1)
  BY <1>1, <1>2 DEF WalkEnds, Ids
<1>4. /\ DOMAIN svPlayers' \subseteq 0..(svNextId - 1)
      /\ \A i \in DOMAIN svPlayers : svPlayers'[i] = svPlayers[i]
      /\ \A i \in DOMAIN svPlayers' \ DOMAIN svPlayers : svPlayers'[i] = Origin
  BY <1>1, <1>2, <1>3, FillDomain
<1>5. svConns' = svConns
  <2>1. /\ DOMAIN svClients' \subseteq 0..(svNextId - 1)
        /\ \A i \in DOMAIN svClients : svClients'[i] = svClients[i]
        /\ \A i \in DOMAIN svClients' \ DOMAIN svClients : svClients'[i] = ZeroClient
    BY <1>1, <1>2, FillDomain DEF Ids
  <2>2. ASSUME NEW i \in DOMAIN svClients' PROVE svClients'[i].id \in Ids
    <3>1. CASE i \in DOMAIN svClients
      BY <1>2, <2>1, <3>1
    <3>2. CASE i \notin DOMAIN svClients
      BY <1>2, <2>1, <2>2, <3>2 DEF ZeroClient, Ids
    <3> QED
      BY <3>1, <3>2
  <2>3. Recipients(svClients') \subseteq DOMAIN svConns
    BY <1>2, <2>2 DEF Recipients
  <2> QED
    BY <1>1, <1>2, <2>3, TouchNothing
<1> QED
  BY <1>1, <1>3, <1>4, <1>5 DEF Ids

-----------------------------------------------------------------------------
(* What the steps of a client do to the others, and to the frames. *)

(* A step of one client leaves the others as they are. *)
LEMMA OthersKept ==
  ASSUME IInv, NEW c \in Clients, ClientStep(c), NEW b \in Clients \ {c}
  PROVE  /\ clConns'[b] = clConns[b] /\ clSetup'[b] = clSetup[b]
         /\ clNetPc'[b] = clNetPc[b] /\ clNetEv'[b] = clNetEv[b]
         /\ clSlot'[b] = clSlot[b] /\ clPc'[b] = clPc[b]
         /\ clServerId'[b] = clServerId[b] /\ clKeys'[b] = clKeys[b]
         /\ clView'[b] = clView[b] /\ clRequests'[b] = clRequests[b]
<1>1. ClientTypeOK
  BY DEF IInv, TypeOK
<1> USE <1>1 DEF ClientTypeOK
<1>2. CASE ClientStart(c)
  BY <1>2 DEF ClientStart, SendRequest
<1>3. CASE ClientCheck(c)
  BY <1>3 DEF ClientCheck
<1>4. CASE ClientGiveUp(c) \/ ClientQuit(c)
  BY <1>4 DEF ClientGiveUp, ClientQuit, EndProcess
<1>5. CASE ClientRetry(c)
  BY <1>5 DEF ClientRetry, SendRequest
<1>6. CASE ClientPoll(c)
  BY <1>6 DEF ClientPoll
<1>7. CASE ClientFrame(c)
  BY <1>7 DEF ClientFrame, SendKey
<1>8. CASE ClientTick(c)
  BY <1>8 DEF ClientTick
<1>9. CASE \E f \in toClient : ClientRecv(c, f)
  BY <1>9 DEF ClientRecv, HearAck, HearUpdate
<1>10. CASE ClientPost(c) \/ ClientSetStatus(c)
  BY <1>10 DEF ClientPost, ClientSetStatus
<1> QED
  BY <1>2, <1>3, <1>4, <1>5, <1>6, <1>7, <1>8, <1>9, <1>10
     DEF ClientStep, ClientMain, ClientNet

(* The only keys sent are those that are counted, one at a time, by a      *)
(* client that plays and knows the server as 0.                            *)
LEMMA ClientSends ==
  ASSUME IInv, NEW c \in Clients, ClientStep(c)
  PROVE  /\ clAddress' = clAddress /\ UNCHANGED svVars
         /\ dups' \in 0..MaxDup /\ dups' >= dups
         /\ \/ /\ clKeys' = clKeys
               /\ \A f \in toServer' \ toServer : f.type # "DATA_KEY_DOWN"
            \/ /\ clPc[c] = "play"
               /\ clKeys' = [clKeys EXCEPT ![c] = @ + 1]
               /\ \E key \in Keys : toServer' \subseteq toServer \cup {ToServer(c, "DATA_KEY_DOWN", key)}
               /\ clServerId[c] # 0 => toServer' = toServer
<1>1. dups \in 0..MaxDup /\ UNCHANGED svVars /\ MaxDup \in Nat
  BY WireAssumption DEF IInv, TypeOK, WireTypeOK, ClientStep
<1> USE <1>1
<1>2. CASE ClientStart(c) \/ ClientRetry(c)
  <2>1. \A f \in toServer' \ toServer : f.type = "CONNECTION_REQUEST"
    BY <1>2, SendRequestLemma DEF ClientStart, ClientRetry
  <2>2. UNCHANGED <<clAddress, clKeys, dups>>
    BY <1>2 DEF ClientStart, ClientRetry, SendRequest
  <2> QED
    BY <2>1, <2>2
<1>3. CASE ClientCheck(c) \/ ClientPoll(c) \/ ClientTick(c) \/ ClientPost(c) \/ ClientSetStatus(c)
  BY <1>3 DEF ClientCheck, ClientPoll, ClientTick, ClientPost, ClientSetStatus, wireVars
<1>4. CASE ClientGiveUp(c) \/ ClientQuit(c)
  BY <1>4 DEF ClientGiveUp, ClientQuit, EndProcess, wireVars
<1>5. CASE ClientFrame(c)
  <2>1. clPc[c] = "play" /\ clAddress' = clAddress /\ dups' = dups
    BY <1>5 DEF ClientFrame
  <2>2. CASE UNCHANGED <<clKeys, clConns, toServer>>
    BY <2>1, <2>2
  <2>3. ASSUME NEW key \in Keys, SendKey(c, key)
        PROVE  /\ clKeys' = [clKeys EXCEPT ![c] = @ + 1]
               /\ toServer' \subseteq toServer \cup {ToServer(c, "DATA_KEY_DOWN", key)}
               /\ clServerId[c] # 0 => toServer' = toServer
    BY <2>3, SendLemma DEF SendKey
  <2> QED
    BY <1>5, <2>1, <2>2, <2>3 DEF ClientFrame
<1>6. ASSUME NEW f \in toClient, ClientRecv(c, f)
      PROVE  /\ UNCHANGED <<clAddress, clKeys>>
             /\ dups' \in 0..MaxDup /\ dups' >= dups
             /\ \A g \in toServer' \ toServer : g.type # "DATA_KEY_DOWN"
  <2>1. UNCHANGED <<clAddress, clKeys>>
    BY <1>6 DEF ClientRecv
  <2>2. dups' \in 0..MaxDup /\ dups' >= dups
    BY <1>6 DEF ClientRecv, TakeFrom
  <2>3. toServer' \subseteq toServer \cup {ToServer(c, t, NoKey) : t \in AckTypes(f.type)}
    BY <1>6, SendLemma DEF ClientRecv
  <2>4. \A g \in toServer' \ toServer : g = ToServer(c, "ACK", NoKey)
    BY <2>3, AckTypesLemma
  <2> QED
    BY <2>1, <2>2, <2>4 DEF ToServer
<1> QED
  BY <1>2, <1>3, <1>4, <1>5, <1>6 DEF ClientStep, ClientMain, ClientNet

-----------------------------------------------------------------------------
(* The address of the server. *)

(* Server_ID is 0 for a client whose server's address is reported as the   *)
(* user gave it, and -1 for another.                                       *)
ServerIdOf(c) == IF clAddress[c] = Numeric THEN 0 ELSE -1

AnswerNamesIt(c, e) ==
  e.type = "EVENT_NET_CONNECT_ACK" => e.id = ServerIdOf(c) /\ clSetup[c]

(* The connections of c: the server, and, if its search cannot find that,  *)
(* the one that its keys have made.                                        *)
ConnsInv(c) ==
  /\ clSetup[c] => 0 \in DOMAIN clConns[c]
  /\ 0 \in DOMAIN clConns[c] => clConns[c][0] = clAddress[c]
  /\ -1 \in DOMAIN clConns[c] =>
       clConns[c][-1] = Nowhere /\ clAddress[c] = Name /\ clKeys[c] > 0
  /\ clNetPc[c] = "endless" => -1 \in DOMAIN clConns[c]
  /\ AnswerNamesIt(c, clNetEv[c]) /\ AnswerNamesIt(c, clSlot[c])
  /\ clPc[c] = "play" => clServerId[c] = ServerIdOf(c) /\ clSetup[c]

(* A key that has arrived is that of a client that can send keys, or of    *)
(* one that a restarted server does not know.                              *)
KeyIsOf(e) ==
  e.type = "EVENT_KEY" =>
    \/ e.id = -1
    \/ e.id \in Ids /\ clAddress[svConns[e.id]] = Numeric

AddressInv ==
  /\ \A c \in Clients : ConnsInv(c)
  /\ \A f \in toServer : f.type = "DATA_KEY_DOWN" => clAddress[f.from] = Numeric
  /\ KeyIsOf(svNetEv) /\ KeyIsOf(svSlot) /\ KeyIsOf(svEvent)
  /\ DOMAIN svPlayers \subseteq Ids \cup {-1}

LEMMA AddressInit ==
  ASSUME Init
  PROVE  AddressInv
<1>1. \A c \in Clients : ConnsInv(c)
  BY NoEventType DEF Init, ClientInit, ConnsInv, AnswerNamesIt, EmptyMap
<1>2. toServer = {} /\ KeyIsOf(svNetEv) /\ KeyIsOf(svSlot) /\ KeyIsOf(svEvent)
  BY NoEventType DEF Init, WireInit, ServerInit, KeyIsOf
<1>3. DOMAIN svPlayers = {}
  BY DEF Init, ServerInit, EmptyMap
<1> QED
  BY <1>1, <1>2, <1>3 DEF AddressInv

(* What the search of a client finds, where it ends. *)
LEMMA FindServer ==
  ASSUME IInv, NEW c \in Clients, ConnsInv(c), clSetup[c]
  PROVE  /\ WalkEnds(clConns[c]) => findId(clConns[c], Numeric) = ServerIdOf(c)
         /\ ~WalkEnds(clConns[c]) => -1 \in DOMAIN clConns[c]
<1>1. /\ DOMAIN clConns[c] \subseteq {-1, 0} /\ 0 \in DOMAIN clConns[c]
      /\ clConns[c][0] = clAddress[c] /\ clAddress[c] \in {Numeric, Name}
  BY DEF IInv, TypeOK, ClientTypeOK, MapOver, ClientIds, ConnsInv
<1>2. ASSUME WalkEnds(clConns[c]) PROVE findId(clConns[c], Numeric) = ServerIdOf(c)
  <2>1. DOMAIN clConns[c] = {0}
    BY <1>1, <1>2 DEF WalkEnds
  <2>2. \/ /\ findId(clConns[c], Numeric) = -1
           /\ \A i \in DOMAIN clConns[c] : clConns[c][i] # Numeric
        \/ /\ findId(clConns[c], Numeric) \in DOMAIN clConns[c]
           /\ clConns[c][findId(clConns[c], Numeric)] = Numeric
    BY <2>1, FindIdLemma
  <2> QED
    BY <1>1, <2>1, <2>2 DEF ServerIdOf
<1> QED
  BY <1>1, <1>2 DEF WalkEnds

(* Sending a request writes the server as connection 0. *)
LEMMA SendRequestConns ==
  ASSUME IInv, NEW c \in Clients, ConnsInv(c), SendRequest(c),
         UNCHANGED <<clNetPc, clNetEv, clSlot, clServerId, clAddress, clKeys>>,
         clPc' = [clPc EXCEPT ![c] = "check"]
  PROVE  ConnsInv(c)'
<1>1. ClientTypeOK
  BY DEF IInv, TypeOK
<1>2. /\ clConns'[c] = Put(clConns[c], 0, clAddress[c])
      /\ clSetup[c] => clSetup'[c]
  BY <1>1 DEF SendRequest, ServerAddress, ClientTypeOK
<1>3. /\ DOMAIN clConns'[c] = DOMAIN clConns[c] \cup {0}
      /\ clConns'[c][0] = clAddress[c]
      /\ -1 \in DOMAIN clConns[c] => clConns'[c][-1] = clConns[c][-1]
  <2>1. /\ DOMAIN Put(clConns[c], 0, clAddress[c]) = DOMAIN clConns[c] \cup {0}
        /\ Put(clConns[c], 0, clAddress[c])[0] = clAddress[c]
        /\ \A x \in DOMAIN clConns[c] \ {0} :
             Put(clConns[c], 0, clAddress[c])[x] = clConns[c][x]
    BY DEF Put, Overlay
  <2> QED
    BY <1>2, <2>1
<1>4. clPc'[c] = "check"
  BY <1>1 DEF ClientTypeOK
<1> QED
  BY <1>2, <1>3, <1>4 DEF ConnsInv, AnswerNamesIt, ServerIdOf

(* The end of a process leaves no connection and no event. *)
LEMMA EndProcessConns ==
  ASSUME IInv, NEW c \in Clients, NEW how \in {"failed", "quit"}, EndProcess(c, how)
  PROVE  ConnsInv(c)'
<1>1. /\ clConns'[c] = EmptyMap /\ clSetup'[c] = FALSE /\ clNetPc'[c] = "recv"
      /\ clNetEv'[c] = NoEvent /\ clSlot'[c] = NoEvent /\ clPc'[c] = how
  BY DEF IInv, TypeOK, ClientTypeOK, EndProcess
<1>2. DOMAIN clConns'[c] = {}
  BY <1>1 DEF EmptyMap
<1> QED
  BY <1>1, <1>2, NoEventType DEF ConnsInv, AnswerNamesIt

(* A key that is sent to an unknown id leaves a connection with it. *)
LEMMA FrameConns ==
  ASSUME IInv, NEW c \in Clients, ConnsInv(c), ClientFrame(c)
  PROVE  ConnsInv(c)'
<1>1. ClientTypeOK
  BY DEF IInv, TypeOK
<1>2. /\ clPc[c] = "play" /\ clServerId[c] = ServerIdOf(c) /\ clSetup[c]
      /\ 0 \in DOMAIN clConns[c]
      /\ clSlot'[c] = NoEvent
      /\ UNCHANGED <<clPc, clServerId, clSetup, clNetPc, clNetEv, clAddress>>
  BY <1>1 DEF ClientFrame, ConnsInv, AfterGetEvent, ClientTypeOK
<1>3. AnswerNamesIt(c, clNetEv[c])' /\ AnswerNamesIt(c, clSlot[c])'
  BY <1>2, NoEventType DEF ConnsInv, AnswerNamesIt, ServerIdOf
<1>4. CASE UNCHANGED <<clKeys, clConns>>
  BY <1>2, <1>3, <1>4 DEF ConnsInv, ServerIdOf
<1>5. ASSUME NEW key \in Keys, SendKey(c, key)
      PROVE  ConnsInv(c)'
  <2>1. /\ clKeys'[c] = clKeys[c] + 1 /\ clKeys[c] \in 0..MaxKeys
        /\ clConns'[c] = Touch(clConns[c], {clServerId[c]}, Nowhere)
    BY <1>1, <1>5 DEF SendKey, ClientTypeOK
  <2>2. /\ DOMAIN clConns'[c] = DOMAIN clConns[c] \cup {clServerId[c]}
        /\ \A x \in DOMAIN clConns[c] : clConns'[c][x] = clConns[c][x]
        /\ \A x \in {clServerId[c]} \ DOMAIN clConns[c] : clConns'[c][x] = Nowhere
    <3> DEFINE conns == Touch(clConns[c], {clServerId[c]}, Nowhere)
    <3>1. /\ DOMAIN conns = DOMAIN clConns[c] \cup {clServerId[c]}
          /\ \A x \in DOMAIN clConns[c] : conns[x] = clConns[c][x]
          /\ \A x \in {clServerId[c]} \ DOMAIN clConns[c] : conns[x] = Nowhere
      BY TouchLemma
    <3> QED
      BY <2>1, <3>1
  <2>3. clKeys'[c] > 0
    BY <2>1, ClientAssumption
  <2>4. ClientTypeOK => clAddress[c] \in {Numeric, Name}
    BY DEF ClientTypeOK
  <2>5. -1 \in DOMAIN clConns'[c] => clConns'[c][-1] = Nowhere /\ clAddress[c] = Name
    <3>1. CASE -1 \in DOMAIN clConns[c]
      BY <2>2, <3>1 DEF ConnsInv
    <3>2. CASE -1 \notin DOMAIN clConns[c]
      BY <1>1, <1>2, <2>2, <2>4, <3>2 DEF ServerIdOf
    <3> QED
      BY <3>1, <3>2
  <2>6. 0 \in DOMAIN clConns'[c] /\ clConns'[c][0] = clAddress[c]
    BY <1>2, <2>2 DEF ConnsInv
  <2>7. clNetPc[c] = "endless" => -1 \in DOMAIN clConns'[c]
    BY <2>2 DEF ConnsInv
  <2> QED
    BY <1>2, <1>3, <2>3, <2>5, <2>6, <2>7 DEF ConnsInv, ServerIdOf
<1> QED
  BY <1>4, <1>5 DEF ClientFrame

(* What a client receives. *)
LEMMA RecvConns ==
  ASSUME IInv, NEW c \in Clients, ConnsInv(c), NEW f \in toClient, ClientRecv(c, f)
  PROVE  ConnsInv(c)'
<1>1. /\ ClientTypeOK /\ clSetup[c]
      /\ UNCHANGED <<clPc, clServerId, clSetup, clConns, clSlot, clAddress, clKeys>>
  BY DEF IInv, TypeOK, ClientRecv
<1>2. CASE f.type = "CONNECTION_REQUEST_ACK" /\ WalkEnds(clConns[c])
  <2>1. findId(clConns[c], Numeric) = ServerIdOf(c)
    BY <1>1, <1>2, FindServer
  <2>2. /\ clNetEv'[c] = NetEvent("EVENT_NET_CONNECT_ACK", ServerIdOf(c))
        /\ clNetPc'[c] = "post"
    BY <1>1, <1>2, <2>1 DEF ClientRecv, HearAck, ClientTypeOK
  <2>3. clNetEv'[c].id = ServerIdOf(c)
    BY <2>2 DEF NetEvent, Event
  <2> QED
    BY <1>1, <2>2, <2>3 DEF ConnsInv, AnswerNamesIt, ServerIdOf
<1>3. CASE f.type = "CONNECTION_REQUEST_ACK" /\ ~WalkEnds(clConns[c])
  <2>1. clNetEv' = clNetEv /\ -1 \in DOMAIN clConns[c]
    BY <1>1, <1>3, FindServer DEF ClientRecv, HearAck
  <2> QED
    BY <1>1, <2>1 DEF ConnsInv, AnswerNamesIt, ServerIdOf
<1>4. CASE f.type = "DATA_GAMEUPDATE"
  <2>1. clNetEv'[c] = UpdateEvent(f.ents) /\ clNetPc'[c] = "post"
    BY <1>1, <1>4 DEF ClientRecv, HearUpdate, ClientTypeOK
  <2>2. clNetEv'[c].type = "EVENT_GAMEUPDATE"
    BY <2>1 DEF UpdateEvent, Event
  <2> QED
    BY <1>1, <2>1, <2>2 DEF ConnsInv, AnswerNamesIt, ServerIdOf
<1>5. CASE f.type = "ACK"
  BY <1>1, <1>5 DEF ClientRecv, ConnsInv, AnswerNamesIt, ServerIdOf
<1> QED
  BY <1>2, <1>3, <1>4, <1>5 DEF ClientRecv

LEMMA ConnsStep ==
  ASSUME IInv, NEW c \in Clients, ConnsInv(c), ClientStep(c)
  PROVE  ConnsInv(c)'
<1>1. ClientTypeOK
  BY DEF IInv, TypeOK
<1>2. CASE ClientStart(c)
  BY <1>2, SendRequestConns DEF ClientStart
<1>3. CASE ClientRetry(c)
  BY <1>3, SendRequestConns DEF ClientRetry
<1>4. CASE ClientGiveUp(c) \/ ClientQuit(c)
  BY <1>4, EndProcessConns DEF ClientGiveUp, ClientQuit
<1>5. CASE ClientFrame(c)
  BY <1>5, FrameConns
<1>6. CASE \E f \in toClient : ClientRecv(c, f)
  BY <1>6, RecvConns
<1>7. CASE ClientCheck(c) \/ ClientTick(c)
  BY <1>1, <1>7 DEF ClientCheck, ClientTick, ConnsInv, AnswerNamesIt, ServerIdOf, ClientTypeOK
<1>8. CASE ClientPoll(c)
  <2>1. /\ clSlot'[c] = NoEvent
        /\ UNCHANGED <<clConns, clSetup, clNetPc, clNetEv, clKeys, clAddress>>
        /\ \/ /\ clSlot[c].type = "EVENT_NET_CONNECT_ACK"
              /\ clServerId'[c] = clSlot[c].id /\ clPc'[c] = "play"
           \/ clPc'[c] = "check"
    BY <1>1, <1>8 DEF ClientPoll, AfterGetEvent, ClientTypeOK
  <2> QED
    BY <2>1, NoEventType DEF ConnsInv, AnswerNamesIt, ServerIdOf
<1>9. CASE ClientPost(c)
  <2>1. /\ clSlot'[c] = clNetEv[c] /\ clNetEv'[c] = NoEvent /\ clNetPc'[c] # "endless"
        /\ UNCHANGED <<clConns, clSetup, clPc, clServerId, clKeys, clAddress>>
    BY <1>1, <1>9 DEF ClientPost, ClientTypeOK
  <2> QED
    BY <2>1, NoEventType DEF ConnsInv, AnswerNamesIt, ServerIdOf
<1>10. CASE ClientSetStatus(c)
  <2>1. /\ clNetPc'[c] # "endless"
        /\ UNCHANGED <<clConns, clSetup, clPc, clServerId, clKeys, clAddress, clSlot, clNetEv>>
    BY <1>1, <1>10 DEF ClientSetStatus, ClientTypeOK
  <2> QED
    BY <2>1 DEF ConnsInv, AnswerNamesIt, ServerIdOf
<1> QED
  BY <1>2, <1>3, <1>4, <1>5, <1>6, <1>7, <1>8, <1>9, <1>10
     DEF ClientStep, ClientMain, ClientNet

(* A step of a client keeps the addresses of all. *)
LEMMA ClientAddressStep ==
  ASSUME IInv, AddressInv, NEW c \in Clients, ClientStep(c)
  PROVE  AddressInv'
<1>1. clAddress' = clAddress /\ UNCHANGED svVars
  BY ClientSends
<1>2. ASSUME NEW b \in Clients PROVE ConnsInv(b)'
  <2>1. CASE b = c
    BY <2>1, ConnsStep DEF AddressInv
  <2>2. CASE b # c
    <3>1. /\ clConns'[b] = clConns[b] /\ clSetup'[b] = clSetup[b]
          /\ clNetPc'[b] = clNetPc[b] /\ clNetEv'[b] = clNetEv[b]
          /\ clSlot'[b] = clSlot[b] /\ clPc'[b] = clPc[b]
          /\ clServerId'[b] = clServerId[b] /\ clKeys'[b] = clKeys[b]
      BY <2>2, OthersKept
    <3>2. ConnsInv(b)
      BY DEF AddressInv
    <3> QED
      BY <1>1, <3>1, <3>2 DEF ConnsInv, AnswerNamesIt, ServerIdOf
  <2> QED
    BY <2>1, <2>2
<1>3. ASSUME NEW f \in toServer', f.type = "DATA_KEY_DOWN" PROVE clAddress[f.from] = Numeric
  <2>1. CASE f \in toServer
    BY <1>3, <2>1 DEF AddressInv
  <2>2. CASE f \notin toServer
    <3>1. /\ clPc[c] = "play" /\ clServerId[c] = 0
          /\ \E key \in Keys : f = ToServer(c, "DATA_KEY_DOWN", key)
      BY <1>3, <2>2, ClientSends
    <3>2. f.from = c
      BY <3>1 DEF ToServer
    <3> QED
      BY <3>1, <3>2 DEF AddressInv, ConnsInv, ServerIdOf
  <2> QED
    BY <2>1, <2>2
<1> QED
  BY <1>1, <1>2, <1>3 DEF AddressInv, KeyIsOf, Ids, svVars

(* Where clients do nothing, their connections stay as they are. *)
LEMMA ConnsKept ==
  ASSUME AddressInv, UNCHANGED clVars
  PROVE  (\A c \in Clients : ConnsInv(c))'
  BY DEF AddressInv, ConnsInv, AnswerNamesIt, ServerIdOf, clVars

(* A step of the server keeps the addresses. *)
LEMMA ServerAddressStep ==
  ASSUME IInv, AddressInv, ServerStep
  PROVE  AddressInv'
<1>1. /\ (\A c \in Clients : ConnsInv(c))' /\ clAddress' = clAddress
      /\ \A i \in Ids : svConns[i] \in Clients
      /\ DOMAIN svPlayers \subseteq Ids \cup {-1}
  BY ConnsKept DEF ServerStep, AddressInv, IInv, IdsInv, clVars
<1>2. ASSUME NEW f \in toServer, ServerRecv(f)
      PROVE  AddressInv'
  <2>1. toServer' \subseteq toServer /\ UNCHANGED <<svSlot, svEvent, svPlayers>>
    BY <1>2, ServerRecvWire DEF ServerRecv, svMainVars
  <2>2. CASE f.type = "CONNECTION_REQUEST"
    <3>1. PICK id \in Nat :
            /\ Ids' = Ids \cup {id}
            /\ \A i \in Ids : svConns'[i] = svConns[i]
            /\ \/ id = svNextId /\ id \notin Ids
               \/ id \in Ids
            /\ svNetEv' = NetEvent("EVENT_NET_CONNECT", id)
      BY <1>2, <2>2, RegisterEffect
    <3>2. svNetEv'.type = "EVENT_NET_CONNECT"
      BY <3>1 DEF NetEvent, Event
    <3>3. KeyIsOf(svNetEv)' /\ KeyIsOf(svSlot)' /\ KeyIsOf(svEvent)'
      BY <1>1, <2>1, <3>1, <3>2 DEF AddressInv, KeyIsOf
    <3> QED
      BY <1>1, <2>1, <3>1, <3>3 DEF AddressInv
  <2>3. CASE f.type = "DATA_KEY_DOWN"
    <3>1. /\ UNCHANGED <<svConns, svNextId>> /\ svNetEv'.type = "EVENT_KEY"
          /\ \/ svNetEv'.id = -1
             \/ svNetEv'.id \in Ids /\ svConns[svNetEv'.id] = f.from
      BY <1>2, <2>3, HearKeyEffect
    <3>2. clAddress[f.from] = Numeric
      BY <2>3 DEF AddressInv
    <3>3. KeyIsOf(svNetEv)'
      BY <1>1, <3>1, <3>2 DEF KeyIsOf, Ids
    <3> QED
      BY <1>1, <2>1, <3>1, <3>3 DEF AddressInv, KeyIsOf, Ids
  <2>4. CASE f.type = "ACK"
    <3>1. UNCHANGED <<svConns, svNextId, svNetEv>>
      BY <1>2, <2>4 DEF ServerRecv
    <3> QED
      BY <1>1, <2>1, <3>1 DEF AddressInv, KeyIsOf, Ids
  <2> QED
    BY <1>2, <2>2, <2>3, <2>4 DEF ServerRecv
<1>3. CASE ServerPost
  BY <1>1, <1>3, NoEventType DEF ServerPost, AddressInv, KeyIsOf, Ids, svMainVars, wireVars
<1>4. CASE ServerPoll
  BY <1>1, <1>4, NoEventType
     DEF ServerPoll, AfterGetEvent, AddressInv, KeyIsOf, Ids, svNetVars, wireVars
<1>5. CASE ServerHandle
  <2>1. /\ UNCHANGED <<toServer, svNetEv, svSlot, svEvent, svNextId, svConns>>
        /\ \/ svPlayers' = svPlayers
           \/ svEvent.id \in Ids /\ svPlayers' = Put(svPlayers, svEvent.id, Origin)
           \/ /\ svEvent.type = "EVENT_KEY"
              /\ svPlayers' = movePlayer(svPlayers, svEvent.id, svEvent.key)
    BY <1>5, HandleEffect
  <2>2. DOMAIN svPlayers' \subseteq Ids \cup {-1}
    <3>1. CASE svPlayers' = svPlayers
      BY <1>1, <3>1
    <3>2. CASE svEvent.id \in Ids /\ svPlayers' = Put(svPlayers, svEvent.id, Origin)
      <4>1. DOMAIN svPlayers' = DOMAIN svPlayers \cup {svEvent.id}
        BY <3>2 DEF Put, Overlay
      <4> QED
        BY <1>1, <3>2, <4>1
    <3>3. CASE /\ svEvent.type = "EVENT_KEY"
               /\ svPlayers' = movePlayer(svPlayers, svEvent.id, svEvent.key)
      <4>1. DOMAIN svPlayers' = DOMAIN svPlayers \cup {svEvent.id}
        BY <3>3 DEF movePlayer, Put, Overlay
      <4>2. svEvent.id \in Ids \cup {-1}
        BY <3>3 DEF AddressInv, KeyIsOf
      <4> QED
        BY <1>1, <4>1, <4>2
    <3> QED
      BY <2>1, <3>1, <3>2, <3>3
  <2> QED
    BY <1>1, <2>1, <2>2 DEF AddressInv, KeyIsOf, Ids
<1>6. CASE SendUpdate
  <2>1. /\ svEvent' = NoEvent
        /\ UNCHANGED <<toServer, svNetEv, svSlot, svNextId, svConns>>
        /\ DOMAIN svPlayers' \subseteq Ids
    BY <1>1, <1>6, UpdateEffect
  <2>2. KeyIsOf(svEvent)'
    BY <2>1, NoEventType DEF KeyIsOf
  <2> QED
    BY <1>1, <2>1, <2>2 DEF AddressInv, KeyIsOf, Ids
<1>7. CASE GetStuck
  BY <1>1, <1>7 DEF GetStuck, AddressInv, KeyIsOf, Ids, svNetVars, wireVars
<1>8. CASE ServerRestart
  <2>1. /\ DOMAIN svPlayers' = {} /\ toServer' = toServer
        /\ svNetEv' = NoEvent /\ svSlot' = NoEvent /\ svEvent' = NoEvent
    BY <1>8 DEF ServerRestart, EmptyMap, wireVars
  <2>2. KeyIsOf(svNetEv)' /\ KeyIsOf(svSlot)' /\ KeyIsOf(svEvent)'
    BY <2>1, NoEventType DEF KeyIsOf
  <2> QED
    BY <1>1, <2>1, <2>2 DEF AddressInv
<1> QED
  BY <1>2, <1>3, <1>4, <1>5, <1>6, <1>7, <1>8 DEF ServerStep, ServerNet, ServerMain

(* Every step keeps the addresses. *)
LEMMA AddressStep ==
  ASSUME IInv, AddressInv, [Next]_vars
  PROVE  AddressInv'
<1>1. CASE NetworkStep \/ UNCHANGED vars
  <2>1. toServer' \subseteq toServer /\ UNCHANGED <<svVars, clVars>>
    BY <1>1 DEF NetworkStep, Lose, vars, wireVars
  <2>2. (\A c \in Clients : ConnsInv(c))' /\ clAddress' = clAddress
    BY <2>1, ConnsKept DEF clVars
  <2> QED
    BY <2>1, <2>2 DEF AddressInv, KeyIsOf, Ids, svVars
<1> QED
  BY <1>1, ServerAddressStep, ClientAddressStep DEF Next

(* Keys come only from clients that were given a numeric address, and go   *)
(* to the server (Network.cpp:267, 552-573, 601-614).                      *)
THEOREM Addresses == Spec => []AddressInv
<1>1. Init => AddressInv
  BY AddressInit
<1>2. IInv /\ AddressInv /\ [Next]_vars => AddressInv'
  BY AddressStep
<1> QED
  BY <1>1, <1>2, Invariant, PTL DEF Spec

(* A client's search for the server's id ends, unless the address its user *)
(* gave is not the one the socket reports and it has pressed a key.        *)
THEOREM SearchEnds == Spec => []ClientSearchTerminates
<1>1. AddressInv => ClientSearchTerminates
  BY DEF AddressInv, ConnsInv, ClientSearchTerminates
<1> QED
  BY <1>1, Addresses, PTL

(* A client with a numeric address plays with the id of its connection to  *)
(* the server, and its keys never make another.                            *)
THEOREM KeysAreSent == Spec => []KeysGoToServer
<1>1. IInv /\ AddressInv => KeysGoToServer
  <2> SUFFICES ASSUME IInv, AddressInv, NEW c \in Clients, clAddress[c] = Numeric
               PROVE  /\ clPc[c] = "play" => clServerId[c] \in DOMAIN clConns[c]
                      /\ \A j \in DOMAIN clConns[c] : clConns[c][j] = Numeric
    BY DEF KeysGoToServer
  <2>1. ConnsInv(c) /\ DOMAIN clConns[c] \subseteq {-1, 0}
    BY DEF AddressInv, IInv, TypeOK, ClientTypeOK, MapOver, ClientIds
  <2>2. -1 \notin DOMAIN clConns[c]
    BY <2>1 DEF ConnsInv, Numeric, Name
  <2> QED
    BY <2>1, <2>2 DEF ConnsInv, ServerIdOf
<1> QED
  BY <1>1, Invariant, Addresses, PTL

-----------------------------------------------------------------------------
(* Keys. *)

KeyFrames(c) == {f \in toServer : f.from = c /\ f.type = "DATA_KEY_DOWN"}

(* 1 when e is a key of the player i. *)
KeyOf(e, i) == IF e.type = "EVENT_KEY" /\ e.id = i THEN 1 ELSE 0

InHand(i) == IF svPc = "handle" THEN KeyOf(svEvent, i) ELSE 0

(* How far the player i has come. *)
Way(i) == IF i \in DOMAIN svPlayers THEN Distance(svPlayers[i], Origin) ELSE 0

(* What has become of the keys of player i: events and cells, and frames. *)
Heard(i) == KeyOf(svNetEv, i) + KeyOf(svSlot, i) + InHand(i) + Way(i)
KeysUsed(i) == Cardinality(KeyFrames(svConns[i])) + Heard(i)

(* No more keys are on their way, or have been played, than were pressed   *)
(* and duplicated.                                                         *)
KeysInv ==
  /\ \A c \in Clients :
       IsFiniteSet(KeyFrames(c)) /\ Cardinality(KeyFrames(c)) <= Presses(c)
  /\ \A i \in Ids : KeysUsed(i) <= Presses(svConns[i])

LEMMA DistanceType ==
  ASSUME NEW p \in Position
  PROVE  Distance(p, Origin) \in Nat /\ Distance(Origin, Origin) = 0
  BY DEF Distance, Abs, Origin, Position

(* A move is by one cell at most. *)
LEMMA MovedWay ==
  ASSUME NEW p \in Position, NEW key
  PROVE  Distance(Moved(p, key), Origin) <= Distance(p, Origin) + 1
  BY DEF Distance, Abs, Origin, Position, Moved

LEMMA PressesType ==
  ASSUME IInv, NEW c \in Clients
  PROVE  clKeys[c] \in Nat /\ dups \in Nat /\ Presses(c) \in Nat /\ Presses(c) = clKeys[c] + dups
  BY ClientAssumption, WireAssumption
  DEF IInv, TypeOK, ClientTypeOK, WireTypeOK, Presses

LEMMA WayType ==
  ASSUME IInv, NEW i
  PROVE  Way(i) \in Nat
  BY DistanceType DEF IInv, TypeOK, ServerTypeOK, MapOver, Way

LEMMA KeyOfType ==
  \A e, i : KeyOf(e, i) \in {0, 1} /\ KeyOf(NoEvent, i) = 0
  BY NoEventType DEF KeyOf

LEMMA WayPrimed ==
  ASSUME IInv', NEW i
  PROVE  Way(i)' \in Nat
  BY DistanceType DEF IInv, TypeOK, ServerTypeOK, MapOver, Way

(* Everything that KeysUsed adds up is a number. *)
LEMMA HeardType ==
  ASSUME IInv, NEW i
  PROVE  Heard(i) \in Nat
<1>1. /\ KeyOf(svNetEv, i) \in {0, 1} /\ KeyOf(svSlot, i) \in {0, 1} /\ InHand(i) \in {0, 1}
      /\ Way(i) \in Nat
  BY KeyOfType, WayType DEF InHand
<1> QED
  BY <1>1 DEF Heard

LEMMA HeardPrimed ==
  ASSUME IInv', NEW i
  PROVE  Heard(i)' \in Nat
<1>1. /\ KeyOf(svNetEv, i)' \in {0, 1} /\ KeyOf(svSlot, i)' \in {0, 1}
      /\ InHand(i)' \in {0, 1} /\ Way(i)' \in Nat
  BY WayPrimed DEF InHand, KeyOf
<1> QED
  BY <1>1 DEF Heard

LEMMA UsedTypes ==
  ASSUME IInv, KeysInv, NEW i \in Ids
  PROVE  /\ Cardinality(KeyFrames(svConns[i])) \in Nat /\ Heard(i) \in Nat
         /\ Presses(svConns[i]) \in Nat /\ svConns[i] \in Clients
         /\ KeysUsed(i) = Cardinality(KeyFrames(svConns[i])) + Heard(i)
         /\ KeysUsed(i) <= Presses(svConns[i])
<1>1. svConns[i] \in Clients
  BY DEF IInv, IdsInv
<1>2. Cardinality(KeyFrames(svConns[i])) \in Nat
  BY <1>1, FS_CardinalityType DEF KeysInv
<1> QED
  BY <1>1, <1>2, HeardType, PressesType DEF KeysUsed, KeysInv

(* Frames that are lost leave fewer. *)
LEMMA FewerFrames ==
  ASSUME NEW c, IsFiniteSet(KeyFrames(c)),
         \A f \in toServer' \ toServer : f.from # c \/ f.type # "DATA_KEY_DOWN"
  PROVE  /\ IsFiniteSet(KeyFrames(c)') /\ Cardinality(KeyFrames(c)') \in Nat
         /\ Cardinality(KeyFrames(c)') <= Cardinality(KeyFrames(c))
<1>1. KeyFrames(c)' \subseteq KeyFrames(c)
  BY DEF KeyFrames
<1> QED
  BY <1>1, FS_Subset, FS_CardinalityType

(* One frame that is sent is one more. *)
LEMMA OneMoreFrame ==
  ASSUME NEW c, IsFiniteSet(KeyFrames(c)), NEW g, toServer' \subseteq toServer \cup {g}
  PROVE  /\ IsFiniteSet(KeyFrames(c)') /\ Cardinality(KeyFrames(c)') \in Nat
         /\ Cardinality(KeyFrames(c)') <= Cardinality(KeyFrames(c)) + 1
<1>1. KeyFrames(c)' \subseteq KeyFrames(c) \cup {g}
  BY DEF KeyFrames
<1>2. /\ IsFiniteSet(KeyFrames(c) \cup {g})
      /\ Cardinality(KeyFrames(c) \cup {g}) =
           IF g \in KeyFrames(c) THEN Cardinality(KeyFrames(c)) ELSE Cardinality(KeyFrames(c)) + 1
  BY FS_AddElement
<1>3. Cardinality(KeyFrames(c)) \in Nat
  BY FS_CardinalityType
<1>4. /\ IsFiniteSet(KeyFrames(c)')
      /\ Cardinality(KeyFrames(c)') <= Cardinality(KeyFrames(c) \cup {g})
  BY <1>1, <1>2, FS_Subset
<1> QED
  BY <1>2, <1>3, <1>4, FS_CardinalityType

(* A frame that is taken is one less, or it was duplicated. *)
LEMMA FrameTaken ==
  ASSUME IInv, NEW f \in toServer, f.type = "DATA_KEY_DOWN", IsFiniteSet(KeyFrames(f.from)),
         TakeFrom(toServer, toServer', f)
  PROVE  Cardinality(KeyFrames(f.from)') + 1 <= Cardinality(KeyFrames(f.from)) + (dups' - dups)
<1>1. Cardinality(KeyFrames(f.from)) \in Nat /\ dups \in Nat /\ f \in KeyFrames(f.from)
  BY FS_CardinalityType, WireAssumption DEF KeyFrames, IInv, TypeOK, WireTypeOK
<1>2. CASE toServer' = toServer \ {f} /\ dups' = dups
  <2>1. KeyFrames(f.from)' = KeyFrames(f.from) \ {f}
    BY <1>2 DEF KeyFrames
  <2>2. Cardinality(KeyFrames(f.from) \ {f}) = Cardinality(KeyFrames(f.from)) - 1
    BY <1>1, FS_RemoveElement
  <2> QED
    BY <1>1, <1>2, <2>1, <2>2
<1>3. CASE toServer' = toServer /\ dups' = dups + 1
  <2>1. KeyFrames(f.from)' = KeyFrames(f.from)
    BY <1>3 DEF KeyFrames
  <2> QED
    BY <1>1, <1>3, <2>1
<1> QED
  BY <1>2, <1>3 DEF TakeFrom

LEMMA KeysInit ==
  ASSUME Init
  PROVE  KeysInv
<1>1. \A c \in Clients : KeyFrames(c) = {} /\ Presses(c) = 0
  BY DEF Init, WireInit, ClientInit, KeyFrames, Presses
<1>2. Ids = {}
  BY DEF Init, ServerInit, Ids
<1> QED
  BY <1>1, <1>2, FS_EmptySet DEF KeysInv

(* Client steps: a key more is a frame more, at most. *)
LEMMA ClientKeysStep ==
  ASSUME IInv, KeysInv, NEW c \in Clients, ClientStep(c)
  PROVE  KeysInv'
<1>1. ASSUME NEW b \in Clients
      PROVE  /\ IsFiniteSet(KeyFrames(b)') /\ Cardinality(KeyFrames(b)') \in Nat
             /\ Cardinality(KeyFrames(b)') - Presses(b)' <= Cardinality(KeyFrames(b)) - Presses(b)
             /\ Presses(b)' \in Int
  <2>1. /\ clKeys[b] \in Nat /\ dups \in Nat /\ Presses(b) = clKeys[b] + dups
        /\ IsFiniteSet(KeyFrames(b)) /\ Cardinality(KeyFrames(b)) \in Nat
    BY PressesType, FS_CardinalityType DEF KeysInv
  <2>2. dups' \in Nat /\ dups' >= dups /\ Presses(b)' = clKeys'[b] + dups'
    BY ClientSends, WireAssumption DEF Presses
  <2>3. CASE clKeys' = clKeys /\ \A f \in toServer' \ toServer : f.type # "DATA_KEY_DOWN"
    BY <2>1, <2>2, <2>3, FewerFrames
  <2>4. ASSUME clKeys' = [clKeys EXCEPT ![c] = @ + 1], NEW key \in Keys,
               toServer' \subseteq toServer \cup {ToServer(c, "DATA_KEY_DOWN", key)}
        PROVE  /\ IsFiniteSet(KeyFrames(b)') /\ Cardinality(KeyFrames(b)') \in Nat
               /\ Cardinality(KeyFrames(b)') - Presses(b)' <= Cardinality(KeyFrames(b)) - Presses(b)
               /\ Presses(b)' \in Int
    <3>1. CASE b = c
      <4>1. clKeys'[b] = clKeys[b] + 1
        BY <2>4, <3>1 DEF IInv, TypeOK, ClientTypeOK
      <4>2. /\ IsFiniteSet(KeyFrames(b)') /\ Cardinality(KeyFrames(b)') \in Nat
            /\ Cardinality(KeyFrames(b)') <= Cardinality(KeyFrames(b)) + 1
        BY <2>1, <2>4, OneMoreFrame
      <4> QED
        BY <2>1, <2>2, <4>1, <4>2
    <3>2. CASE b # c
      <4>1. clKeys'[b] = clKeys[b]
        BY <2>4, <3>2 DEF IInv, TypeOK, ClientTypeOK
      <4>2. \A f \in toServer' \ toServer : f.from # b
        BY <2>4, <3>2 DEF ToServer
      <4>3. /\ IsFiniteSet(KeyFrames(b)') /\ Cardinality(KeyFrames(b)') \in Nat
            /\ Cardinality(KeyFrames(b)') <= Cardinality(KeyFrames(b))
        BY <2>1, <4>2, FewerFrames
      <4> QED
        BY <2>1, <2>2, <4>1, <4>3
    <3> QED
      BY <3>1, <3>2
  <2> QED
    BY <2>3, <2>4, ClientSends
<1>2. ASSUME NEW b \in Clients
      PROVE  Cardinality(KeyFrames(b)') <= Presses(b)'
  <2>1. /\ Cardinality(KeyFrames(b)) <= Presses(b) /\ Presses(b) \in Nat
        /\ Cardinality(KeyFrames(b)) \in Nat
    BY PressesType, FS_CardinalityType DEF KeysInv
  <2> QED
    BY <1>1, <2>1
<1>3. UNCHANGED svVars
  BY ClientSends
<1>4. ASSUME NEW i \in Ids
      PROVE  KeysUsed(i)' <= Presses(svConns[i])'
  <2>1. /\ Cardinality(KeyFrames(svConns[i])) \in Nat /\ Heard(i) \in Nat
        /\ Presses(svConns[i]) \in Nat /\ svConns[i] \in Clients
        /\ Cardinality(KeyFrames(svConns[i])) + Heard(i) <= Presses(svConns[i])
    BY UsedTypes
  <2>2. PICK b \in Clients : b = svConns[i] /\ b = svConns'[i]
    BY <1>3, <2>1 DEF svVars
  <2>3. Heard(i)' = Heard(i)
    BY <1>3 DEF svVars, KeyOf, InHand, Way, Heard
  <2>4. /\ KeysUsed(i)' = Cardinality(KeyFrames(b)') + Heard(i)
        /\ Presses(svConns[i])' = Presses(b)'
    BY <2>2, <2>3 DEF KeysUsed, KeyFrames, Presses
  <2> QED
    BY <1>1, <2>1, <2>2, <2>4
<1>5. Ids' = Ids
  BY <1>3 DEF svVars, Ids
<1> QED
  BY <1>1, <1>2, <1>4, <1>5 DEF KeysInv

(* Where frames are only lost, and keys only counted. *)
LEMMA FramesKept ==
  ASSUME IInv, KeysInv, toServer' \subseteq toServer, clKeys' = clKeys,
         dups' \in Nat, dups' >= dups, NEW c \in Clients
  PROVE  /\ IsFiniteSet(KeyFrames(c)') /\ Cardinality(KeyFrames(c)') \in Nat
         /\ Cardinality(KeyFrames(c)') <= Cardinality(KeyFrames(c))
         /\ Cardinality(KeyFrames(c)) \in Nat
         /\ Presses(c)' = Presses(c) + (dups' - dups)
         /\ Presses(c)' \in Nat
         /\ Cardinality(KeyFrames(c)') <= Presses(c)'
<1>1. /\ IsFiniteSet(KeyFrames(c)) /\ Cardinality(KeyFrames(c)) <= Presses(c)
      /\ clKeys[c] \in Nat /\ dups \in Nat /\ Presses(c) = clKeys[c] + dups
  BY PressesType DEF KeysInv
<1>2. /\ IsFiniteSet(KeyFrames(c)') /\ Cardinality(KeyFrames(c)') \in Nat
      /\ Cardinality(KeyFrames(c)') <= Cardinality(KeyFrames(c))
      /\ Cardinality(KeyFrames(c)) \in Nat
  BY <1>1, FewerFrames, FS_CardinalityType
<1>3. Presses(c)' = clKeys[c] + dups'
  BY DEF Presses
<1> QED
  BY <1>1, <1>2, <1>3

LEMMA PlayerKept ==
  ASSUME IInv, KeysInv, toServer' \subseteq toServer, clKeys' = clKeys,
         dups' \in Nat, dups' >= dups, NEW i \in Ids, svConns'[i] = svConns[i],
         Heard(i)' \in Nat, Heard(i)' <= Heard(i)
  PROVE  KeysUsed(i)' <= Presses(svConns[i])'
<1>1. /\ Cardinality(KeyFrames(svConns[i])) \in Nat /\ Heard(i) \in Nat
      /\ Presses(svConns[i]) \in Nat /\ svConns[i] \in Clients
      /\ Cardinality(KeyFrames(svConns[i])) + Heard(i) <= Presses(svConns[i])
  BY UsedTypes
<1>2. PICK b \in Clients : b = svConns[i] /\ b = svConns'[i]
  BY <1>1
<1>3. /\ Cardinality(KeyFrames(b)') \in Nat
      /\ Cardinality(KeyFrames(b)') <= Cardinality(KeyFrames(b))
      /\ Presses(b)' = Presses(b) + (dups' - dups)
  BY FramesKept
<1>4. /\ KeysUsed(i)' = Cardinality(KeyFrames(b)') + Heard(i)'
      /\ Presses(svConns[i])' = Presses(b)'
  BY <1>2 DEF KeysUsed, KeyFrames, Presses
<1>5. dups \in Nat
  BY WireAssumption DEF IInv, TypeOK, WireTypeOK
<1> QED
  BY <1>1, <1>2, <1>3, <1>4, <1>5

(* Steps that give out no id and turn no frame into an event. *)
LEMMA KeysKept ==
  ASSUME IInv, KeysInv, toServer' \subseteq toServer, clKeys' = clKeys,
         dups' \in Nat, dups' >= dups, UNCHANGED <<svConns, svNextId>>,
         \A i \in Ids : Heard(i)' \in Nat /\ Heard(i)' <= Heard(i)
  PROVE  KeysInv'
<1>1. Ids' = Ids
  BY DEF Ids
<1> QED
  BY <1>1, FramesKept, PlayerKept DEF KeysInv

(* A frame received: a registration counts no key as a new player's, and   *)
(* a key's frame becomes its event.                                        *)
LEMMA RecvKeysStep ==
  ASSUME IInv, IInv', AddressInv, KeysInv, NEW f \in toServer, ServerRecv(f), UNCHANGED clVars
  PROVE  KeysInv'
<1>1. /\ toServer' \subseteq toServer /\ clKeys' = clKeys
      /\ UNCHANGED <<svSlot, svEvent, svPlayers, svPc>>
  BY ServerRecvWire DEF ServerRecv, svMainVars, clVars
<1>2. dups' \in Nat /\ dups' >= dups /\ dups \in Nat
  BY WireAssumption DEF IInv, TypeOK, WireTypeOK, ServerRecv, TakeFrom
<1>3. \A i : Heard(i) \in Nat /\ Heard(i)' \in Nat
  BY HeardType, HeardPrimed
<1>4. \A i : /\ KeyOf(svSlot, i)' = KeyOf(svSlot, i) /\ InHand(i)' = InHand(i)
              /\ Way(i)' = Way(i)
  BY <1>1 DEF KeyOf, InHand, Way
<1>5. \A i : /\ KeyOf(svSlot, i) \in {0, 1} /\ InHand(i) \in {0, 1} /\ Way(i) \in Nat
              /\ KeyOf(svNetEv, i) \in {0, 1} /\ KeyOf(svNetEv, i)' \in {0, 1}
  BY KeyOfType, WayType DEF InHand, KeyOf
<1>6. CASE f.type = "CONNECTION_REQUEST"
  <2>1. PICK id \in Nat :
          /\ Ids' = Ids \cup {id}
          /\ svConns'[id] = f.from
          /\ \A i \in Ids : svConns'[i] = svConns[i]
          /\ (id = svNextId /\ id \notin Ids) \/ id \in Ids
          /\ svNetEv' = NetEvent("EVENT_NET_CONNECT", id)
    BY <1>6, RegisterEffect
  <2>2. svNetEv'.type = "EVENT_NET_CONNECT"
    BY <2>1 DEF NetEvent, Event
  <2>3. \A i : KeyOf(svNetEv, i)' = 0
    BY <2>2 DEF KeyOf
  <2>4. \A i : Heard(i)' <= Heard(i)
    BY <1>4, <1>5, <2>3 DEF Heard
  <2>5. ASSUME NEW i \in Ids PROVE KeysUsed(i)' <= Presses(svConns[i])'
    BY <1>1, <1>2, <1>3, <2>1, <2>4, PlayerKept
  <2>6. ASSUME id \notin Ids PROVE KeysUsed(id)' <= Presses(svConns[id])'
    <3>1. id # -1 /\ f.from \in Clients
      BY DEF IInv, TypeOK, WireTypeOK, ServerFrame
    <3>2. KeyOf(svSlot, id) = 0 /\ InHand(id) = 0 /\ Way(id) = 0
      BY <2>6, <3>1 DEF AddressInv, KeyIsOf, KeyOf, InHand, Way
    <3>3. Heard(id)' = 0
      BY <1>4, <2>3, <3>2 DEF Heard
    <3>4. KeysUsed(id)' = Cardinality(KeyFrames(f.from)') + 0
      BY <2>1, <3>3 DEF KeysUsed, KeyFrames
    <3>5. Presses(svConns[id])' = Presses(f.from)'
      BY <2>1 DEF Presses
    <3> QED
      BY <1>1, <1>2, <3>1, <3>4, <3>5, FramesKept
  <2> QED
    BY <1>1, <1>2, <2>1, <2>5, <2>6, FramesKept DEF KeysInv
<1>7. CASE f.type = "DATA_KEY_DOWN"
  <2>1. /\ UNCHANGED <<svConns, svNextId>> /\ svNetEv'.type = "EVENT_KEY"
        /\ \/ svNetEv'.id = -1
           \/ svNetEv'.id \in Ids /\ svConns[svNetEv'.id] = f.from
    BY <1>7, HearKeyEffect
  <2>2. ASSUME NEW i \in Ids PROVE KeysUsed(i)' <= Presses(svConns[i])'
    <3>1. CASE svNetEv'.id = i
      <4>1. svConns[i] = f.from /\ svConns'[i] = f.from
        <5>1. i # -1
          BY DEF IInv, TypeOK, ServerTypeOK, Ids
        <5> QED
          BY <2>1, <3>1, <5>1
      <4>2. KeyOf(svNetEv, i)' = 1
        BY <2>1, <3>1 DEF KeyOf
      <4>3. Heard(i)' <= Heard(i) + 1
        BY <1>4, <1>5, <4>2 DEF Heard
      <4>4. /\ Cardinality(KeyFrames(f.from)) \in Nat /\ f.from \in Clients
            /\ Presses(f.from) \in Nat
            /\ Cardinality(KeyFrames(f.from)) + Heard(i) <= Presses(f.from)
        BY <4>1, UsedTypes
      <4>5. Cardinality(KeyFrames(f.from)') + 1 <= Cardinality(KeyFrames(f.from)) + (dups' - dups)
        BY <1>7, <4>4, FrameTaken DEF KeysInv, ServerRecv
      <4>6. /\ Presses(f.from)' = Presses(f.from) + (dups' - dups)
            /\ Cardinality(KeyFrames(f.from)') \in Nat
        BY <1>1, <1>2, <4>4, FramesKept
      <4>7. /\ KeysUsed(i)' = Cardinality(KeyFrames(f.from)') + Heard(i)'
            /\ Presses(svConns[i])' = Presses(f.from)'
        BY <4>1 DEF KeysUsed, KeyFrames, Presses
      <4> QED
        BY <1>2, <1>3, <4>3, <4>4, <4>5, <4>6, <4>7
    <3>2. CASE svNetEv'.id # i
      <4>1. KeyOf(svNetEv, i)' = 0
        BY <3>2 DEF KeyOf
      <4>2. Heard(i)' <= Heard(i)
        BY <1>4, <1>5, <4>1 DEF Heard
      <4> QED
        BY <1>1, <1>2, <1>3, <2>1, <4>2, PlayerKept
    <3> QED
      BY <3>1, <3>2
  <2>3. Ids' = Ids
    BY <2>1 DEF Ids
  <2> QED
    BY <1>1, <1>2, <2>2, <2>3, FramesKept DEF KeysInv
<1>8. CASE f.type = "ACK"
  <2>1. UNCHANGED <<svConns, svNextId, svNetEv>>
    BY <1>8 DEF ServerRecv
  <2>2. \A i : Heard(i)' <= Heard(i)
    <3>1. \A i : KeyOf(svNetEv, i)' = KeyOf(svNetEv, i)
      BY <2>1 DEF KeyOf
    <3> QED
      BY <1>4, <1>5, <3>1 DEF Heard
  <2> QED
    BY <1>1, <1>2, <1>3, <2>1, <2>2, KeysKept
<1> QED
  BY <1>6, <1>7, <1>8 DEF ServerRecv

(* An event played moves its player by one cell at most, for its key. *)
LEMMA HandleKeysStep ==
  ASSUME IInv, IInv', KeysInv, ServerHandle, UNCHANGED clVars
  PROVE  KeysInv'
<1>1. /\ svPc = "handle" /\ svPc' = "update"
      /\ UNCHANGED <<toServer, dups, svNetEv, svSlot, svEvent, svNextId, svConns, clKeys>>
      /\ \/ svPlayers' = svPlayers
         \/ svPlayers' = Put(svPlayers, svEvent.id, Origin)
         \/ /\ svEvent.type = "EVENT_KEY"
            /\ svPlayers' = movePlayer(svPlayers, svEvent.id, svEvent.key)
  BY HandleEffect DEF clVars
<1>2. dups' \in Nat /\ dups' >= dups
  BY <1>1, WireAssumption DEF IInv, TypeOK, WireTypeOK
<1>3. ASSUME NEW i \in Ids PROVE Way(i)' <= Way(i) + KeyOf(svEvent, i)
  <2>1. Way(i) \in Nat /\ KeyOf(svEvent, i) \in {0, 1} /\ Distance(Origin, Origin) = 0
    BY WayType, KeyOfType, DistanceType, OriginType
  <2>2. CASE svPlayers' = svPlayers
    BY <2>1, <2>2 DEF Way
  <2>3. CASE svPlayers' = Put(svPlayers, svEvent.id, Origin)
    <3>1. /\ DOMAIN svPlayers' = DOMAIN svPlayers \cup {svEvent.id}
          /\ svPlayers'[svEvent.id] = Origin
          /\ \A k \in DOMAIN svPlayers \ {svEvent.id} : svPlayers'[k] = svPlayers[k]
      BY <2>3 DEF Put, Overlay
    <3>2. CASE i = svEvent.id
      BY <2>1, <3>1, <3>2 DEF Way
    <3>3. CASE i # svEvent.id
      BY <2>1, <3>1, <3>3 DEF Way
    <3> QED
      BY <3>2, <3>3
  <2>4. CASE /\ svEvent.type = "EVENT_KEY"
             /\ svPlayers' = movePlayer(svPlayers, svEvent.id, svEvent.key)
    <3> DEFINE p == Get(svPlayers, svEvent.id, Origin)
    <3>1. p \in Position
      BY OriginType DEF Get, IInv, TypeOK, ServerTypeOK, MapOver
    <3>2. Distance(p, Origin) \in Nat /\ Distance(p, Origin) = Way(svEvent.id)
      BY <2>1, <3>1, DistanceType DEF Way, Get
    <3> HIDE DEF p
    <3>3. /\ DOMAIN svPlayers' = DOMAIN svPlayers \cup {svEvent.id}
          /\ svPlayers'[svEvent.id] = Moved(p, svEvent.key)
          /\ \A k \in DOMAIN svPlayers \ {svEvent.id} : svPlayers'[k] = svPlayers[k]
      BY <2>4 DEF movePlayer, Put, Overlay, p
    <3>4. CASE i = svEvent.id
      <4>1. Way(i)' = Distance(Moved(p, svEvent.key), Origin) /\ KeyOf(svEvent, i) = 1
        BY <2>4, <3>3, <3>4 DEF Way, KeyOf
      <4> QED
        BY <3>1, <3>2, <3>4, <4>1, MovedWay
    <3>5. CASE i # svEvent.id
      BY <2>1, <3>3, <3>5 DEF Way
    <3> QED
      BY <3>4, <3>5
  <2> QED
    BY <1>1, <2>2, <2>3, <2>4
<1>4. ASSUME NEW i \in Ids PROVE Heard(i)' \in Nat /\ Heard(i)' <= Heard(i)
  <2>1. /\ KeyOf(svNetEv, i)' = KeyOf(svNetEv, i) /\ KeyOf(svSlot, i)' = KeyOf(svSlot, i)
        /\ InHand(i)' = 0 /\ InHand(i) = KeyOf(svEvent, i)
    BY <1>1 DEF KeyOf, InHand
  <2>2. /\ KeyOf(svNetEv, i) \in {0, 1} /\ KeyOf(svSlot, i) \in {0, 1}
        /\ KeyOf(svEvent, i) \in {0, 1} /\ Way(i) \in Nat /\ Way(i)' \in Nat
    BY KeyOfType, WayType, WayPrimed
  <2> QED
    BY <1>3, <2>1, <2>2 DEF Heard
<1> QED
  BY <1>1, <1>2, <1>4, KeysKept

(* The other steps of the server hand events on, or forget them. *)
LEMMA ServerKeysStep ==
  ASSUME IInv, IInv', AddressInv, KeysInv, ServerStep
  PROVE  KeysInv'
<1>1. UNCHANGED clVars /\ clKeys' = clKeys
  BY DEF ServerStep, clVars
<1>2. dups \in Nat
  BY WireAssumption DEF IInv, TypeOK, WireTypeOK
<1>3. \A i : /\ KeyOf(svNetEv, i) \in {0, 1} /\ KeyOf(svSlot, i) \in {0, 1}
             /\ InHand(i) \in {0, 1} /\ Way(i) \in Nat /\ Heard(i)' \in Nat
             /\ KeyOf(NoEvent, i) = 0
  BY KeyOfType, WayType, HeardPrimed DEF InHand
<1>4. CASE ServerPost
  <2>1. /\ UNCHANGED <<toServer, dups, svConns, svNextId>>
        /\ svSlot' = svNetEv /\ svNetEv' = NoEvent
        /\ UNCHANGED <<svPc, svEvent, svPlayers>>
    BY <1>4 DEF ServerPost, wireVars, svMainVars
  <2>2. svNextId' = svNextId
    BY <1>4 DEF ServerPost
  <2>3. \A i : Heard(i)' <= Heard(i)
    <3>1. \A i : /\ KeyOf(svSlot, i)' = KeyOf(svNetEv, i) /\ KeyOf(svNetEv, i)' = KeyOf(NoEvent, i)
                 /\ InHand(i)' = InHand(i) /\ Way(i)' = Way(i)
      BY <2>1 DEF KeyOf, InHand, Way
    <3> QED
      BY <1>3, <3>1 DEF Heard
  <2> QED
    BY <1>1, <1>2, <1>3, <2>1, <2>2, <2>3, KeysKept
<1>5. CASE ServerPoll
  <2>1. /\ UNCHANGED <<toServer, dups, svConns, svNextId, svNetEv, svPlayers>>
        /\ svPc = "poll" /\ svPc' = "handle" /\ svEvent' = svSlot /\ svSlot' = NoEvent
    BY <1>5 DEF ServerPoll, AfterGetEvent, wireVars, svNetVars
  <2>2. \A i : Heard(i)' <= Heard(i)
    <3>1. \A i : /\ KeyOf(svSlot, i)' = KeyOf(NoEvent, i) /\ KeyOf(svNetEv, i)' = KeyOf(svNetEv, i)
                 /\ InHand(i)' = KeyOf(svSlot, i) /\ Way(i)' = Way(i)
      BY <2>1 DEF KeyOf, InHand, Way
    <3> QED
      BY <1>3, <3>1 DEF Heard
  <2> QED
    BY <1>1, <1>2, <1>3, <2>1, <2>2, KeysKept
<1>6. CASE SendUpdate
  <2>1. /\ svPc' = "poll"
        /\ UNCHANGED <<toServer, dups, svNetEv, svSlot, svNextId, svConns>>
        /\ \A i \in DOMAIN svPlayers : svPlayers'[i] = svPlayers[i]
        /\ \A i \in DOMAIN svPlayers' \ DOMAIN svPlayers : svPlayers'[i] = Origin
    BY <1>6, UpdateEffect DEF AddressInv
  <2>2. \A i : Way(i)' <= Way(i)
    <3>1. Distance(Origin, Origin) = 0
      BY DistanceType, OriginType
    <3>2. SUFFICES ASSUME NEW i PROVE Way(i)' <= Way(i)
      OBVIOUS
    <3>3. CASE i \in DOMAIN svPlayers
      BY <1>3, <2>1, <3>1, <3>3 DEF Way
    <3>4. CASE i \notin DOMAIN svPlayers
      BY <1>3, <2>1, <3>1, <3>4 DEF Way
    <3> QED
      BY <3>3, <3>4
  <2>3. \A i : Heard(i)' <= Heard(i)
    <3>1. \A i : /\ KeyOf(svSlot, i)' = KeyOf(svSlot, i) /\ KeyOf(svNetEv, i)' = KeyOf(svNetEv, i)
                 /\ InHand(i)' = 0 /\ Way(i)' \in Nat
      BY <2>1, WayPrimed DEF KeyOf, InHand
    <3> QED
      BY <1>3, <2>2, <3>1 DEF Heard
  <2> QED
    BY <1>1, <1>2, <1>3, <2>1, <2>3, KeysKept
<1>7. CASE GetStuck
  <2>1. /\ UNCHANGED <<toServer, dups, svConns, svNextId, svNetEv, svSlot, svPlayers>>
        /\ svPc' # "handle"
    BY <1>7 DEF GetStuck, wireVars, svNetVars
  <2>2. \A i : Heard(i)' <= Heard(i)
    <3>1. \A i : /\ KeyOf(svSlot, i)' = KeyOf(svSlot, i) /\ KeyOf(svNetEv, i)' = KeyOf(svNetEv, i)
                 /\ InHand(i)' = 0 /\ Way(i)' = Way(i)
      BY <2>1 DEF KeyOf, InHand, Way
    <3> QED
      BY <1>3, <3>1 DEF Heard
  <2> QED
    BY <1>1, <1>2, <1>3, <2>1, <2>2, KeysKept
<1>8. CASE ServerRestart
  <2>1. toServer' = toServer /\ dups' = dups /\ Ids' = {}
    BY <1>8 DEF ServerRestart, wireVars, Ids
  <2> QED
    BY <1>1, <1>2, <2>1, FramesKept DEF KeysInv
<1>9. CASE ServerHandle
  BY <1>1, <1>9, HandleKeysStep
<1> QED
  BY <1>1, <1>4, <1>5, <1>6, <1>7, <1>8, <1>9, RecvKeysStep DEF ServerStep, ServerNet, ServerMain

LEMMA KeysStep ==
  ASSUME IInv, IInv', AddressInv, KeysInv, [Next]_vars
  PROVE  KeysInv'
<1>1. CASE NetworkStep \/ UNCHANGED vars
  <2>1. /\ toServer' \subseteq toServer /\ dups' = dups /\ clKeys' = clKeys
        /\ UNCHANGED <<svConns, svNextId, svNetEv, svSlot, svPc, svEvent, svPlayers>>
    BY <1>1 DEF NetworkStep, Lose, vars, wireVars, svVars, clVars
  <2>2. \A i : Heard(i)' = Heard(i) /\ Heard(i) \in Nat
    BY <2>1, HeardType DEF Heard, KeyOf, InHand, Way
  <2>3. dups \in Nat
    BY WireAssumption DEF IInv, TypeOK, WireTypeOK
  <2> QED
    BY <2>1, <2>2, <2>3, KeysKept
<1> QED
  BY <1>1, ServerKeysStep, ClientKeysStep DEF Next

(* Keys are pressed or repeated before they are played, each once.         *)
THEOREM KeysCount == Spec => []KeysInv
<1>1. Init => KeysInv
  BY KeysInit
<1>2. IInv /\ IInv' /\ AddressInv /\ KeysInv /\ [Next]_vars => KeysInv'
  BY KeysStep
<1> QED
  BY <1>1, <1>2, Invariant, Addresses, PTL DEF Spec

(* So a player has come no further than its user's keys. *)
LEMMA KeysBoundPlayers ==
  ASSUME IInv, KeysInv
  PROVE  PlayersMoveByKeys
<1>1. SUFFICES ASSUME NEW i \in DOMAIN svPlayers \cap DOMAIN svConns
               PROVE  Distance(svPlayers[i], Origin) <= Presses(svConns[i])
  BY DEF PlayersMoveByKeys
<1>2. i \in Ids
  BY <1>1 DEF IInv, IdsInv
<1>3. /\ Cardinality(KeyFrames(svConns[i])) \in Nat /\ Presses(svConns[i]) \in Nat
      /\ Cardinality(KeyFrames(svConns[i])) + Heard(i) <= Presses(svConns[i])
  BY <1>1, <1>2, UsedTypes
<1>4. /\ KeyOf(svNetEv, i) \in {0, 1} /\ KeyOf(svSlot, i) \in {0, 1}
      /\ InHand(i) \in {0, 1} /\ Way(i) \in Nat
  BY <1>1, KeyOfType, WayType DEF InHand
<1>5. Way(i) <= Presses(svConns[i])
  BY <1>3, <1>4 DEF Heard
<1> QED
  BY <1>1, <1>5 DEF Way

(* On the server no player is further from its start than its user has     *)
(* pressed keys and the network has made duplicates, however many players  *)
(* there are, whatever is lost or late, and after any number of restarts.  *)
THEOREM PlayersMove == Spec => []PlayersMoveByKeys
<1>1. IInv /\ KeysInv => PlayersMoveByKeys
  BY KeysBoundPlayers
<1> QED
  BY <1>1, Invariant, KeysCount, PTL

-----------------------------------------------------------------------------
(* Pictures. *)

(* While the server runs, no id is taken back, and no key forgotten. *)
LEMMA NothingTaken ==
  ASSUME IInv, AddressInv, [Next]_vars, svRestarts' = 0
  PROVE  /\ svRestarts = 0 /\ Ids \subseteq Ids'
         /\ \A i \in Ids : svConns'[i] = svConns[i]
         /\ \A c \in Clients : Presses(c)' >= Presses(c) /\ Presses(c)' \in Nat
<1>1. dups \in Nat /\ svRestarts \in Nat
  BY WireAssumption, ServerAssumption DEF IInv, TypeOK, WireTypeOK, ServerTypeOK
<1>2. \A c \in Clients : clKeys[c] \in Nat /\ Presses(c) = clKeys[c] + dups
  BY PressesType
<1>3. ASSUME ServerStep
      PROVE  /\ svRestarts = 0 /\ Ids \subseteq Ids'
             /\ \A i \in Ids : svConns'[i] = svConns[i]
             /\ clKeys' = clKeys /\ dups' \in Nat /\ dups' >= dups
  <2>1. clKeys' = clKeys
    BY <1>3 DEF ServerStep, clVars
  <2>2. ASSUME NEW f \in toServer, ServerRecv(f)
        PROVE  /\ svRestarts = 0 /\ Ids \subseteq Ids'
               /\ \A i \in Ids : svConns'[i] = svConns[i]
               /\ dups' \in Nat /\ dups' >= dups
    <3>1. svRestarts = 0 /\ dups' \in Nat /\ dups' >= dups
      BY <1>1, <2>2 DEF ServerRecv, TakeFrom
    <3>2. Ids \subseteq Ids' /\ \A i \in Ids : svConns'[i] = svConns[i]
      <4>1. CASE f.type = "CONNECTION_REQUEST"
        BY <2>2, <4>1, RegisterEffect
      <4>2. CASE f.type = "DATA_KEY_DOWN"
        BY <2>2, <4>2, HearKeyEffect DEF Ids
      <4>3. CASE f.type = "ACK"
        BY <2>2, <4>3 DEF ServerRecv, Ids
      <4> QED
        BY <2>2, <4>1, <4>2, <4>3 DEF ServerRecv
    <3> QED
      BY <3>1, <3>2
  <2> DEFINE Kept == UNCHANGED <<svRestarts, svConns, svNextId, dups>>
  <2>3. CASE Kept
    <3>1. Ids' = Ids
      BY <2>3 DEF Ids
    <3> QED
      BY <1>1, <2>1, <2>3, <3>1
  <2>4. ServerPost \/ ServerPoll \/ GetStuck => Kept
    BY DEF ServerPost, ServerPoll, GetStuck, wireVars, svNetVars
  <2>5. ServerHandle \/ SendUpdate => Kept
    <3>1. DOMAIN svPlayers \subseteq Ids \cup {-1}
      BY DEF AddressInv
    <3>2. ServerHandle => Kept
      BY HandleEffect DEF ServerHandle
    <3>3. SendUpdate => Kept
      <4>1. SendUpdate => UNCHANGED <<dups, svConns, svNextId>>
        BY <3>1, UpdateEffect
      <4> QED
        BY <4>1 DEF SendUpdate
    <3> QED
      BY <3>2, <3>3
  <2> HIDE DEF Kept
  <2>6. CASE ServerRestart
    BY <1>1, <2>6 DEF ServerRestart
  <2> QED
    BY <1>3, <2>1, <2>2, <2>3, <2>4, <2>5, <2>6 DEF ServerStep, ServerNet, ServerMain
<1>4. ASSUME NEW c \in Clients, ClientStep(c)
      PROVE  /\ svRestarts = 0 /\ Ids \subseteq Ids'
             /\ \A i \in Ids : svConns'[i] = svConns[i]
             /\ clKeys' = clKeys \/ clKeys' = [clKeys EXCEPT ![c] = @ + 1]
             /\ dups' \in Nat /\ dups' >= dups
  BY <1>1, <1>4, ClientSends, WireAssumption DEF svVars, Ids
<1>5. CASE NetworkStep \/ UNCHANGED vars
  BY <1>1, <1>2, <1>5 DEF NetworkStep, Lose, vars, wireVars, svVars, clVars, Ids, Presses
<1>6. CASE ServerStep
  BY <1>1, <1>2, <1>3, <1>6 DEF Presses
<1>7. CASE \E c \in Clients : ClientStep(c)
  <2>1. PICK c \in Clients : ClientStep(c)
    BY <1>7
  <2>2. ASSUME NEW b \in Clients PROVE clKeys'[b] \in Nat /\ clKeys'[b] >= clKeys[b]
    <3>1. DOMAIN clKeys = Clients
      BY DEF IInv, TypeOK, ClientTypeOK
    <3> QED
      BY <1>2, <1>4, <2>1, <3>1
  <2> QED
    BY <1>1, <1>2, <1>4, <2>1, <2>2 DEF Presses
<1> QED
  BY <1>5, <1>6, <1>7 DEF Next

(* A picture that was right stays right. *)
LEMMA ShowsKept ==
  ASSUME IInv, AddressInv, [Next]_vars, svRestarts' = 0,
         NEW ents, MapOver(ents, Nat, Position), Shows(ents),
         DOMAIN svConns = Ids, DOMAIN svConns' = Ids'
  PROVE  Shows(ents)'
<1>1. /\ Ids \subseteq Ids' /\ \A i \in Ids : svConns'[i] = svConns[i]
      /\ \A c \in Clients : Presses(c)' >= Presses(c) /\ Presses(c)' \in Nat
  BY NothingTaken
<1>2. ASSUME NEW i \in DOMAIN ents
      PROVE  i \in DOMAIN svConns' /\ Distance(ents[i], Origin) <= Presses(svConns[i])'
  <2>1. /\ i \in Ids /\ i \in Ids' /\ svConns[i] \in Clients /\ svConns'[i] = svConns[i]
        /\ Distance(ents[i], Origin) <= Presses(svConns[i])
    BY <1>1, <1>2 DEF Shows, IInv, IdsInv
  <2>2. ents[i] \in Position
    BY DEF MapOver
  <2>3. Distance(ents[i], Origin) \in Nat
    BY <2>2, DistanceType
  <2>4. PICK c \in Clients : c = svConns[i] /\ c = svConns'[i]
    BY <2>1
  <2>5. Presses(c) \in Nat /\ Presses(c)' \in Nat /\ Presses(c)' >= Presses(c)
    BY <1>1, PressesType
  <2>6. Presses(svConns[i])' = Presses(c)'
    BY <2>4 DEF Presses
  <2> QED
    BY <2>1, <2>3, <2>4, <2>5, <2>6
<1> QED
  BY <1>2 DEF Shows

LEMMA EmptyShows == Shows(EmptyMap) /\ Shows(EmptyMap)'
  BY DEF Shows, EmptyMap

(* What a walk adds to a picture are players at their start, and an update *)
(* put over a view shows what the two show.                                *)
LEMMA FillShows ==
  ASSUME IInv, NEW m, MapOver(m, Nat, Position), Shows(m)
  PROVE  Shows(Fill(m, Origin))
<1>1. /\ svNextId \in Nat /\ DOMAIN svConns = Ids
      /\ \A i \in Ids : svConns[i] \in Clients
  BY DEF IInv, TypeOK, ServerTypeOK, IdsInv
<1>2. DOMAIN m \subseteq 0..(svNextId - 1)
  BY <1>1 DEF Shows, Ids
<1>3. /\ DOMAIN Fill(m, Origin) \subseteq 0..(svNextId - 1)
      /\ \A i \in DOMAIN m : Fill(m, Origin)[i] = m[i]
      /\ \A i \in DOMAIN Fill(m, Origin) \ DOMAIN m : Fill(m, Origin)[i] = Origin
  BY <1>1, <1>2, FillDomain
<1>4. ASSUME NEW i \in DOMAIN Fill(m, Origin)
      PROVE  i \in DOMAIN svConns /\ Distance(Fill(m, Origin)[i], Origin) <= Presses(svConns[i])
  <2>1. i \in Ids
    BY <1>3 DEF Ids
  <2>2. PICK c \in Clients : c = svConns[i]
    BY <1>1, <2>1
  <2>3. Presses(c) \in Nat /\ Distance(Origin, Origin) = 0
    BY PressesType, DistanceType, OriginType
  <2>4. CASE i \in DOMAIN m
    BY <1>3, <2>4 DEF Shows
  <2>5. CASE i \notin DOMAIN m
    BY <1>1, <1>3, <2>1, <2>2, <2>3, <2>5
  <2> QED
    BY <2>4, <2>5
<1> QED
  BY <1>4 DEF Shows

LEMMA OverlayShows ==
  ASSUME NEW top, NEW base, Shows(top), Shows(base)
  PROVE  Shows(Overlay(top, base))
  BY DEF Shows, Overlay

(* Where a client's pictures come from: a frame, its network thread, its   *)
(* mailbox, and the view it has; and it makes no frames with pictures.     *)
LEMMA ClientPictures ==
  ASSUME IInv, NEW c \in Clients, ClientStep(c)
  PROVE  /\ toClient' \subseteq toClient
         /\ clNetEv'[c].ents \in {clNetEv[c].ents, EmptyMap} \cup {f.ents : f \in toClient}
         /\ clSlot'[c].ents \in {clSlot[c].ents, clNetEv[c].ents, EmptyMap}
         /\ \/ clView'[c] \in {clView[c], EmptyMap, Fill(clView[c], Origin)}
            \/ clView'[c] = Fill(Overlay(clSlot[c].ents, clView[c]), Origin)
<1>1. ClientTypeOK
  BY DEF IInv, TypeOK
<1>2. NoEvent.ents = EmptyMap
  BY NoEventType DEF NoEvent, Event
<1> USE <1>1, <1>2 DEF ClientTypeOK
<1>3. CASE ClientStart(c)
  BY <1>3 DEF ClientStart, SendRequest
<1>4. CASE ClientCheck(c)
  BY <1>4 DEF ClientCheck, wireVars
<1>5. CASE ClientGiveUp(c) \/ ClientQuit(c)
  BY <1>5 DEF ClientGiveUp, ClientQuit, EndProcess, wireVars
<1>6. CASE ClientRetry(c)
  BY <1>6 DEF ClientRetry, SendRequest
<1>7. CASE ClientPoll(c)
  BY <1>7 DEF ClientPoll, AfterGetEvent, wireVars
<1>8. CASE ClientFrame(c)
  <2>1. /\ toClient' = toClient /\ clNetEv' = clNetEv
        /\ clSlot' = [clSlot EXCEPT ![c] = NoEvent]
        /\ clView' = [clView EXCEPT ![c] = Fill(handleEvent(@, clSlot[c]), Origin)]
    BY <1>8 DEF ClientFrame, AfterGetEvent, getPlayers
  <2> QED
    BY <2>1 DEF handleEvent, setGameUpdate
<1>9. CASE ClientTick(c)
  BY <1>9 DEF ClientTick, wireVars
<1>10. ASSUME NEW f \in toClient, ClientRecv(c, f)
       PROVE  /\ toClient' \subseteq toClient /\ clSlot' = clSlot /\ clView' = clView
              /\ clNetEv'[c].ents \in {clNetEv[c].ents, EmptyMap, f.ents}
  <2>1. toClient' \subseteq toClient /\ clSlot' = clSlot /\ clView' = clView
    BY <1>10 DEF ClientRecv, TakeFrom
  <2>2. \/ clNetEv' = clNetEv
        \/ \E id : clNetEv' = [clNetEv EXCEPT ![c] = NetEvent("EVENT_NET_CONNECT_ACK", id)]
        \/ clNetEv' = [clNetEv EXCEPT ![c] = UpdateEvent(f.ents)]
    BY <1>10 DEF ClientRecv, HearAck, HearUpdate
  <2> QED
    BY <2>1, <2>2 DEF NetEvent, UpdateEvent, Event
<1>11. CASE ClientPost(c) \/ ClientSetStatus(c)
  BY <1>11 DEF ClientPost, ClientSetStatus, wireVars
<1> QED
  BY <1>3, <1>4, <1>5, <1>6, <1>7, <1>8, <1>9, <1>10, <1>11
     DEF ClientStep, ClientMain, ClientNet

(* The server makes frames without a picture and, when it updates, with    *)
(* the one of its players.                                                 *)
LEMMA ServerFrames ==
  ASSUME IInv, ServerStep, svRestarts' = 0, NEW f \in toClient' \ toClient
  PROVE  f.ents = EmptyMap \/ (SendUpdate /\ f.ents = FirstEnts(svPlayers'))
<1>1. ASSUME NEW g \in toServer, ServerRecv(g) PROVE f.ents = EmptyMap
  BY <1>1 DEF ServerRecv, AfterSendToClients, ToClient
<1>2. CASE ServerPost \/ ServerPoll \/ GetStuck
  BY <1>2 DEF ServerPost, ServerPoll, GetStuck, wireVars
<1>3. CASE ServerHandle
  BY <1>3 DEF ServerHandle, HandleConnect, HandleKey, HandleNothing,
              AfterSendToClients, FrameTo, ToClient
<1>4. CASE SendUpdate
  <2> DEFINE ids == Recipients(svClients')
  <2>1. toClient' = AfterSendToClients(
          UNION {FrameTo(svConns, id, "DATA_GAMEUPDATE", FirstEnts(svPlayers')) : id \in ids})
    BY <1>4 DEF SendUpdate
  <2>2. PICK id \in ids : f \in FrameTo(svConns, id, "DATA_GAMEUPDATE", FirstEnts(svPlayers'))
    BY <2>1 DEF AfterSendToClients
  <2> QED
    BY <1>4, <2>2 DEF FrameTo, ToClient
<1>5. ~ServerRestart
  BY ServerAssumption DEF ServerRestart, IInv, TypeOK, ServerTypeOK
<1> QED
  BY <1>1, <1>2, <1>3, <1>4, <1>5 DEF ServerStep, ServerNet, ServerMain

(* The picture of an update is one of the players of the server. *)
LEMMA UpdateShows ==
  ASSUME IInv, AddressInv, KeysInv, SendUpdate
  PROVE  Shows(FirstEnts(svPlayers'))
<1>1. DOMAIN svPlayers \subseteq Ids \cup {-1}
  BY DEF AddressInv
<1>2. /\ DOMAIN svPlayers \subseteq Ids /\ DOMAIN svPlayers' \subseteq Ids
      /\ \A i \in DOMAIN svPlayers : svPlayers'[i] = svPlayers[i]
      /\ \A i \in DOMAIN svPlayers' \ DOMAIN svPlayers : svPlayers'[i] = Origin
  BY <1>1, UpdateEffect
<1>3. /\ DOMAIN svConns = Ids /\ \A i \in Ids : svConns[i] \in Clients
  BY DEF IInv, IdsInv
<1>4. ASSUME NEW i \in DOMAIN svPlayers'
      PROVE  i \in DOMAIN svConns /\ Distance(svPlayers'[i], Origin) <= Presses(svConns[i])
  <2>1. PICK c \in Clients : c = svConns[i]
    BY <1>2, <1>3
  <2>2. Presses(c) \in Nat /\ Distance(Origin, Origin) = 0
    BY PressesType, DistanceType, OriginType
  <2>3. CASE i \in DOMAIN svPlayers
    BY <1>2, <1>3, <2>3, KeysBoundPlayers DEF PlayersMoveByKeys
  <2>4. CASE i \notin DOMAIN svPlayers
    BY <1>2, <1>3, <2>1, <2>2, <2>4
  <2> QED
    BY <2>3, <2>4
<1> QED
  BY <1>4 DEF Shows, FirstEnts

LEMMA PicturesStep ==
  ASSUME IInv, IInv', AddressInv, KeysInv, PicturesAreOfPlayers, [Next]_vars
  PROVE  PicturesAreOfPlayers'
<1> SUFFICES ASSUME svRestarts' = 0
             PROVE  /\ \A f \in toClient' : Shows(f.ents)'
                    /\ \A c \in Clients : /\ Shows(clNetEv[c].ents)'
                                          /\ Shows(clSlot[c].ents)'
                                          /\ Shows(clView[c])'
  BY DEF PicturesAreOfPlayers
<1>1. /\ DOMAIN svConns = Ids /\ DOMAIN svConns' = Ids'
  BY DEF IInv, IdsInv
<1>2. /\ \A f \in toClient : Shows(f.ents)
      /\ \A c \in Clients : Shows(clNetEv[c].ents) /\ Shows(clSlot[c].ents) /\ Shows(clView[c])
  BY NothingTaken DEF PicturesAreOfPlayers
<1>3. ASSUME NEW e, MapOver(e, Nat, Position), Shows(e)
      PROVE  Shows(e)'
  BY <1>1, <1>3, ShowsKept
<1>4. /\ \A f \in toClient' : MapOver(f.ents, Nat, Position)
      /\ \A c \in Clients : /\ MapOver(clNetEv'[c].ents, Nat, Position)
                            /\ MapOver(clSlot'[c].ents, Nat, Position)
                            /\ MapOver(clView'[c], Nat, Position)
  BY DEF IInv, TypeOK, WireTypeOK, ClientTypeOK, IsClientFrame, IsEvent
<1>5. ASSUME NEW f \in toClient' PROVE Shows(f.ents)
  <2>1. CASE f \in toClient
    BY <1>2, <2>1
  <2>2. CASE f \notin toClient
    <3>1. ServerStep
      BY <2>2, ClientPictures DEF Next, NetworkStep, Lose, vars, wireVars
    <3> QED
      BY <2>2, <3>1, ServerFrames, UpdateShows, EmptyShows
  <2> QED
    BY <2>1, <2>2
<1>6. ASSUME NEW c \in Clients
      PROVE  Shows(clNetEv'[c].ents) /\ Shows(clSlot'[c].ents) /\ Shows(clView'[c])
  <2>1. CASE ClientStep(c)
    <3>1. /\ MapOver(clView[c], Nat, Position) /\ MapOver(clSlot[c].ents, Nat, Position)
      BY DEF IInv, TypeOK, ClientTypeOK, IsEvent
    <3>2. Shows(Fill(clView[c], Origin))
      BY <1>2, <3>1, FillShows
    <3>3. Shows(Fill(Overlay(clSlot[c].ents, clView[c]), Origin))
      BY <1>2, <3>1, FillShows, OverlayShows, OverlayType
    <3> QED
      BY <1>2, <2>1, <3>2, <3>3, ClientPictures, EmptyShows
  <2>2. CASE ~ClientStep(c)
    <3>1. clNetEv'[c] = clNetEv[c] /\ clSlot'[c] = clSlot[c] /\ clView'[c] = clView[c]
      BY <2>2, OthersKept DEF Next, ServerStep, NetworkStep, vars, clVars
    <3> QED
      BY <1>2, <3>1
  <2> QED
    BY <2>1, <2>2
<1>7. \A f \in toClient' : Shows(f.ents)'
  BY <1>3, <1>4, <1>5
<1>8. ASSUME NEW c \in Clients
      PROVE  Shows(clNetEv[c].ents)' /\ Shows(clSlot[c].ents)' /\ Shows(clView[c])'
  <2>1. PICK e : e = clNetEv'[c].ents
    OBVIOUS
  <2>2. PICK s : s = clSlot'[c].ents
    OBVIOUS
  <2>3. PICK v : v = clView'[c]
    OBVIOUS
  <2>4. Shows(e)' /\ Shows(s)' /\ Shows(v)'
    <3>1. /\ MapOver(e, Nat, Position) /\ Shows(e)
          /\ MapOver(s, Nat, Position) /\ Shows(s)
          /\ MapOver(v, Nat, Position) /\ Shows(v)
      BY <1>4, <1>6, <2>1, <2>2, <2>3
    <3> QED
      BY <1>3, <3>1
  <2> QED
    BY <2>1, <2>2, <2>3, <2>4 DEF Shows
<1> QED
  BY <1>7, <1>8

(* Every picture of the game, in flight or on a screen, shows registered   *)
(* players no further from their start than their users have pressed keys, *)
(* until the server is restarted.                                          *)
THEOREM PicturesArePlayers == Spec => []PicturesAreOfPlayers
<1>1. Init => PicturesAreOfPlayers
  BY EmptyShows, NoEventType
     DEF Init, WireInit, ServerInit, ClientInit, PicturesAreOfPlayers, NoEvent, Event
<1>2. /\ IInv /\ IInv' /\ AddressInv /\ KeysInv /\ PicturesAreOfPlayers /\ [Next]_vars
      => PicturesAreOfPlayers'
  BY PicturesStep
<1> QED
  BY <1>1, <1>2, Invariant, Addresses, KeysCount, PTL DEF Spec

=============================================================================
