---------------------------- MODULE RequestProofs ----------------------------
(***************************************************************************)
(* Proofs about connection requests: a client that has asked once, of a    *)
(* network that has duplicated nothing, is registered at most once, and    *)
(* before it can press a key.  So its player is never put back.            *)
(***************************************************************************)
EXTENDS LobbyProofs

-----------------------------------------------------------------------------
(* Strangers. *)

Request(c) == ToServer(c, "CONNECTION_REQUEST", NoKey)

(* Every request is the same frame, and nobody knows, or has an answer for *)
(* or a key of, a client that has not started.                             *)
StrangersInv ==
  /\ \A f \in toServer : f.type = "CONNECTION_REQUEST" => f = Request(f.from)
  /\ \A c \in Clients :
       clPc[c] = "start" => ~Known(c) /\ ~Told(c) /\ ~KeyOnItsWay(c)

(* What a step of the server does to what it knows. *)
LEMMA ServerKnows ==
  ASSUME IInv, IInv', AddressInv, ServerStep, NEW c \in Clients
  PROVE  /\ Known(c)' => \/ Known(c)
                         \/ \E f \in toServer : f.from = c /\ f.type = "CONNECTION_REQUEST"
         /\ \A f \in toClient' \ toClient :
              f.type = "CONNECTION_REQUEST_ACK" /\ f.to = c
                => svPc = "handle" /\ svEvent.type = "EVENT_NET_CONNECT"
                   /\ svEvent.id \in Ids /\ svConns[svEvent.id] = c
<1>1. DOMAIN svConns = Ids
  BY DEF IInv, IdsInv
<1>2. ASSUME UNCHANGED <<svConns, svNextId>> PROVE Known(c)' => Known(c)
  BY <1>2 DEF Known, Ids
<1>3. ASSUME NEW f \in toServer, ServerRecv(f)
      PROVE  /\ \A g \in toClient' \ toClient : g.type # "CONNECTION_REQUEST_ACK"
             /\ Known(c)' => Known(c) \/ (f.from = c /\ f.type = "CONNECTION_REQUEST")
  <2>1. \A g \in toClient' \ toClient : g.type # "CONNECTION_REQUEST_ACK"
    BY <1>3, AckTypesLemma DEF ServerRecv, AfterSendToClients, ToClient
  <2>2. CASE f.type = "CONNECTION_REQUEST"
    <3>1. PICK id \in Nat :
            /\ Ids' = Ids \cup {id}
            /\ svConns'[id] = f.from
            /\ \A i \in Ids : svConns'[i] = svConns[i]
      BY <1>3, <2>2, RegisterEffect
    <3> QED
      BY <2>1, <2>2, <3>1 DEF Known
  <2>3. CASE f.type = "DATA_KEY_DOWN"
    BY <1>2, <1>3, <2>1, <2>3, HearKeyEffect
  <2>4. CASE f.type = "ACK"
    BY <1>2, <1>3, <2>1, <2>4 DEF ServerRecv
  <2> QED
    BY <1>3, <2>2, <2>3, <2>4 DEF ServerRecv
<1>4. CASE ServerPost \/ ServerPoll \/ GetStuck
  BY <1>2, <1>4 DEF ServerPost, ServerPoll, GetStuck, svNetVars, wireVars
<1>5. CASE ServerHandle
  <2>1. UNCHANGED <<svConns, svNextId>> /\ svPc = "handle"
    BY <1>5, HandleEffect
  <2>2. ASSUME NEW f \in toClient' \ toClient, f.to = c
        PROVE  /\ svEvent.type = "EVENT_NET_CONNECT"
               /\ svEvent.id \in Ids /\ svConns[svEvent.id] = c
    <3>1. HandleConnect
      BY <1>5, <2>2 DEF ServerHandle, HandleKey, HandleNothing
    <3>2. svEvent.type = "EVENT_NET_CONNECT" /\ svEvent.id \in Ids
      BY <3>1 DEF HandleConnect, IInv, IdsInv, NamesAnId
    <3>3. f \in FrameTo(svConns, svEvent.id, "CONNECTION_REQUEST_ACK", EmptyMap)
      BY <2>2, <3>1 DEF HandleConnect, AfterSendToClients
    <3> QED
      BY <1>1, <2>2, <3>2, <3>3 DEF FrameTo, ToClient, Get
  <2> QED
    BY <1>2, <2>1, <2>2
<1>6. CASE SendUpdate
  <2>1. UNCHANGED <<svConns, svNextId>>
    BY <1>6, UpdateEffect DEF AddressInv
  <2> DEFINE ids == Recipients(svClients')
  <2>2. toClient' = AfterSendToClients(
          UNION {FrameTo(svConns, id, "DATA_GAMEUPDATE", FirstEnts(svPlayers')) : id \in ids})
    BY <1>6 DEF SendUpdate
  <2>3. ASSUME NEW f \in toClient' \ toClient PROVE f.type = "DATA_GAMEUPDATE"
    <3>1. PICK id \in ids : f \in FrameTo(svConns, id, "DATA_GAMEUPDATE", FirstEnts(svPlayers'))
      BY <2>2, <2>3 DEF AfterSendToClients
    <3> QED
      BY <3>1 DEF FrameTo, ToClient
  <2> QED
    BY <1>2, <2>1, <2>3
<1>7. CASE ServerRestart
  BY <1>7 DEF ServerRestart, Known, Ids, wireVars
<1> QED
  BY <1>3, <1>4, <1>5, <1>6, <1>7 DEF ServerStep, ServerNet, ServerMain

(* Only connect() makes requests. *)
LEMMA ClientSendsRequests ==
  ASSUME IInv, NEW c \in Clients, ClientStep(c),
         NEW f \in toServer' \ toServer, f.type = "CONNECTION_REQUEST"
  PROVE  ClientStart(c) \/ ClientRetry(c)
<1>1. CASE ClientCheck(c) \/ ClientGiveUp(c) \/ ClientQuit(c) \/ ClientPoll(c)
  BY <1>1 DEF ClientCheck, ClientGiveUp, ClientQuit, ClientPoll, EndProcess, wireVars
<1>2. CASE ClientTick(c) \/ ClientPost(c) \/ ClientSetStatus(c)
  BY <1>2 DEF ClientTick, ClientPost, ClientSetStatus, wireVars
<1>3. CASE ClientFrame(c)
  <2>1. \E key \in Keys : SendKey(c, key)
    BY <1>3 DEF ClientFrame
  <2>2. \E key \in Keys : toServer' \subseteq toServer \cup {ToServer(c, "DATA_KEY_DOWN", key)}
    BY <2>1, SendLemma DEF SendKey
  <2> QED
    BY <2>2 DEF ToServer
<1>4. ASSUME NEW g \in toClient, ClientRecv(c, g) PROVE FALSE
  <2>1. toServer' \subseteq toServer \cup {ToServer(c, t, NoKey) : t \in AckTypes(g.type)}
    BY <1>4, SendLemma DEF ClientRecv
  <2>2. f = ToServer(c, "ACK", NoKey)
    BY <2>1, AckTypesLemma
  <2> QED
    BY <2>2 DEF ToServer
<1> QED
  BY <1>1, <1>2, <1>3, <1>4 DEF ClientStep, ClientMain, ClientNet

LEMMA StrangersStep ==
  ASSUME IInv, IInv', AddressInv, StartedInv, StrangersInv, [Next]_vars
  PROVE  StrangersInv'
<1>1. clPc \in [Clients -> {"start", "check", "timed", "play", "failed", "quit"}]
  BY DEF IInv, TypeOK, ClientTypeOK
<1>2. \A f \in toServer : f.from \in Clients
  BY DEF IInv, TypeOK, WireTypeOK, ServerFrame
<1>3. CASE ServerStep
  <2>1. toServer' \subseteq toServer /\ UNCHANGED clVars
    BY <1>3, NoNewRequests
  <2>2. ASSUME NEW c \in Clients, clPc[c] = "start"
        PROVE  ~Known(c)' /\ ~Told(c)' /\ ~KeyOnItsWay(c)'
    <3>1. /\ ~Known(c) /\ ~Told(c) /\ ~KeyOnItsWay(c)
          /\ \A f \in toServer : f.from = c => f.type # "CONNECTION_REQUEST"
      BY <2>2 DEF StrangersInv, StartedInv
    <3>2. ~Known(c)'
      BY <1>3, <3>1, ServerKnows
    <3>3. \A f \in toClient' \ toClient : ~(f.to = c /\ f.type = "CONNECTION_REQUEST_ACK")
      BY <1>3, <3>1, ServerKnows DEF Known
    <3>4. ~Told(c)'
      BY <2>1, <3>1, <3>3 DEF Told, clVars
    <3>5. ~KeyOnItsWay(c)'
      BY <2>1, <3>1 DEF KeyOnItsWay
    <3> QED
      BY <3>2, <3>4, <3>5
  <2>3. \A f \in toServer' : f.type = "CONNECTION_REQUEST" => f = Request(f.from)
    BY <2>1 DEF StrangersInv
  <2>4. clPc' = clPc
    BY <2>1 DEF clVars
  <2> QED
    BY <2>2, <2>3, <2>4 DEF StrangersInv
<1>4. CASE NetworkStep \/ UNCHANGED vars
  <2>1. /\ toServer' \subseteq toServer /\ toClient' \subseteq toClient
        /\ UNCHANGED <<clVars, svConns, svNextId>>
    BY <1>4 DEF NetworkStep, Lose, vars, wireVars, svVars
  <2>2. \A f \in toServer' : f.type = "CONNECTION_REQUEST" => f = Request(f.from)
    BY <2>1 DEF StrangersInv
  <2>3. clPc' = clPc
    BY <2>1 DEF clVars
  <2>4. ASSUME NEW c \in Clients, clPc'[c] = "start"
        PROVE  ~Known(c)' /\ ~Told(c)' /\ ~KeyOnItsWay(c)'
    <3>1. ~Known(c) /\ ~Told(c) /\ ~KeyOnItsWay(c)
      BY <2>3, <2>4 DEF StrangersInv
    <3> QED
      BY <2>1, <3>1 DEF Known, Ids, Told, KeyOnItsWay, clVars
  <2> QED
    BY <2>2, <2>4 DEF StrangersInv
<1>5. ASSUME NEW b \in Clients, ClientStep(b) PROVE StrangersInv'
  <2>1. UNCHANGED <<svConns, svNextId>>
    BY <1>5 DEF ClientStep, svVars
  <2>2. /\ \A f \in toServer' \ toServer : f.from = b
        /\ \A c \in Clients : clPc'[c] = "start" => clPc[c] = "start"
    BY <1>1, <1>5, ClientPhases
  <2>3. ASSUME NEW f \in toServer' \ toServer, f.type = "CONNECTION_REQUEST"
        PROVE  f = Request(f.from)
    <3>1. ClientStart(b) \/ ClientRetry(b)
      BY <1>5, <2>3, ClientSendsRequests
    <3>2. toServer' \subseteq toServer \cup {Request(b)}
      BY <3>1, SendLemma DEF ClientStart, ClientRetry, SendRequest, Request
    <3> QED
      BY <2>3, <3>2 DEF Request, ToServer
  <2>4. ASSUME NEW c \in Clients, clPc'[c] = "start"
        PROVE  ~Known(c)' /\ ~Told(c)' /\ ~KeyOnItsWay(c)'
    <3>1. ~Known(c) /\ ~Told(c) /\ ~KeyOnItsWay(c)
      BY <2>2, <2>4 DEF StrangersInv
    <3>2. ~Told(c)'
      BY <1>5, <3>1, ClientTold
    <3>3. \A f \in toServer' \ toServer : f.from = c => f.type # "DATA_KEY_DOWN"
      <4>1. ASSUME NEW f \in toServer' \ toServer, f.from = c, f.type = "DATA_KEY_DOWN"
            PROVE  FALSE
        <5>1. b = c /\ clPc[b] = "play"
          BY <1>5, <2>2, <4>1, ClientSends
        <5> QED
          BY <2>2, <2>4, <5>1
      <4> QED
        BY <4>1
    <3> QED
      BY <2>1, <3>1, <3>2, <3>3 DEF Known, Ids, KeyOnItsWay
  <2> QED
    BY <2>3, <2>4 DEF StrangersInv
<1> QED
  BY <1>3, <1>4, <1>5 DEF Next

LEMMA Strangers == Spec => []StrangersInv
<1>1. Init => StrangersInv
  BY NoEventType
     DEF Init, WireInit, ServerInit, ClientInit, StrangersInv, Known, Told, KeyOnItsWay, Ids
<1>2. /\ IInv /\ IInv' /\ AddressInv /\ StartedInv /\ StrangersInv /\ [Next]_vars
      => StrangersInv'
  BY StrangersStep
<1> QED
  BY <1>1, <1>2, Invariant, Addresses, Started, PTL DEF Spec

-----------------------------------------------------------------------------
(* Requests that are not answered yet. *)

(* e registers c. *)
Registers(e, c) == e.type = "EVENT_NET_CONNECT" /\ svConns[e.id] = c

(* Where a request of c may be: on its way, in the hand of the network     *)
(* thread, in the mailbox, or in that of the main thread.                  *)
Sent(c) == Request(c) \in toServer
Taken(c) == Registers(svNetEv, c)
Posted(c) == Registers(svSlot, c)
InPlay(c) == svPc = "handle" /\ Registers(svEvent, c)

Pending(c) == Sent(c) \/ Taken(c) \/ Posted(c) \/ InPlay(c)

InOnePlace(c) ==
  /\ Sent(c) => ~Taken(c) /\ ~Posted(c) /\ ~InPlay(c)
  /\ Taken(c) => ~Posted(c) /\ ~InPlay(c)
  /\ Posted(c) => ~InPlay(c)

(* Nothing has become of c yet but a player that the walk over the others  *)
(* has made.                                                               *)
Fresh(c) ==
  /\ ~Told(c) /\ ~KeyOnItsWay(c)
  /\ \A i \in Ids : svConns[i] = c =>
       /\ KeyOf(svNetEv, i) = 0 /\ KeyOf(svSlot, i) = 0 /\ InHand(i) = 0
       /\ i \in DOMAIN svPlayers => svPlayers[i] = Origin

AskedOnce(c) == clRequests[c] <= 1 /\ dups = 0

(* The one request of c is in one place, and until it is played c is       *)
(* nobody.                                                                 *)
PendingOnce(c) == InOnePlace(c) /\ (Pending(c) => Fresh(c))

PendingInv == \A c \in Clients : AskedOnce(c) => PendingOnce(c)

LEMMA PendingInit ==
  ASSUME Init
  PROVE  PendingInv
  BY NoEventType
     DEF Init, WireInit, ServerInit, PendingInv, PendingOnce, InOnePlace, Pending,
         Sent, Taken, Posted, InPlay, Registers

(* Who had asked once after a step had asked at most once before it.       *)
LEMMA AskedBefore ==
  ASSUME IInv, IInv', [Next]_vars, NEW c \in Clients, AskedOnce(c)'
  PROVE  AskedOnce(c) /\ dups' = dups
<1>1. /\ dups \in Nat /\ clRequests \in [Clients -> 0..(CONNECTION_ATTEMPTS + 1)]
      /\ CONNECTION_ATTEMPTS \in Nat
  BY WireAssumption, ClientAssumption DEF IInv, TypeOK, WireTypeOK, ClientTypeOK
<1>2. dups' \in Nat /\ dups' >= dups /\ clRequests'[c] >= clRequests[c]
  <2>1. CASE ServerStep
    <3>1. ASSUME NEW f \in toServer, ServerRecv(f) PROVE dups' \in Nat /\ dups' >= dups
      BY <1>1, <3>1 DEF ServerRecv, TakeFrom
    <3>2. clRequests' = clRequests
      BY <2>1 DEF ServerStep, clVars
    <3> QED
      BY <1>1, <2>1, <3>1, <3>2
         DEF ServerStep, ServerNet, ServerMain, ServerPost, ServerPoll, ServerHandle,
             SendUpdate, GetStuck, ServerRestart, wireVars
  <2>2. CASE NetworkStep \/ UNCHANGED vars
    BY <1>1, <2>2 DEF NetworkStep, Lose, vars, wireVars, clVars
  <2>3. ASSUME NEW b \in Clients, ClientStep(b)
        PROVE  dups' \in Nat /\ dups' >= dups /\ clRequests'[c] >= clRequests[c]
    <3>1. dups' \in Nat /\ dups' >= dups
      BY <1>1, <2>3, ClientSends, WireAssumption
    <3>2. clRequests' = clRequests \/ clRequests' = [clRequests EXCEPT ![b] = @ + 1]
      BY <2>3 DEF ClientStep, ClientMain, ClientNet, ClientStart, ClientRetry, SendRequest,
                  ClientCheck, ClientGiveUp, ClientQuit, EndProcess, ClientPoll, ClientFrame,
                  ClientTick, ClientRecv, ClientPost, ClientSetStatus
    <3> QED
      BY <1>1, <3>1, <3>2
  <2> QED
    BY <2>1, <2>2, <2>3 DEF Next
<1>3. clRequests'[c] <= 1 /\ dups' = 0
  BY DEF AskedOnce
<1>4. clRequests[c] \in Nat /\ clRequests'[c] \in Int
  <2>1. clRequests' \in [Clients -> 0..(CONNECTION_ATTEMPTS + 1)]
    BY DEF IInv, TypeOK, ClientTypeOK
  <2> QED
    BY <1>1, <2>1
<1> QED
  BY <1>1, <1>2, <1>3, <1>4 DEF AskedOnce

(* A step of the server. *)
LEMMA ServerPendingStep ==
  ASSUME IInv, IInv', AddressInv, StrangersInv, ServerStep,
         NEW c \in Clients, dups' = dups, dups = 0, PendingOnce(c)
  PROVE  PendingOnce(c)'
<1>1. /\ DOMAIN svConns = Ids /\ DOMAIN svConns' = Ids' /\ svNextId \in Nat
      /\ \A i, j \in Ids : svConns[i] = svConns[j] => i = j
      /\ \A i, j \in Ids' : svConns'[i] = svConns'[j] => i = j
      /\ NamesAnId(svNetEv) /\ NamesAnId(svSlot) /\ NamesAnId(svEvent)
  BY DEF IInv, TypeOK, ServerTypeOK, IdsInv
<1>2. NoEvent.type = "EVENT_UNKNOWN"
  BY DEF NoEvent, Event
<1>3. UNCHANGED clVars
  BY DEF ServerStep
<1>4. Pending(c) => Fresh(c)
  BY DEF PendingOnce
<1>5. ASSUME NEW f \in toServer, ServerRecv(f), f.type = "CONNECTION_REQUEST"
      PROVE  PendingOnce(c)'
  <2>1. PICK id \in Nat :
          /\ Ids' = Ids \cup {id}
          /\ svConns'[id] = f.from
          /\ \A i \in Ids : svConns'[i] = svConns[i]
          /\ \/ id = svNextId /\ id \notin Ids
             \/ id \in Ids /\ svConns[id] = f.from
          /\ svNetEv' = NetEvent("EVENT_NET_CONNECT", id)
    BY <1>5, RegisterEffect
  <2>2. /\ toServer' = toServer \ {f} /\ f = Request(f.from) /\ f.from \in Clients
        /\ UNCHANGED <<svSlot, svPc, svEvent, svPlayers>>
    BY <1>5 DEF ServerRecv, TakeFrom, svMainVars, StrangersInv, IInv, TypeOK, WireTypeOK,
                ServerFrame
  <2>3. svNetEv'.type = "EVENT_NET_CONNECT" /\ svNetEv'.id = id
    BY <2>1 DEF NetEvent, Event
  <2>4. /\ Posted(c)' <=> Posted(c)
        /\ InPlay(c)' <=> InPlay(c)
    BY <1>1, <2>1, <2>2 DEF Posted, InPlay, Registers, NamesAnId
  <2>5. Taken(c)' <=> f.from = c
    BY <2>1, <2>3 DEF Taken, Registers
  <2>6. Sent(c)' <=> (Sent(c) /\ f.from # c)
    BY <2>2 DEF Sent, Request, ToServer
  <2>7. f.from = c => Sent(c)
    BY <2>2 DEF Sent
  <2>8. InOnePlace(c)'
    BY <2>4, <2>5, <2>6, <2>7 DEF PendingOnce, InOnePlace
  <2>9. ASSUME Pending(c)' PROVE Fresh(c)'
    <3>1. Fresh(c)
      BY <1>4, <2>4, <2>5, <2>6, <2>7, <2>9 DEF Pending
    <3>2. \A g \in toClient' \ toClient : g.type # "CONNECTION_REQUEST_ACK"
      BY <1>5, AckTypesLemma DEF ServerRecv, AfterSendToClients, ToClient
    <3>3. ~Told(c)'
      BY <1>3, <3>1, <3>2 DEF Fresh, Told, clVars
    <3>4. ~KeyOnItsWay(c)'
      BY <2>2, <3>1 DEF Fresh, KeyOnItsWay
    <3>5. ASSUME NEW i \in Ids', svConns'[i] = c
          PROVE  /\ KeyOf(svNetEv', i) = 0 /\ KeyOf(svSlot', i) = 0
                 /\ (IF svPc' = "handle" THEN KeyOf(svEvent', i) ELSE 0) = 0
                 /\ i \in DOMAIN svPlayers' => svPlayers'[i] = Origin
      <4>1. KeyOf(svNetEv', i) = 0
        BY <2>3 DEF KeyOf
      <4>2. CASE i \in Ids
        BY <2>1, <2>2, <3>1, <3>5, <4>1, <4>2 DEF Fresh, InHand
      <4>3. CASE i \notin Ids
        <5>1. i \in Nat /\ i # -1
          BY <1>1, <2>1, <4>3
        <5>2. /\ KeyOf(svSlot, i) = 0 /\ KeyOf(svEvent, i) = 0 /\ i \notin DOMAIN svPlayers
          BY <4>3, <5>1 DEF KeyOf, AddressInv, KeyIsOf
        <5> QED
          BY <2>2, <4>1, <5>2
      <4> QED
        BY <4>2, <4>3
    <3> QED
      BY <3>3, <3>4, <3>5 DEF Fresh, KeyOf, InHand
  <2> QED
    BY <2>8, <2>9 DEF PendingOnce
<1>6. ASSUME NEW f \in toServer, ServerRecv(f), f.type = "DATA_KEY_DOWN"
      PROVE  PendingOnce(c)'
  <2>1. /\ UNCHANGED <<svConns, svNextId>>
        /\ svNetEv'.type = "EVENT_KEY"
        /\ \/ svNetEv'.id = -1
           \/ svNetEv'.id \in Ids /\ svConns[svNetEv'.id] = f.from
    BY <1>6, HearKeyEffect
  <2>2. /\ toServer' = toServer \ {f}
        /\ UNCHANGED <<svSlot, svPc, svEvent, svPlayers>>
    BY <1>6 DEF ServerRecv, TakeFrom, svMainVars
  <2>3. /\ Posted(c)' <=> Posted(c)
        /\ InPlay(c)' <=> InPlay(c)
        /\ Sent(c)' => Sent(c)
        /\ ~Taken(c)'
    BY <2>1, <2>2 DEF Posted, InPlay, Sent, Taken, Registers
  <2>4. InOnePlace(c)'
    BY <2>3 DEF PendingOnce, InOnePlace
  <2>5. ASSUME Pending(c)' PROVE Fresh(c)'
    <3>1. Fresh(c)
      BY <1>4, <2>3, <2>5 DEF Pending
    <3>2. f.from # c
      BY <1>6, <3>1 DEF Fresh, KeyOnItsWay
    <3>3. \A g \in toClient' \ toClient : g.type # "CONNECTION_REQUEST_ACK"
      BY <1>6, AckTypesLemma DEF ServerRecv, AfterSendToClients, ToClient
    <3>4. ~Told(c)'
      BY <1>3, <3>1, <3>3 DEF Fresh, Told, clVars
    <3>5. ~KeyOnItsWay(c)'
      BY <2>2, <3>1 DEF Fresh, KeyOnItsWay
    <3>6. \A i \in Ids : svConns[i] = c => KeyOf(svNetEv', i) = 0
      BY <1>1, <2>1, <3>2 DEF KeyOf, Ids
    <3> QED
      BY <2>1, <2>2, <3>1, <3>4, <3>5, <3>6 DEF Fresh, KeyOf, InHand, Ids
  <2> QED
    BY <2>4, <2>5 DEF PendingOnce
<1>7. ASSUME toServer' = toServer, UNCHANGED <<svConns, svNextId>>,
             \/ UNCHANGED <<svNetEv, svSlot>>
             \/ svNetEv' = NoEvent /\ svSlot' = svNetEv
             \/ svNetEv' = svNetEv /\ svSlot' = NoEvent,
             InPlay(c)' => InPlay(c) \/ (Posted(c) /\ ~Posted(c)'),
             \A g \in toClient' \ toClient : g.type = "CONNECTION_REQUEST_ACK" => g.to # c,
             Fresh(c) => \A i \in Ids : svConns[i] = c =>
               /\ InHand(i)' = 0
               /\ i \in DOMAIN svPlayers' => svPlayers'[i] = Origin
      PROVE  PendingOnce(c)'
  <2>1. /\ Sent(c)' <=> Sent(c)
        /\ \/ (Taken(c)' <=> Taken(c)) /\ (Posted(c)' <=> Posted(c))
           \/ ~Taken(c)' /\ (Posted(c)' <=> Taken(c))
           \/ (Taken(c)' <=> Taken(c)) /\ ~Posted(c)'
    BY <1>2, <1>7 DEF Sent, Taken, Posted, Registers
  <2>2. InOnePlace(c)'
    BY <1>7, <2>1 DEF PendingOnce, InOnePlace
  <2>3. ASSUME Pending(c)' PROVE Fresh(c)'
    <3>1. Fresh(c)
      BY <1>4, <1>7, <2>1, <2>3 DEF Pending
    <3>2. ~Told(c)'
      BY <1>3, <1>7, <3>1 DEF Fresh, Told, clVars
    <3>3. ~KeyOnItsWay(c)'
      BY <1>7, <3>1 DEF Fresh, KeyOnItsWay
    <3>4. \A i \in Ids : svConns[i] = c => KeyOf(svNetEv', i) = 0 /\ KeyOf(svSlot', i) = 0
      BY <1>2, <1>7, <3>1 DEF Fresh, KeyOf
    <3>5. Ids' = Ids
      BY <1>7 DEF Ids
    <3> QED
      BY <1>7, <3>1, <3>2, <3>3, <3>4, <3>5 DEF Fresh, KeyOf
  <2> QED
    BY <2>2, <2>3 DEF PendingOnce
<1>8. ASSUME NEW f \in toServer, ServerRecv(f), f.type = "ACK"
      PROVE  PendingOnce(c)'
  <2>1. /\ UNCHANGED <<svConns, svNextId, svNetEv, svSlot, svPc, svEvent, svPlayers>>
        /\ toServer' = toServer \ {f}
    BY <1>8 DEF ServerRecv, TakeFrom, svMainVars
  <2>2. /\ Sent(c)' <=> Sent(c)
        /\ Taken(c)' <=> Taken(c)
        /\ Posted(c)' <=> Posted(c)
        /\ InPlay(c)' <=> InPlay(c)
    BY <1>8, <2>1 DEF Sent, Request, ToServer, Taken, Posted, InPlay, Registers
  <2>3. Fresh(c) => Fresh(c)'
    <3>1. \A g \in toClient' \ toClient : g.type # "CONNECTION_REQUEST_ACK"
      BY <1>8, AckTypesLemma DEF ServerRecv, AfterSendToClients, ToClient
    <3>2. ~Told(c) => ~Told(c)'
      BY <1>3, <3>1 DEF Told, clVars
    <3>3. ~KeyOnItsWay(c) => ~KeyOnItsWay(c)'
      BY <2>1 DEF KeyOnItsWay
    <3> QED
      BY <2>1, <3>2, <3>3 DEF Fresh, KeyOf, InHand, Ids
  <2> QED
    BY <2>2, <2>3 DEF PendingOnce, InOnePlace, Pending
<1>9. CASE ServerPost
  <2>1. /\ toServer' = toServer /\ toClient' = toClient
        /\ UNCHANGED <<svConns, svNextId, svPc, svEvent, svPlayers>>
        /\ svNetEv' = NoEvent /\ svSlot' = svNetEv
    BY <1>9 DEF ServerPost, wireVars, svMainVars
  <2>2. InPlay(c)' => InPlay(c)
    BY <2>1 DEF InPlay, Registers
  <2>3. Fresh(c) => \A i \in Ids : svConns[i] = c =>
          /\ InHand(i)' = 0
          /\ i \in DOMAIN svPlayers' => svPlayers'[i] = Origin
    BY <2>1 DEF Fresh, InHand, KeyOf
  <2> QED
    BY <1>7, <2>1, <2>2, <2>3
<1>10. CASE ServerPoll
  <2>1. /\ toServer' = toServer /\ toClient' = toClient
        /\ UNCHANGED <<svConns, svNextId, svNetEv, svPlayers>>
        /\ svEvent' = svSlot /\ svSlot' = NoEvent /\ svPc' = "handle"
    BY <1>10 DEF ServerPoll, wireVars, svNetVars, AfterGetEvent
  <2>2. InPlay(c)' => Posted(c) /\ ~Posted(c)'
    BY <1>2, <2>1 DEF InPlay, Posted, Registers
  <2>3. Fresh(c) => \A i \in Ids : svConns[i] = c =>
          /\ InHand(i)' = 0
          /\ i \in DOMAIN svPlayers' => svPlayers'[i] = Origin
    BY <2>1 DEF Fresh, InHand, KeyOf
  <2> QED
    BY <1>7, <2>1, <2>2, <2>3
<1>11. CASE GetStuck
  <2>1. /\ toServer' = toServer /\ toClient' = toClient
        /\ UNCHANGED <<svConns, svNextId, svNetEv, svSlot, svEvent, svPlayers>>
        /\ svPc' # "handle"
    BY <1>11 DEF GetStuck, wireVars, svNetVars
  <2>2. ~InPlay(c)'
    BY <2>1 DEF InPlay
  <2>3. Fresh(c) => \A i \in Ids : svConns[i] = c =>
          /\ InHand(i)' = 0
          /\ i \in DOMAIN svPlayers' => svPlayers'[i] = Origin
    BY <2>1 DEF Fresh, InHand
  <2> QED
    BY <1>7, <2>1, <2>2, <2>3
<1>12. CASE SendUpdate
  <2>1. /\ UNCHANGED <<toServer, svConns, svNextId, svNetEv, svSlot>>
        /\ svPc' = "poll"
        /\ \A i \in DOMAIN svPlayers : svPlayers'[i] = svPlayers[i]
        /\ \A i \in DOMAIN svPlayers' \ DOMAIN svPlayers : svPlayers'[i] = Origin
    BY <1>12, UpdateEffect DEF AddressInv
  <2>2. \A g \in toClient' \ toClient : g.type = "CONNECTION_REQUEST_ACK" => g.to # c
    <3>1. \A g \in toClient' \ toClient :
            g.type = "CONNECTION_REQUEST_ACK" /\ g.to = c => svPc = "handle"
      BY ServerKnows
    <3> QED
      BY <1>12, <3>1 DEF SendUpdate
  <2>3. ~InPlay(c)'
    BY <2>1 DEF InPlay
  <2>4. Fresh(c) => \A i \in Ids : svConns[i] = c =>
          /\ InHand(i)' = 0
          /\ i \in DOMAIN svPlayers' => svPlayers'[i] = Origin
    BY <2>1 DEF Fresh, InHand
  <2> QED
    BY <1>7, <2>1, <2>2, <2>3, <2>4
<1>13. CASE ServerRestart
  <2>1. /\ UNCHANGED <<toServer, toClient>> /\ Ids' = {}
        /\ svNetEv' = NoEvent /\ svSlot' = NoEvent /\ svPc' = "poll"
    BY <1>13 DEF ServerRestart, wireVars, Ids
  <2>2. /\ Sent(c)' <=> Sent(c)
        /\ ~Taken(c)' /\ ~Posted(c)' /\ ~InPlay(c)'
    BY <1>2, <2>1 DEF Sent, Taken, Posted, InPlay, Registers
  <2>3. Fresh(c) => Fresh(c)'
    BY <1>3, <2>1 DEF Fresh, Told, KeyOnItsWay, clVars
  <2> QED
    BY <2>2, <2>3 DEF PendingOnce, InOnePlace, Pending
<1>14. CASE ServerHandle
  <2>1. /\ svPc = "handle" /\ svPc' = "update"
        /\ UNCHANGED <<toServer, svNetEv, svSlot, svNextId, svConns>>
        /\ \/ svPlayers' = svPlayers
           \/ /\ svEvent.type = "EVENT_NET_CONNECT" /\ svEvent.id \in Ids
              /\ svPlayers' = Put(svPlayers, svEvent.id, Origin)
           \/ /\ svEvent.type = "EVENT_KEY"
              /\ svPlayers' = movePlayer(svPlayers, svEvent.id, svEvent.key)
    BY <1>14, HandleEffect
  <2>2. ~InPlay(c)'
    BY <2>1 DEF InPlay
  <2>3. CASE InPlay(c)
    <3>1. ~Sent(c)' /\ ~Taken(c)' /\ ~Posted(c)'
      BY <2>1, <2>3 DEF PendingOnce, InOnePlace, Sent, Taken, Posted, Registers
    <3> QED
      BY <2>2, <3>1 DEF PendingOnce, InOnePlace, Pending
  <2>4. CASE ~InPlay(c)
    <3>1. \A g \in toClient' \ toClient : g.type = "CONNECTION_REQUEST_ACK" => g.to # c
      BY <2>4, ServerKnows DEF InPlay, Registers
    <3>2. Fresh(c) => \A i \in Ids : svConns[i] = c =>
            /\ InHand(i)' = 0
            /\ i \in DOMAIN svPlayers' => svPlayers'[i] = Origin
      <4>1. SUFFICES ASSUME Fresh(c), NEW i \in Ids, svConns[i] = c
                     PROVE  i \in DOMAIN svPlayers' => svPlayers'[i] = Origin
        BY <2>1 DEF InHand
      <4>2. /\ i \in DOMAIN svPlayers => svPlayers[i] = Origin
            /\ ~(svEvent.type = "EVENT_KEY" /\ svEvent.id = i)
        BY <2>1, <4>1 DEF Fresh, InHand, KeyOf
      <4>3. \/ svPlayers' = svPlayers
            \/ \E k, v : svPlayers' = Put(svPlayers, k, v) /\ (k = i => v = Origin)
        BY <2>1, <4>2 DEF movePlayer
      <4> QED
        BY <4>2, <4>3 DEF Put, Overlay
    <3> QED
      BY <1>7, <2>1, <2>2, <3>1, <3>2
  <2> QED
    BY <2>3, <2>4
<1> QED
  BY <1>5, <1>6, <1>8, <1>9, <1>10, <1>11, <1>12, <1>13, <1>14
     DEF ServerStep, ServerNet, ServerMain, ServerRecv

(* A step of a client, which asks for the first time when it starts. *)
LEMMA ClientPendingStep ==
  ASSUME IInv, IInv', StartedInv, StrangersInv, NEW b \in Clients, ClientStep(b),
         NEW c \in Clients, AskedOnce(c)', PendingOnce(c)
  PROVE  PendingOnce(c)'
<1>1. UNCHANGED <<svConns, svNextId, svNetEv, svSlot, svPc, svEvent, svPlayers>>
  BY DEF ClientStep, svVars
<1>2. /\ Taken(c)' <=> Taken(c)
      /\ Posted(c)' <=> Posted(c)
      /\ InPlay(c)' <=> InPlay(c)
  BY <1>1 DEF Taken, Posted, InPlay, Registers
<1>3. /\ \A f \in toServer' \ toServer : f.from = b
      /\ Told(c)' => Told(c)
  BY ClientPhases, ClientTold
<1>4. ASSUME Fresh(c) PROVE Fresh(c)'
  <2>1. ~Told(c)'
    BY <1>3, <1>4 DEF Fresh
  <2>2. ~KeyOnItsWay(c)'
    <3>1. ASSUME NEW f \in toServer' \ toServer, f.from = c, f.type = "DATA_KEY_DOWN"
          PROVE  FALSE
      <4>1. b = c /\ clPc[b] = "play"
        BY <1>3, <3>1, ClientSends
      <4> QED
        BY <1>4, <4>1 DEF Fresh, Told
    <3> QED
      BY <1>4, <3>1 DEF Fresh, KeyOnItsWay
  <2> QED
    BY <1>1, <1>4, <2>1, <2>2 DEF Fresh, KeyOf, InHand, Ids
<1>5. CASE Sent(c)' => Sent(c)
  BY <1>2, <1>4, <1>5 DEF PendingOnce, InOnePlace, Pending
<1>6. CASE Sent(c)' /\ ~Sent(c)
  <2>1. /\ Request(c) \in toServer' \ toServer /\ Request(c).from = c
        /\ Request(c).type = "CONNECTION_REQUEST"
    BY <1>6 DEF Sent, Request, ToServer
  <2>2. b = c /\ (ClientStart(c) \/ ClientRetry(c))
    BY <1>3, <2>1, ClientSendsRequests
  <2>3. ~ClientRetry(c)
    <3>1. SUFFICES ASSUME ClientRetry(c) PROVE FALSE
      OBVIOUS
    <3>2. /\ clRequests[c] = clAttempts[c] + 1 /\ clAttempts[c] \in Nat
          /\ clRequests' = [clRequests EXCEPT ![c] = @ + 1] /\ DOMAIN clRequests = Clients
      BY <3>1, ClientAssumption DEF ClientRetry, SendRequest, IInv, RequestsInv, Connecting,
                  TypeOK, ClientTypeOK
    <3>3. clRequests'[c] = clAttempts[c] + 2
      BY <3>2
    <3> QED
      BY <3>2, <3>3 DEF AskedOnce
  <2>4. clPc[c] = "start"
    BY <2>2, <2>3 DEF ClientStart
  <2>5. ~Known(c) /\ ~Told(c) /\ ~KeyOnItsWay(c)
    BY <2>4 DEF StrangersInv
  <2>6. ~Taken(c) /\ ~Posted(c) /\ ~InPlay(c)
    BY <2>5 DEF Taken, Posted, InPlay, Registers, Known, IInv, IdsInv, NamesAnId
  <2>7. Fresh(c)
    BY <2>5 DEF Fresh, Known
  <2> QED
    BY <1>2, <1>4, <2>6, <2>7 DEF PendingOnce, InOnePlace
<1> QED
  BY <1>5, <1>6

LEMMA PendingStep ==
  ASSUME IInv, IInv', AddressInv, StartedInv, StrangersInv, PendingInv, [Next]_vars
  PROVE  PendingInv'
<1> SUFFICES ASSUME NEW c \in Clients, AskedOnce(c)' PROVE PendingOnce(c)'
  BY DEF PendingInv
<1>1. AskedOnce(c) /\ dups' = dups /\ dups = 0
  BY AskedBefore DEF AskedOnce
<1>2. PendingOnce(c)
  BY <1>1 DEF PendingInv
<1>3. CASE ServerStep
  BY <1>1, <1>2, <1>3, ServerPendingStep
<1>4. CASE NetworkStep \/ UNCHANGED vars
  <2>1. /\ toServer' \subseteq toServer /\ toClient' \subseteq toClient
        /\ UNCHANGED <<clVars, svConns, svNextId, svNetEv, svSlot, svPc, svEvent, svPlayers>>
    BY <1>4 DEF NetworkStep, Lose, vars, wireVars, svVars
  <2>2. /\ Sent(c)' => Sent(c)
        /\ Taken(c)' <=> Taken(c)
        /\ Posted(c)' <=> Posted(c)
        /\ InPlay(c)' <=> InPlay(c)
    BY <2>1 DEF Sent, Taken, Posted, InPlay, Registers
  <2>3. Fresh(c) => Fresh(c)'
    <3>1. ~Told(c) => ~Told(c)'
      BY <2>1 DEF Told, clVars
    <3>2. ~KeyOnItsWay(c) => ~KeyOnItsWay(c)'
      BY <2>1 DEF KeyOnItsWay
    <3> QED
      BY <2>1, <3>1, <3>2 DEF Fresh, KeyOf, InHand, Ids
  <2> QED
    BY <1>2, <2>2, <2>3 DEF PendingOnce, InOnePlace, Pending
<1>5. ASSUME NEW b \in Clients, ClientStep(b) PROVE PendingOnce(c)'
  BY <1>2, <1>5, ClientPendingStep
<1> QED
  BY <1>3, <1>4, <1>5 DEF Next

LEMMA PendingRequests == Spec => []PendingInv
<1>1. Init => PendingInv
  BY PendingInit
<1>2. /\ IInv /\ IInv' /\ AddressInv /\ StartedInv /\ StrangersInv /\ PendingInv /\ [Next]_vars
      => PendingInv'
  BY PendingStep
<1> QED
  BY <1>1, <1>2, Invariant, Addresses, Started, Strangers, PTL DEF Spec

(* A step that moves a player by more than one cell registers a client     *)
(* that had a player which had moved: one that had asked twice.            *)
LEMMA StepIsOneCell ==
  ASSUME IInv, IInv', AddressInv, PendingInv, [Next]_vars
  PROVE  StepsOrAskedTwice
<1> SUFFICES ASSUME NEW i \in DOMAIN svPlayers \cap DOMAIN svPlayers' \cap DOMAIN svConns,
                    Distance(svPlayers[i], svPlayers'[i]) > 1
             PROVE  clRequests[svConns[i]] > 1 \/ dups > 0
  BY DEF StepsOrAskedTwice
<1>1. /\ svPlayers[i] \in Position /\ i \in Ids /\ i \in Int /\ svConns[i] \in Clients
      /\ svPlayers = [k \in DOMAIN svPlayers |-> svPlayers[k]]
  BY DEF IInv, IdsInv, TypeOK, ServerTypeOK, MapOver
<1>2. Distance(svPlayers[i], svPlayers[i]) = 0
  BY <1>1 DEF Position, Distance, Abs
<1>3. svPlayers'[i] # svPlayers[i]
  BY <1>2
<1>4. ServerStep
  BY <1>3 DEF Next, ClientStep, NetworkStep, vars, svVars
<1>5. ~ServerRestart
  BY DEF ServerRestart, EmptyMap
<1>6. ~SendUpdate
  BY <1>3, UpdateEffect DEF AddressInv
<1>7. ServerHandle
  BY <1>3, <1>4, <1>5, <1>6
     DEF ServerStep, ServerNet, ServerMain, ServerRecv, ServerPost, ServerPoll, GetStuck,
         svMainVars
<1>8. /\ svPc = "handle"
      /\ \/ /\ svEvent.type = "EVENT_NET_CONNECT" /\ svEvent.id \in Ids
            /\ svPlayers' = Put(svPlayers, svEvent.id, Origin)
         \/ /\ svEvent.type = "EVENT_KEY"
            /\ svPlayers' = movePlayer(svPlayers, svEvent.id, svEvent.key)
  BY <1>3, <1>7, HandleEffect
<1>9. CASE svPlayers' = movePlayer(svPlayers, svEvent.id, svEvent.key)
  <2>1. svPlayers'[i] = svPlayers[i] \/ svPlayers'[i] = Moved(svPlayers[i], svEvent.key)
    BY <1>9 DEF movePlayer, Put, Overlay, Get
  <2>2. Distance(svPlayers[i], Moved(svPlayers[i], svEvent.key)) <= 1
    BY <1>1 DEF Distance, Abs, Moved, Position
  <2>3. Distance(svPlayers[i], Moved(svPlayers[i], svEvent.key)) \in Int
    BY <1>1 DEF Distance, Abs, Moved, Position
  <2> QED
    BY <1>3, <2>1, <2>2, <2>3
<1>10. CASE /\ svEvent.type = "EVENT_NET_CONNECT" /\ svEvent.id \in Ids
            /\ svPlayers' = Put(svPlayers, svEvent.id, Origin)
  <2>1. svEvent.id = i /\ svPlayers'[i] = Origin
    BY <1>3, <1>10 DEF Put, Overlay
  <2>2. PICK c \in Clients : c = svConns[i]
    BY <1>1
  <2>3. InPlay(c)
    BY <1>8, <1>10, <2>1, <2>2 DEF InPlay, Registers
  <2>4. ~Fresh(c)
    BY <1>1, <1>3, <2>1, <2>2 DEF Fresh
  <2>5. ~AskedOnce(c)
    BY <2>3, <2>4 DEF PendingInv, PendingOnce, Pending
  <2>6. clRequests[c] \in Int /\ dups \in Nat
    BY WireAssumption DEF IInv, TypeOK, ClientTypeOK, WireTypeOK
  <2> QED
    BY <2>2, <2>5, <2>6 DEF AskedOnce
<1> QED
  BY <1>8, <1>9, <1>10

(* A player is moved by one cell at a time, by its own user's keys, and is *)
(* put back only by a request that was sent again or duplicated, for every *)
(* number of clients and of restarts.                                      *)
THEOREM NobodyTeleports == Spec => NoTeleport
<1>1. /\ IInv /\ IInv' /\ AddressInv /\ PendingInv /\ [Next]_vars
      => [StepsOrAskedTwice]_vars
  BY StepIsOneCell
<1> QED
  BY <1>1, Invariant, Addresses, PendingRequests, PTL DEF Spec, NoTeleport

=============================================================================
