----------------------------- MODULE GameProofs -----------------------------
(***************************************************************************)
(* Theorems about Game, for any number of clients, any buffers, any number *)
(* of duplicates, restarts and keys.  First what the operators on maps,    *)
(* events and frames return; then that each action preserves IInv.         *)
(***************************************************************************)
EXTENDS Game, TLAPS

-----------------------------------------------------------------------------
(* Maps. *)

(* m[k] = v adds at most the key k, ... *)
LEMMA PutDomain == \A m, k, v : DOMAIN Put(m, k, v) = DOMAIN m \cup {k}
  BY DEF Put, Overlay

(* ... writes v there, and changes no other entry. *)
LEMMA PutValue == \A m, k, v : Put(m, k, v)[k] = v
  BY DEF Put, Overlay

(* m[k] = v leaves every other entry as it was. *)
LEMMA PutOthers == \A m, k, v : \A x \in DOMAIN m \ {k} : Put(m, k, v)[x] = m[x]
  BY DEF Put, Overlay

(* A map stays of its type when an entry of that type is written. *)
LEMMA PutType ==
  ASSUME NEW m, NEW k, NEW v, NEW K, NEW V, MapOver(m, K, V), k \in K, v \in V
  PROVE  MapOver(Put(m, k, v), K, V)
  BY DEF MapOver, Put, Overlay

(* Reading with operator[] adds the keys that were not there. *)
LEMMA TouchLemma ==
  ASSUME NEW m, NEW ks, NEW d
  PROVE  /\ DOMAIN Touch(m, ks, d) = DOMAIN m \cup ks
         /\ \A x \in DOMAIN m : Touch(m, ks, d)[x] = m[x]
         /\ \A x \in ks \ DOMAIN m : Touch(m, ks, d)[x] = d
  BY DEF Touch, Overlay

(* Reading keys that are there changes nothing. *)
LEMMA TouchNothing ==
  ASSUME NEW m, NEW ks, NEW d, m = [k \in DOMAIN m |-> m[k]], ks \subseteq DOMAIN m
  PROVE  Touch(m, ks, d) = m
  BY DEF Touch, Overlay

(* A map stays of its type when it is read with operator[]. *)
LEMMA TouchType ==
  ASSUME NEW m, NEW ks, NEW d, NEW K, NEW V, MapOver(m, K, V), ks \subseteq K, d \in V
  PROVE  MapOver(Touch(m, ks, d), K, V)
  BY DEF MapOver, Touch, Overlay

(* A walk that stops keeps a map over the naturals, ... *)
LEMMA FillType ==
  ASSUME NEW m, NEW d, NEW V, MapOver(m, Nat, V), d \in V
  PROVE  MapOver(Fill(m, d), Nat, V)
<1>1. Walked(m) \subseteq Nat
  BY DEF Walked, MapOver
<1> QED
  BY <1>1, TouchType DEF Fill

(* ... and adds no key beyond those of an interval that holds them all. *)
LEMMA FillDomain ==
  ASSUME NEW m, NEW d, NEW n \in Nat, DOMAIN m \subseteq 0..(n - 1)
  PROVE  /\ DOMAIN m \subseteq DOMAIN Fill(m, d)
         /\ DOMAIN Fill(m, d) \subseteq 0..(n - 1)
         /\ \A x \in DOMAIN m : Fill(m, d)[x] = m[x]
         /\ \A x \in DOMAIN Fill(m, d) \ DOMAIN m : Fill(m, d)[x] = d
<1>1. Walked(m) \subseteq 0..(n - 1)
  BY DEF Walked
<1>2. DOMAIN m \subseteq Walked(m)
  BY DEF Walked
<1>3. /\ DOMAIN Touch(m, Walked(m), d) = DOMAIN m \cup Walked(m)
      /\ \A x \in DOMAIN m : Touch(m, Walked(m), d)[x] = m[x]
      /\ \A x \in Walked(m) \ DOMAIN m : Touch(m, Walked(m), d)[x] = d
  BY TouchLemma
<1> QED
  BY <1>1, <1>2, <1>3 DEF Fill

(* The empty map is a picture of the game, with nobody in it. *)
LEMMA EmptyMapType == MapOver(EmptyMap, Nat, Position)
  BY DEF MapOver, EmptyMap

(* The entries of one map on top of those of another. *)
LEMMA OverlayType ==
  ASSUME NEW top, NEW base, NEW K, NEW V, MapOver(top, K, V), MapOver(base, K, V)
  PROVE  MapOver(Overlay(top, base), K, V)
  BY DEF MapOver, Overlay

-----------------------------------------------------------------------------
(* The search for an id. *)

(* Where no address has two ids, findId returns the one it has, or -1. *)
LEMMA FindIdLemma ==
  ASSUME NEW m, NEW a, DOMAIN m \subseteq Int,
         \A i, j \in DOMAIN m : m[i] = m[j] => i = j
  PROVE  \/ findId(m, a) = -1 /\ \A i \in DOMAIN m : m[i] # a
         \/ findId(m, a) \in DOMAIN m /\ m[findId(m, a)] = a
<1> DEFINE hits == {i \in DOMAIN m : m[i] = a}
<1>1. CASE hits = {}
  BY <1>1 DEF findId
<1>2. CASE hits # {}
  <2>1. PICK k \in hits : TRUE
    BY <1>2
  <2>2. \A j \in hits : j = k
    BY <2>1
  <2>3. \E i \in hits : \A j \in hits : j <= i
    BY <2>1, <2>2
  <2>4. findId(m, a) = CHOOSE i \in hits : \A j \in hits : j <= i
    BY <1>2 DEF findId
  <2>5. findId(m, a) \in hits
    BY <2>3, <2>4
  <2> QED
    BY <2>5
<1> QED
  BY <1>1, <1>2

(* Among the connections a client can have, findId returns one or -1. *)
LEMMA FindIdOfClient ==
  ASSUME NEW m, NEW a, DOMAIN m \subseteq ClientIds
  PROVE  findId(m, a) \in ClientIds
<1> DEFINE hits == {i \in DOMAIN m : m[i] = a}
<1>1. CASE hits = {}
  BY <1>1 DEF findId, ClientIds
<1>2. CASE hits # {}
  <2>1. hits \subseteq {-1, 0}
    BY DEF ClientIds
  <2>2. \E i \in hits : \A j \in hits : j <= i
    <3>1. CASE 0 \in hits
      BY <3>1, <2>1
    <3>2. CASE 0 \notin hits
      BY <3>2, <2>1, <1>2
    <3> QED
      BY <3>1, <3>2
  <2>3. findId(m, a) = CHOOSE i \in hits : \A j \in hits : j <= i
    BY <1>2 DEF findId
  <2>4. findId(m, a) \in hits
    BY <2>2, <2>3
  <2> QED
    BY <2>4
<1> QED
  BY <1>1, <1>2

-----------------------------------------------------------------------------
(* Events. *)

(* An event made of proper fields is an event, and has those fields. *)
LEMMA EventType ==
  ASSUME NEW type \in EventTypes, NEW id \in Int, NEW key \in Keys \cup {NoKey},
         NEW ents, MapOver(ents, Nat, Position)
  PROVE  /\ IsEvent(Event(type, id, key, ents))
         /\ Event(type, id, key, ents).type = type
         /\ Event(type, id, key, ents).id = id
         /\ Event(type, id, key, ents).ents = ents
<1> DEFINE e == Event(type, id, key, ents)
<1>1. e.type = type /\ e.id = id /\ e.key = key /\ e.ents = ents
  BY DEF Event
<1> HIDE DEF e
<1>2. e = Event(e.type, e.id, e.key, e.ents)
  BY <1>1 DEF e
<1>3. IsEvent(e)
  BY <1>1, <1>2 DEF IsEvent
<1> QED
  BY <1>1, <1>3 DEF e

(* The event that getEvent leaves behind, and what it says: nothing. *)
LEMMA NoEventType ==
  /\ IsEvent(NoEvent)
  /\ NoEvent.type = "EVENT_UNKNOWN" /\ NoEvent.id = -1 /\ NoEvent.ents = EmptyMap
<1>1. "EVENT_UNKNOWN" \in EventTypes /\ -1 \in Int /\ NoKey \in Keys \cup {NoKey}
  BY DEF EventTypes
<1> QED
  BY <1>1, EventType, EmptyMapType DEF NoEvent

(* The event of a connection names the id it was made with. *)
LEMMA NetEventType ==
  ASSUME NEW type \in EventTypes, NEW id \in Int
  PROVE  /\ IsEvent(NetEvent(type, id))
         /\ NetEvent(type, id).type = type /\ NetEvent(type, id).id = id
  BY EventType, EmptyMapType DEF NetEvent

(* The event of a key names the id it was made with, known or -1. *)
LEMMA KeyEventType ==
  ASSUME NEW id \in Int, NEW key \in Keys \cup {NoKey}
  PROVE  /\ IsEvent(KeyEvent(id, key))
         /\ KeyEvent(id, key).type = "EVENT_KEY" /\ KeyEvent(id, key).id = id
<1>1. "EVENT_KEY" \in EventTypes
  BY DEF EventTypes
<1> QED
  BY <1>1, EventType, EmptyMapType DEF KeyEvent

(* The event of an update carries the picture and names no id. *)
LEMMA UpdateEventType ==
  ASSUME NEW m, MapOver(m, Nat, Position)
  PROVE  /\ IsEvent(UpdateEvent(m))
         /\ UpdateEvent(m).type = "EVENT_GAMEUPDATE" /\ UpdateEvent(m).id = -1
<1>1. "EVENT_GAMEUPDATE" \in EventTypes /\ -1 \in Int /\ NoKey \in Keys \cup {NoKey}
  BY DEF EventTypes
<1>2. IsEvent(UpdateEvent(m))
  BY <1>1, EventType DEF UpdateEvent
<1>3. UpdateEvent(m).type = "EVENT_GAMEUPDATE" /\ UpdateEvent(m).id = -1
  BY DEF UpdateEvent, Event
<1> QED
  BY <1>2, <1>3

-----------------------------------------------------------------------------
(* Frames. *)

(* A frame a client makes is a frame the server can receive. *)
LEMMA ToServerType ==
  ASSUME NEW c \in Clients, NEW key \in Keys \cup {NoKey},
         NEW type \in {"ACK", "CONNECTION_REQUEST", "DATA_KEY_DOWN"}
  PROVE  ToServer(c, type, key) \in ServerFrame
  BY DEF ToServer, ServerFrame

(* A frame the server makes is a frame a client can receive. *)
LEMMA ToClientType ==
  ASSUME NEW c \in Clients, NEW ents, MapOver(ents, Nat, Position),
         NEW type \in {"ACK", "CONNECTION_REQUEST_ACK", "DATA_GAMEUPDATE"}
  PROVE  IsClientFrame(ToClient(c, type, ents))
  BY DEF ToClient, IsClientFrame

(* Sending adds no frame but those that are sent. *)
LEMMA SendLemma ==
  ASSUME NEW frames
  PROVE  /\ AfterSendToServer(frames) \subseteq toServer \cup frames
         /\ AfterSendToClients(frames) \subseteq toClient \cup frames
  BY DEF AfterSendToServer, AfterSendToClients

(* Taking a frame adds none. *)
LEMMA TakeLemma ==
  ASSUME NEW flight, NEW flight1, NEW f, dups \in 0..MaxDup, TakeFrom(flight, flight1, f)
  PROVE  flight1 \subseteq flight /\ dups' \in 0..MaxDup
  BY WireAssumption DEF TakeFrom

(* An ACK is all sendACK sends. *)
LEMMA AckTypesLemma == \A type : AckTypes(type) \subseteq {"ACK"}
  BY DEF AckTypes

-----------------------------------------------------------------------------
(* The initial states satisfy the invariant. *)

(* At the start nobody has an id, a slot, a player or an answer. *)
THEOREM InitIInv == Init => IInv
<1> SUFFICES ASSUME Init PROVE IInv
  OBVIOUS
<1> USE KeysAssumption, WireAssumption, ServerAssumption, ClientAssumption
    DEF Init, WireInit, ServerInit, ClientInit
<1>1. WireTypeOK
  BY DEF WireTypeOK
<1>2. ServerTypeOK
  BY NoEventType DEF ServerTypeOK, CreateSocket, MapOver, EmptyMap
<1>3. ClientTypeOK
  BY NoEventType DEF ClientTypeOK, ClientIds, MapOver, EmptyMap
<1>4. IdsInv
  BY NoEventType DEF IdsInv, Ids, NamesAnId, EmptyMap
<1>5. PlayersInv
  BY DEF PlayersInv, EmptyMap
<1>6. KnownInv
  BY NoEventType DEF KnownInv, Told, KeyOnItsWay
<1>7. RequestsInv
  BY DEF RequestsInv, Connecting
<1> QED
  BY <1>1, <1>2, <1>3, <1>4, <1>5, <1>6, <1>7 DEF IInv, TypeOK

-----------------------------------------------------------------------------
(* The network thread of the server. *)

(* What taking a frame does to the wire, whatever the frame is. *)
LEMMA ServerRecvWire ==
  ASSUME IInv, NEW f \in toServer, ServerRecv(f)
  PROVE  /\ WireTypeOK'
         /\ toServer' \subseteq toServer
         /\ \A g \in toClient' \ toClient : g.type = "ACK"
<1>1. WireTypeOK /\ f \in ServerFrame
  BY DEF IInv, TypeOK, WireTypeOK
<1>2. toServer' \subseteq toServer /\ dups' \in 0..MaxDup
  BY <1>1, TakeLemma DEF ServerRecv, WireTypeOK
<1> DEFINE acks == {ToClient(f.from, t, EmptyMap) : t \in AckTypes(f.type)}
<1>3. toClient' \subseteq toClient \cup acks
  BY SendLemma DEF ServerRecv
<1>4. f.from \in Clients
  BY <1>1 DEF ServerFrame
<1>5. \A g \in acks : IsClientFrame(g) /\ g.type = "ACK"
  <2>1. \A g \in acks : g = ToClient(f.from, "ACK", EmptyMap)
    BY AckTypesLemma
  <2>2. IsClientFrame(ToClient(f.from, "ACK", EmptyMap))
    BY <1>4, ToClientType, EmptyMapType
  <2> QED
    BY <2>1, <2>2 DEF ToClient
<1> QED
  BY <1>1, <1>2, <1>3, <1>5 DEF WireTypeOK

(* What a client knows, and what the invariant says of it, is kept by a    *)
(* step of the server that takes no id back and tells nobody new.          *)
LEMMA KnownKept ==
  ASSUME IInv, UNCHANGED <<clVars, svRestarts>>,
         \A c \in Clients : Known(c) => Known(c)',
         toServer' \subseteq toServer,
         \A g \in toClient' \ toClient :
           g.type = "CONNECTION_REQUEST_ACK" /\ g.to \in Clients => Known(g.to)'
  PROVE  KnownInv' /\ RequestsInv' /\ ClientTypeOK'
<1>1. ClientTypeOK'
  BY DEF IInv, TypeOK, ClientTypeOK, clVars
<1>2. RequestsInv'
  BY DEF IInv, RequestsInv, Connecting, TriesLeft, clVars
<1>3. ASSUME svRestarts' = 0, NEW c \in Clients,
             Told(c)' \/ KeyOnItsWay(c)'
      PROVE  Known(c)'
  <2>1. \/ Told(c) \/ KeyOnItsWay(c)
        \/ \E f \in toClient' \ toClient : f.to = c /\ f.type = "CONNECTION_REQUEST_ACK"
    BY <1>3 DEF Told, KeyOnItsWay, clVars
  <2>2. KnownInv /\ svRestarts = 0
    BY <1>3 DEF IInv
  <2> QED
    BY <2>1, <2>2 DEF KnownInv
<1>4. KnownInv'
  BY <1>3 DEF KnownInv
<1> QED
  BY <1>1, <1>2, <1>4

(* A frame received: a registration gives the next id or finds the old *)
(* one, and a key names the id its sender has.                         *)
LEMMA ServerRecvStep ==
  ASSUME IInv, NEW f \in toServer, ServerRecv(f), UNCHANGED clVars
  PROVE  IInv'
<1>1. f \in ServerFrame
  BY DEF IInv, TypeOK, WireTypeOK
<1>2. f.from \in Clients /\ f.key \in Keys \cup {NoKey}
  BY <1>1 DEF ServerFrame
<1> DEFINE known == findId(svConns, f.from)
           id == IF known = -1 THEN svNextId ELSE known
<1>3. /\ ServerTypeOK /\ IdsInv /\ PlayersInv /\ svNextId \in Nat
      /\ DOMAIN svConns = Ids
      /\ svConns = [i \in DOMAIN svConns |-> svConns[i]]
  BY DEF IInv, TypeOK, ServerTypeOK, IdsInv, MapOver
<1>4. \/ known = -1 /\ \A i \in Ids : svConns[i] # f.from
      \/ known \in Ids /\ svConns[known] = f.from
  BY <1>3, FindIdLemma DEF IdsInv, Ids
<1> HIDE DEF known
<1>5. CASE f.type = "CONNECTION_REQUEST"
  <2>1. /\ svNextId' = IF known = -1 THEN svNextId + 1 ELSE svNextId
        /\ svConns' = Put(svConns, id, f.from)
        /\ svNetEv' = NetEvent("EVENT_NET_CONNECT", id)
        /\ svNetPc' = "post"
        /\ UNCHANGED <<svUp, svSlot, svMainVars, svRestarts>>
    BY <1>5 DEF ServerRecv, Register, known
  <2>2. /\ id \in Nat /\ svNextId' \in Nat /\ id \in Ids'
        /\ Ids \subseteq Ids' /\ Ids' = Ids \cup {id}
    BY <1>3, <1>4, <2>1 DEF Ids
  <2>0. \/ id = svNextId /\ \A i \in Ids : svConns[i] # f.from
        \/ id \in Ids /\ svConns[id] = f.from
    BY <1>3, <1>4 DEF Ids
  <2> HIDE DEF id
  <2>3. /\ DOMAIN svConns' = Ids'
        /\ svConns'[id] = f.from
        /\ \A i \in Ids \ {id} : svConns'[i] = svConns[i]
    <3>1. /\ DOMAIN Put(svConns, id, f.from) = DOMAIN svConns \cup {id}
          /\ Put(svConns, id, f.from)[id] = f.from
          /\ \A i \in DOMAIN svConns \ {id} : Put(svConns, id, f.from)[i] = svConns[i]
      BY DEF Put, Overlay
    <3>2. DOMAIN svConns' = Ids \cup {id} /\ svConns'[id] = f.from
      BY <1>3, <2>1, <3>1
    <3>3. \A i \in Ids \ {id} : svConns'[i] = svConns[i]
      BY <1>3, <2>1, <3>1
    <3> QED
      BY <2>2, <3>2, <3>3
  <2>4. "EVENT_NET_CONNECT" \in EventTypes
    BY DEF EventTypes
  <2>5. IsEvent(svNetEv') /\ svNetEv'.type = "EVENT_NET_CONNECT" /\ svNetEv'.id = id
    BY <2>1, <2>2, <2>4, NetEventType
  <2>6. MapOver(svConns', Int, Clients \cup {NoAddress})
    BY <1>2, <1>3, <2>1, <2>2, PutType DEF ServerTypeOK
  <2>7. ServerTypeOK'
    BY <1>3, <2>1, <2>2, <2>5, <2>6 DEF ServerTypeOK, svMainVars
  <2>8. \A i \in Ids' : svConns'[i] \in Clients
    BY <1>2, <1>3, <2>2, <2>3 DEF IdsInv
  <2>9. \A i, j \in Ids' : svConns'[i] = svConns'[j] => i = j
    <3>0. \A i, j \in Ids : svConns[i] = svConns[j] => i = j
      BY <1>3 DEF IdsInv
    <3>1. \A i \in Ids \ {id} : svConns[i] # f.from
      BY <2>0, <3>0
    <3> QED
      BY <2>2, <2>3, <3>0, <3>1
  <2>10. /\ NamesAnId(svNetEv)' /\ NamesAnId(svSlot)' /\ NamesAnId(svEvent)'
         /\ (DOMAIN svClients \subseteq Ids)'
         /\ (\A i \in DOMAIN svClients : svClients[i].id \in Ids)'
    BY <1>3, <2>1, <2>2, <2>5 DEF IdsInv, NamesAnId, svMainVars
  <2>11. IdsInv'
    BY <2>3, <2>8, <2>9, <2>10 DEF IdsInv
  <2>12. PlayersInv'
    BY <1>3, <2>1, <2>2 DEF PlayersInv, svMainVars
  <2>13. \A c \in Clients : Known(c) => Known(c)'
    <3>1. SUFFICES ASSUME NEW c \in Clients, NEW i \in Ids, svConns[i] = c
                   PROVE  Known(c)'
      BY DEF Known
    <3>2. svConns'[i] = c
      <4>1. CASE i = id
        BY <1>3, <2>0, <2>3, <3>1, <4>1 DEF Ids
      <4>2. CASE i # id
        BY <2>3, <3>1, <4>2
      <4> QED
        BY <4>1, <4>2
    <3> QED
      BY <2>2, <3>2 DEF Known
  <2> QED
    BY <2>1, <2>7, <2>11, <2>12, <2>13, KnownKept, ServerRecvWire DEF IInv, TypeOK
<1>6. CASE f.type = "DATA_KEY_DOWN"
  <2>1. /\ svNetEv' = KeyEvent(known, f.key)
        /\ svNetPc' = "post"
        /\ UNCHANGED <<svConns, svNextId, svUp, svSlot, svMainVars, svRestarts>>
    BY <1>6 DEF ServerRecv, HearKey, known
  <2>2. IsEvent(svNetEv') /\ svNetEv'.type = "EVENT_KEY" /\ svNetEv'.id = known
    <3>1. known \in Int
      BY <1>3, <1>4 DEF Ids
    <3>2. IsEvent(KeyEvent(known, f.key))
      BY <1>2, <3>1, KeyEventType
    <3> QED
      BY <2>1, <3>2 DEF KeyEvent, Event
  <2>3. svRestarts = 0 => known \in Ids
    BY <1>2, <1>3, <1>4, <1>6 DEF IInv, KnownInv, KeyOnItsWay, Known
  <2>4. ServerTypeOK'
    BY <1>3, <2>1, <2>2 DEF ServerTypeOK, svMainVars
  <2>5. IdsInv'
    BY <1>3, <2>1, <2>2, <2>3 DEF IdsInv, Ids, NamesAnId, svMainVars
  <2>6. PlayersInv'
    BY <1>3, <2>1 DEF PlayersInv, Ids, svMainVars
  <2>7. \A c \in Clients : Known(c) => Known(c)'
    BY <2>1 DEF Known, Ids
  <2> QED
    BY <2>1, <2>4, <2>5, <2>6, <2>7, KnownKept, ServerRecvWire DEF IInv, TypeOK
<1>7. CASE f.type = "ACK"
  <2>1. UNCHANGED svVars
    BY <1>7 DEF ServerRecv, svMainVars, svVars
  <2>2. ServerTypeOK' /\ IdsInv' /\ PlayersInv'
    BY <1>3, <2>1 DEF ServerTypeOK, IdsInv, Ids, NamesAnId, PlayersInv, svVars
  <2>3. svRestarts' = svRestarts /\ \A c \in Clients : Known(c) => Known(c)'
    BY <2>1 DEF Known, Ids, svVars
  <2> QED
    BY <2>2, <2>3, KnownKept, ServerRecvWire DEF IInv, TypeOK
<1> QED
  BY <1>1, <1>5, <1>6, <1>7 DEF ServerFrame

(* An event posted, over the one that was in the mailbox. *)
LEMMA ServerPostStep ==
  ASSUME IInv, ServerPost, UNCHANGED clVars
  PROVE  IInv'
<1> USE DEF ServerPost
<1>1. WireTypeOK'
  BY DEF IInv, TypeOK, WireTypeOK, wireVars
<1>2. ServerTypeOK'
  BY NoEventType DEF IInv, TypeOK, ServerTypeOK, svMainVars
<1>3. IdsInv'
  BY NoEventType DEF IInv, IdsInv, Ids, NamesAnId, svMainVars
<1>4. PlayersInv'
  BY DEF IInv, PlayersInv, Ids, svMainVars
<1>5. \A c \in Clients : Known(c) => Known(c)'
  BY DEF Known, Ids
<1>6. toServer' = toServer /\ toClient' = toClient
  BY DEF wireVars
<1> QED
  BY <1>1, <1>2, <1>3, <1>4, <1>5, <1>6, KnownKept DEF IInv, TypeOK

-----------------------------------------------------------------------------
(* The main thread of the server. *)

(* An event taken from the mailbox. *)
LEMMA ServerPollStep ==
  ASSUME IInv, ServerPoll, UNCHANGED clVars
  PROVE  IInv'
<1> USE DEF ServerPoll, AfterGetEvent
<1>1. WireTypeOK'
  BY DEF IInv, TypeOK, WireTypeOK, wireVars
<1>2. ServerTypeOK'
  BY NoEventType DEF IInv, TypeOK, ServerTypeOK, svNetVars
<1>3. IdsInv'
  BY NoEventType DEF IInv, IdsInv, Ids, NamesAnId, svNetVars
<1>4. PlayersInv'
  BY DEF IInv, PlayersInv, Ids, svNetVars
<1>5. \A c \in Clients : Known(c) => Known(c)'
  BY DEF Known, Ids, svNetVars
<1>6. toServer' = toServer /\ toClient' = toClient
  BY DEF wireVars
<1> QED
  BY <1>1, <1>2, <1>3, <1>4, <1>5, <1>6, KnownKept DEF IInv, TypeOK

(* The server gets stuck in no run in which it was not restarted. *)
LEMMA GetStuckStep ==
  ASSUME IInv, GetStuck, UNCHANGED clVars
  PROVE  IInv'
<1> USE DEF GetStuck
<1>1. WireTypeOK'
  BY DEF IInv, TypeOK, WireTypeOK, wireVars
<1>2. ServerTypeOK'
  BY DEF IInv, TypeOK, ServerTypeOK, svNetVars
<1>3. IdsInv'
  BY DEF IInv, IdsInv, Ids, NamesAnId, svNetVars
<1>4. PlayersInv'
  BY DEF IInv, PlayersInv, Ids, WalkEnds
<1>5. \A c \in Clients : Known(c) => Known(c)'
  BY DEF Known, Ids, svNetVars
<1>6. toServer' = toServer /\ toClient' = toClient
  BY DEF wireVars
<1> QED
  BY <1>1, <1>2, <1>3, <1>4, <1>5, <1>6, KnownKept DEF IInv, TypeOK

(* A frame sent to the connection of an id is one to a known client. *)
LEMMA FrameToLemma ==
  ASSUME IInv, NEW id, NEW m, MapOver(m, Nat, Position),
         NEW type \in {"ACK", "CONNECTION_REQUEST_ACK", "DATA_GAMEUPDATE"}, id \in Ids
  PROVE  \A g \in FrameTo(svConns, id, type, m) :
           IsClientFrame(g) /\ g.type = type /\ Known(g.to)
<1> SUFFICES ASSUME NEW g \in FrameTo(svConns, id, type, m)
             PROVE  IsClientFrame(g) /\ g.type = type /\ Known(g.to)
  OBVIOUS
<1>1. svConns[id] \in Clients /\ id \in DOMAIN svConns
  BY DEF IInv, IdsInv
<1>2. g = ToClient(svConns[id], type, m)
  BY <1>1 DEF FrameTo, Get
<1>3. IsClientFrame(g)
  BY <1>1, <1>2, ToClientType
<1>4. g.type = type /\ g.to = svConns[id]
  BY <1>2 DEF ToClient
<1> QED
  BY <1>3, <1>4 DEF Known

(* A player that is moved stays on the grid of integers. *)
LEMMA MovedType ==
  ASSUME NEW p \in Position, NEW key
  PROVE  Moved(p, key) \in Position
  BY DEF Moved, Position

(* A new player is on the grid. *)
LEMMA OriginType == Origin \in Position
  BY DEF Origin, Position

(* An event played: it adds a slot and a player, or moves a player, only *)
(* under an id that was given.                                           *)
LEMMA ServerHandleStep ==
  ASSUME IInv, ServerHandle, UNCHANGED clVars
  PROVE  IInv'
<1>1. /\ svPc' = "update"
      /\ UNCHANGED <<toServer, dups, svUp, svNetPc, svNetEv, svNextId, svSlot, svEvent,
                     svRestarts>>
  BY DEF ServerHandle, svNetVars
<1>2. WireTypeOK /\ ServerTypeOK /\ IdsInv /\ PlayersInv /\ svNextId \in Nat
  BY DEF IInv, TypeOK, ServerTypeOK
<1>3. CASE HandleConnect
  <2>1. svEvent.id \in Ids /\ svEvent.id \in Nat
    BY <1>2, <1>3 DEF HandleConnect, IdsInv, NamesAnId, Ids
  <2>2. svConns' = svConns
    BY <1>2, <1>3, <2>1, TouchNothing
    DEF HandleConnect, IdsInv, ServerTypeOK, MapOver
  <2>3. \A g \in FrameTo(svConns, svEvent.id, "CONNECTION_REQUEST_ACK", EmptyMap) :
           IsClientFrame(g) /\ Known(g.to)
    BY <2>1, FrameToLemma, EmptyMapType
  <2>4. toClient' \subseteq
          toClient \cup FrameTo(svConns, svEvent.id, "CONNECTION_REQUEST_ACK", EmptyMap)
    BY <1>3, SendLemma DEF HandleConnect
  <2>5. WireTypeOK'
    BY <1>1, <1>2, <2>3, <2>4 DEF WireTypeOK
  <2> DEFINE client == [id |-> svEvent.id, status |-> "CONNECTED"]
  <2>6. \/ UNCHANGED <<svPlayers, svClients>>
        \/ /\ svPlayers' = Put(svPlayers, svEvent.id, Origin)
           /\ svClients' = Put(svClients, svEvent.id, client)
    BY <1>3 DEF HandleConnect, addClient, addPlayer
  <2>7. client \in SV_Client /\ client.id = svEvent.id
    BY <2>1 DEF SV_Client
  <2> HIDE DEF client
  <2>8. /\ MapOver(svPlayers', Int, Position)
        /\ MapOver(svClients', Nat, SV_Client)
    BY <1>2, <2>1, <2>6, <2>7, PutType, OriginType DEF ServerTypeOK
  <2>9. ServerTypeOK'
    BY <1>1, <1>2, <2>2, <2>8 DEF ServerTypeOK
  <2>10. /\ DOMAIN svPlayers' \subseteq DOMAIN svPlayers \cup {svEvent.id}
         /\ DOMAIN svClients' \subseteq DOMAIN svClients \cup {svEvent.id}
         /\ \A i \in DOMAIN svClients' :
              svClients'[i] = client \/ (i \in DOMAIN svClients /\ svClients'[i] = svClients[i])
    <3>1. CASE UNCHANGED <<svPlayers, svClients>>
      BY <3>1
    <3>2. CASE /\ svPlayers' = Put(svPlayers, svEvent.id, Origin)
               /\ svClients' = Put(svClients, svEvent.id, client)
      <4>1. DOMAIN Put(svPlayers, svEvent.id, Origin) = DOMAIN svPlayers \cup {svEvent.id}
        BY PutDomain
      <4>2. DOMAIN Put(svClients, svEvent.id, client) = DOMAIN svClients \cup {svEvent.id}
        BY PutDomain
      <4>3. Put(svClients, svEvent.id, client)[svEvent.id] = client
        BY PutValue
      <4>0. \A i \in DOMAIN svClients \ {svEvent.id} :
              Put(svClients, svEvent.id, client)[i] = svClients[i]
        BY PutOthers
      <4>4. DOMAIN svPlayers' \subseteq DOMAIN svPlayers \cup {svEvent.id}
        BY <3>2, <4>1
      <4>5. DOMAIN svClients' \subseteq DOMAIN svClients \cup {svEvent.id}
        BY <3>2, <4>2
      <4>6. \A i \in DOMAIN svClients' :
              svClients'[i] = client \/ (i \in DOMAIN svClients /\ svClients'[i] = svClients[i])
        <5>1. svClients'[svEvent.id] = client
          BY <3>2, <4>3
        <5>2. \A i \in DOMAIN svClients \ {svEvent.id} : svClients'[i] = svClients[i]
          BY <3>2, <4>0
        <5>3. ASSUME NEW i \in DOMAIN svClients'
              PROVE  svClients'[i] = client \/ (i \in DOMAIN svClients /\ svClients'[i] = svClients[i])
          <6>1. CASE i = svEvent.id
            BY <5>1, <6>1
          <6>2. CASE i # svEvent.id
            BY <4>5, <5>2, <5>3, <6>2
          <6> QED
            BY <6>1, <6>2
        <5> QED
          BY <5>3
      <4> QED
        BY <4>4, <4>5, <4>6
    <3> QED
      BY <2>6, <3>1, <3>2
  <2>11. IdsInv'
    BY <1>1, <1>2, <2>1, <2>2, <2>7, <2>10 DEF IdsInv, Ids, NamesAnId
  <2>12. PlayersInv'
    BY <1>1, <1>2, <2>1, <2>10 DEF PlayersInv, Ids
  <2>13. \A c : Known(c) => Known(c)'
    BY <1>1, <2>2 DEF Known, Ids
  <2> QED
    BY <1>1, <2>3, <2>4, <2>5, <2>9, <2>11, <2>12, <2>13, KnownKept DEF IInv, TypeOK
<1>4. CASE HandleKey
  <2>1. /\ svPlayers' = movePlayer(svPlayers, svEvent.id, svEvent.key)
        /\ UNCHANGED <<svConns, svClients, toClient>>
        /\ svEvent.type = "EVENT_KEY"
    BY <1>4 DEF HandleKey
  <2>2. svEvent.id \in Int
    BY <1>2 DEF ServerTypeOK, IsEvent
  <2>3. Get(svPlayers, svEvent.id, Origin) \in Position
    BY <1>2, OriginType DEF Get, ServerTypeOK, MapOver
  <2>4. MapOver(svPlayers', Int, Position)
    BY <1>2, <2>1, <2>2, <2>3, MovedType, PutType DEF movePlayer, ServerTypeOK
  <2>5. DOMAIN svPlayers' = DOMAIN svPlayers \cup {svEvent.id}
    BY <2>1 DEF movePlayer, Put, Overlay
  <2>6. WireTypeOK' /\ ServerTypeOK'
    BY <1>1, <1>2, <2>1, <2>4 DEF WireTypeOK, ServerTypeOK
  <2>7. IdsInv'
    BY <1>1, <1>2, <2>1 DEF IdsInv, Ids, NamesAnId
  <2>8. PlayersInv'
    BY <1>1, <1>2, <2>1, <2>5 DEF PlayersInv, IdsInv, Ids, NamesAnId
  <2>9. \A c \in Clients : Known(c) => Known(c)'
    BY <1>1, <2>1 DEF Known, Ids
  <2> QED
    BY <1>1, <2>1, <2>6, <2>7, <2>8, <2>9, KnownKept DEF IInv, TypeOK
<1>5. CASE HandleNothing
  <2>1. UNCHANGED <<svConns, svPlayers, svClients, toClient>>
    BY <1>5 DEF HandleNothing
  <2>2. WireTypeOK' /\ ServerTypeOK' /\ IdsInv' /\ PlayersInv'
    BY <1>1, <1>2, <2>1 DEF WireTypeOK, ServerTypeOK, IdsInv, Ids, NamesAnId, PlayersInv
  <2>3. \A c \in Clients : Known(c) => Known(c)'
    BY <1>1, <2>1 DEF Known, Ids
  <2> QED
    BY <1>1, <2>1, <2>2, <2>3, KnownKept DEF IInv, TypeOK
<1> QED
  BY <1>3, <1>4, <1>5 DEF ServerHandle

(* The updates sent: what the two walks add lies below ids that exist. *)
LEMMA SendUpdateStep ==
  ASSUME IInv, SendUpdate, UNCHANGED clVars
  PROVE  IInv'
<1>1. /\ svPc' = "poll" /\ svEvent' = NoEvent
      /\ WalkEnds(svPlayers)
      /\ svPlayers' = Fill(svPlayers, Origin)
      /\ svClients' = Fill(svClients, ZeroClient)
      /\ UNCHANGED <<toServer, dups, svUp, svNetPc, svNetEv, svNextId, svSlot, svRestarts>>
  BY DEF SendUpdate, svNetVars, getGameUpdate
<1>2. /\ WireTypeOK /\ ServerTypeOK /\ IdsInv /\ PlayersInv /\ svNextId \in Nat
  BY DEF IInv, TypeOK, ServerTypeOK
<1>3. MapOver(svPlayers', Nat, Position)
  <2>1. MapOver(svPlayers, Nat, Position)
    BY <1>1, <1>2 DEF ServerTypeOK, MapOver, WalkEnds
  <2> QED
    BY <1>1, <2>1, FillType, OriginType
<1>4. MapOver(svClients', Nat, SV_Client)
  <2>1. ZeroClient \in SV_Client
    BY DEF ZeroClient, SV_Client
  <2> QED
    BY <1>1, <1>2, <2>1, FillType DEF ServerTypeOK
<1>5. /\ DOMAIN svClients' \subseteq Ids
      /\ \A i \in DOMAIN svClients' : svClients'[i].id \in Ids
  <2>1. DOMAIN svClients \subseteq 0..(svNextId - 1)
    BY <1>2 DEF IdsInv, Ids
  <2>2. /\ DOMAIN svClients' \subseteq 0..(svNextId - 1)
        /\ \A i \in DOMAIN svClients : svClients'[i] = svClients[i]
        /\ \A i \in DOMAIN svClients' \ DOMAIN svClients : svClients'[i] = ZeroClient
    BY <1>1, <1>2, <2>1, FillDomain
  <2>3. ASSUME NEW i \in DOMAIN svClients' PROVE svClients'[i].id \in Ids
    <3>1. CASE i \in DOMAIN svClients
      BY <1>2, <2>2, <3>1 DEF IdsInv
    <3>2. CASE i \notin DOMAIN svClients
      BY <1>2, <2>2, <2>3, <3>2 DEF ZeroClient, Ids
    <3> QED
      BY <3>1, <3>2
  <2> QED
    BY <2>2, <2>3 DEF Ids
<1> DEFINE ids == Recipients(svClients')
           ents == FirstEnts(svPlayers')
           frames == UNION {FrameTo(svConns, id, "DATA_GAMEUPDATE", ents) : id \in ids}
<1>6. ids \subseteq Ids
  BY <1>5 DEF Recipients
<1>7. MapOver(ents, Nat, Position)
  BY <1>3 DEF FirstEnts, MapOver
<1>8. svConns' = svConns
  <2>1. svConns' = Touch(svConns, ids, NoAddress)
    BY DEF SendUpdate
  <2>2. ids \subseteq DOMAIN svConns /\ svConns = [k \in DOMAIN svConns |-> svConns[k]]
    BY <1>2, <1>6 DEF IdsInv, ServerTypeOK, MapOver
  <2> HIDE DEF ids
  <2> QED
    BY <2>1, <2>2, TouchNothing
<1>9. toClient' \subseteq toClient \cup frames
  BY SendLemma DEF SendUpdate
<1> HIDE DEF ids, ents
<1>10. \A g \in frames : IsClientFrame(g) /\ g.type = "DATA_GAMEUPDATE"
  BY <1>6, <1>7, FrameToLemma
<1> HIDE DEF frames
<1>11. WireTypeOK'
  BY <1>1, <1>2, <1>9, <1>10 DEF WireTypeOK
<1>12. ServerTypeOK'
  BY <1>1, <1>2, <1>3, <1>4, <1>8, NoEventType DEF ServerTypeOK, MapOver
<1>13. IdsInv'
  BY <1>1, <1>2, <1>5, <1>8, NoEventType DEF IdsInv, Ids, NamesAnId
<1>14. PlayersInv'
  <2>1. ASSUME svRestarts = 0 PROVE DOMAIN svPlayers' \subseteq 0..(svNextId - 1)
    BY <1>1, <1>2, <2>1, FillDomain DEF PlayersInv, Ids
  <2> QED
    BY <1>1, <2>1 DEF PlayersInv, Ids
<1>15. \A c \in Clients : Known(c) => Known(c)'
  BY <1>1, <1>8 DEF Known, Ids
<1> QED
  BY <1>1, <1>9, <1>10, <1>11, <1>12, <1>13, <1>14, <1>15, KnownKept DEF IInv, TypeOK

-----------------------------------------------------------------------------
(* The server is started again. *)

(* A restart forgets every id, and with them everything that names one. *)
LEMMA ServerRestartStep ==
  ASSUME IInv, ServerRestart, UNCHANGED clVars
  PROVE  IInv'
<1>1. svRestarts' # 0 /\ svRestarts' \in 0..MaxRestarts
  BY ServerAssumption DEF ServerRestart, IInv, TypeOK, ServerTypeOK
<1>2. WireTypeOK'
  BY DEF ServerRestart, IInv, TypeOK, WireTypeOK, wireVars
<1>3. ServerTypeOK'
  BY <1>1, NoEventType DEF ServerRestart, IInv, TypeOK, ServerTypeOK, MapOver, EmptyMap
<1>4. ClientTypeOK'
  BY DEF IInv, TypeOK, ClientTypeOK, clVars
<1>5. IdsInv'
  BY NoEventType DEF ServerRestart, IdsInv, Ids, NamesAnId, EmptyMap
<1>6. PlayersInv' /\ KnownInv'
  BY <1>1 DEF PlayersInv, KnownInv
<1>7. RequestsInv'
  BY DEF IInv, RequestsInv, Connecting, TriesLeft, clVars
<1> QED
  BY <1>2, <1>3, <1>4, <1>5, <1>6, <1>7 DEF IInv, TypeOK

(* Every step of the server preserves the invariant. *)
LEMMA ServerStepIInv ==
  ASSUME IInv, ServerStep
  PROVE  IInv'
  BY ServerRecvStep, ServerPostStep, ServerPollStep, ServerHandleStep, SendUpdateStep,
     GetStuckStep, ServerRestartStep
  DEF ServerStep, ServerNet, ServerMain

-----------------------------------------------------------------------------
(* The network. *)

(* A lost frame tells nobody anything. *)
LEMMA NetworkStepIInv ==
  ASSUME IInv, NetworkStep
  PROVE  IInv'
<1>1. /\ toServer' \subseteq toServer /\ toClient' \subseteq toClient
      /\ UNCHANGED <<dups, svVars, clVars>>
  BY DEF NetworkStep, Lose
<1>2. WireTypeOK'
  BY <1>1 DEF IInv, TypeOK, WireTypeOK
<1>3. ServerTypeOK' /\ IdsInv' /\ PlayersInv'
  BY <1>1 DEF IInv, TypeOK, ServerTypeOK, IdsInv, Ids, NamesAnId, PlayersInv, svVars
<1>4. svRestarts' = svRestarts /\ \A c \in Clients : Known(c) => Known(c)'
  BY <1>1 DEF Known, Ids, svVars
<1> QED
  BY <1>1, <1>2, <1>3, <1>4, KnownKept DEF IInv, TypeOK

-----------------------------------------------------------------------------
(* The clients.  Their steps leave the server alone, and what it knows. *)

(* What is said of the server alone stays while the server does nothing. *)
LEMMA ServerKept ==
  ASSUME IInv, UNCHANGED svVars
  PROVE  /\ ServerTypeOK' /\ IdsInv' /\ PlayersInv'
         /\ svRestarts' = svRestarts
         /\ \A c : Known(c)' <=> Known(c)
  BY DEF IInv, TypeOK, ServerTypeOK, IdsInv, Ids, NamesAnId, PlayersInv, Known, svVars

(* A client's step keeps KnownInv if it takes no new answer out of thin    *)
(* air, and if it sends a key only when it has been answered.              *)
LEMMA AnswersKept ==
  ASSUME IInv, UNCHANGED svVars,
         \A b \in Clients : Told(b)' => Told(b),
         \A f \in toServer' \ toServer :
           f.type = "DATA_KEY_DOWN" /\ f.from \in Clients => Told(f.from)
  PROVE  KnownInv'
<1>1. SUFFICES ASSUME svRestarts = 0, NEW b \in Clients,
                      Told(b)' \/ KeyOnItsWay(b)'
               PROVE  Known(b)
  BY ServerKept DEF KnownInv
<1>2. Told(b) \/ KeyOnItsWay(b)
  BY <1>1 DEF KeyOnItsWay
<1> QED
  BY <1>1, <1>2 DEF IInv, KnownInv

(* The end of a process. *)
LEMMA EndProcessIInv ==
  ASSUME IInv, NEW c \in Clients, NEW how \in {"failed", "quit"}, EndProcess(c, how),
         UNCHANGED svVars
  PROVE  IInv'
<1> USE DEF EndProcess
<1>1. WireTypeOK' /\ toServer' = toServer /\ toClient' = toClient
  BY DEF IInv, TypeOK, WireTypeOK, wireVars
<1>2. ClientTypeOK'
  <2>1. ClientTypeOK
    BY DEF IInv, TypeOK
  <2>2. /\ clPc' \in [Clients -> {"start", "check", "timed", "play", "failed", "quit"}]
        /\ clAttempts' \in [Clients -> 0..CONNECTION_ATTEMPTS]
        /\ clExpired' \in [Clients -> BOOLEAN]
        /\ clStatus' \in [Clients -> {"DISCONNECTED", "CONNECTED"}]
        /\ clSetup' \in [Clients -> BOOLEAN]
        /\ clNetPc' \in [Clients -> {"recv", "post", "status", "endless"}]
        /\ clServerId' \in [Clients -> ClientIds]
        /\ clRequests' \in [Clients -> 0..(CONNECTION_ATTEMPTS + 1)]
        /\ clKeys' \in [Clients -> 0..MaxKeys]
        /\ clAddress' \in [Clients -> {Numeric, Name}]
    BY <2>1, ClientAssumption DEF ClientTypeOK, ClientIds
  <2>3. /\ DOMAIN clConns' = Clients /\ DOMAIN clSlot' = Clients
        /\ DOMAIN clNetEv' = Clients /\ DOMAIN clView' = Clients
    BY <2>1 DEF ClientTypeOK
  <2>4. \A b \in Clients : MapOver(clConns'[b], ClientIds, {Numeric, Name, Nowhere})
    <3>1. MapOver(EmptyMap, ClientIds, {Numeric, Name, Nowhere})
      BY DEF MapOver, EmptyMap
    <3> QED
      BY <2>1, <3>1 DEF ClientTypeOK
  <2>5. \A b \in Clients : IsEvent(clSlot'[b]) /\ clSlot'[b].id \in ClientIds
    BY <2>1, NoEventType DEF ClientTypeOK, ClientIds
  <2>6. \A b \in Clients : IsEvent(clNetEv'[b]) /\ clNetEv'[b].id \in ClientIds
    BY <2>1, NoEventType DEF ClientTypeOK, ClientIds
  <2>7. \A b \in Clients : MapOver(clView'[b], Nat, Position)
    BY <2>1, EmptyMapType DEF ClientTypeOK
  <2> QED
    BY <2>2, <2>3, <2>4, <2>5, <2>6, <2>7 DEF ClientTypeOK
<1>3. RequestsInv'
  BY DEF IInv, TypeOK, ClientTypeOK, RequestsInv, Connecting, TriesLeft
<1>4. ClientTypeOK
  BY DEF IInv, TypeOK
<1>5. \A b \in Clients : Told(b)' => Told(b)
  BY <1>1, <1>4, NoEventType DEF Told, ClientTypeOK
<1>6. KnownInv'
  BY <1>1, <1>5, AnswersKept
<1> QED
  BY <1>1, <1>2, <1>3, <1>6, ServerKept DEF IInv, TypeOK

(* A connection request. *)
LEMMA SendRequestLemma ==
  ASSUME IInv, NEW c \in Clients, SendRequest(c)
  PROVE  /\ WireTypeOK' /\ toClient' = toClient
         /\ \A f \in toServer' \ toServer : f.type = "CONNECTION_REQUEST"
         /\ clSetup' \in [Clients -> BOOLEAN]
         /\ \A b \in Clients : MapOver(clConns'[b], ClientIds, {Numeric, Name, Nowhere})
         /\ clRequests' = [clRequests EXCEPT ![c] = @ + 1]
<1>1. WireTypeOK /\ ClientTypeOK
  BY DEF IInv, TypeOK
<1> DEFINE request == ToServer(c, "CONNECTION_REQUEST", NoKey)
<1>2. request \in ServerFrame /\ request.type = "CONNECTION_REQUEST"
  <2>1. NoKey \in Keys \cup {NoKey}
    OBVIOUS
  <2>2. request \in ServerFrame
    BY <2>1, ToServerType
  <2> QED
    BY <2>2 DEF ToServer
<1> HIDE DEF request
<1>3. toServer' \subseteq toServer \cup {request} /\ UNCHANGED <<toClient, dups>>
  BY SendLemma DEF SendRequest, request
<1>4. clSetup' \in [Clients -> BOOLEAN]
  BY <1>1 DEF SendRequest, ClientTypeOK
<1>5. MapOver(Put(clConns[c], 0, ServerAddress(c)), ClientIds, {Numeric, Name, Nowhere})
  <2>1. 0 \in ClientIds /\ ServerAddress(c) \in {Numeric, Name, Nowhere}
    BY <1>1 DEF ClientIds, ServerAddress, ClientTypeOK
  <2>2. MapOver(clConns[c], ClientIds, {Numeric, Name, Nowhere})
    BY <1>1 DEF ClientTypeOK
  <2> QED
    BY <2>1, <2>2, PutType
<1>6. ASSUME NEW b \in Clients
      PROVE  MapOver(clConns'[b], ClientIds, {Numeric, Name, Nowhere})
  <2>1. clConns' = [clConns EXCEPT ![c] = Put(@, 0, ServerAddress(c))]
    BY DEF SendRequest
  <2>2. DOMAIN clConns = Clients
    BY <1>1 DEF ClientTypeOK
  <2>3. CASE b = c
    BY <1>5, <2>1, <2>2, <2>3
  <2>4. CASE b # c
    BY <1>1, <2>1, <2>2, <2>4 DEF ClientTypeOK
  <2> QED
    BY <2>3, <2>4
<1> QED
  BY <1>1, <1>2, <1>3, <1>4, <1>6 DEF WireTypeOK, SendRequest

(* The first request. *)
LEMMA ClientStartStep ==
  ASSUME IInv, NEW c \in Clients, ClientStart(c), UNCHANGED svVars
  PROVE  IInv'
<1> USE DEF ClientStart
<1>1. ClientTypeOK /\ clPc[c] = "start" /\ clRequests[c] = 0
  BY DEF IInv, TypeOK, RequestsInv
<1>2. /\ WireTypeOK' /\ toClient' = toClient
      /\ \A f \in toServer' \ toServer : f.type = "CONNECTION_REQUEST"
      /\ clSetup' \in [Clients -> BOOLEAN]
      /\ \A b \in Clients : MapOver(clConns'[b], ClientIds, {Numeric, Name, Nowhere})
      /\ clRequests' = [clRequests EXCEPT ![c] = @ + 1]
  BY SendRequestLemma
<1>3. DOMAIN clConns' = Clients
  BY <1>1 DEF ClientTypeOK, SendRequest
<1>4. ClientTypeOK'
  <2>1. clRequests' \in [Clients -> 0..(CONNECTION_ATTEMPTS + 1)]
    BY <1>1, <1>2, ClientAssumption DEF ClientTypeOK
  <2> QED
    BY <1>1, <1>2, <1>3, <2>1 DEF ClientTypeOK
<1>5. RequestsInv'
  <2>1. clAttempts[c] = 0
    BY <1>1 DEF IInv, RequestsInv
  <2> QED
    BY <1>1, <1>2, <2>1 DEF IInv, RequestsInv, Connecting, TriesLeft, ClientTypeOK
<1>6. \A b \in Clients : Told(b)' => Told(b)
  BY <1>1, <1>2 DEF Told, ClientTypeOK
<1>7. KnownInv'
  BY <1>2, <1>6, AnswersKept
<1> QED
  BY <1>2, <1>4, <1>5, <1>7, ServerKept DEF IInv, TypeOK

(* The timer runs out. *)
LEMMA ClientTickStep ==
  ASSUME IInv, NEW c \in Clients, ClientTick(c), UNCHANGED svVars
  PROVE  IInv'
<1> USE DEF ClientTick
<1>1. ClientTypeOK /\ WireTypeOK
  BY DEF IInv, TypeOK
<1>2. ClientTypeOK' /\ WireTypeOK'
  BY <1>1 DEF ClientTypeOK, WireTypeOK, wireVars
<1>3. RequestsInv'
  BY DEF IInv, RequestsInv, Connecting, TriesLeft
<1>4. KnownInv'
  BY AnswersKept DEF Told, wireVars
<1> QED
  BY <1>2, <1>3, <1>4, ServerKept DEF IInv, TypeOK

(* The loop of connect() goes round while tries are left. *)
LEMMA ClientCheckStep ==
  ASSUME IInv, NEW c \in Clients, ClientCheck(c), UNCHANGED svVars
  PROVE  IInv'
<1> USE DEF ClientCheck
<1>1. ClientTypeOK /\ WireTypeOK
  BY DEF IInv, TypeOK
<1>2. ClientTypeOK' /\ WireTypeOK'
  BY <1>1 DEF ClientTypeOK, WireTypeOK, wireVars
<1>3. RequestsInv'
  BY <1>1 DEF IInv, RequestsInv, Connecting, TriesLeft, ClientTypeOK
<1>4. \A b \in Clients : Told(b)' => Told(b)
  BY <1>1 DEF Told, ClientTypeOK, wireVars
<1>5. KnownInv'
  BY <1>4, AnswersKept DEF wireVars
<1> QED
  BY <1>2, <1>3, <1>5, ServerKept DEF IInv, TypeOK

(* A request sent again, and counted. *)
LEMMA ClientRetryStep ==
  ASSUME IInv, NEW c \in Clients, ClientRetry(c), UNCHANGED svVars
  PROVE  IInv'
<1> USE DEF ClientRetry
<1>1. /\ ClientTypeOK /\ clPc[c] = "timed"
      /\ clRequests[c] = clAttempts[c] + 1 /\ clAttempts[c] < CONNECTION_ATTEMPTS
  BY DEF IInv, TypeOK, RequestsInv, Connecting, TriesLeft
<1>2. /\ WireTypeOK' /\ toClient' = toClient
      /\ \A f \in toServer' \ toServer : f.type = "CONNECTION_REQUEST"
      /\ clSetup' \in [Clients -> BOOLEAN]
      /\ \A b \in Clients : MapOver(clConns'[b], ClientIds, {Numeric, Name, Nowhere})
      /\ clRequests' = [clRequests EXCEPT ![c] = @ + 1]
  BY SendRequestLemma
<1>3. DOMAIN clConns' = Clients
  BY <1>1 DEF ClientTypeOK, SendRequest
<1>4. /\ clAttempts' \in [Clients -> 0..CONNECTION_ATTEMPTS]
      /\ clRequests' \in [Clients -> 0..(CONNECTION_ATTEMPTS + 1)]
  BY <1>1, <1>2, ClientAssumption DEF ClientTypeOK
<1>5. ClientTypeOK'
  BY <1>1, <1>2, <1>3, <1>4 DEF ClientTypeOK
<1>6. RequestsInv'
  BY <1>1, <1>2 DEF IInv, RequestsInv, Connecting, TriesLeft, ClientTypeOK
<1>7. \A b \in Clients : Told(b)' => Told(b)
  BY <1>1, <1>2 DEF Told, ClientTypeOK
<1>8. KnownInv'
  BY <1>2, <1>7, AnswersKept
<1> QED
  BY <1>2, <1>5, <1>6, <1>8, ServerKept DEF IInv, TypeOK

(* An answer found in the mailbox lets its client play; it was told. *)
LEMMA ClientPollStep ==
  ASSUME IInv, NEW c \in Clients, ClientPoll(c), UNCHANGED svVars
  PROVE  IInv'
<1> USE DEF ClientPoll, AfterGetEvent
<1>1. ClientTypeOK /\ WireTypeOK
  BY DEF IInv, TypeOK
<1>2. ClientTypeOK' /\ WireTypeOK'
  <2>1. \A b \in Clients : IsEvent(clSlot'[b]) /\ clSlot'[b].id \in ClientIds
    BY <1>1, NoEventType DEF ClientTypeOK, ClientIds
  <2>2. clServerId' \in [Clients -> ClientIds] /\ DOMAIN clSlot' = Clients
    BY <1>1 DEF ClientTypeOK
  <2>3. clAttempts' \in [Clients -> 0..CONNECTION_ATTEMPTS]
    <3>1. clAttempts \in [Clients -> 0..CONNECTION_ATTEMPTS]
      BY <1>1 DEF ClientTypeOK
    <3>2. clAttempts' = clAttempts \/ clAttempts' = [clAttempts EXCEPT ![c] = 0]
      OBVIOUS
    <3>3. 0 \in 0..CONNECTION_ATTEMPTS
      BY ClientAssumption
    <3> HIDE DEF ClientPoll
    <3> QED
      BY <3>1, <3>2, <3>3
  <2>4. clPc' \in [Clients -> {"start", "check", "timed", "play", "failed", "quit"}]
    BY <1>1 DEF ClientTypeOK
  <2>5. ClientTypeOK'
    BY <1>1, <2>1, <2>2, <2>3, <2>4 DEF ClientTypeOK
  <2>6. WireTypeOK'
    BY <1>1 DEF WireTypeOK, wireVars
  <2> QED
    BY <2>5, <2>6
<1>3. RequestsInv'
  BY <1>1 DEF IInv, RequestsInv, Connecting, TriesLeft, ClientTypeOK
<1>4. \A b \in Clients : Told(b)' => Told(b)
  BY <1>1, NoEventType DEF Told, ClientTypeOK, wireVars
<1>5. KnownInv'
  BY <1>4, AnswersKept DEF wireVars
<1> QED
  BY <1>2, <1>3, <1>5, ServerKept DEF IInv, TypeOK

(* A frame of the game: only a client that was told sends a key. *)
LEMMA ClientFrameStep ==
  ASSUME IInv, NEW c \in Clients, ClientFrame(c), UNCHANGED svVars
  PROVE  IInv'
<1> USE DEF ClientFrame, AfterGetEvent
<1>1. ClientTypeOK /\ WireTypeOK /\ Told(c)
  BY DEF IInv, TypeOK, Told
<1>2. /\ \A b \in Clients : IsEvent(clSlot'[b]) /\ clSlot'[b].id \in ClientIds
      /\ DOMAIN clSlot' = Clients
  BY <1>1, NoEventType DEF ClientTypeOK, ClientIds
<1>3. /\ \A b \in Clients : MapOver(clView'[b], Nat, Position)
      /\ DOMAIN clView' = Clients
  <2> DEFINE seen == handleEvent(clView[c], clSlot[c])
  <2>1. MapOver(clView[c], Nat, Position) /\ MapOver(clSlot[c].ents, Nat, Position)
    BY <1>1 DEF ClientTypeOK, IsEvent
  <2>2. MapOver(seen, Nat, Position)
    BY <2>1, OverlayType DEF handleEvent, setGameUpdate
  <2>3. clView' = [clView EXCEPT ![c] = getPlayers(seen)]
    OBVIOUS
  <2> HIDE DEF seen
  <2>4. MapOver(getPlayers(seen), Nat, Position)
    BY <2>2, FillType, OriginType DEF getPlayers
  <2> QED
    BY <1>1, <2>3, <2>4 DEF ClientTypeOK
<1>4. /\ clKeys' \in [Clients -> 0..MaxKeys]
      /\ \A b \in Clients : MapOver(clConns'[b], ClientIds, {Numeric, Name, Nowhere})
      /\ DOMAIN clConns' = Clients
      /\ toServer' \subseteq ServerFrame
      /\ \A f \in toServer' \ toServer : f.from = c
  <2>1. CASE UNCHANGED <<clKeys, clConns, toServer>>
    BY <1>1, <2>1 DEF ClientTypeOK, WireTypeOK
  <2>2. ASSUME NEW key \in Keys, SendKey(c, key)
        PROVE  /\ clKeys' \in [Clients -> 0..MaxKeys]
               /\ \A b \in Clients : MapOver(clConns'[b], ClientIds, {Numeric, Name, Nowhere})
               /\ DOMAIN clConns' = Clients
               /\ toServer' \subseteq ServerFrame
               /\ \A f \in toServer' \ toServer : f.from = c
    <3>1. clKeys' \in [Clients -> 0..MaxKeys]
      BY <1>1, <2>2, ClientAssumption DEF SendKey, ClientTypeOK
    <3> DEFINE conns == Touch(clConns[c], {clServerId[c]}, Nowhere)
    <3>2. MapOver(conns, ClientIds, {Numeric, Name, Nowhere})
      <4>1. MapOver(clConns[c], ClientIds, {Numeric, Name, Nowhere}) /\ clServerId[c] \in ClientIds
        BY <1>1 DEF ClientTypeOK
      <4> QED
        BY <4>1, TouchType
    <3>3. clConns' = [clConns EXCEPT ![c] = conns]
      BY <2>2 DEF SendKey
    <3> HIDE DEF conns
    <3>4. /\ \A b \in Clients : MapOver(clConns'[b], ClientIds, {Numeric, Name, Nowhere})
          /\ DOMAIN clConns' = Clients
      BY <1>1, <3>2, <3>3 DEF ClientTypeOK
    <3> DEFINE frame == ToServer(c, "DATA_KEY_DOWN", key)
    <3>5. frame \in ServerFrame
      BY ToServerType
    <3>6. frame.from = c
      BY DEF ToServer
    <3>7. toServer' \subseteq toServer \cup {frame}
      BY <2>2, SendLemma DEF SendKey
    <3> HIDE DEF frame
    <3> QED
      BY <1>1, <3>1, <3>4, <3>5, <3>6, <3>7 DEF WireTypeOK
  <2> QED
    BY <2>1, <2>2
<1>5. ClientTypeOK'
  BY <1>1, <1>2, <1>3, <1>4 DEF ClientTypeOK
<1>6. WireTypeOK'
  BY <1>1, <1>4 DEF WireTypeOK
<1>7. RequestsInv'
  BY DEF IInv, RequestsInv, Connecting, TriesLeft
<1>8. \A b \in Clients : Told(b)' => Told(b)
  BY <1>1, NoEventType DEF Told, ClientTypeOK
<1>9. KnownInv'
  BY <1>1, <1>4, <1>8, AnswersKept
<1> QED
  BY <1>5, <1>6, <1>7, <1>9, ServerKept DEF IInv, TypeOK

(* Every step of the main thread of a client preserves the invariant. *)
LEMMA ClientMainStep ==
  ASSUME IInv, NEW c \in Clients, ClientMain(c), UNCHANGED svVars
  PROVE  IInv'
<1>1. CASE ClientGiveUp(c)
  BY <1>1, EndProcessIInv DEF ClientGiveUp
<1>2. CASE ClientQuit(c)
  BY <1>2, EndProcessIInv DEF ClientQuit
<1> QED
  BY <1>1, <1>2, ClientStartStep, ClientCheckStep, ClientRetryStep, ClientPollStep,
     ClientFrameStep
  DEF ClientMain

(* A frame received: only the answer to a request tells its client. *)
LEMMA ClientRecvStep ==
  ASSUME IInv, NEW c \in Clients, NEW f \in toClient, ClientRecv(c, f), UNCHANGED svVars
  PROVE  IInv'
<1> USE DEF ClientRecv
<1>1. /\ ClientTypeOK /\ WireTypeOK /\ f.to = c /\ clNetPc[c] = "recv"
      /\ MapOver(f.ents, Nat, Position)
  BY DEF IInv, TypeOK, WireTypeOK, IsClientFrame
<1>2. toClient' \subseteq toClient /\ dups' \in 0..MaxDup
  BY <1>1, TakeLemma DEF WireTypeOK
<1> DEFINE acks == {ToServer(c, t, NoKey) : t \in AckTypes(f.type)}
<1>3. toServer' \subseteq toServer \cup acks
  BY SendLemma
<1>4. \A g \in acks : g \in ServerFrame /\ g.type = "ACK"
  <2>1. \A g \in acks : g = ToServer(c, "ACK", NoKey)
    BY AckTypesLemma
  <2>2. NoKey \in Keys \cup {NoKey}
    OBVIOUS
  <2>3. ToServer(c, "ACK", NoKey) \in ServerFrame
    BY <2>2, ToServerType
  <2> QED
    BY <2>1, <2>3 DEF ToServer
<1> HIDE DEF acks
<1>5. WireTypeOK'
  BY <1>1, <1>2, <1>3, <1>4 DEF WireTypeOK
<1>6. /\ \A b \in Clients : IsEvent(clNetEv'[b]) /\ clNetEv'[b].id \in ClientIds
      /\ DOMAIN clNetEv' = Clients
      /\ clNetPc' \in [Clients -> {"recv", "post", "status", "endless"}]
      /\ clNetPc'[c] # "status"
      /\ \A b \in Clients \ {c} : clNetEv'[b] = clNetEv[b] /\ clNetPc'[b] = clNetPc[b]
      /\ clNetEv'[c].type = "EVENT_NET_CONNECT_ACK" => Told(c)
  <2>1. CASE f.type = "CONNECTION_REQUEST_ACK"
    <3>1. Told(c)
      BY <1>1, <2>1 DEF Told
    <3> DEFINE e == NetEvent("EVENT_NET_CONNECT_ACK", findId(clConns[c], Numeric))
    <3>2. IsEvent(e) /\ e.id \in ClientIds
      <4>1. findId(clConns[c], Numeric) \in ClientIds
        BY <1>1, FindIdOfClient DEF ClientTypeOK, MapOver
      <4>2. "EVENT_NET_CONNECT_ACK" \in EventTypes /\ ClientIds \subseteq Int
        BY DEF EventTypes, ClientIds
      <4> QED
        BY <4>1, <4>2, NetEventType
    <3> HIDE DEF e
    <3>3. \/ clNetEv' = [clNetEv EXCEPT ![c] = e] /\ clNetPc' = [clNetPc EXCEPT ![c] = "post"]
          \/ clNetEv' = clNetEv /\ clNetPc' = [clNetPc EXCEPT ![c] = "endless"]
      BY <2>1 DEF HearAck, e
    <3> QED
      BY <1>1, <3>1, <3>2, <3>3 DEF ClientTypeOK
  <2>2. CASE f.type = "DATA_GAMEUPDATE"
    <3> DEFINE e == UpdateEvent(f.ents)
    <3>1. IsEvent(e) /\ e.id \in ClientIds /\ e.type = "EVENT_GAMEUPDATE"
      BY <1>1, UpdateEventType DEF ClientIds
    <3> HIDE DEF e
    <3>2. clNetEv' = [clNetEv EXCEPT ![c] = e] /\ clNetPc' = [clNetPc EXCEPT ![c] = "post"]
      BY <2>2 DEF HearUpdate, e
    <3> QED
      BY <1>1, <3>1, <3>2 DEF ClientTypeOK
  <2>3. CASE f.type = "ACK"
    BY <1>1, <2>3 DEF ClientTypeOK, Told
  <2> QED
    BY <2>1, <2>2, <2>3
<1>7. ClientTypeOK'
  BY <1>1, <1>6 DEF ClientTypeOK
<1>8. RequestsInv'
  BY DEF IInv, RequestsInv, Connecting, TriesLeft
<1>9. ASSUME NEW b \in Clients, Told(b)' PROVE Told(b)
  <2>1. CASE b = c
    BY <1>2, <1>6, <1>9, <2>1 DEF Told
  <2>2. CASE b # c
    BY <1>2, <1>6, <1>9, <2>2 DEF Told
  <2> QED
    BY <2>1, <2>2
<1>10. KnownInv'
  BY <1>3, <1>4, <1>9, AnswersKept
<1> QED
  BY <1>5, <1>7, <1>8, <1>10, ServerKept DEF IInv, TypeOK

(* An event posted, over the one that was in the mailbox. *)
LEMMA ClientPostStep ==
  ASSUME IInv, NEW c \in Clients, ClientPost(c), UNCHANGED svVars
  PROVE  IInv'
<1> USE DEF ClientPost
<1>1. ClientTypeOK /\ WireTypeOK
  BY DEF IInv, TypeOK
<1>2. /\ \A b \in Clients : IsEvent(clSlot'[b]) /\ clSlot'[b].id \in ClientIds
      /\ \A b \in Clients : IsEvent(clNetEv'[b]) /\ clNetEv'[b].id \in ClientIds
      /\ DOMAIN clSlot' = Clients /\ DOMAIN clNetEv' = Clients
      /\ clNetPc' \in [Clients -> {"recv", "post", "status", "endless"}]
  BY <1>1, NoEventType DEF ClientTypeOK, ClientIds
<1>3. ClientTypeOK'
  BY <1>1, <1>2 DEF ClientTypeOK
<1>4. WireTypeOK'
  BY <1>1 DEF WireTypeOK, wireVars
<1>5. RequestsInv'
  BY DEF IInv, RequestsInv, Connecting, TriesLeft
<1>6. \A b \in Clients : Told(b)' => Told(b)
  BY <1>1, NoEventType DEF Told, ClientTypeOK, wireVars
<1>7. KnownInv'
  BY <1>6, AnswersKept DEF wireVars
<1> QED
  BY <1>3, <1>4, <1>5, <1>7, ServerKept DEF IInv, TypeOK

(* The status set, after the answer that it stands for. *)
LEMMA ClientSetStatusStep ==
  ASSUME IInv, NEW c \in Clients, ClientSetStatus(c), UNCHANGED svVars
  PROVE  IInv'
<1> USE DEF ClientSetStatus
<1>1. ClientTypeOK /\ WireTypeOK
  BY DEF IInv, TypeOK
<1>2. ClientTypeOK' /\ WireTypeOK'
  BY <1>1 DEF ClientTypeOK, WireTypeOK, wireVars
<1>3. RequestsInv'
  BY DEF IInv, RequestsInv, Connecting, TriesLeft
<1>4. \A b \in Clients : Told(b)' => Told(b)
  BY <1>1 DEF Told, ClientTypeOK, wireVars
<1>5. KnownInv'
  BY <1>4, AnswersKept DEF wireVars
<1> QED
  BY <1>2, <1>3, <1>5, ServerKept DEF IInv, TypeOK

(* Every step of a client preserves the invariant. *)
LEMMA ClientStepIInv ==
  ASSUME IInv, NEW c \in Clients, ClientStep(c)
  PROVE  IInv'
  BY ClientMainStep, ClientTickStep, ClientRecvStep, ClientPostStep, ClientSetStatusStep
  DEF ClientStep, ClientNet

-----------------------------------------------------------------------------
(* The theorems. *)

(* The invariant holds in every state of every run of the program. *)
THEOREM Invariant == Spec => []IInv
<1>1. IInv /\ [Next]_vars => IInv'
  <2>1. SUFFICES ASSUME IInv, [Next]_vars PROVE IInv'
    OBVIOUS
  <2>2. CASE Next
    BY <2>1, <2>2, ServerStepIInv, ClientStepIInv, NetworkStepIInv DEF Next
  <2>3. CASE UNCHANGED vars
    <3>1. UNCHANGED <<toServer, toClient, dups, svVars, clVars>>
      BY <2>3 DEF vars, wireVars
    <3>2. WireTypeOK'
      BY <2>1, <3>1 DEF IInv, TypeOK, WireTypeOK
    <3>3. svRestarts' = svRestarts /\ \A c \in Clients : Known(c) => Known(c)'
      BY <3>1 DEF Known, Ids, svVars
    <3> QED
      BY <2>1, <3>1, <3>2, <3>3, ServerKept, KnownKept DEF IInv, TypeOK
  <2> QED
    BY <2>1, <2>2, <2>3
<1> QED
  BY InitIInv, <1>1, PTL DEF Spec

(* Type correctness: among the rest, a client never sends more than        *)
(* CONNECTION_ATTEMPTS + 1 requests, and every frame and event is whole.   *)
THEOREM TypeCorrect == Spec => []TypeOK
  BY Invariant, PTL DEF IInv

(* However many clients there are, and whatever the network loses, repeats *)
(* or reorders, ids are given without gaps and to one address each.        *)
THEOREM RegistrationIsSafe == Spec => []RegistrationIsInjective
<1>1. IInv => RegistrationIsInjective
  BY DEF IInv, IdsInv, Ids, RegistrationIsInjective
<1> QED
  BY <1>1, Invariant, PTL

(* Until the server is restarted, its main loop never enters a walk over   *)
(* the players that does not end.                                          *)
THEOREM ServerKeepsWalking == Spec => []ServerLoopTerminates
<1>1. IInv => ServerLoopTerminates
  BY DEF IInv, PlayersInv, Ids, TypeOK, ServerTypeOK, ServerLoopTerminates, WalkEnds
<1> QED
  BY <1>1, Invariant, PTL

=============================================================================
