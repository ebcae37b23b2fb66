------------------------------ MODULE Network ------------------------------
(***************************************************************************)
(* The parts of class Network that a client and the server share: the map  *)
(* of connections and the search in it, and the one-event mailbox between  *)
(* the network thread and the main thread.  Both use the wire.             *)
(***************************************************************************)
EXTENDS Wire

(* Whether there is an address, a socket and, for a server, a free port, *)
(* and then a thread, is up to the host: Setup may succeed or not.       *)
CreateSocket == BOOLEAN

(* Mutant of findId: the comparison never matches. *)
FindNothing(connections, address) == -1

(* findId: the id of the last connection with that address, or -1.  The    *)
(* loop it runs touches the map; its callers have it walk a map that the   *)
(* walk leaves as it is, or account for a walk that does not end.          *)
findId(connections, address) ==
  LET hits == {i \in DOMAIN connections : connections[i] = address}
  IN  IF hits = {} THEN -1 ELSE CHOOSE i \in hits : \A j \in hits : j <= i

(* Event: the fields that are read, the net_type being part of the type. *)
Event(type, id, key, ents) == [type |-> type, id |-> id, key |-> key, ents |-> ents]

(* Event::Event(): the mailbox when nothing has been posted. *)
NoEvent == Event("EVENT_UNKNOWN", -1, NoKey, EmptyMap)

(* Mutant of AfterGetEvent: the event is read, and stays. *)
KeepEvent(mailbox) == mailbox

(* getEvent returns what is in the mailbox and leaves this in it. *)
AfterGetEvent(mailbox) == NoEvent

NetEvent(type, id) == Event(type, id, NoKey, EmptyMap)
KeyEvent(id, key)  == Event("EVENT_KEY", id, key, EmptyMap)
UpdateEvent(ents)  == Event("EVENT_GAMEUPDATE", -1, NoKey, ents)

EventTypes == {"EVENT_UNKNOWN", "EVENT_NET_CONNECT", "EVENT_NET_CONNECT_ACK",
               "EVENT_KEY", "EVENT_GAMEUPDATE"}

IsEvent(e) ==
  /\ e = Event(e.type, e.id, e.key, e.ents)
  /\ e.type \in EventTypes
  /\ e.id \in Int
  /\ e.key \in Keys \cup {NoKey}
  /\ MapOver(e.ents, Nat, Position)

=============================================================================
