------------------------------- MODULE Lobby -------------------------------
(***************************************************************************)
(* What the connection protocol promises, without sockets, threads,        *)
(* mailboxes or retries: the server gives out ids 0, 1, 2, ... to the      *)
(* addresses that ask, one each and for good, and a client starts playing  *)
(* only when it has an id.  Game implements it as long as the server is    *)
(* not restarted.                                                          *)
(***************************************************************************)
EXTENDS Sequences, Integers

CONSTANT Clients

VARIABLES
  ids,          \* ids[i + 1] is the client that has id i
  phase         \* of each client: "out", "joining", "playing" or "left"

lobbyVars == <<ids, phase>>

HasId(c) == \E i \in DOMAIN ids : ids[i] = c

Init ==
  /\ ids = <<>>
  /\ phase = [c \in Clients |-> "out"]

Join(c) ==
  /\ phase[c] = "out"
  /\ phase' = [phase EXCEPT ![c] = "joining"]
  /\ UNCHANGED ids

(* The server hears from c: it may do so late, when c has left. *)
GiveId(c) ==
  /\ phase[c] # "out"
  /\ ~HasId(c)
  /\ ids' = Append(ids, c)
  /\ UNCHANGED phase

Play(c) ==
  /\ phase[c] = "joining"
  /\ HasId(c)
  /\ phase' = [phase EXCEPT ![c] = "playing"]
  /\ UNCHANGED ids

(* c gives up, or its user does. *)
Leave(c) ==
  /\ phase[c] \in {"joining", "playing"}
  /\ phase' = [phase EXCEPT ![c] = "left"]
  /\ UNCHANGED ids

Next == \E c \in Clients : Join(c) \/ GiveId(c) \/ Play(c) \/ Leave(c)

Spec == Init /\ [][Next]_lobbyVars

=============================================================================
