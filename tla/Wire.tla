-------------------------------- MODULE Wire --------------------------------
(***************************************************************************)
(* The UDP sockets between the clients and the server (external code, as   *)
(* Network.cpp uses it).  A datagram may be lost, duplicated, delayed and  *)
(* overtaken.  What is in flight is a set, so frames arrive in any order;  *)
(* a socket holds BufCap frames for a receiver and drops those that do not *)
(* fit; Lose drops any other; and a frame that is taken may stay to be     *)
(* taken again, MaxDup times in all.                                       *)
(*                                                                         *)
(* A client is named by its address, the pair of host and port the socket  *)
(* reports: every run of the client program is a client of its own.        *)
(***************************************************************************)
EXTENDS Integers, FiniteSets, GameState

CONSTANTS
  Clients,      \* the addresses clients send from
  Keys,         \* the keys their users press
  BufCap,       \* bound: frames in flight to one receiver
  MaxDup,       \* bound: duplicates the network makes
  Acks          \* bound: are ACK frames carried, or all lost?

ASSUME KeysAssumption == Keys \subseteq KeySyms
ASSUME WireAssumption == BufCap \in Nat /\ MaxDup \in Nat /\ Acks \in BOOLEAN

VARIABLES
  toServer,     \* frames in flight from the clients
  toClient,     \* frames in flight from the server
  dups          \* duplicates made so far

wireVars == <<toServer, toClient, dups>>

NoKey == "none"

(* Frames: the NET_Type and, for DATA, its data_type.  The number of a     *)
(* frame is left out: nothing reads it but the ACK that echoes it.         *)
ServerFrame ==
  [from : Clients, key : Keys \cup {NoKey},
   type : {"ACK", "CONNECTION_REQUEST", "DATA_KEY_DOWN"}]

ToServer(c, type, key) == [from |-> c, key |-> key, type |-> type]

ToClient(c, type, ents) == [to |-> c, ents |-> ents, type |-> type]

(* The types of the frames sendACK answers a frame of this type with: an   *)
(* ACK, and none to an ACK.  An ACK that arrives changes nothing, so a     *)
(* smaller run may have them all lost.                                     *)
AckTypes(type) == IF Acks /\ type # "ACK" THEN {"ACK"} ELSE {}

IsClientFrame(f) ==
  /\ f = [to |-> f.to, ents |-> f.ents, type |-> f.type]
  /\ f.to \in Clients
  /\ f.type \in {"ACK", "CONNECTION_REQUEST_ACK", "DATA_GAMEUPDATE"}
  /\ MapOver(f.ents, Nat, Position)

WireTypeOK ==
  /\ toServer \subseteq ServerFrame
  /\ \A f \in toClient : IsClientFrame(f)
  /\ dups \in 0..MaxDup

WireInit ==
  /\ toServer = {}
  /\ toClient = {}
  /\ dups = 0

-----------------------------------------------------------------------------

(* What is in flight after frames have been sent: those that find room. *)
AfterSendToServer(frames) ==
  toServer \cup {f \in frames : Cardinality(toServer) < BufCap}

InFlightTo(c) == {f \in toClient : f.to = c}

AfterSendToClients(frames) ==
  toClient \cup {f \in frames : Cardinality(InFlightTo(f.to)) < BufCap}

(* The receiver of f takes it: the frame is gone, or a duplicate stays. *)
TakeFrom(flight, flight1, f) ==
  \/ flight1 = flight \ {f} /\ UNCHANGED dups
  \/ dups < MaxDup /\ dups' = dups + 1 /\ flight1 = flight

Lose ==
  /\ \/ /\ \E f \in toServer : toServer' = toServer \ {f}
        /\ UNCHANGED toClient
     \/ /\ \E f \in toClient : toClient' = toClient \ {f}
        /\ UNCHANGED toServer
  /\ UNCHANGED dups

=============================================================================
