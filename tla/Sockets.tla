------------------------------ MODULE Sockets ------------------------------
(***************************************************************************)
(* Network::Setup and the sockets it leaves behind.  A socket is made, and *)
(* then a thread that listens to it; setup is set when both succeed.  A    *)
(* server calls Setup once, a client with every request that it sends.     *)
(***************************************************************************)
EXTENDS Naturals, FiniteSets

CONSTANTS
  MaxAddresses    \* bound: addresses that getaddrinfo finds

ASSUME SocketsAssumption == MaxAddresses \in Nat

VARIABLES
  opened,      \* how many sockets were made; they are numbered from 1
  sfd,         \* the member sfd, or NoSocket while it has no value
  setup,       \* the member setup
  listening,   \* the socket of the network thread, or NoSocket
  asked,       \* history: the sockets that sent a request
  unthreaded   \* history: how often a socket got no thread

socketVars == <<opened, sfd, setup, listening, asked, unthreaded>>

NoSocket == 0

SocketsInit ==
  /\ opened = 0 /\ sfd = NoSocket /\ setup = FALSE /\ listening = NoSocket
  /\ asked = {} /\ unthreaded = 0

(* No address is found, no socket made for any, or none bound: sockets     *)
(* that could not be bound are not closed.                                 *)
CreateFails(left) ==
  /\ opened' = opened + left
  /\ UNCHANGED <<sfd, setup, listening, unthreaded>>

(* The last socket made is taken, and the thread runs or not. *)
Created(left) ==
  /\ opened' = opened + left + 1
  /\ sfd' = opened'
  /\ \/ setup' = TRUE /\ listening' = sfd' /\ UNCHANGED unthreaded
     \/ unthreaded' = unthreaded + 1 /\ UNCHANGED <<setup, listening>>

(* With as many sockets that cannot be bound as MaxUnbound at most. *)
CreateSocket(MaxUnbound) ==
  \/ \E left \in 0..MaxUnbound : CreateFails(left)
  \/ \E left \in 0..MaxUnbound : left < MaxAddresses /\ Created(left)

(* Mutant of Setup: whatever has been set up. *)
SetupAgain(MaxUnbound) == CreateSocket(MaxUnbound)

Setup(MaxUnbound) ==
  \/ ~setup /\ CreateSocket(MaxUnbound)
  \/ setup /\ UNCHANGED <<opened, sfd, setup, listening, unthreaded>>

(* A server binds, and sends nothing yet. *)
ServerSetup == Setup(MaxAddresses) /\ UNCHANGED asked

(* A client binds nothing.  Whatever becomes of Setup, the request is      *)
(* sent; without a socket it goes nowhere.                                 *)
Request ==
  /\ Setup(0)
  /\ asked' = asked \cup ({sfd'} \ {NoSocket})

-----------------------------------------------------------------------------

(* A process that has a network thread uses the socket the thread listens  *)
(* to, although every request comes by Setup, and each of its calls so far *)
(* may have failed half-way (Network.cpp:31-39, 529).                      *)
HearsItsAnswers == setup => listening = sfd

(* A client sends its requests from one address, and from one more for     *)
(* each socket that got no thread (Network.cpp:35); to the server each of  *)
(* them is a client, and there is no player behind but the last.           *)
AsksFromOneAddress == Cardinality(asked) <= 1 + unthreaded

=============================================================================
