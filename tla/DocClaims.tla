------------------------------ MODULE DocClaims ------------------------------
(***************************************************************************)
(* What docs/design says of the program and its code does not do.  Each is *)
(* checked by a run of its own, which ends in a counterexample.            *)
(***************************************************************************)
EXTENDS Game

(* docs/design:60-64: the loop that connects is followed by the game or by *)
(* "Couldn't connect to server".  Client::connect can stay in its loop for *)
(* ever, with the answer in the mailbox, when the network thread sets the  *)
(* status (Network.cpp:321) before the loop has looked at the mailbox      *)
(* (Client.cpp:53): while the status is CONNECTED it neither looks there   *)
(* nor counts attempts.                                                    *)
ConnectEnds == \A c \in Clients : Connecting(c) ~> clPc[c] \in {"play", "failed"}

(* docs/design:29-32: every turn of Server::run sends the game update to   *)
(* each client and goes on to the next.  A key from an address the server  *)
(* does not know, as after a restart of the server, is played on id -1,    *)
(* and the walk in getGameUpdate never ends (GameState.cpp:47).            *)
KeepsServing == []<>(svPc = "poll")

(* docs/design:13: the server has an array of up to 32 clients.  addClient *)
(* counts, but the walk of sendUpdate adds slots without counting          *)
(* (Server.cpp:172).                                                       *)
AtMostMaxClients == Cardinality(DOMAIN svClients) <= MaxClients

(* docs/design:148-150: the server answers CONNECT_ACK when it has created *)
(* the client and added it to its list.  handleNetEvent answers whatever   *)
(* addClient returned (Server.cpp:97-104).                                 *)
AnsweredMeansListed == \A c \in Clients : Told(c) => Listed(c)

=============================================================================
