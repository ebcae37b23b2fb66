----------------------------- MODULE GameState -----------------------------
(***************************************************************************)
(* GameState: the map from player ids to players that the server plays on  *)
(* and that every client draws.  A player is its position: the character   *)
(* is '#' for everyone and is left out.                                    *)
(***************************************************************************)
EXTENDS StdMap

KeySyms == {"w", "a", "s", "d"}

Position == [x : Int, y : Int]

(* Player::Player() *)
Origin == [x |-> 0, y |-> 0]

(* The cell Server::handleKeyEvent moves a player to. *)
Moved(p, key) ==
  [x |-> p.x + (IF key = "d" THEN 1 ELSE 0) - (IF key = "a" THEN 1 ELSE 0),
   y |-> p.y + (IF key = "s" THEN 1 ELSE 0) - (IF key = "w" THEN 1 ELSE 0)]

(* addPlayer also replaces a player that is there already. *)
addPlayer(players, id) == Put(players, id, Origin)

(* Mutant of movePlayer: the player is not looked up. *)
moveNewPlayer(players, id, key) == Put(players, id, Moved(Origin, key))

(* getPlayer, the move and setPlayer: an unknown id gets a new player. *)
movePlayer(players, id, key) ==
  Put(players, id, Moved(Get(players, id, Origin), key))

(* getGameUpdate leaves this map behind and returns its entries 0, 1, ... *)
getGameUpdate(players) == Fill(players, Origin)

(* getPlayers does the same for drawing. *)
getPlayers(players) == Fill(players, Origin)

(* setGameUpdate writes the entries it is given and keeps the others. *)
setGameUpdate(players, update) == Overlay(update, players)

(* How far a player is from the cell it started on, in key presses. *)
Abs(n) == IF n < 0 THEN -n ELSE n
Distance(p, q) == Abs(p.x - q.x) + Abs(p.y - q.y)

=============================================================================
