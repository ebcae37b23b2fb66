------------------------------ MODULE SizeLoop ------------------------------
(***************************************************************************)
(* The loop every walk over a std::map of this program is written as,      *)
(* index by index: GameState::getGameUpdate, GameState::getPlayers,        *)
(* Network::findId and the last loop of Server::sendUpdate.  It is what    *)
(* WalkEnds and Fill of StdMap stand for.                                  *)
(***************************************************************************)
EXTENDS StdMap, FiniteSets, Sequences

CONSTANTS
  MapKeys,      \* keys the map may start with
  Values,       \* what it maps them to
  Default,      \* the value operator[] inserts
  MaxIndex      \* bound: an index an endless walk is not followed beyond

ASSUME SizeLoopAssumption ==
  /\ MapKeys \subseteq Int /\ IsFiniteSet(MapKeys)
  /\ Default \in Values
  /\ MaxIndex \in Nat

VARIABLES
  start,        \* history: the map before the walk
  m,            \* the map
  i,            \* the index
  seen,         \* the values read: the vector the function returns
  done          \* has the loop been left?

loopVars == <<start, m, i, seen, done>>

Init ==
  /\ start \in UNION {[ks -> Values] : ks \in SUBSET MapKeys}
  /\ m = start
  /\ i = 0
  /\ seen = <<>>
  /\ done = FALSE

(* Mutant of MoreToRead: i <= m.size(). *)
OneMoreToRead == i <= Cardinality(DOMAIN m)

(* i < m.size(), the map having grown since the last test. *)
MoreToRead == i < Cardinality(DOMAIN m)

(* Mutant of AfterRead: a lookup that inserts nothing. *)
LookUp(k) == m

(* m[k] inserts what it does not find. *)
AfterRead(k) == Touch(m, {k}, Default)

Visit ==
  /\ ~done /\ MoreToRead
  /\ i < MaxIndex
  /\ seen' = Append(seen, Get(m, i, Default))
  /\ m' = AfterRead(i)
  /\ i' = i + 1
  /\ UNCHANGED <<start, done>>

Leave ==
  /\ ~done /\ ~MoreToRead
  /\ done' = TRUE
  /\ UNCHANGED <<start, m, i, seen>>

Next == Visit \/ Leave

Spec == Init /\ [][Next]_loopVars /\ WF_loopVars(Next)

-----------------------------------------------------------------------------

(* The walk reads the map it leaves behind, in order and without gaps, and *)
(* that map is Fill's: the indices up to the largest key have been added,  *)
(* and nothing else has changed.  A map with a negative key is never left. *)
WalkFills ==
  done => /\ WalkEnds(start)
          /\ m = Fill(start, Default)
          /\ seen = [n \in 1..i |-> m[n - 1]]
          /\ \A k \in DOMAIN m : k < i

(* A negative key keeps size() ahead of the index at every turn: the walk  *)
(* that getGameUpdate makes after a key from a stranger (GameState.cpp:47).*)
NegativeKeyKeepsAhead == ~WalkEnds(start) => i < Cardinality(DOMAIN m)

(* Without a negative key every walk comes to an end, however far apart    *)
(* the keys are, though the bound it runs up to moves while it runs.       *)
WalkStops == WalkEnds(start) ~> done

-----------------------------------------------------------------------------

(* Why the walk does what Fill says: i indices have been read and, where   *)
(* they were missing, added; and it has got this far only because of a key *)
(* ahead of it, or of one behind all of them.                              *)
LoopInv ==
  /\ MapOver(start, MapKeys, Values)
  /\ i \in Nat
  /\ done \in BOOLEAN
  /\ m = Touch(start, 0..(i - 1), Default)
  /\ seen = [n \in 1..i |-> m[n - 1]]
  /\ i = 0 \/ (\E k \in DOMAIN start : k >= i - 1 \/ k < 0)
  /\ done => ~MoreToRead

=============================================================================
