------------------------------- MODULE StdMap -------------------------------
(***************************************************************************)
(* The two ways this program uses std::map<int, T>.                        *)
(*                                                                         *)
(* operator[] never fails: reading an absent key inserts a default value.  *)
(* And every walk over a map is written                                    *)
(*                                                                         *)
(*     for(int i = 0; i < m.size(); i++) ... m[i] ...                      *)
(*                                                                         *)
(* so the walk itself inserts the indices it does not find, and the bound  *)
(* it is compared with grows while it runs.  The module SizeLoop steps     *)
(* through that loop; here it is one operator, Fill.                       *)
(***************************************************************************)
EXTENDS Integers

EmptyMap == [k \in {} |-> 0]

(* m is a map from some keys in K to values in V. *)
MapOver(m, K, V) ==
  /\ DOMAIN m \subseteq K
  /\ m = [k \in DOMAIN m |-> m[k]]
  /\ \A k \in DOMAIN m : m[k] \in V

(* top's entries, and under them those of base. *)
Overlay(top, base) ==
  [k \in DOMAIN top \cup DOMAIN base |->
     IF k \in DOMAIN top THEN top[k] ELSE base[k]]

(* m[k] = v *)
Put(m, k, v) == Overlay([x \in {k} |-> v], m)

(* What m[k] returns, d being T's default value... *)
Get(m, k, d) == IF k \in DOMAIN m THEN m[k] ELSE d

(* ... and what it leaves behind, for a set of keys. *)
Touch(m, ks, d) == Overlay(m, [k \in ks |-> d])

-----------------------------------------------------------------------------

(* The walk stops only if no key is negative: a negative key keeps size()  *)
(* ahead of i for ever.                                                    *)
WalkEnds(m) == \A k \in DOMAIN m : k >= 0

(* Mutant of Walked: i <= size(). *)
WalkedOneMore(m) == UNION {0..(k + 1) : k \in DOMAIN m}

(* The indices a walk that stops has visited: up to the largest key. *)
Walked(m) == UNION {0..k : k \in DOMAIN m}

(* The map after a walk that stops. *)
Fill(m, d) == Touch(m, Walked(m), d)

=============================================================================
