--------------------------- MODULE SizeLoopProofs ---------------------------
(***************************************************************************)
(* Theorems about SizeLoop, for every map with finitely many integer keys: *)
(* the loops of the program do what Fill and WalkEnds of StdMap say.       *)
(***************************************************************************)
EXTENDS SizeLoop, FiniteSetTheorems, SequenceTheorems, TLAPS

(* How many keys a map has tells whether any of them is not an index that  *)
(* has been read already, when all of 0..n-1 have.                         *)
LEMMA CountKeys ==
  ASSUME NEW n \in Nat, NEW D, D \subseteq Int, IsFiniteSet(D), 0..(n - 1) \subseteq D
  PROVE  n < Cardinality(D) <=> (\E k \in D : k >= n \/ k < 0)
<1> DEFINE T == 0..(n - 1)
<1>1. IsFiniteSet(T) /\ Cardinality(T) = n
  BY FS_Interval
<1>2. Cardinality(D) \in Nat
  BY FS_CardinalityType
<1>3. n <= Cardinality(D) /\ (Cardinality(D) = n => D = T)
  BY <1>1, FS_Subset
<1>4. D = T => Cardinality(D) = n
  BY <1>1
<1>5. ASSUME NEW k \in D
      PROVE  k \in T <=> ~(k >= n \/ k < 0)
  OBVIOUS
<1>6. D = T <=> D \subseteq T
  OBVIOUS
<1> HIDE DEF T
<1>7. D = T <=> ~\E k \in D : k >= n \/ k < 0
  BY <1>5, <1>6
<1> QED
  BY <1>2, <1>3, <1>4, <1>7

(* The maps of the walk are finite, and have the indices read as keys. *)
LEMMA WalkedMap ==
  ASSUME LoopInv
  PROVE  /\ IsFiniteSet(DOMAIN m)
         /\ DOMAIN m = DOMAIN start \cup 0..(i - 1)
         /\ DOMAIN m \subseteq Int
         /\ \A k \in DOMAIN start : m[k] = start[k]
<1>1. /\ DOMAIN start \subseteq MapKeys
      /\ i \in Nat
      /\ m = Touch(start, 0..(i - 1), Default)
  BY DEF LoopInv, MapOver
<1>2. DOMAIN m = DOMAIN start \cup 0..(i - 1)
  BY <1>1 DEF Touch, Overlay
<1>3. \A k \in DOMAIN start : m[k] = start[k]
  BY <1>1 DEF Touch, Overlay
<1>4. IsFiniteSet(DOMAIN start)
  BY <1>1, FS_Subset, SizeLoopAssumption
<1>5. IsFiniteSet(0..(i - 1))
  BY <1>1, FS_Interval
<1>6. IsFiniteSet(DOMAIN m)
  BY <1>2, <1>4, <1>5, FS_Union
<1>7. DOMAIN m \subseteq Int
  <2>1. DOMAIN start \subseteq Int
    BY <1>1, SizeLoopAssumption
  <2>2. 0..(i - 1) \subseteq Int
    BY <1>1
  <2> QED
    BY <1>2, <2>1, <2>2
<1> QED
  BY <1>2, <1>3, <1>6, <1>7

(* The loop goes on as long as the map had a key that has not been passed, *)
(* or one that never will be.                                              *)
LEMMA MoreIsAhead ==
  ASSUME LoopInv
  PROVE  MoreToRead <=> (\E k \in DOMAIN start : k >= i \/ k < 0)
<1>1. i \in Nat
  BY DEF LoopInv
<1>2. MoreToRead <=> (\E k \in DOMAIN m : k >= i \/ k < 0)
  BY <1>1, WalkedMap, CountKeys DEF MoreToRead
<1>3. \A k \in 0..(i - 1) : ~(k >= i \/ k < 0)
  BY <1>1
<1> QED
  BY <1>2, <1>3, WalkedMap

-----------------------------------------------------------------------------

(* Before the first turn nothing has been read. *)
LEMMA LoopInvInit == Init => LoopInv
<1> SUFFICES ASSUME Init PROVE LoopInv
  OBVIOUS
<1>1. PICK ks \in SUBSET MapKeys : start \in [ks -> Values]
  BY DEF Init
<1>2. MapOver(start, MapKeys, Values)
  BY <1>1 DEF MapOver
<1>3. 0..(i - 1) = {}
  BY DEF Init
<1>4. m = Touch(start, 0..(i - 1), Default)
  BY <1>1, <1>3 DEF Init, Touch, Overlay
<1>5. seen = [n \in 1..i |-> m[n - 1]]
  BY DEF Init
<1> QED
  BY <1>2, <1>4, <1>5 DEF Init, LoopInv

(* One turn reads index i of the map, and adds it if it is not there. *)
LEMMA LoopInvVisit == LoopInv /\ Visit => LoopInv'
<1> SUFFICES ASSUME LoopInv, Visit PROVE LoopInv'
  OBVIOUS
<1>1. /\ MapOver(start, MapKeys, Values)
      /\ i \in Nat
      /\ m = Touch(start, 0..(i - 1), Default)
      /\ seen = [n \in 1..i |-> m[n - 1]]
  BY DEF LoopInv
<1>2. /\ MoreToRead /\ ~done
      /\ seen' = Append(seen, Get(m, i, Default))
      /\ m' = Touch(m, {i}, Default)
      /\ i' = i + 1
      /\ start' = start /\ done' = done
  BY DEF Visit, AfterRead
<1>3. 0..(i' - 1) = 0..(i - 1) \cup {i}
  BY <1>1, <1>2
<1>4. m' = Touch(start, 0..(i' - 1), Default)
  BY <1>1, <1>2, <1>3 DEF Touch, Overlay
<1>5. m'[i] = Get(m, i, Default) /\ (\A k \in DOMAIN m : m'[k] = m[k])
  BY <1>2 DEF Touch, Overlay, Get
<1>6. \A n \in 1..i : m'[n - 1] = m[n - 1]
  <2>1. \A n \in 1..i : n - 1 \in DOMAIN m
    BY <1>1, WalkedMap
  <2> QED
    BY <2>1, <1>5
<1>7. seen' = [n \in 1..i' |-> m'[n - 1]]
  <2> DEFINE x == Get(m, i, Default)
             U == {m[n - 1] : n \in 1..i} \cup {x}
  <2>1. seen \in Seq(U) /\ Len(seen) = i
    <3>1. seen \in [1..i -> U] /\ i \in Nat
      BY <1>1
    <3> HIDE DEF U
    <3>2. seen \in Seq(U)
      BY <3>1, SeqDef
    <3>3. Len(seen) \in Nat /\ DOMAIN seen = 1..Len(seen)
      BY <3>2, LenProperties
    <3>4. DOMAIN seen = 1..i
      BY <3>1
    <3> QED
      BY <1>1, <3>2, <3>3, <3>4
  <2>2. x \in U
    OBVIOUS
  <2> HIDE DEF U, x
  <2>3. /\ seen' \in Seq(U) /\ Len(seen') = i + 1
        /\ \A n \in 1..i : seen'[n] = seen[n]
        /\ seen'[i + 1] = x
    BY <1>2, <2>1, <2>2, AppendProperties DEF x
  <2>4. seen' \in [1..(i + 1) -> U]
    BY <2>3, LenProperties
  <2>5. \A n \in 1..(i + 1) : seen'[n] = m'[n - 1]
    BY <1>1, <1>5, <1>6, <2>3 DEF x
  <2> QED
    BY <1>2, <2>4, <2>5
<1>8. \E k \in DOMAIN start : k >= i \/ k < 0
  BY <1>2, MoreIsAhead
<1>9. i' \in Nat /\ i' - 1 = i
  BY <1>1, <1>2
<1> QED
  BY <1>1, <1>2, <1>4, <1>7, <1>8, <1>9 DEF LoopInv

(* Leaving the loop changes nothing else, and nothing afterwards does. *)
LEMMA LoopInvLeave == LoopInv /\ (Leave \/ UNCHANGED loopVars) => LoopInv'
<1> SUFFICES ASSUME LoopInv, Leave \/ UNCHANGED loopVars PROVE LoopInv'
  OBVIOUS
<1>1. /\ start' = start /\ m' = m /\ i' = i /\ seen' = seen
      /\ done' \in BOOLEAN
  BY DEF LoopInv, Leave, loopVars
<1>2. done' => ~MoreToRead
  BY DEF LoopInv, Leave, loopVars
<1>3. MoreToRead' <=> MoreToRead
  BY <1>1 DEF MoreToRead
<1> QED
  BY <1>1, <1>2, <1>3 DEF LoopInv

(* What a walk has read, and why it goes on (GameState.cpp:47).            *)
THEOREM LoopInvariant == Spec => []LoopInv
<1>1. LoopInv /\ [Next]_loopVars => LoopInv'
  BY LoopInvVisit, LoopInvLeave DEF Next
<1> QED
  BY <1>1, LoopInvInit, PTL DEF Spec

-----------------------------------------------------------------------------

(* Whatever the map, a walk that is left has read the indices up to the    *)
(* largest key, without gaps, and has left the map that Fill returns.      *)
THEOREM WalkIsFill == Spec => []WalkFills
<1>1. LoopInv => WalkFills
  <2> SUFFICES ASSUME LoopInv, done PROVE WalkFills
    BY DEF WalkFills
  <2>1. /\ i \in Nat
        /\ m = Touch(start, 0..(i - 1), Default)
        /\ seen = [n \in 1..i |-> m[n - 1]]
        /\ i = 0 \/ (\E k \in DOMAIN start : k >= i - 1 \/ k < 0)
        /\ ~MoreToRead
    BY DEF LoopInv
  <2>2. DOMAIN start \subseteq Int
    BY WalkedMap
  <2>3. \A k \in DOMAIN start : 0 <= k /\ k < i
    BY <2>1, <2>2, MoreIsAhead
  <2>4. WalkEnds(start)
    BY <2>2, <2>3 DEF WalkEnds
  <2>5. \A k \in DOMAIN m : k < i
    BY <2>1, <2>3, WalkedMap
  <2>6. Walked(start) = 0..(i - 1)
    <3>1. CASE i = 0
      BY <2>2, <2>3, <3>1 DEF Walked
    <3>2. CASE i # 0
      <4>1. PICK k \in DOMAIN start : k >= i - 1 \/ k < 0
        BY <2>1, <3>2
      <4>2. k = i - 1
        BY <2>1, <2>2, <2>3, <4>1
      <4>3. 0..(i - 1) \subseteq Walked(start)
        BY <4>1, <4>2 DEF Walked
      <4>4. Walked(start) \subseteq 0..(i - 1)
        BY <2>1, <2>2, <2>3 DEF Walked
      <4> QED
        BY <4>3, <4>4
    <3> QED
      BY <3>1, <3>2
  <2>7. m = Fill(start, Default)
    BY <2>1, <2>6 DEF Fill
  <2> QED
    BY <2>1, <2>4, <2>5, <2>7 DEF WalkFills
<1> QED
  BY <1>1, LoopInvariant, PTL

(* Whatever the map, a negative key in it keeps the loop condition true at *)
(* every turn: the walk of getGameUpdate has no end after findId's -1.     *)
THEOREM NegativeKeyNeverLeft == Spec => []NegativeKeyKeepsAhead
<1>1. LoopInv => NegativeKeyKeepsAhead
  <2> SUFFICES ASSUME LoopInv, ~WalkEnds(start) PROVE MoreToRead
    BY DEF NegativeKeyKeepsAhead, MoreToRead
  <2>1. \E k \in DOMAIN start : k < 0
    BY WalkedMap DEF WalkEnds
  <2> QED
    BY <2>1, MoreIsAhead
<1> QED
  BY <1>1, LoopInvariant, PTL

=============================================================================
