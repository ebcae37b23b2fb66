-------------------------- MODULE LinkedListProofs --------------------------
(***************************************************************************)
(* Proofs about LinkedList, for any objects, any elements and any number   *)
(* of nodes: the heap holds just the nodes of the lists, in order, and the *)
(* lists do what Deques says.                                              *)
(*                                                                         *)
(* The lemmas speak of a heap h and of chains C: for every object the      *)
(* sequence of the addresses of its nodes.  The first ones need no state;  *)
(* each operation of the class then changes one chain in one of six ways.  *)
(***************************************************************************)
EXTENDS LinkedList, FiniteSetTheorems, SequenceTheorems, WellFoundedInduction, TLAPS

Addresses == Nat \ {NULL}

Node == [data : Data, next : Nat]

Heads == [head : Nat, tail : Nat, count : Nat]

(* The nodes of c, each of which refers to the next, and the last to none. *)
Linked(h, c) ==
  /\ c \in Seq(DOMAIN h)
  /\ \A k \in 1..Len(c) : h[c[k]].next = IF k = Len(c) THEN NULL ELSE c[k + 1]

(* Each node of h is in one chain, once. *)
Shape(h, C) ==
  /\ IsFiniteSet(DOMAIN h) /\ DOMAIN h \subseteq Addresses
  /\ h \in [DOMAIN h -> Node]
  /\ \A l \in DOMAIN C : Linked(h, C[l])
  /\ \A l, m \in DOMAIN C : \A j \in 1..Len(C[l]), k \in 1..Len(C[m]) :
       C[l][j] = C[m][k] => l = m /\ j = k
  /\ \A a \in DOMAIN h : \E l \in DOMAIN C : \E k \in 1..Len(C[l]) : C[l][k] = a

(* The elements of the nodes of c. *)
Contents(h, c) == [k \in 1..Len(c) |-> h[c[k]].data]

(* The chains of the lists ls, of which l has sizes[l] nodes. *)
ChainsOf(h, ls, sizes) == [l \in DOMAIN ls |-> Path(h, ls[l].head, sizes[l])]

(* The lists begin and end where their chains do. *)
Fits(h, ls, sizes, C) ==
  /\ C = [l \in DOMAIN ls |-> C[l]]
  /\ Shape(h, C)
  /\ \A l \in DOMAIN ls :
       /\ Len(C[l]) = sizes[l]
       /\ sizes[l] > 0 => ls[l].head = C[l][1] /\ ls[l].tail = C[l][sizes[l]]

-----------------------------------------------------------------------------
(* The invariant. *)

Freeing == {"free", "destroy", "assign"}

Copies == {"copy", "copy to", "iterate to"}

(* The nodes l has: some may be deleted while it still counts them. *)
Sizes ==
  [l \in Live |-> IF op.name \in Freeing /\ l = op.list THEN lists[l].count - op.i
                  ELSE lists[l].count]

Chains == ChainsOf(heap, lists, Sizes)

Names == {"none", "popBack"} \cup Freeing \cup Copies

Ops == [name : Names, list : Lists \cup {""}, source : Lists \cup {""},
        node : Nat, lastNode : Nat, i : Nat]

ListsType ==
  /\ Live \subseteq Lists /\ lists \in [Live -> Heads]
  /\ op \in Ops
  /\ op.name = "none" => op = NoCall
  /\ op.name # "none" => op.list \in Live
  /\ op.name \in Copies \cup {"assign"} => op.source \in Live \ {op.list}

(* An empty list has neither head nor tail. *)
EmptyInv == \A l \in Live : lists[l].count = 0 => lists[l] = Empty

FitsInv == Fits(heap, lists, Sizes, Chains)

(* The walk to the last node has come to one of the list's nodes. *)
WalkInv ==
  op.name = "popBack" =>
    /\ lists[op.list].count > 1
    /\ before = Contents(heap, Chains[op.list])
    /\ \E k \in 1..lists[op.list].count :
         /\ op.node = Chains[op.list][k]
         /\ k > 1 => op.lastNode = Chains[op.list][k - 1]

FreeInv == op.name \in Freeing => op.i <= lists[op.list].count

(* The elements before op.node have been copied. *)
CopyInv ==
  op.name \in Copies =>
    LET copied == Chains[op.list]
        from == Chains[op.source]
    IN  /\ Len(copied) <= Len(from)
        /\ \A k \in 1..Len(copied) : heap[copied[k]].data = heap[from[k]].data
        /\ op.node = IF Len(copied) = Len(from) THEN NULL ELSE from[Len(copied) + 1]

IInv == ListsType /\ EmptyInv /\ FitsInv /\ WalkInv /\ FreeInv /\ CopyInv

-----------------------------------------------------------------------------
(* Induction on the naturals, by sets, and paths. *)

LEMMA LeastNatural ==
  ASSUME NEW T, T \subseteq Nat, T # {}
  PROVE  \E x \in T : \A y \in T : x <= y
<1> DEFINE R == OpToRel(<, Nat)
<1>1. IsWellFoundedOn(R, Nat)
  BY NatLessThanWellFounded
<1>2. PICK x \in T : \A y \in T : ~ (<<y, x>> \in R)
  BY <1>1, WFMin
<1>3. \A y \in T : ~ (y < x)
  BY <1>2 DEF OpToRel
<1> QED
  BY <1>3

LEMMA Induction ==
  ASSUME NEW T, 0 \in T, \A n \in T : n \in Nat => n + 1 \in T
  PROVE  Nat \subseteq T
<1> SUFFICES ASSUME Nat \ T # {} PROVE FALSE
  OBVIOUS
<1>1. PICK x \in Nat \ T : \A y \in Nat \ T : x <= y
  BY LeastNatural
<1>2. x > 0 /\ x - 1 \in Nat
  BY <1>1
<1>3. x - 1 \in T
  BY <1>1, <1>2
<1> QED
  BY <1>1, <1>2, <1>3

(* A function that is what Path is defined to be. *)
Follows(c, h, a, n) == c = [k \in 1..n |-> IF k = 1 THEN a ELSE h[c[k - 1]].next]

LEMMA PathIs ==
  ASSUME NEW h, NEW a, NEW n \in Nat, NEW c, Follows(c, h, a, n)
  PROVE  Path(h, a, n) = c
<1>1. Path(h, a, n) = CHOOSE g : Follows(g, h, a, n)
  BY DEF Path, Follows
<1>2. PICK g : g = Path(h, a, n) /\ Follows(g, h, a, n)
  BY <1>1
<1>3. \A k \in 1..n : /\ g[k] = IF k = 1 THEN a ELSE h[g[k - 1]].next
                      /\ c[k] = IF k = 1 THEN a ELSE h[c[k - 1]].next
  BY <1>2 DEF Follows
<1>4. \A k \in 1..n : g[k] = c[k]
  <2> DEFINE T == {k \in Nat : k \in 1..n => g[k] = c[k]}
  <2>1. 0 \in T
    OBVIOUS
  <2>2. ASSUME NEW k \in T, k \in Nat
        PROVE  k + 1 \in T
    <3>1. SUFFICES ASSUME k + 1 \in 1..n
                   PROVE  g[k + 1] = c[k + 1]
      OBVIOUS
    <3>2. CASE k = 0
      BY <3>1, <3>2, <1>3
    <3>3. CASE k # 0
      <4>1. k \in 1..n /\ (k + 1) - 1 = k /\ k + 1 # 1
        BY <3>1, <3>3, <2>2
      <4>2. g[k] = c[k]
        BY <4>1
      <4> QED
        BY <3>1, <4>1, <4>2, <1>3
    <3> QED
      BY <3>2, <3>3
  <2>3. Nat \subseteq T
    <3> HIDE DEF T
    <3> QED
      BY <2>1, <2>2, Induction
  <2> QED
    BY <2>3
<1>5. g = [k \in 1..n |-> g[k]] /\ c = [k \in 1..n |-> c[k]]
  BY <1>2 DEF Follows
<1> QED
  BY <1>2, <1>4, <1>5

(* The nodes of a linked sequence are found from its first. *)
LEMMA PathOfLinked ==
  ASSUME NEW h, NEW c, Linked(h, c), NEW n, n = Len(c), NEW a,
         n > 0 => a = c[1]
  PROVE  Path(h, a, n) = c
<1>1. n \in Nat /\ DOMAIN c = 1..n /\ c = [k \in 1..n |-> c[k]]
  BY LenProperties DEF Linked
<1>2. \A k \in 1..n : c[k] = IF k = 1 THEN a ELSE h[c[k - 1]].next
  <2> TAKE k \in 1..n
  <2>1. CASE k = 1
    BY <2>1, <1>1
  <2>2. CASE k # 1
    <3>1. k - 1 \in 1..n /\ k - 1 # n /\ (k - 1) + 1 = k
      BY <2>2, <1>1
    <3> QED
      BY <3>1, <2>2 DEF Linked
  <2> QED
    BY <2>1, <2>2
<1>3. Follows(c, h, a, n)
  BY <1>1, <1>2 DEF Follows
<1> QED
  BY <1>1, <1>3, PathIs

(* The chains of lists that fit are unique. *)
LEMMA ChainsAreThose ==
  ASSUME NEW h, NEW ls, NEW sizes, NEW C, Fits(h, ls, sizes, C)
  PROVE  ChainsOf(h, ls, sizes) = C
<1>1. \A l \in DOMAIN ls : Path(h, ls[l].head, sizes[l]) = C[l]
  <2> TAKE l \in DOMAIN ls
  <2>1. Linked(h, C[l]) /\ sizes[l] = Len(C[l]) /\ (sizes[l] > 0 => ls[l].head = C[l][1])
    BY DEF Fits, Shape
  <2> QED
    BY <2>1, PathOfLinked
<1>2. C = [l \in DOMAIN ls |-> C[l]]
  BY DEF Fits
<1> QED
  BY <1>1, <1>2 DEF ChainsOf

-----------------------------------------------------------------------------
(* Heaps. *)

(* A new node has an address that is not NULL and not in use. *)
LEMMA NewAddress ==
  ASSUME NEW D, IsFiniteSet(D)
  PROVE  LET a == Min(1..(Cardinality(D) + 1) \ D) IN a \in Addresses \ D
<1> DEFINE n == Cardinality(D) + 1
           Unused == 1..n \ D
<1>1. n \in Nat /\ Cardinality(D) \in Nat
  BY FS_CardinalityType
<1>2. Unused # {}
  <2>1. SUFFICES ASSUME 1..n \subseteq D
                 PROVE  FALSE
    OBVIOUS
  <2>2. Cardinality(1..n) <= Cardinality(D)
    BY <2>1, FS_Subset
  <2>3. Cardinality(1..n) = n
    BY <1>1, FS_Interval
  <2> QED
    BY <1>1, <2>2, <2>3
<1>3. \E a \in Unused : \A b \in Unused : a <= b
  <2>1. Unused \subseteq Nat
    BY <1>1
  <2> QED
    BY <1>2, <2>1, LeastNatural
<1>4. Min(Unused) \in Unused
  BY <1>3 DEF Min
<1> QED
  BY <1>1, <1>4 DEF Addresses, NULL

In(a, c) == \E k \in 1..Len(c) : c[k] = a

(* In the heap g there is a chain c instead of the chain b of h, and the   *)
(* nodes that are not in b are as they were.                               *)
Replaces(h, b, g, c) ==
  /\ IsFiniteSet(DOMAIN g) /\ DOMAIN g \subseteq Addresses
  /\ g \in [DOMAIN g -> Node]
  /\ Linked(g, c)
  /\ \A j, k \in 1..Len(c) : c[j] = c[k] => j = k
  /\ \A a \in DOMAIN h : In(a, b) \/ (a \in DOMAIN g /\ g[a] = h[a])
  /\ \A a \in DOMAIN g : In(a, c) \/ (a \in DOMAIN h /\ ~In(a, b))
  /\ \A a \in DOMAIN h : In(a, c) => In(a, b)

LEMMA ReplaceChain ==
  ASSUME NEW h, NEW C, Shape(h, C), NEW l \in DOMAIN C, NEW g, NEW c,
         Replaces(h, C[l], g, c)
  PROVE  /\ Shape(g, With(C, l, c))
         /\ \A m \in DOMAIN C \ {l} : Contents(g, C[m]) = Contents(h, C[m])
<1> DEFINE E == With(C, l, c)
<1>1. /\ DOMAIN E = DOMAIN C /\ E[l] = c
      /\ \A m \in DOMAIN C \ {l} : E[m] = C[m]
  BY DEF With
<1>2. \A m \in DOMAIN C \ {l} : \A k \in 1..Len(C[m]) :
        /\ C[m][k] \in DOMAIN h /\ ~In(C[m][k], C[l])
        /\ C[m][k] \in DOMAIN g /\ g[C[m][k]] = h[C[m][k]]
  <2> SUFFICES ASSUME NEW m \in DOMAIN C \ {l}, NEW k \in 1..Len(C[m])
               PROVE  /\ C[m][k] \in DOMAIN h /\ ~In(C[m][k], C[l])
                      /\ C[m][k] \in DOMAIN g /\ g[C[m][k]] = h[C[m][k]]
    OBVIOUS
  <2>1. C[m][k] \in DOMAIN h
    BY ElementOfSeq DEF Shape, Linked
  <2>2. ~In(C[m][k], C[l])
    BY DEF Shape, In
  <2> QED
    BY <2>1, <2>2 DEF Replaces
<1>3. \A m \in DOMAIN C \ {l} : Linked(g, C[m]) /\ Contents(g, C[m]) = Contents(h, C[m])
  <2> TAKE m \in DOMAIN C \ {l}
  <2>1. Linked(h, C[m])
    BY DEF Shape
  <2>2. C[m] \in Seq(DOMAIN g)
    <3>1. Len(C[m]) \in Nat /\ C[m] \in [1..Len(C[m]) -> DOMAIN h]
      BY <2>1, LenProperties DEF Linked
    <3>2. C[m] \in [1..Len(C[m]) -> DOMAIN g]
      BY <3>1, <1>2
    <3> QED
      BY <3>1, <3>2, SeqDef
  <2>3. \A k \in 1..Len(C[m]) : g[C[m][k]] = h[C[m][k]]
    BY <1>2
  <2> QED
    BY <2>1, <2>2, <2>3 DEF Linked, Contents
<1>4. \A m \in DOMAIN E : Linked(g, E[m])
  BY <1>1, <1>3 DEF Replaces
<1>5. \A m, n \in DOMAIN E : \A j \in 1..Len(E[m]), k \in 1..Len(E[n]) :
        E[m][j] = E[n][k] => m = n /\ j = k
  <2> TAKE m \in DOMAIN E, n \in DOMAIN E
  <2>1. CASE m = l /\ n = l
    BY <2>1, <1>1 DEF Replaces
  <2>2. CASE m # l /\ n # l
    BY <2>2, <1>1 DEF Shape
  <2>3. ASSUME NEW x \in DOMAIN C \ {l}, NEW j \in 1..Len(c), NEW k \in 1..Len(C[x]),
               c[j] = C[x][k]
        PROVE  FALSE
    <3>1. In(C[x][k], c)
      BY <2>3 DEF In
    <3> QED
      BY <1>2, <3>1 DEF Replaces
  <2> QED
    BY <2>1, <2>2, <2>3, <1>1
<1>6. \A a \in DOMAIN g : \E m \in DOMAIN E : \E k \in 1..Len(E[m]) : E[m][k] = a
  <2> TAKE a \in DOMAIN g
  <2>1. CASE In(a, c)
    BY <2>1, <1>1 DEF In
  <2>2. CASE a \in DOMAIN h /\ ~In(a, C[l])
    <3>1. PICK m \in DOMAIN C : \E k \in 1..Len(C[m]) : C[m][k] = a
      BY <2>2 DEF Shape
    <3>2. m # l
      BY <2>2, <3>1 DEF In
    <3> QED
      BY <3>1, <3>2, <1>1
  <2> QED
    BY <2>1, <2>2 DEF Replaces
<1> QED
  BY <1>3, <1>4, <1>5, <1>6 DEF Shape, Replaces

(* An object is made, without nodes. *)
LEMMA AddList ==
  ASSUME NEW h, NEW C, Shape(h, C), NEW l, l \notin DOMAIN C
  PROVE  Shape(h, With(C, l, <<>>))
<1> DEFINE E == With(C, l, <<>>)
<1>1. DOMAIN E = DOMAIN C \cup {l} /\ E[l] = <<>> /\ \A m \in DOMAIN C : E[m] = C[m]
  BY DEF With
<1>2. Len(<<>>) = 0 /\ <<>> \in Seq(DOMAIN h)
  OBVIOUS
<1>3. \A m \in DOMAIN E : Linked(h, E[m])
  <2>1. Linked(h, <<>>)
    BY <1>2 DEF Linked
  <2>2. \A m \in DOMAIN C : Linked(h, C[m])
    BY DEF Shape
  <2> QED
    BY <1>1, <2>1, <2>2
<1>4. \A m, n \in DOMAIN E : \A j \in 1..Len(E[m]), k \in 1..Len(E[n]) :
        E[m][j] = E[n][k] => m = n /\ j = k
  BY <1>1, <1>2 DEF Shape
<1>5. \A a \in DOMAIN h : \E m \in DOMAIN E : \E k \in 1..Len(E[m]) : E[m][k] = a
  BY <1>1 DEF Shape
<1> QED
  BY <1>3, <1>4, <1>5 DEF Shape

(* An object without nodes is destroyed. *)
LEMMA DropList ==
  ASSUME NEW h, NEW C, Shape(h, C), NEW l \in DOMAIN C, Len(C[l]) = 0
  PROVE  Shape(h, Without(C, l))
<1> DEFINE E == Without(C, l)
<1>1. DOMAIN E = DOMAIN C \ {l} /\ \A m \in DOMAIN E : E[m] = C[m]
  BY DEF Without
<1>2. \A a \in DOMAIN h : \E m \in DOMAIN E : \E k \in 1..Len(E[m]) : E[m][k] = a
  <2> TAKE a \in DOMAIN h
  <2>1. PICK m \in DOMAIN C : \E k \in 1..Len(C[m]) : C[m][k] = a
    BY DEF Shape
  <2> QED
    BY <2>1, <1>1
<1> QED
  BY <1>1, <1>2 DEF Shape

(* What is known of one chain of a heap. *)
LEMMA OneChain ==
  ASSUME NEW h, NEW C, Shape(h, C), NEW l \in DOMAIN C
  PROVE  /\ Len(C[l]) \in Nat /\ C[l] \in Seq(DOMAIN h)
         /\ \A k \in 1..Len(C[l]) :
              /\ C[l][k] \in DOMAIN h /\ In(C[l][k], C[l])
              /\ h[C[l][k]] \in Node
              /\ h[C[l][k]].next = IF k = Len(C[l]) THEN NULL ELSE C[l][k + 1]
         /\ \A j, k \in 1..Len(C[l]) : C[l][j] = C[l][k] => j = k
<1>1. Linked(h, C[l]) /\ h \in [DOMAIN h -> Node]
  BY DEF Shape
<1>2. Len(C[l]) \in Nat /\ C[l] \in Seq(DOMAIN h)
  BY <1>1 DEF Linked
<1>3. \A k \in 1..Len(C[l]) : C[l][k] \in DOMAIN h /\ In(C[l][k], C[l])
  BY <1>2, ElementOfSeq DEF In
<1>4. \A j, k \in 1..Len(C[l]) : C[l][j] = C[l][k] => j = k
  BY DEF Shape
<1> QED
  BY <1>1, <1>2, <1>3, <1>4 DEF Linked

(* The heap h with the chains C becomes g with c for C[l], whose elements  *)
(* are s, and the other lists keep their elements.                         *)
Changes(h, C, l, g, c, s) ==
  /\ Shape(g, With(C, l, c))
  /\ \A m \in DOMAIN C \ {l} : Contents(g, C[m]) = Contents(h, C[m])
  /\ Contents(g, c) = s

First(c) == IF Len(c) = 0 THEN NULL ELSE c[1]

(* A node with the element d is put before the others. *)
LEMMA AddFront ==
  ASSUME NEW h, NEW C, Shape(h, C), NEW l \in DOMAIN C,
         NEW a \in Addresses \ DOMAIN h, NEW d \in Data
  PROVE  LET g == With(h, a, [data |-> d, next |-> First(C[l])])
             c == <<a>> \o C[l]
         IN  Changes(h, C, l, g, c, <<d>> \o Contents(h, C[l]))
<1> DEFINE n == Len(C[l])
           next == First(C[l])
           g == With(h, a, [data |-> d, next |-> next])
           c == <<a>> \o C[l]
<1> HIDE DEF n, next, g, c
<1>1. /\ n \in Nat /\ C[l] \in Seq(DOMAIN h)
      /\ \A k \in 1..n : /\ C[l][k] \in DOMAIN h
                         /\ h[C[l][k]].next = IF k = n THEN NULL ELSE C[l][k + 1]
      /\ \A j, k \in 1..n : C[l][j] = C[l][k] => j = k
  <2>1. n = Len(C[l])
    BY DEF n
  <2>2. Len(C[l]) \in Nat /\ C[l] \in Seq(DOMAIN h)
    BY OneChain
  <2>3. \A k \in 1..Len(C[l]) :
          /\ C[l][k] \in DOMAIN h
          /\ h[C[l][k]].next = IF k = Len(C[l]) THEN NULL ELSE C[l][k + 1]
    BY OneChain
  <2>4. \A j, k \in 1..Len(C[l]) : C[l][j] = C[l][k] => j = k
    BY OneChain
  <2> QED
    BY <2>1, <2>2, <2>3, <2>4
<1>2. IsFiniteSet(DOMAIN h) /\ DOMAIN h \subseteq Addresses /\ h \in [DOMAIN h -> Node]
  BY DEF Shape
<1>3. /\ DOMAIN g = DOMAIN h \cup {a}
      /\ g[a] = [data |-> d, next |-> next]
      /\ \A b \in DOMAIN h : g[b] = h[b]
  BY DEF With, g
<1>4. IsFiniteSet(DOMAIN g) /\ DOMAIN g \subseteq Addresses
  BY <1>2, <1>3, FS_AddElement
<1>5. next \in Nat /\ next = IF n = 0 THEN NULL ELSE C[l][1]
  BY <1>1, <1>2 DEF Addresses, NULL, next, n, First
<1>6. g \in [DOMAIN g -> Node]
  <2>1. g = [b \in DOMAIN g |-> g[b]]
    BY DEF With, g
  <2>2. \A b \in DOMAIN g : g[b] \in Node
    BY <1>2, <1>3, <1>5 DEF Node
  <2> QED
    BY <2>1, <2>2
<1>7. /\ c \in Seq(DOMAIN g) /\ Len(c) = n + 1 /\ c[1] = a
      /\ \A k \in 2..(n + 1) : c[k] = C[l][k - 1]
  <2>1. <<a>> \in Seq(DOMAIN g) /\ C[l] \in Seq(DOMAIN g) /\ Len(<<a>>) = 1 /\ <<a>>[1] = a
    BY <1>1, <1>3, SeqMonotonic
  <2>2. /\ c \in Seq(DOMAIN g) /\ Len(c) = 1 + n
        /\ \A i \in 1..(1 + n) : c[i] = IF i <= 1 THEN <<a>>[i] ELSE C[l][i - 1]
    BY <2>1, ConcatProperties DEF c, n
  <2> QED
    BY <2>1, <2>2, <1>1
<1>8. Linked(g, c)
  <2> SUFFICES ASSUME NEW k \in 1..(n + 1)
               PROVE  g[c[k]].next = IF k = n + 1 THEN NULL ELSE c[k + 1]
    BY <1>7 DEF Linked
  <2>1. CASE k = 1
    BY <2>1, <1>1, <1>3, <1>5, <1>7
  <2>2. CASE k # 1
    <3>1. /\ k - 1 \in 1..n /\ c[k] = C[l][k - 1] /\ g[c[k]] = h[c[k]]
          /\ k # n + 1 => k + 1 \in 2..(n + 1) /\ c[k + 1] = C[l][k]
      BY <2>2, <1>1, <1>3, <1>7
    <3>2. h[C[l][k - 1]].next = IF k - 1 = n THEN NULL ELSE C[l][(k - 1) + 1]
      BY <3>1, <1>1
    <3>3. (k - 1) + 1 = k /\ (k - 1 = n <=> k = n + 1)
      BY <1>1
    <3> QED
      BY <3>1, <3>2, <3>3
  <2> QED
    BY <2>1, <2>2
<1>9. \A j, k \in 1..Len(c) : c[j] = c[k] => j = k
  <2> SUFFICES ASSUME NEW j \in 1..(n + 1), NEW k \in 1..(n + 1), c[j] = c[k]
               PROVE  j = k
    BY <1>7
  <2>1. \A i \in 2..(n + 1) : i - 1 \in 1..n /\ c[i] \in DOMAIN h /\ c[i] # a
    BY <1>1, <1>7
  <2>2. CASE j = 1 \/ k = 1
    BY <2>1, <2>2, <1>1, <1>7
  <2>3. CASE j # 1 /\ k # 1
    <3>1. j - 1 \in 1..n /\ k - 1 \in 1..n /\ C[l][j - 1] = C[l][k - 1]
      BY <2>3, <1>1, <1>7
    <3>2. j - 1 = k - 1
      BY <3>1, <1>1
    <3> QED
      BY <3>2
  <2> QED
    BY <2>2, <2>3
<1>10. \A b : In(b, c) <=> b = a \/ In(b, C[l])
  <2> SUFFICES ASSUME NEW b
               PROVE  In(b, c) <=> b = a \/ In(b, C[l])
    OBVIOUS
  <2>1. In(b, c) => b = a \/ In(b, C[l])
    BY <1>1, <1>7 DEF In, n
  <2>2. In(a, c)
    BY <1>1, <1>7 DEF In
  <2>3. ASSUME NEW k \in 1..n, C[l][k] = b
        PROVE  In(b, c)
    <3>1. k + 1 \in 2..(n + 1) /\ (k + 1) - 1 = k /\ k + 1 \in 1..Len(c)
      BY <1>1, <1>7
    <3> QED
      BY <2>3, <3>1, <1>7 DEF In
  <2> QED
    BY <2>1, <2>2, <2>3 DEF In, n
<1>11. /\ Shape(g, With(C, l, c))
       /\ \A m \in DOMAIN C \ {l} : Contents(g, C[m]) = Contents(h, C[m])
  <2>1. \A b \in DOMAIN h : In(b, C[l]) \/ (b \in DOMAIN g /\ g[b] = h[b])
    BY <1>3
  <2>2. \A b \in DOMAIN g : In(b, c) \/ (b \in DOMAIN h /\ ~In(b, C[l]))
    BY <1>3, <1>10
  <2>3. \A b \in DOMAIN h : In(b, c) => In(b, C[l])
    BY <1>10
  <2>4. Replaces(h, C[l], g, c)
    BY <2>1, <2>2, <2>3, <1>4, <1>6, <1>8, <1>9 DEF Replaces
  <2> QED
    BY <2>4, ReplaceChain
<1>12. Contents(g, c) = <<d>> \o Contents(h, C[l])
  <2>1. \A k \in 1..n : h[C[l][k]].data \in Data
    BY <1>1, <1>2 DEF Node
  <2>2. Contents(h, C[l]) \in Seq(Data) /\ Len(Contents(h, C[l])) = n
    BY <1>1, <2>1 DEF Contents, n
  <2>3. <<d>> \in Seq(Data) /\ Len(<<d>>) = 1 /\ <<d>>[1] = d
    OBVIOUS
  <2>4. /\ <<d>> \o Contents(h, C[l]) \in Seq(Data)
        /\ Len(<<d>> \o Contents(h, C[l])) = n + 1
        /\ \A i \in 1..(n + 1) : (<<d>> \o Contents(h, C[l]))[i] =
             IF i <= 1 THEN <<d>>[i] ELSE Contents(h, C[l])[i - 1]
    BY <2>2, <2>3, <1>1, ConcatProperties
  <2>5. \A i \in 1..(n + 1) : g[c[i]].data = (<<d>> \o Contents(h, C[l]))[i]
    <3> TAKE i \in 1..(n + 1)
    <3>1. CASE i = 1
      BY <3>1, <2>3, <2>4, <1>1, <1>3, <1>7
    <3>2. CASE i # 1
      <4>1. i - 1 \in 1..n /\ c[i] = C[l][i - 1] /\ g[c[i]] = h[C[l][i - 1]]
        BY <3>2, <1>1, <1>3, <1>7
      <4>2. Contents(h, C[l])[i - 1] = h[C[l][i - 1]].data
        BY <4>1 DEF Contents, n
      <4> QED
        BY <4>1, <4>2, <3>2, <2>4
    <3> QED
      BY <3>1, <3>2
  <2>6. /\ Contents(g, c) \in Seq(Data) /\ Len(Contents(g, c)) = n + 1
        /\ \A i \in 1..(n + 1) : Contents(g, c)[i] = g[c[i]].data
    <3>1. \A i \in 1..(n + 1) : g[c[i]].data \in Data
      BY <1>6, <1>7, ElementOfSeq DEF Node
    <3> QED
      BY <3>1, <1>1, <1>7 DEF Contents
  <2> DEFINE s == Contents(g, c)
             t == <<d>> \o Contents(h, C[l])
  <2>7. s \in Seq(Data) /\ t \in Seq(Data) /\ Len(s) = Len(t) /\ \A i \in 1..Len(s) : s[i] = t[i]
    BY <2>4, <2>5, <2>6
  <2> HIDE DEF s, t
  <2>8. s = t
    BY <2>7, SeqEqual
  <2> QED
    BY <2>8 DEF s, t
<1> QED
  BY <1>11, <1>12 DEF g, c, next, Changes


(* The heap h with a as the node that follows the last of n nodes. *)
Behind(h, n, last, a) == IF n = 0 THEN h ELSE [h EXCEPT ![last].next = a]

(* A node with the element d is put behind the others. *)
LEMMA AddBack ==
  ASSUME NEW h, NEW C, Shape(h, C), NEW l \in DOMAIN C,
         NEW a \in Addresses \ DOMAIN h, NEW d \in Data
  PROVE  LET n == Len(C[l])
             g == With(Behind(h, n, C[l][n], a), a, [data |-> d, next |-> NULL])
             c == Append(C[l], a)
         IN  Changes(h, C, l, g, c, Append(Contents(h, C[l]), d))
<1> DEFINE n == Len(C[l])
           linked == Behind(h, n, C[l][n], a)
           g == With(linked, a, [data |-> d, next |-> NULL])
           c == Append(C[l], a)
<1> HIDE DEF n, linked, g, c
<1>1. /\ n \in Nat /\ C[l] \in Seq(DOMAIN h)
      /\ \A k \in 1..n : /\ C[l][k] \in DOMAIN h /\ In(C[l][k], C[l])
                         /\ h[C[l][k]].next = IF k = n THEN NULL ELSE C[l][k + 1]
      /\ \A j, k \in 1..n : C[l][j] = C[l][k] => j = k
  BY OneChain DEF n
<1>2. IsFiniteSet(DOMAIN h) /\ DOMAIN h \subseteq Addresses /\ h \in [DOMAIN h -> Node]
  BY DEF Shape
<1>3. /\ DOMAIN linked = DOMAIN h
      /\ \A b \in DOMAIN h :
           linked[b] = IF n # 0 /\ b = C[l][n] THEN [data |-> h[b].data, next |-> a] ELSE h[b]
  BY <1>1, <1>2 DEF Node, linked, Behind, n
<1>4. /\ DOMAIN g = DOMAIN h \cup {a}
      /\ g[a] = [data |-> d, next |-> NULL]
      /\ \A b \in DOMAIN h : g[b] = linked[b]
  BY <1>3 DEF With, g
<1>5. IsFiniteSet(DOMAIN g) /\ DOMAIN g \subseteq Addresses
  BY <1>2, <1>4, FS_AddElement
<1>6. g \in [DOMAIN g -> Node]
  <2>1. g = [b \in DOMAIN g |-> g[b]]
    BY DEF With, g
  <2>2. \A b \in DOMAIN h : linked[b] \in Node
    BY <1>2, <1>3 DEF Node, Addresses
  <2>3. g[a] \in Node
    BY <1>4 DEF Node, NULL
  <2> QED
    BY <1>4, <2>1, <2>2, <2>3
<1>7. /\ c \in Seq(DOMAIN g) /\ Len(c) = n + 1 /\ c[n + 1] = a
      /\ \A k \in 1..n : c[k] = C[l][k]
  <2>1. C[l] \in Seq(DOMAIN g) /\ a \in DOMAIN g
    BY <1>1, <1>4, SeqMonotonic
  <2> QED
    BY <2>1, AppendProperties DEF c, n
<1>8. Linked(g, c)
  <2> SUFFICES ASSUME NEW k \in 1..(n + 1)
               PROVE  g[c[k]].next = IF k = n + 1 THEN NULL ELSE c[k + 1]
    BY <1>7 DEF Linked
  <2>1. CASE k = n + 1
    BY <2>1, <1>4, <1>7
  <2>2. CASE k # n + 1
    <3>1. k \in 1..n /\ c[k] = C[l][k] /\ g[c[k]] = linked[C[l][k]] /\ n # 0
      BY <2>2, <1>1, <1>4, <1>7
    <3>2. CASE k = n
      BY <3>1, <3>2, <1>1, <1>3, <1>7
    <3>3. CASE k # n
      <4>1. C[l][k] # C[l][n] /\ k + 1 \in 1..n
        BY <3>1, <3>3, <1>1
      <4>2. g[c[k]].next = C[l][k + 1]
        BY <3>1, <3>3, <4>1, <1>1, <1>3
      <4> QED
        BY <2>2, <4>1, <4>2, <1>7
    <3> QED
      BY <3>2, <3>3
  <2> QED
    BY <2>1, <2>2
<1>9. \A j, k \in 1..Len(c) : c[j] = c[k] => j = k
  <2> SUFFICES ASSUME NEW j \in 1..(n + 1), NEW k \in 1..(n + 1), c[j] = c[k]
               PROVE  j = k
    BY <1>7
  <2>1. \A i \in 1..n : c[i] \in DOMAIN h /\ c[i] # a
    BY <1>1, <1>7
  <2>2. CASE j = n + 1 \/ k = n + 1
    BY <2>1, <2>2, <1>1, <1>7
  <2>3. CASE j # n + 1 /\ k # n + 1
    <3>1. j \in 1..n /\ k \in 1..n /\ C[l][j] = C[l][k]
      BY <2>3, <1>1, <1>7
    <3> QED
      BY <3>1, <1>1
  <2> QED
    BY <2>2, <2>3
<1>10. \A b : In(b, c) <=> b = a \/ In(b, C[l])
  <2> SUFFICES ASSUME NEW b
               PROVE  In(b, c) <=> b = a \/ In(b, C[l])
    OBVIOUS
  <2>1. In(b, c) => b = a \/ In(b, C[l])
    BY <1>1, <1>7 DEF In
  <2>2. In(a, c)
    BY <1>1, <1>7 DEF In
  <2>3. ASSUME NEW k \in 1..n, C[l][k] = b
        PROVE  In(b, c)
    <3>1. k \in 1..Len(c) /\ c[k] = b
      BY <2>3, <1>1, <1>7
    <3> QED
      BY <3>1 DEF In
  <2> QED
    BY <2>1, <2>2, <2>3 DEF In, n
<1>11. /\ Shape(g, With(C, l, c))
       /\ \A m \in DOMAIN C \ {l} : Contents(g, C[m]) = Contents(h, C[m])
  <2>1. \A b \in DOMAIN h : In(b, C[l]) \/ (b \in DOMAIN g /\ g[b] = h[b])
    <3> SUFFICES ASSUME NEW b \in DOMAIN h, ~In(b, C[l])
                 PROVE  b \in DOMAIN g /\ g[b] = h[b]
      OBVIOUS
    <3>1. ~(n # 0 /\ b = C[l][n])
      BY <1>1
    <3> QED
      BY <3>1, <1>3, <1>4
  <2>2. \A b \in DOMAIN g : In(b, c) \/ (b \in DOMAIN h /\ ~In(b, C[l]))
    BY <1>4, <1>10
  <2>3. \A b \in DOMAIN h : In(b, c) => In(b, C[l])
    BY <1>10
  <2>4. Replaces(h, C[l], g, c)
    BY <2>1, <2>2, <2>3, <1>5, <1>6, <1>8, <1>9 DEF Replaces
  <2> QED
    BY <2>4, ReplaceChain
<1>12. Contents(g, c) = Append(Contents(h, C[l]), d)
  <2>1. \A k \in 1..n : h[C[l][k]].data \in Data
    BY <1>1, <1>2 DEF Node
  <2>2. /\ Contents(h, C[l]) \in Seq(Data) /\ Len(Contents(h, C[l])) = n
        /\ \A k \in 1..n : Contents(h, C[l])[k] = h[C[l][k]].data
    BY <1>1, <2>1 DEF Contents, n
  <2> DEFINE s == Contents(g, c)
             t == Append(Contents(h, C[l]), d)
  <2> HIDE DEF s, t
  <2>3. /\ t \in Seq(Data) /\ Len(t) = n + 1 /\ t[n + 1] = d
        /\ \A i \in 1..n : t[i] = h[C[l][i]].data
    BY <2>2, AppendProperties DEF t
  <2>4. /\ s \in Seq(Data) /\ Len(s) = n + 1
        /\ \A i \in 1..(n + 1) : s[i] = g[c[i]].data
    <3>1. \A i \in 1..(n + 1) : g[c[i]].data \in Data
      BY <1>6, <1>7, ElementOfSeq DEF Node
    <3> QED
      BY <3>1, <1>1, <1>7 DEF Contents, s
  <2>5. \A i \in 1..n : g[c[i]].data = h[C[l][i]].data
    BY <1>1, <1>3, <1>4, <1>7
  <2>6. g[c[n + 1]].data = d
    BY <1>4, <1>7
  <2>7. \A i \in 1..Len(s) : s[i] = t[i]
    BY <2>3, <2>4, <2>5, <2>6, <1>1
  <2>8. s = t
    BY <2>3, <2>4, <2>7, SeqEqual
  <2> QED
    BY <2>8 DEF s, t
<1> QED
  BY <1>11, <1>12 DEF n, g, c, linked, Changes

(* The first node is deleted. *)
LEMMA DropFront ==
  ASSUME NEW h, NEW C, Shape(h, C), NEW l \in DOMAIN C, Len(C[l]) > 0
  PROVE  LET g == Without(h, C[l][1])
             c == Tail(C[l])
         IN  /\ Changes(h, C, l, g, c, Tail(Contents(h, C[l])))
             /\ Len(c) = Len(C[l]) - 1
             /\ \A k \in 1..Len(c) : c[k] = C[l][k + 1]
<1> DEFINE n == Len(C[l])
           g == Without(h, C[l][1])
           c == Tail(C[l])
<1> HIDE DEF n, g, c
<1>1. /\ n \in Nat /\ n > 0 /\ C[l] \in Seq(DOMAIN h)
      /\ \A k \in 1..n : /\ C[l][k] \in DOMAIN h /\ In(C[l][k], C[l])
                         /\ h[C[l][k]].next = IF k = n THEN NULL ELSE C[l][k + 1]
      /\ \A j, k \in 1..n : C[l][j] = C[l][k] => j = k
  BY OneChain DEF n
<1>2. IsFiniteSet(DOMAIN h) /\ DOMAIN h \subseteq Addresses /\ h \in [DOMAIN h -> Node]
  BY DEF Shape
<1>3. DOMAIN g = DOMAIN h \ {C[l][1]} /\ \A b \in DOMAIN g : g[b] = h[b]
  BY DEF Without, g
<1>4. /\ IsFiniteSet(DOMAIN g) /\ DOMAIN g \subseteq Addresses
      /\ g \in [DOMAIN g -> Node]
  <2>1. IsFiniteSet(DOMAIN g)
    BY <1>2, <1>3, FS_Subset
  <2>2. g = [b \in DOMAIN g |-> g[b]]
    BY DEF Without, g
  <2> QED
    BY <2>1, <2>2, <1>2, <1>3
<1>5. /\ Len(c) = n - 1 /\ c \in Seq(DOMAIN h)
      /\ \A k \in 1..(n - 1) : c[k] = C[l][k + 1]
  <2>1. C[l] # <<>>
    BY <1>1 DEF n
  <2> QED
    BY <2>1, <1>1, HeadTailProperties DEF c, n
<1>6. \A k \in 1..(n - 1) :
        /\ k + 1 \in 1..n /\ c[k] \in DOMAIN g /\ In(c[k], C[l])
        /\ g[c[k]] = h[C[l][k + 1]]
  <2> SUFFICES ASSUME NEW k \in 1..(n - 1)
               PROVE  /\ k + 1 \in 1..n /\ c[k] \in DOMAIN g /\ In(c[k], C[l])
                      /\ g[c[k]] = h[C[l][k + 1]]
    OBVIOUS
  <2>1. k + 1 \in 1..n /\ 1 \in 1..n /\ k + 1 # 1
    BY <1>1
  <2>2. C[l][k + 1] # C[l][1]
    BY <2>1, <1>1
  <2> QED
    BY <2>1, <2>2, <1>1, <1>3, <1>5
<1>7. Linked(g, c)
  <2>1. c \in Seq(DOMAIN g)
    <3>1. c \in [1..(n - 1) -> DOMAIN g]
      BY <1>5, <1>6, LenProperties
    <3> QED
      BY <3>1, <1>1, SeqDef
  <2>2. ASSUME NEW k \in 1..(n - 1)
        PROVE  g[c[k]].next = IF k = n - 1 THEN NULL ELSE c[k + 1]
    <3>1. h[C[l][k + 1]].next = IF k + 1 = n THEN NULL ELSE C[l][(k + 1) + 1]
      BY <1>1, <1>6
    <3>2. k # n - 1 => k + 1 \in 1..(n - 1)
      BY <1>1
    <3> QED
      BY <3>1, <3>2, <1>1, <1>5, <1>6
  <2> QED
    BY <2>1, <2>2, <1>5 DEF Linked
<1>8. \A j, k \in 1..Len(c) : c[j] = c[k] => j = k
  <2> SUFFICES ASSUME NEW j \in 1..(n - 1), NEW k \in 1..(n - 1), c[j] = c[k]
               PROVE  j = k
    BY <1>5
  <2>1. j + 1 = k + 1
    BY <1>1, <1>5, <1>6
  <2> QED
    BY <2>1
<1>9. \A b \in DOMAIN h : In(b, C[l]) <=> b = C[l][1] \/ In(b, c)
  <2> SUFFICES ASSUME NEW b \in DOMAIN h
               PROVE  In(b, C[l]) <=> b = C[l][1] \/ In(b, c)
    OBVIOUS
  <2>1. In(b, c) => In(b, C[l])
    BY <1>5, <1>6 DEF In
  <2>2. In(C[l][1], C[l])
    BY <1>1
  <2>3. ASSUME NEW k \in 1..n, C[l][k] = b, k # 1
        PROVE  In(b, c)
    <3>1. k - 1 \in 1..(n - 1) /\ (k - 1) + 1 = k
      BY <2>3, <1>1
    <3> QED
      BY <3>1, <2>3, <1>5 DEF In
  <2> QED
    BY <2>1, <2>2, <2>3 DEF In, n
<1>10. ~In(C[l][1], c)
  BY <1>3, <1>5, <1>6 DEF In
<1>11. /\ Shape(g, With(C, l, c))
       /\ \A m \in DOMAIN C \ {l} : Contents(g, C[m]) = Contents(h, C[m])
  <2>1. \A b \in DOMAIN h : In(b, C[l]) \/ (b \in DOMAIN g /\ g[b] = h[b])
    BY <1>3, <1>9
  <2>2. \A b \in DOMAIN g : In(b, c) \/ (b \in DOMAIN h /\ ~In(b, C[l]))
    BY <1>3, <1>9
  <2>3. \A b \in DOMAIN h : In(b, c) => In(b, C[l])
    BY <1>9
  <2>4. Replaces(h, C[l], g, c)
    BY <2>1, <2>2, <2>3, <1>4, <1>7, <1>8 DEF Replaces
  <2> QED
    BY <2>4, ReplaceChain
<1>12. Contents(g, c) = Tail(Contents(h, C[l]))
  <2>1. \A k \in 1..n : h[C[l][k]].data \in Data
    BY <1>1, <1>2 DEF Node
  <2>2. /\ Contents(h, C[l]) \in Seq(Data) /\ Len(Contents(h, C[l])) = n
        /\ Contents(h, C[l]) # <<>>
        /\ \A k \in 1..n : Contents(h, C[l])[k] = h[C[l][k]].data
    BY <1>1, <2>1 DEF Contents, n
  <2> DEFINE s == Contents(g, c)
             t == Tail(Contents(h, C[l]))
  <2> HIDE DEF s, t
  <2>3. /\ t \in Seq(Data) /\ Len(t) = n - 1
        /\ \A i \in 1..(n - 1) : t[i] = h[C[l][i + 1]].data
    <3>1. /\ t \in Seq(Data) /\ Len(t) = n - 1
          /\ \A i \in 1..(n - 1) : t[i] = Contents(h, C[l])[i + 1]
      BY <2>2, HeadTailProperties DEF t
    <3> QED
      BY <3>1, <2>2, <1>6
  <2>4. /\ s \in Seq(Data) /\ Len(s) = n - 1
        /\ \A i \in 1..(n - 1) : s[i] = h[C[l][i + 1]].data
    <3>1. \A i \in 1..(n - 1) : g[c[i]].data = h[C[l][i + 1]].data /\ g[c[i]].data \in Data
      BY <1>6, <2>1
    <3> QED
      BY <3>1, <1>1, <1>5 DEF Contents, s
  <2>5. s = t
    BY <2>3, <2>4, SeqEqual
  <2> QED
    BY <2>5 DEF s, t
<1> QED
  BY <1>5, <1>6, <1>11, <1>12 DEF g, c, n, Changes

(* The heap h where the node a is the last. *)
Cut(h, a) == [h EXCEPT ![a].next = NULL]

(* The last of several nodes is deleted. *)
LEMMA DropBack ==
  ASSUME NEW h, NEW C, Shape(h, C), NEW l \in DOMAIN C, Len(C[l]) > 1
  PROVE  LET n == Len(C[l])
             g == Without(Cut(h, C[l][n - 1]), C[l][n])
             c == SubSeq(C[l], 1, n - 1)
         IN  /\ Changes(h, C, l, g, c, SubSeq(Contents(h, C[l]), 1, n - 1))
             /\ Len(c) = n - 1 /\ \A k \in 1..(n - 1) : c[k] = C[l][k]
<1> DEFINE n == Len(C[l])
           cut == Cut(h, C[l][n - 1])
           g == Without(cut, C[l][n])
           c == SubSeq(C[l], 1, n - 1)
<1> HIDE DEF n, cut, g, c
<1>1. /\ n \in Nat /\ n > 1 /\ C[l] \in Seq(DOMAIN h)
      /\ n \in 1..n /\ n - 1 \in 1..n /\ n - 1 # n
      /\ \A k \in 1..n : /\ C[l][k] \in DOMAIN h /\ In(C[l][k], C[l])
                         /\ h[C[l][k]].next = IF k = n THEN NULL ELSE C[l][k + 1]
      /\ \A j, k \in 1..n : C[l][j] = C[l][k] => j = k
  BY OneChain DEF n
<1>2. IsFiniteSet(DOMAIN h) /\ DOMAIN h \subseteq Addresses /\ h \in [DOMAIN h -> Node]
  BY DEF Shape
<1>3. /\ DOMAIN cut = DOMAIN h
      /\ \A b \in DOMAIN h :
           cut[b] = IF b = C[l][n - 1] THEN [data |-> h[b].data, next |-> NULL] ELSE h[b]
  BY <1>1, <1>2 DEF Node, cut, Cut
<1>4. DOMAIN g = DOMAIN h \ {C[l][n]} /\ \A b \in DOMAIN g : g[b] = cut[b]
  BY <1>3 DEF Without, g
<1>5. /\ IsFiniteSet(DOMAIN g) /\ DOMAIN g \subseteq Addresses
      /\ g \in [DOMAIN g -> Node]
  <2>1. IsFiniteSet(DOMAIN g)
    BY <1>2, <1>4, FS_Subset
  <2>2. g = [b \in DOMAIN g |-> g[b]]
    BY DEF Without, g
  <2>3. \A b \in DOMAIN h : cut[b] \in Node
    BY <1>2, <1>3 DEF Node, NULL
  <2> QED
    BY <2>1, <2>2, <2>3, <1>2, <1>4
<1>6. /\ Len(c) = n - 1 /\ c \in Seq(DOMAIN h)
      /\ \A k \in 1..(n - 1) : c[k] = C[l][k]
  <2>1. \A k \in 1..(n - 1) : C[l][k] \in DOMAIN h
    BY <1>1
  <2>2. /\ c \in Seq(DOMAIN h)
        /\ Len(c) = IF 1 <= n - 1 THEN (n - 1) - 1 + 1 ELSE 0
        /\ \A k \in 1..((n - 1) - 1 + 1) : c[k] = C[l][1 + k - 1]
    BY <2>1, <1>1, SubSeqProperties DEF c
  <2>3. (n - 1) - 1 + 1 = n - 1 /\ 1 <= n - 1 /\ \A k \in 1..(n - 1) : 1 + k - 1 = k
    BY <1>1
  <2> QED
    BY <2>2, <2>3
<1>7. \A k \in 1..(n - 1) :
        /\ k \in 1..n /\ c[k] \in DOMAIN g /\ In(c[k], C[l])
        /\ g[c[k]] = cut[C[l][k]] /\ g[c[k]].data = h[C[l][k]].data
  <2> SUFFICES ASSUME NEW k \in 1..(n - 1)
               PROVE  /\ k \in 1..n /\ c[k] \in DOMAIN g /\ In(c[k], C[l])
                      /\ g[c[k]] = cut[C[l][k]] /\ g[c[k]].data = h[C[l][k]].data
    OBVIOUS
  <2>1. k \in 1..n /\ k # n
    BY <1>1
  <2>2. C[l][k] # C[l][n]
    BY <2>1, <1>1
  <2> QED
    BY <2>1, <2>2, <1>1, <1>3, <1>4, <1>6
<1>8. Linked(g, c)
  <2>1. c \in Seq(DOMAIN g)
    <3>1. c \in [1..(n - 1) -> DOMAIN g]
      BY <1>6, <1>7, LenProperties
    <3> QED
      BY <3>1, <1>1, SeqDef
  <2>2. ASSUME NEW k \in 1..(n - 1)
        PROVE  g[c[k]].next = IF k = n - 1 THEN NULL ELSE c[k + 1]
    <3>1. CASE k = n - 1
      BY <3>1, <1>1, <1>3, <1>7
    <3>2. CASE k # n - 1
      <4>1. k \in 1..n /\ k # n /\ k + 1 \in 1..(n - 1)
        BY <3>2, <1>1
      <4>2. C[l][k] # C[l][n - 1]
        BY <4>1, <3>2, <1>1
      <4>3. g[c[k]] = h[C[l][k]]
        BY <4>1, <4>2, <1>1, <1>3, <1>7
      <4>4. h[C[l][k]].next = C[l][k + 1]
        BY <4>1, <1>1
      <4> QED
        BY <3>2, <4>1, <4>3, <4>4, <1>6
    <3> QED
      BY <3>1, <3>2
  <2> QED
    BY <2>1, <2>2, <1>6 DEF Linked
<1>9. \A j, k \in 1..Len(c) : c[j] = c[k] => j = k
  BY <1>1, <1>6, <1>7
<1>10. \A b \in DOMAIN h : In(b, C[l]) <=> b = C[l][n] \/ In(b, c)
  <2> SUFFICES ASSUME NEW b \in DOMAIN h
               PROVE  In(b, C[l]) <=> b = C[l][n] \/ In(b, c)
    OBVIOUS
  <2>1. In(b, c) => In(b, C[l])
    BY <1>6, <1>7 DEF In
  <2>2. In(C[l][n], C[l])
    BY <1>1
  <2>3. ASSUME NEW k \in 1..n, C[l][k] = b, k # n
        PROVE  In(b, c)
    <3>1. k \in 1..(n - 1)
      BY <2>3, <1>1
    <3> QED
      BY <3>1, <2>3, <1>6 DEF In
  <2> QED
    BY <2>1, <2>2, <2>3 DEF In, n
<1>11. ~In(C[l][n], c)
  BY <1>4, <1>6, <1>7 DEF In
<1>12. /\ Shape(g, With(C, l, c))
       /\ \A m \in DOMAIN C \ {l} : Contents(g, C[m]) = Contents(h, C[m])
  <2>1. \A b \in DOMAIN h : In(b, C[l]) \/ (b \in DOMAIN g /\ g[b] = h[b])
    BY <1>1, <1>3, <1>4
  <2>2. \A b \in DOMAIN g : In(b, c) \/ (b \in DOMAIN h /\ ~In(b, C[l]))
    BY <1>4, <1>10
  <2>3. \A b \in DOMAIN h : In(b, c) => In(b, C[l])
    BY <1>10
  <2>4. Replaces(h, C[l], g, c)
    BY <2>1, <2>2, <2>3, <1>5, <1>8, <1>9 DEF Replaces
  <2> QED
    BY <2>4, ReplaceChain
<1>13. Contents(g, c) = SubSeq(Contents(h, C[l]), 1, n - 1)
  <2>1. \A k \in 1..n : h[C[l][k]].data \in Data
    BY <1>1, <1>2 DEF Node
  <2>2. \A k \in 1..n : Contents(h, C[l])[k] = h[C[l][k]].data
    BY <1>1, <2>1 DEF Contents, n
  <2> DEFINE s == Contents(g, c)
             t == SubSeq(Contents(h, C[l]), 1, n - 1)
  <2> HIDE DEF s, t
  <2>3. /\ t \in Seq(Data) /\ Len(t) = n - 1
        /\ \A k \in 1..(n - 1) : t[k] = h[C[l][k]].data
    <3>1. \A k \in 1..(n - 1) : Contents(h, C[l])[k] \in Data
      BY <2>1, <2>2, <1>7
    <3>2. /\ t \in Seq(Data)
          /\ Len(t) = IF 1 <= n - 1 THEN (n - 1) - 1 + 1 ELSE 0
          /\ \A k \in 1..((n - 1) - 1 + 1) : t[k] = Contents(h, C[l])[1 + k - 1]
      BY <3>1, <1>1, SubSeqProperties DEF t
    <3>3. (n - 1) - 1 + 1 = n - 1 /\ 1 <= n - 1 /\ \A k \in 1..(n - 1) : 1 + k - 1 = k
      BY <1>1
    <3>4. ASSUME NEW k \in 1..(n - 1)
          PROVE  t[k] = h[C[l][k]].data
      <4>1. k \in 1..((n - 1) - 1 + 1) /\ 1 + k - 1 = k
        BY <3>3
      <4>2. k \in 1..n
        BY <1>1
      <4>3. t[k] = Contents(h, C[l])[1 + k - 1]
        BY <3>2, <4>1
      <4> QED
        BY <4>1, <4>2, <4>3, <2>2
    <3>5. Len(t) = n - 1
      BY <3>2, <3>3
    <3> QED
      BY <3>2, <3>4, <3>5
  <2>4. /\ s \in Seq(Data) /\ Len(s) = n - 1
        /\ \A k \in 1..(n - 1) : s[k] = h[C[l][k]].data
    <3>1. \A k \in 1..(n - 1) : g[c[k]].data = h[C[l][k]].data /\ g[c[k]].data \in Data
      BY <1>7, <2>1
    <3>2. s = [k \in 1..(n - 1) |-> g[c[k]].data] /\ n - 1 \in Nat
      BY <1>1, <1>6 DEF Contents, s
    <3>3. s \in [1..(n - 1) -> Data]
      BY <3>1, <3>2
    <3>4. s \in Seq(Data) /\ Len(s) = n - 1
      BY <3>2, <3>3
    <3> QED
      BY <3>1, <3>2, <3>4
  <2>5. s = t
    BY <2>3, <2>4, SeqEqual
  <2> QED
    BY <2>5 DEF s, t
<1> QED
  BY <1>6, <1>12, <1>13 DEF g, c, cut, n, Changes


-----------------------------------------------------------------------------
(* The invariant, whatever the step. *)

(* The elements of l in its order. *)
Content(l) == Contents(heap, Chains[l])

LEMMA SizesAre ==
  ASSUME NEW l \in Live
  PROVE  Sizes[l] = IF op.name \in Freeing /\ l = op.list THEN lists[l].count - op.i
                    ELSE lists[l].count
BY DEF Sizes

(* What is known of one list. *)
LEMMA OneList ==
  ASSUME ListsType, FitsInv, NEW l \in Live
  PROVE  /\ l \in Lists /\ lists[l] \in Heads /\ DOMAIN Chains = Live
         /\ Shape(heap, Chains) /\ Len(Chains[l]) = Sizes[l]
         /\ Sizes[l] > 0 => lists[l].head = Chains[l][1] /\ lists[l].tail = Chains[l][Sizes[l]]
         /\ op.name \notin Freeing => Sizes[l] = lists[l].count
BY SizesAre DEF ListsType, FitsInv, Fits, Live

(* Chains that fit after a step are the chains after it. *)
LEMMA StepFits ==
  ASSUME NEW C, Fits(heap', lists', Sizes', C)
  PROVE  FitsInv' /\ Chains' = C
<1>1. ChainsOf(heap', lists', Sizes') = C
  BY ChainsAreThose
<1> QED
  BY <1>1 DEF FitsInv, Chains

(* An update of a function at one place. *)
LEMMA ExceptIsWith ==
  ASSUME NEW f, NEW D, NEW S, f \in [D -> S], NEW k \in D, NEW v
  PROVE  [f EXCEPT ![k] = v] = With(f, k, v)
BY DEF With

(* A step that gives one list another chain and another head. *)
LEMMA UpdateFits ==
  ASSUME ListsType, FitsInv, NEW l \in Live, NEW r,
         lists' = With(lists, l, r),
         NEW c, Shape(heap', With(Chains, l, c)),
         Sizes'[l] = Len(c),
         \A m \in Live \ {l} : Sizes'[m] = Sizes[m],
         Len(c) > 0 => r.head = c[1] /\ r.tail = c[Len(c)]
  PROVE  /\ FitsInv' /\ Chains' = With(Chains, l, c)
         /\ Chains'[l] = c /\ \A m \in Live \ {l} : Chains'[m] = Chains[m]
<1> DEFINE D == With(Chains, l, c)
<1>1. DOMAIN Chains = Live
  BY OneList
<1>2. /\ D = [m \in Live |-> D[m]] /\ D[l] = c
      /\ \A m \in Live \ {l} : D[m] = Chains[m]
  BY <1>1 DEF With
<1>3. /\ DOMAIN lists' = Live /\ lists'[l] = r
      /\ \A m \in Live \ {l} : lists'[m] = lists[m]
  BY DEF Live, ListsType, With
<1> HIDE DEF D
<1>4. \A m \in DOMAIN lists' :
        /\ Len(D[m]) = Sizes'[m]
        /\ Sizes'[m] > 0 => lists'[m].head = D[m][1] /\ lists'[m].tail = D[m][Sizes'[m]]
  <2> SUFFICES ASSUME NEW m \in Live
               PROVE  /\ Len(D[m]) = Sizes'[m]
                      /\ Sizes'[m] > 0 => /\ lists'[m].head = D[m][1]
                                          /\ lists'[m].tail = D[m][Sizes'[m]]
    BY <1>3
  <2>1. CASE m = l
    BY <2>1, <1>2, <1>3
  <2>2. CASE m # l
    BY <2>2, <1>2, <1>3, OneList
  <2> QED
    BY <2>1, <2>2
<1>5. Fits(heap', lists', Sizes', D)
  BY <1>2, <1>3, <1>4 DEF Fits, D
<1>6. FitsInv' /\ Chains' = D
  BY <1>5, StepFits
<1>7. Chains'[l] = c /\ \A m \in Live \ {l} : Chains'[m] = Chains[m]
  BY <1>2, <1>6
<1> QED
  BY <1>6, <1>7 DEF D

(* A step that leaves the lists and their sizes alone. *)
LEMMA SameFits ==
  ASSUME FitsInv, heap' = heap, lists' = lists, Sizes' = Sizes
  PROVE  FitsInv' /\ Chains' = Chains
BY StepFits DEF FitsInv

(* A state between two calls. *)
LEMMA BetweenCalls ==
  ASSUME op' = NoCall
  PROVE  WalkInv' /\ FreeInv' /\ CopyInv'
BY DEF NoCall, WalkInv, FreeInv, CopyInv, Freeing, Copies


-----------------------------------------------------------------------------
(* The operations that take one step. *)

(* The step gives l the elements s, and leaves the other lists theirs. *)
Becomes(l, s) ==
  /\ Live' = Live
  /\ Content(l)' = s
  /\ \A m \in Live \ {l} : Content(m)' = Content(m)

LEMMA LastUpdate ==
  ASSUME IInv, NEW l \in Live, op.name = "none" \/ op.list = l, op' = NoCall,
         NEW r \in Heads, lists' = With(lists, l, r),
         r.count = 0 => r = Empty,
         NEW c, NEW s, Changes(heap, Chains, l, heap', c, s),
         Len(c) = r.count,
         r.count > 0 => r.head = c[1] /\ r.tail = c[Len(c)]
  PROVE  IInv' /\ Becomes(l, s)
<1>1. ListsType /\ EmptyInv /\ FitsInv
  BY DEF IInv
<1>2. /\ Live' = Live /\ lists'[l] = r
      /\ \A m \in Live \ {l} : lists'[m] = lists[m]
  BY <1>1 DEF Live, ListsType, With
<1> NoCall \in Ops /\ NoCall.name = "none"
  BY DEF NoCall, Ops, Names, NULL
<1>3. ListsType'
  <2>1. lists' = [m \in Live |-> lists'[m]]
    BY DEF Live, With
  <2>2. lists' \in [Live -> Heads]
    BY <2>1, <1>1, <1>2 DEF ListsType
  <2> QED
    BY <2>2, <1>1, <1>2 DEF ListsType, Copies
<1>4. EmptyInv'
  BY <1>1, <1>2 DEF EmptyInv
<1>5. Sizes'[l] = Len(c) /\ \A m \in Live \ {l} : Sizes'[m] = Sizes[m]
  BY <1>2 DEF Sizes, Freeing, NoCall
<1>6. /\ FitsInv' /\ Chains'[l] = c
      /\ \A m \in Live \ {l} : Chains'[m] = Chains[m]
  <2>1. /\ Shape(heap', With(Chains, l, c))
        /\ Len(c) > 0 => r.head = c[1] /\ r.tail = c[Len(c)]
    BY DEF Changes
  <2> QED
    BY <2>1, <1>1, <1>5, UpdateFits
<1>7. WalkInv' /\ FreeInv' /\ CopyInv'
  BY <1>1, BetweenCalls
<1>8. Becomes(l, s)
  BY <1>1, <1>2, <1>6, OneList DEF Becomes, Content, Changes
<1> QED
  BY <1>3, <1>4, <1>6, <1>7, <1>8 DEF IInv

LEMMA IdleUpdate ==
  ASSUME IInv, NEW l \in Live, op.name = "none", op' = op,
         NEW r \in Heads, lists' = With(lists, l, r),
         r.count = 0 => r = Empty,
         NEW c, NEW s, Changes(heap, Chains, l, heap', c, s),
         Len(c) = r.count,
         r.count > 0 => r.head = c[1] /\ r.tail = c[Len(c)]
  PROVE  IInv' /\ Becomes(l, s)
<1>1. op' = NoCall
  BY DEF IInv, ListsType
<1> QED
  BY <1>1, LastUpdate

LEMMA PushFront ==
  ASSUME IInv, NEW l \in Lists, NEW d \in Data, pushFront(l, d)
  PROVE  /\ IInv' /\ l \in Live /\ op.name = "none" /\ op' = op /\ result' = result
         /\ Becomes(l, <<d>> \o Content(l))
<1> DEFINE a == NewNode
           empty == lists[l].count = 0
           next == IF empty THEN NULL ELSE lists[l].head
           g == With(heap, a, [data |-> d, next |-> First(Chains[l])])
           r == [head |-> a, tail |-> IF empty THEN a ELSE lists[l].tail,
                 count |-> lists[l].count + 1]
           c == <<a>> \o Chains[l]
<1>1. l \in Live /\ op.name = "none" /\ op' = op /\ result' = result
  BY DEF pushFront, Idle
<1>2. /\ lists[l] \in Heads /\ DOMAIN Chains = Live /\ Shape(heap, Chains)
      /\ Len(Chains[l]) = lists[l].count
      /\ lists[l].count > 0 => /\ lists[l].head = Chains[l][1]
                               /\ lists[l].tail = Chains[l][lists[l].count]
  BY <1>1, OneList DEF IInv, Freeing
<1>3. a \in Addresses \ DOMAIN heap
  BY <1>2, NewAddress DEF Shape, NewNode
<1> HIDE DEF a
<1>4. heap' = g
  <2>1. heap' = With(heap, a, [data |-> d, next |-> next])
    BY DEF pushFront, a
  <2>2. next = First(Chains[l])
    BY <1>2 DEF First, Heads
  <2> QED
    BY <2>1, <2>2
<1>5. lists' = With(lists, l, r)
  <2>1. lists' = [lists EXCEPT ![l] = r]
    BY <1>1, <1>2 DEF pushFront, a
  <2>2. lists \in [Live -> Heads]
    BY DEF IInv, ListsType
  <2> HIDE DEF r
  <2> QED
    BY <1>1, <2>1, <2>2, ExceptIsWith
<1>6. Changes(heap, Chains, l, g, c, <<d>> \o Content(l))
  BY <1>1, <1>2, <1>3, AddFront DEF Content
<1>7. /\ Len(c) = lists[l].count + 1 /\ c[1] = a
      /\ lists[l].count > 0 => c[Len(c)] = Chains[l][lists[l].count]
  <2>1. <<a>> \in Seq(Nat) /\ Len(<<a>>) = 1 /\ <<a>>[1] = a /\ Chains[l] \in Seq(Nat)
    <3>1. Chains[l] \in Seq(DOMAIN heap) /\ DOMAIN heap \subseteq Nat
      BY <1>1, <1>2, OneChain DEF Shape, Addresses
    <3> QED
      BY <3>1, <1>3, SeqMonotonic DEF Addresses
  <2>2. /\ Len(c) = 1 + Len(Chains[l])
        /\ \A i \in 1..(1 + Len(Chains[l])) : c[i] = IF i <= 1 THEN <<a>>[i] ELSE Chains[l][i - 1]
    BY <2>1, ConcatProperties
  <2> QED
    BY <2>1, <2>2, <1>2 DEF Heads
<1>8. /\ r \in Heads /\ r.count = Len(c) /\ r.count > 0
      /\ r.head = c[1] /\ r.tail = c[Len(c)]
  BY <1>2, <1>3, <1>7 DEF Heads, Addresses
<1> HIDE DEF g, r, c
<1>9. IInv' /\ Becomes(l, <<d>> \o Content(l))
  BY <1>1, <1>4, <1>5, <1>6, <1>8, IdleUpdate
<1> QED
  BY <1>1, <1>9

(* The two updates of a record, by its fields. *)
LEMMA HeadsAfterPushBack ==
  ASSUME NEW list \in Heads, NEW n \in Nat
  PROVE  LET r == AfterPushBack(list, n)
         IN  /\ r \in Heads /\ r.count = list.count + 1 /\ r.tail = n
             /\ r.head = IF list.count = 0 THEN n ELSE list.head
<1> DEFINE hd == IF list.count = 0 THEN n ELSE list.head
           ct == list.count + 1
           r == [[[list EXCEPT !.head = hd] EXCEPT !.tail = n] EXCEPT !.count = ct]
<1>1. AfterPushBack(list, n) = r
  BY DEF AfterPushBack
<1>2. hd \in Nat /\ ct \in Nat
  BY DEF Heads
<1> HIDE DEF hd, ct
<1>3. r \in Heads /\ r.count = ct /\ r.tail = n /\ r.head = hd
  BY <1>2 DEF Heads
<1> QED
  BY <1>1, <1>3 DEF hd, ct

LEMMA HeadsAfterPopFront ==
  ASSUME NEW list \in Heads, NEW n \in Nat, list.count > 1
  PROVE  LET r == AfterPopFront(list, n)
         IN  /\ r \in Heads /\ r.count = list.count - 1
             /\ r.head = n /\ r.tail = list.tail
<1> DEFINE ct == list.count - 1
           r == [[list EXCEPT !.head = n] EXCEPT !.count = ct]
<1>1. AfterPopFront(list, n) = r
  BY DEF AfterPopFront
<1>2. ct \in Nat
  BY DEF Heads
<1> HIDE DEF ct
<1>3. r \in Heads /\ r.count = ct /\ r.head = n /\ r.tail = list.tail
  BY <1>2 DEF Heads
<1> QED
  BY <1>1, <1>3 DEF ct

(* What pushBack does, and each turn of a copy. *)
LEMMA PutsBack ==
  ASSUME ListsType, FitsInv, NEW l \in Live, Sizes[l] = lists[l].count,
         NEW d \in Data, PutBack(l, d)
  PROVE  \E a \in Addresses, r \in Heads :
           LET c == Append(Chains[l], a)
           IN  /\ Changes(heap, Chains, l, heap', c, Append(Content(l), d))
               /\ lists' = With(lists, l, r)
               /\ Len(c) = lists[l].count + 1 /\ r.count = Len(c)
               /\ r.head = c[1] /\ r.tail = c[Len(c)]
               /\ \A k \in 1..lists[l].count : c[k] = Chains[l][k]
<1> DEFINE a == NewNode
           empty == lists[l].count = 0
           r == AfterPushBack(lists[l], a)
           m == Len(Chains[l])
           g == With(Behind(heap, m, Chains[l][m], a), a, [data |-> d, next |-> NULL])
           c == Append(Chains[l], a)
<1>1. /\ lists[l] \in Heads /\ DOMAIN Chains = Live /\ Shape(heap, Chains)
      /\ Len(Chains[l]) = lists[l].count
      /\ lists[l].count > 0 => /\ lists[l].head = Chains[l][1]
                               /\ lists[l].tail = Chains[l][lists[l].count]
  BY OneList
<1>2. a \in Addresses \ DOMAIN heap
  BY <1>1, NewAddress DEF Shape, NewNode
<1> HIDE DEF a
<1>3. heap' = g
  <2>1. heap' = With(Behind(heap, lists[l].count, lists[l].tail, a), a,
                     [data |-> d, next |-> NULL])
    BY DEF PutBack, a, Behind
  <2>2. CASE empty
    <3>1. Behind(heap, lists[l].count, lists[l].tail, a) = Behind(heap, m, Chains[l][m], a)
      BY <2>2, <1>1 DEF Behind
    <3> QED
      BY <2>1, <3>1
  <2>3. CASE ~empty
    <3>1. lists[l].tail = Chains[l][m] /\ lists[l].count = m
      BY <2>3, <1>1 DEF Heads
    <3> QED
      BY <2>1, <3>1
  <2> QED
    BY <2>2, <2>3
<1>4. lists' = With(lists, l, r)
  <2>1. lists' = [lists EXCEPT ![l] = r]
    BY <1>1 DEF PutBack, a, ListsType
  <2>3. lists \in [Live -> Heads]
    BY DEF ListsType
  <2> HIDE DEF r
  <2> QED
    BY <2>1, <2>3, ExceptIsWith
<1>5. Changes(heap, Chains, l, g, c, Append(Content(l), d))
  BY <1>1, <1>2, AddBack DEF Content
<1>6. /\ Len(c) = lists[l].count + 1 /\ c[lists[l].count + 1] = a
      /\ \A k \in 1..lists[l].count : c[k] = Chains[l][k]
  <2>1. Chains[l] \in Seq(Nat) /\ a \in Nat
    <3>1. Chains[l] \in Seq(DOMAIN heap) /\ DOMAIN heap \subseteq Nat
      BY <1>1, OneChain DEF Shape, Addresses
    <3> QED
      BY <3>1, <1>2, SeqMonotonic DEF Addresses
  <2> QED
    BY <2>1, <1>1, AppendProperties
<1>7. /\ r \in Heads /\ r.count = Len(c) /\ r.head = c[1] /\ r.tail = c[Len(c)]
  <2>1. /\ r \in Heads /\ r.count = lists[l].count + 1 /\ r.tail = a
        /\ r.head = IF empty THEN a ELSE lists[l].head
    BY <1>1, <1>2, HeadsAfterPushBack DEF Addresses
  <2> QED
    BY <2>1, <1>1, <1>6 DEF Heads
<1>8. a \in Addresses
  BY <1>2
<1> HIDE DEF g, r
<1> QED
  BY <1>3, <1>4, <1>5, <1>6, <1>7, <1>8

LEMMA PushBack ==
  ASSUME IInv, NEW l \in Lists, NEW d \in Data, pushBack(l, d)
  PROVE  /\ IInv' /\ l \in Live /\ op.name = "none" /\ op' = op /\ result' = result
         /\ Becomes(l, Append(Content(l), d))
<1>1. l \in Live /\ op.name = "none" /\ op' = op /\ result' = result /\ PutBack(l, d)
  BY DEF pushBack, Idle
<1>2. ListsType /\ FitsInv /\ Sizes[l] = lists[l].count /\ lists[l] \in Heads
  BY <1>1, OneList DEF IInv, Freeing
<1>3. PICK a \in Addresses, r \in Heads :
        LET c == Append(Chains[l], a)
        IN  /\ Changes(heap, Chains, l, heap', c, Append(Content(l), d))
            /\ lists' = With(lists, l, r)
            /\ Len(c) = lists[l].count + 1 /\ r.count = Len(c)
            /\ r.head = c[1] /\ r.tail = c[Len(c)]
  BY <1>1, <1>2, PutsBack
<1> DEFINE c == Append(Chains[l], a)
<1>4. /\ Changes(heap, Chains, l, heap', c, Append(Content(l), d))
      /\ lists' = With(lists, l, r) /\ r.count # 0
      /\ Len(c) = r.count /\ r.head = c[1] /\ r.tail = c[Len(c)]
  BY <1>2, <1>3 DEF Heads
<1> HIDE DEF c
<1>5. IInv' /\ Becomes(l, Append(Content(l), d))
  BY <1>1, <1>4, IdleUpdate
<1> QED
  BY <1>1, <1>5

LEMMA PopFront ==
  ASSUME IInv, NEW l \in Lists, popFront(l)
  PROVE  /\ IInv' /\ l \in Live /\ op.name = "none" /\ op' = op
         /\ Content(l) \in Seq(Data) /\ Content(l) # <<>>
         /\ result' = Head(Content(l)) /\ Becomes(l, Tail(Content(l)))
<1> DEFINE n == lists[l].head
           r == AfterPopFront(lists[l], getNext(n))
           g == Without(heap, Chains[l][1])
           c == Tail(Chains[l])
<1>1. l \in Live /\ op.name = "none" /\ op' = op /\ lists[l].count > 0
  BY DEF popFront, Idle
<1>2. /\ lists[l] \in Heads /\ DOMAIN Chains = Live /\ Shape(heap, Chains)
      /\ Len(Chains[l]) = lists[l].count
      /\ lists[l].head = Chains[l][1] /\ lists[l].tail = Chains[l][lists[l].count]
  BY <1>1, OneList DEF IInv, Freeing
<1>3. heap' = g /\ result' = heap[Chains[l][1]].data
  BY <1>2 DEF popFront
<1>4. lists' = With(lists, l, r)
  <2>1. lists' = [lists EXCEPT ![l] = r]
    BY <1>1 DEF popFront, IInv, ListsType
  <2>2. lists \in [Live -> Heads]
    BY DEF IInv, ListsType
  <2> HIDE DEF r
  <2> QED
    BY <1>1, <2>1, <2>2, ExceptIsWith
<1>5. /\ Changes(heap, Chains, l, g, c, Tail(Content(l)))
      /\ Len(c) = lists[l].count - 1
      /\ \A k \in 1..(lists[l].count - 1) : c[k] = Chains[l][k + 1]
  BY <1>1, <1>2, DropFront DEF Content
<1>6. \A k \in 1..lists[l].count :
        /\ heap[Chains[l][k]] \in Node
        /\ heap[Chains[l][k]].next = IF k = lists[l].count THEN NULL ELSE Chains[l][k + 1]
  BY <1>1, <1>2, OneChain
<1>7. /\ r \in Heads /\ Len(c) = r.count
      /\ r.count = 0 => r = Empty
      /\ r.count > 0 => r.head = c[1] /\ r.tail = c[Len(c)]
  <2>1. CASE lists[l].count = 1
    BY <2>1, <1>5 DEF AfterPopFront, Empty, Heads, NULL
  <2>2. CASE lists[l].count # 1
    <3>1. /\ lists[l].count \in Nat /\ lists[l].count - 1 \in 1..(lists[l].count - 1)
          /\ 1 \in 1..(lists[l].count - 1) /\ 1 \in 1..lists[l].count
      BY <2>2, <1>1, <1>2 DEF Heads
    <3>2. /\ r \in Heads /\ r.head = Chains[l][2] /\ r.tail = lists[l].tail
          /\ r.count = lists[l].count - 1
      <4>1. getNext(n) \in Nat /\ getNext(n) = Chains[l][2]
        BY <2>2, <3>1, <1>2, <1>6 DEF getNext, Node
      <4>2. lists[l].count > 1
        BY <2>2, <1>1, <1>2 DEF Heads
      <4> QED
        BY <4>1, <4>2, <1>2, HeadsAfterPopFront
    <3>3. c[1] = Chains[l][2] /\ c[lists[l].count - 1] = Chains[l][lists[l].count]
      BY <3>1, <1>5
    <3> QED
      <4>1. Len(c) = r.count /\ r.head = c[1] /\ r.tail = c[Len(c)]
        BY <3>2, <3>3, <1>2, <1>5
      <4>2. r.count # 0
        BY <3>1, <3>2
      <4> QED
        BY <3>2, <4>1, <4>2
  <2> QED
    BY <2>1, <2>2
<1> HIDE DEF r, g, c
<1>8. IInv' /\ Becomes(l, Tail(Content(l)))
  BY <1>1, <1>3, <1>4, <1>5, <1>7, IdleUpdate
<1>9. /\ Content(l) \in Seq(Data) /\ Content(l) # <<>>
      /\ Head(Content(l)) = heap[Chains[l][1]].data
  <2>1. Content(l) = [k \in 1..lists[l].count |-> heap[Chains[l][k]].data]
    BY <1>2 DEF Content, Contents
  <2>2. \A k \in 1..lists[l].count : heap[Chains[l][k]].data \in Data
    BY <1>6 DEF Node
  <2>3. lists[l].count \in Nat /\ 1 \in 1..lists[l].count
    BY <1>1, <1>2 DEF Heads
  <2>4. Content(l) \in Seq(Data) /\ Len(Content(l)) = lists[l].count
    BY <2>1, <2>2, <2>3
  <2> QED
    BY <2>1, <2>3, <2>4
<1> QED
  BY <1>1, <1>3, <1>8, <1>9


(* A step that changes neither the lists nor the call. *)
LEMMA Unchanged ==
  ASSUME IInv, UNCHANGED <<heap, lists, op, before>>
  PROVE  IInv' /\ Live' = Live /\ \A l \in Live : Content(l)' = Content(l)
<1>1. Sizes' = Sizes
  BY DEF Sizes, Live
<1>2. FitsInv' /\ Chains' = Chains
  BY <1>1, SameFits DEF IInv
<1>3. ListsType' /\ EmptyInv' /\ Live' = Live
  BY DEF IInv, ListsType, EmptyInv, Live
<1>4. WalkInv' /\ FreeInv' /\ CopyInv'
  BY <1>2 DEF IInv, WalkInv, FreeInv, CopyInv
<1> QED
  BY <1>2, <1>3, <1>4 DEF IInv, Content

-----------------------------------------------------------------------------
(* The beginning of a call. *)

LEMMA CallIs ==
  ASSUME NEW name \in Names, NEW l \in Lists, NEW source \in Lists \cup {""},
         NEW node \in Nat, Call(name, l, source, node)
  PROVE  /\ op' \in Ops
         /\ op'.name = name /\ op'.list = l /\ op'.source = source
         /\ op'.node = node /\ op'.lastNode = NULL /\ op'.i = 0
         /\ before' = IF l \in Live THEN Elements(l) ELSE <<>>
<1> DEFINE o == [[[[NoCall EXCEPT !.name = name] EXCEPT !.list = l]
                   EXCEPT !.source = source] EXCEPT !.node = node]
<1>1. op' = o
  BY DEF Call
<1>2. NoCall \in Ops /\ NoCall.lastNode = NULL /\ NoCall.i = 0
  BY DEF NoCall, Ops, Names, NULL
<1>3. /\ o \in Ops /\ o.name = name /\ o.list = l /\ o.source = source
      /\ o.node = node /\ o.lastNode = NULL /\ o.i = 0
  <2> HIDE DEF NoCall
  <2> QED
    BY <1>2 DEF Ops
<1> QED
  BY <1>1, <1>3 DEF Call

(* The elements of a list with all its nodes. *)
LEMMA ElementsAre ==
  ASSUME ListsType, FitsInv, NEW l \in Live, Sizes[l] = lists[l].count
  PROVE  Nodes(l) = Chains[l] /\ Elements(l) = Content(l)
<1>1. Nodes(l) = Chains[l]
  BY DEF Nodes, Chains, ChainsOf, Live
<1>2. Len(Chains[l]) = lists[l].count
  BY OneList
<1> QED
  BY <1>1, <1>2 DEF Elements, Content, Contents

(* A call begins that leaves the lists as they are, at first. *)
LEMMA Starts ==
  ASSUME IInv, op.name = "none", UNCHANGED <<heap, lists>>, op'.i = 0
  PROVE  /\ FitsInv' /\ EmptyInv' /\ Chains' = Chains /\ Live' = Live
         /\ \A l \in Live : /\ Content(l)' = Content(l)
                            /\ Elements(l) = Content(l)
                            /\ Sizes[l] = lists[l].count
                            /\ Len(Chains[l]) = lists[l].count
<1>1. ListsType /\ EmptyInv /\ FitsInv
  BY DEF IInv
<1>2. \A l \in Live : lists[l].count \in Nat /\ Sizes[l] = lists[l].count
  BY <1>1 DEF ListsType, Heads, Sizes, Freeing
<1>3. Sizes' = Sizes
  <2>1. Sizes' = [l \in Live |-> lists[l].count]
    BY <1>2 DEF Sizes, Live
  <2>2. Sizes = [l \in Live |-> lists[l].count]
    BY DEF Sizes, Freeing
  <2> QED
    BY <2>1, <2>2
<1>4. FitsInv' /\ Chains' = Chains
  BY <1>1, <1>3, SameFits
<1>5. \A l \in Live : Elements(l) = Content(l) /\ Len(Chains[l]) = lists[l].count
  BY <1>1, <1>2, ElementsAre, OneList
<1> QED
  BY <1>1, <1>2, <1>4, <1>5 DEF EmptyInv, Content, Live

LEMMA StartsPopBack ==
  ASSUME IInv, NEW l \in Lists, StartPopBack(l)
  PROVE  /\ IInv' /\ l \in Live /\ op.name = "none" /\ result' = result
         /\ op'.name = "popBack" /\ op'.list = l /\ before' = Content(l)
         /\ Live' = Live /\ \A m \in Live : Content(m)' = Content(m)
<1>1. /\ l \in Live /\ op.name = "none" /\ result' = result /\ heap' = heap /\ lists' = lists
      /\ Call("popBack", l, "", lists[l].head)
  BY DEF StartPopBack, Idle
<1>2. ListsType /\ lists[l] \in Heads /\ lists[l].count > 1
  BY <1>1 DEF IInv, ListsType, StartPopBack
<1>3. /\ op' \in Ops /\ op'.name = "popBack" /\ op'.list = l
      /\ op'.node = lists[l].head /\ op'.i = 0 /\ before' = Elements(l)
  <2>1. "popBack" \in Names /\ "" \in Lists \cup {""} /\ lists[l].head \in Nat
    BY <1>2 DEF Names, Heads
  <2> QED
    BY <2>1, <1>1, CallIs
<1>4. /\ FitsInv' /\ EmptyInv' /\ Chains' = Chains /\ Live' = Live
      /\ \A m \in Live : Content(m)' = Content(m) /\ Elements(m) = Content(m)
      /\ Sizes[l] = lists[l].count
  BY <1>1, <1>3, Starts
<1>5. ListsType'
  BY <1>1, <1>2, <1>3, <1>4 DEF ListsType, Copies, Live
<1>6. FreeInv' /\ CopyInv'
  BY <1>3 DEF FreeInv, CopyInv, Freeing, Copies
<1>7. WalkInv'
  <2>1. lists[l].count \in Nat /\ 1 \in 1..lists[l].count
    BY <1>2 DEF Heads
  <2>2. lists[l].head = Chains[l][1]
    <3>1. Sizes[l] > 0
      BY <1>2, <1>4, <2>1
    <3> QED
      BY <1>1, <3>1, OneList DEF IInv
  <2>3. op'.node = Chains'[l][1] /\ lists'[l] = lists[l]
    BY <1>1, <1>3, <1>4, <2>2
  <2>4. before' = Contents(heap', Chains'[l])
    BY <1>1, <1>3, <1>4 DEF Content
  <2> QED
    BY <1>2, <1>3, <2>1, <2>3, <2>4 DEF WalkInv
<1> QED
  BY <1>1, <1>3, <1>4, <1>5, <1>6, <1>7 DEF IInv

LEMMA StartsFree ==
  ASSUME IInv, NEW l \in Lists, StartFree(l)
  PROVE  /\ IInv' /\ l \in Live /\ op.name = "none" /\ result' = result
         /\ op'.name \in {"free", "destroy"} /\ op'.list = l /\ before' = Content(l)
         /\ Live' = Live /\ \A m \in Live : Content(m)' = Content(m)
<1>1. /\ l \in Live /\ op.name = "none" /\ result' = result /\ heap' = heap /\ lists' = lists
  BY DEF StartFree, Idle
<1>2. PICK name \in {"free", "destroy"} : Call(name, l, "", NULL)
  BY DEF StartFree
<1>3. /\ op' \in Ops /\ op'.name = name /\ op'.list = l
      /\ op'.i = 0 /\ before' = Elements(l)
  BY <1>1, <1>2, CallIs DEF Names, Freeing, NULL
<1>4. /\ FitsInv' /\ EmptyInv' /\ Chains' = Chains /\ Live' = Live
      /\ \A m \in Live : Content(m)' = Content(m) /\ Elements(m) = Content(m)
  BY <1>1, <1>3, Starts
<1>5. ListsType'
  BY <1>1, <1>3, <1>4 DEF IInv, ListsType, Copies, Live
<1>6. WalkInv' /\ CopyInv'
  BY <1>3 DEF WalkInv, CopyInv, Copies
<1>7. FreeInv'
  BY <1>1, <1>3 DEF FreeInv, IInv, ListsType, Heads
<1> QED
  BY <1>1, <1>3, <1>4, <1>5, <1>6, <1>7 DEF IInv

LEMMA StartsAssign ==
  ASSUME IInv, NEW l \in Lists, NEW source \in Lists, StartAssign(l, source)
  PROVE  /\ IInv' /\ l \in Live /\ op.name = "none" /\ result' = result
         /\ op'.name = "assign" /\ op'.list = l /\ before' = Content(l)
         /\ Live' = Live /\ \A m \in Live : Content(m)' = Content(m)
<1>1. /\ l \in Live /\ op.name = "none" /\ result' = result /\ heap' = heap /\ lists' = lists
      /\ source \in Live \ {l} /\ Call("assign", l, source, NULL)
  BY DEF StartAssign, Idle
<1>2. /\ op' \in Ops /\ op'.name = "assign" /\ op'.list = l /\ op'.source = source
      /\ op'.i = 0 /\ before' = Elements(l)
  BY <1>1, CallIs DEF Names, Freeing, NULL
<1>3. /\ FitsInv' /\ EmptyInv' /\ Chains' = Chains /\ Live' = Live
      /\ \A m \in Live : Content(m)' = Content(m) /\ Elements(m) = Content(m)
  BY <1>1, <1>2, Starts
<1>4. ListsType'
  BY <1>1, <1>2, <1>3 DEF IInv, ListsType, Live
<1>5. WalkInv' /\ CopyInv'
  BY <1>2 DEF WalkInv, CopyInv, Copies
<1>6. FreeInv'
  BY <1>1, <1>2 DEF FreeInv, IInv, ListsType, Heads
<1> QED
  BY <1>1, <1>2, <1>3, <1>4, <1>5, <1>6 DEF IInv


-----------------------------------------------------------------------------
(* The turns of a call, and its end. *)

(* The call goes on, and nobody sees a difference. *)
Silent ==
  /\ op.name # "none" /\ op'.name # "none" /\ op'.list = op.list
  /\ op.name = "copy" <=> op'.name = "copy"
  /\ before' = before /\ result' = result /\ Live' = Live
  /\ \A m \in Live \ {op.list} : Content(m)' = Content(m)

(* The list and the node of a walk to the last. *)
LEMMA Walking ==
  ASSUME IInv, op.name = "popBack", NEW l, l = op.list
  PROVE  LET n == lists[l].count
         IN  /\ l \in Live /\ op \in Ops /\ lists[l] \in Heads
             /\ n \in Nat /\ n > 1 /\ Sizes[l] = n /\ Len(Chains[l]) = n
             /\ DOMAIN Chains = Live /\ Shape(heap, Chains) /\ before = Content(l)
             /\ lists[l].head = Chains[l][1] /\ lists[l].tail = Chains[l][n]
             /\ \E k \in 1..n :
                  /\ op.node = Chains[l][k]
                  /\ k > 1 => op.lastNode = Chains[l][k - 1]
                  /\ getNext(op.node) \in Nat
                  /\ getNext(op.node) = IF k = n THEN NULL ELSE Chains[l][k + 1]
                  /\ k # n => Chains[l][k + 1] # NULL
<1> DEFINE n == lists[l].count
<1>1. ListsType /\ FitsInv /\ WalkInv
  BY DEF IInv
<1>2. l \in Live /\ op \in Ops /\ lists[l] \in Heads
  BY <1>1 DEF ListsType
<1>3. n \in Nat /\ n > 1
  BY <1>1, <1>2 DEF Heads, WalkInv
<1>4. /\ DOMAIN Chains = Live /\ Shape(heap, Chains) /\ Sizes[l] = n /\ Len(Chains[l]) = n
  BY <1>1, <1>2, OneList DEF Freeing
<1>5. lists[l].head = Chains[l][1] /\ lists[l].tail = Chains[l][n]
  <2>1. Sizes[l] > 0
    BY <1>3, <1>4
  <2> QED
    BY <2>1, <1>1, <1>2, <1>4, OneList
<1>6. PICK k \in 1..n : op.node = Chains[l][k] /\ (k > 1 => op.lastNode = Chains[l][k - 1])
  BY <1>1 DEF WalkInv
<1> HIDE DEF n
<1>7. \A j \in 1..n :
        /\ Chains[l][j] \in DOMAIN heap /\ heap[Chains[l][j]] \in Node
        /\ heap[Chains[l][j]].next = IF j = n THEN NULL ELSE Chains[l][j + 1]
  BY <1>2, <1>4, OneChain
<1>8. DOMAIN heap \subseteq Addresses
  BY <1>4 DEF Shape
<1>9. /\ getNext(op.node) \in Nat
      /\ getNext(op.node) = IF k = n THEN NULL ELSE Chains[l][k + 1]
  BY <1>6, <1>7 DEF getNext, Node
<1>10. k # n => Chains[l][k + 1] # NULL
  <2> SUFFICES ASSUME k # n
               PROVE  Chains[l][k + 1] # NULL
    OBVIOUS
  <2>1. k + 1 \in 1..n
    BY <1>3
  <2> QED
    BY <2>1, <1>7, <1>8 DEF Addresses
<1>11. before = Content(l)
  BY <1>1 DEF WalkInv, Content
<1> QED
  BY <1>2, <1>3, <1>4, <1>5, <1>6, <1>9, <1>10, <1>11 DEF n

LEMMA WalksBack ==
  ASSUME IInv, WalkBack
  PROVE  IInv' /\ Silent
<1> DEFINE l == op.list
           n == lists[l].count
<1>1. op.name = "popBack" /\ getNext(op.node) # NULL /\ UNCHANGED <<heap, lists, result, before>>
  BY DEF WalkBack
<1>2. /\ l \in Live /\ op \in Ops /\ n \in Nat /\ n > 1 /\ before = Content(l)
  BY <1>1, Walking
<1>3. PICK k \in 1..n :
        /\ op.node = Chains[l][k] /\ getNext(op.node) \in Nat
        /\ getNext(op.node) = IF k = n THEN NULL ELSE Chains[l][k + 1]
  BY <1>1, Walking
<1>4. k # n /\ k + 1 \in 1..n /\ (k + 1) - 1 = k
  BY <1>1, <1>2, <1>3
<1>5. /\ op' \in Ops /\ op'.name = op.name /\ op'.list = l /\ op'.source = op.source
      /\ op'.node = Chains[l][k + 1] /\ op'.lastNode = Chains[l][k] /\ op'.i = op.i
  <2> DEFINE a == op.node
             b == getNext(op.node)
             o == [[op EXCEPT !.lastNode = a] EXCEPT !.node = b]
  <2>1. op' = o
    BY DEF WalkBack, Onward
  <2>2. a \in Nat /\ b \in Nat
    BY <1>2, <1>3 DEF Ops
  <2> HIDE DEF a, b
  <2>3. /\ o \in Ops /\ o.name = op.name /\ o.list = op.list /\ o.source = op.source
        /\ o.node = b /\ o.lastNode = a /\ o.i = op.i
    BY <1>2, <2>2 DEF Ops
  <2> QED
    BY <2>1, <2>3, <1>3, <1>4 DEF a, b
<1>6. FitsInv' /\ Chains' = Chains
  <2>1. Sizes' = Sizes
    BY <1>1, <1>5 DEF Sizes, Live
  <2> QED
    BY <2>1, <1>1, SameFits DEF IInv
<1>7. ListsType' /\ EmptyInv' /\ FreeInv' /\ CopyInv' /\ Live' = Live
  BY <1>1, <1>5 DEF IInv, ListsType, EmptyInv, FreeInv, CopyInv, Copies, Freeing, Live
<1>8. WalkInv'
  <2>1. before' = Contents(heap', Chains'[l])
    BY <1>1, <1>2, <1>6 DEF Content
  <2>2. lists'[l].count > 1 /\ k + 1 \in 1..lists'[l].count
    BY <1>1, <1>2, <1>4
  <2>3. op'.node = Chains'[l][k + 1] /\ op'.lastNode = Chains'[l][(k + 1) - 1]
    BY <1>4, <1>5, <1>6
  <2> QED
    BY <1>5, <2>1, <2>2, <2>3 DEF WalkInv
<1> QED
  BY <1>1, <1>5, <1>6, <1>7, <1>8 DEF IInv, Silent, Content


LEMMA HeadsAfterPopBack ==
  ASSUME NEW list \in Heads, NEW n \in Nat, list.count > 1
  PROVE  LET r == AfterPopBack(list, n)
         IN  /\ r \in Heads /\ r.count = list.count - 1
             /\ r.head = list.head /\ r.tail = n
<1> DEFINE ct == list.count - 1
           r == [[list EXCEPT !.tail = n] EXCEPT !.count = ct]
<1>1. AfterPopBack(list, n) = r
  BY DEF AfterPopBack
<1>2. ct \in Nat
  BY DEF Heads
<1> HIDE DEF ct
<1>3. r \in Heads /\ r.count = ct /\ r.head = list.head /\ r.tail = n
  BY <1>2 DEF Heads
<1> QED
  BY <1>1, <1>3 DEF ct

(* A call of l returns: l has the elements s, and the others theirs. *)
Finishes(l, s) ==
  /\ op.name # "none" /\ op.list = l /\ op' = NoCall /\ before' = <<>>
  /\ Becomes(l, s)

LEMMA EndsPopBack ==
  ASSUME IInv, EndPopBack
  PROVE  /\ IInv' /\ op.name = "popBack" /\ before \in Seq(Data) /\ before # <<>>
         /\ result' = before[Len(before)]
         /\ \E l \in Live : Finishes(l, SubSeq(before, 1, Len(before) - 1))
<1>0. PICK l \in Live : l = op.list
  BY DEF IInv, ListsType, EndPopBack
<1> DEFINE n == lists[l].count
           last == op.lastNode
           r == AfterPopBack(lists[l], last)
           g == Without(Cut(heap, Chains[l][n - 1]), Chains[l][n])
           c == SubSeq(Chains[l], 1, n - 1)
           s == SubSeq(before, 1, n - 1)
<1>1. /\ op.name = "popBack" /\ getNext(op.node) = NULL /\ result' = heap[op.node].data
      /\ op' = NoCall /\ before' = <<>>
  BY DEF EndPopBack, Return
<1>2. /\ l \in Live /\ lists[l] \in Heads /\ op \in Ops
      /\ n \in Nat /\ n > 1 /\ Len(Chains[l]) = n
      /\ DOMAIN Chains = Live /\ Shape(heap, Chains) /\ before = Content(l)
      /\ lists[l].head = Chains[l][1]
  BY <1>0, <1>1, Walking
<1>3. op.node = Chains[l][n] /\ last = Chains[l][n - 1]
  <2>1. PICK k \in 1..n :
          /\ op.node = Chains[l][k]
          /\ k > 1 => last = Chains[l][k - 1]
          /\ getNext(op.node) = IF k = n THEN NULL ELSE Chains[l][k + 1]
          /\ k # n => Chains[l][k + 1] # NULL
    BY <1>0, <1>1, Walking
  <2>2. k = n
    BY <1>1, <2>1
  <2> QED
    BY <1>2, <2>1, <2>2
<1>4. heap' = g
  BY <1>0, <1>3 DEF EndPopBack, Cut
<1>5. lists' = With(lists, l, r)
  <2>1. lists' = [lists EXCEPT ![l] = r]
    BY <1>0, <1>2 DEF EndPopBack, IInv, ListsType
  <2>2. lists \in [Live -> Heads]
    BY DEF IInv, ListsType
  <2> HIDE DEF r
  <2> QED
    BY <1>2, <2>1, <2>2, ExceptIsWith
<1>6. /\ Changes(heap, Chains, l, g, c, s)
      /\ Len(c) = n - 1 /\ \A k \in 1..(n - 1) : c[k] = Chains[l][k]
  <2> DEFINE m == Len(Chains[l])
             h == Without(Cut(heap, Chains[l][m - 1]), Chains[l][m])
             d == SubSeq(Chains[l], 1, m - 1)
  <2>1. /\ Changes(heap, Chains, l, h, d, SubSeq(Contents(heap, Chains[l]), 1, m - 1))
        /\ Len(d) = m - 1 /\ \A k \in 1..(m - 1) : d[k] = Chains[l][k]
    BY <1>2, DropBack
  <2>2. m = n /\ h = g /\ d = c /\ SubSeq(Contents(heap, Chains[l]), 1, m - 1) = s
    BY <1>2 DEF Content
  <2> HIDE DEF h, d, m, g, c, s
  <2> QED
    BY <2>1, <2>2
<1>7. /\ r \in Heads /\ Len(c) = r.count
      /\ r.count # 0 /\ r.head = c[1] /\ r.tail = c[Len(c)]
  <2>1. last \in Nat
    BY <1>2 DEF Ops
  <2>2. r \in Heads /\ r.count = n - 1 /\ r.head = lists[l].head /\ r.tail = last
    BY <1>2, <2>1, HeadsAfterPopBack
  <2>3. 1 \in 1..(n - 1) /\ n - 1 \in 1..(n - 1) /\ n - 1 # 0
    BY <1>2
  <2>4. c[1] = Chains[l][1] /\ c[n - 1] = Chains[l][n - 1]
    BY <1>6, <2>3
  <2>5. r.head = c[1] /\ r.tail = c[n - 1]
    BY <1>2, <1>3, <2>2, <2>4
  <2> QED
    BY <2>2, <2>3, <2>5, <1>6
<1> HIDE DEF r, g, c
<1>8. IInv' /\ Becomes(l, s)
  BY <1>0, <1>1, <1>4, <1>5, <1>6, <1>7, LastUpdate
<1>9. before \in Seq(Data) /\ before # <<>> /\ Len(before) = n /\ before[n] = result'
  <2>1. before = [k \in 1..n |-> heap[Chains[l][k]].data]
    BY <1>2 DEF Content, Contents
  <2>2. \A k \in 1..n : heap[Chains[l][k]].data \in Data
    BY <1>2, OneChain DEF Node
  <2>3. before \in Seq(Data) /\ Len(before) = n
    BY <1>2, <2>1, <2>2
  <2>4. n \in 1..n /\ n # 0
    BY <1>2
  <2>5. before[n] = heap[Chains[l][n]].data
    BY <2>1, <2>4
  <2> QED
    BY <1>1, <1>3, <2>3, <2>4, <2>5
<1>10. Finishes(l, SubSeq(before, 1, Len(before) - 1))
  BY <1>0, <1>1, <1>8, <1>9 DEF Finishes
<1> QED
  BY <1>1, <1>8, <1>9, <1>10


-----------------------------------------------------------------------------
(* Objects come and go. *)

LEMMA NewList ==
  ASSUME IInv, op.name = "none", NEW l \in Lists \ Live,
         heap' = heap, lists' = With(lists, l, Empty), op'.name \notin Freeing
  PROVE  /\ FitsInv' /\ EmptyInv' /\ Live' = Live \cup {l}
         /\ Live' \subseteq Lists /\ lists' \in [Live' -> Heads]
         /\ Chains'[l] = <<>> /\ Content(l)' = <<>>
         /\ \A m \in Live : Chains'[m] = Chains[m] /\ Content(m)' = Content(m)
<1> DEFINE C == With(Chains, l, <<>>)
<1>1. ListsType /\ EmptyInv /\ FitsInv
  BY DEF IInv
<1>2. /\ DOMAIN Chains = Live /\ Shape(heap, Chains)
      /\ \A m \in Live :
           /\ Len(Chains[m]) = lists[m].count
           /\ lists[m].count > 0 => /\ lists[m].head = Chains[m][1]
                                    /\ lists[m].tail = Chains[m][lists[m].count]
  <2>1. DOMAIN Chains = Live
    BY DEF Chains, ChainsOf, Live
  <2>2. Shape(heap, Chains)
    BY <1>1 DEF FitsInv, Fits
  <2> QED
    BY <2>1, <2>2, <1>1, OneList DEF Freeing
<1>3. /\ Live' = Live \cup {l} /\ lists'[l] = Empty
      /\ \A m \in Live : lists'[m] = lists[m]
  BY DEF Live, With
<1>4. /\ C = [m \in Live' |-> C[m]] /\ C[l] = <<>>
      /\ \A m \in Live : C[m] = Chains[m]
  BY <1>2, <1>3 DEF With
<1>5. Shape(heap', C)
  BY <1>2, AddList
<1> HIDE DEF C
<1>6. \A m \in Live' : Sizes'[m] = lists'[m].count
  BY DEF Sizes, Live
<1>7. Empty \in Heads /\ Empty.count = 0 /\ Len(<<>>) = 0
  BY DEF Empty, Heads, NULL
<1>8. Fits(heap', lists', Sizes', C)
  <2>1. \A m \in Live' :
          /\ Len(C[m]) = Sizes'[m]
          /\ Sizes'[m] > 0 => lists'[m].head = C[m][1] /\ lists'[m].tail = C[m][Sizes'[m]]
    <3> TAKE m \in Live'
    <3>1. CASE m = l
      <4>1. Sizes'[m] = 0 /\ Len(C[m]) = 0
        BY <3>1, <1>3, <1>4, <1>6, <1>7
      <4> QED
        BY <4>1
    <3>2. CASE m \in Live
      BY <3>2, <1>2, <1>3, <1>4, <1>6
    <3> QED
      BY <3>1, <3>2, <1>3
  <2> QED
    BY <2>1, <1>4, <1>5 DEF Fits, Live
<1>9. FitsInv' /\ Chains' = C
  BY <1>8, StepFits
<1>10. Live' \subseteq Lists /\ lists' \in [Live' -> Heads]
  <2>1. lists' = [m \in Live' |-> lists'[m]]
    BY DEF With, Live
  <2> QED
    BY <2>1, <1>1, <1>3, <1>7 DEF ListsType
<1>11. EmptyInv'
  BY <1>1, <1>3 DEF EmptyInv
<1>12. Content(l)' = <<>>
  BY <1>4, <1>7, <1>9 DEF Content, Contents
<1> QED
  BY <1>3, <1>4, <1>9, <1>10, <1>11, <1>12 DEF Content

LEMMA Constructs ==
  ASSUME IInv, NEW l \in Lists, Construct(l)
  PROVE  /\ IInv' /\ op.name = "none" /\ op' = op /\ result' = result
         /\ l \notin Live /\ Live' = Live \cup {l}
         /\ Content(l)' = <<>> /\ \A m \in Live : Content(m)' = Content(m)
<1>1. /\ op.name = "none" /\ l \in Lists \ Live /\ lists' = With(lists, l, Empty)
      /\ UNCHANGED <<heap, op, result, before>>
  BY DEF Construct
<1>2. ListsType /\ op = NoCall /\ op' = NoCall
  BY <1>1 DEF IInv, ListsType
<1>3. /\ FitsInv' /\ EmptyInv' /\ Live' = Live \cup {l}
      /\ Live' \subseteq Lists /\ lists' \in [Live' -> Heads]
      /\ Content(l)' = <<>> /\ \A m \in Live : Content(m)' = Content(m)
  BY <1>1, NewList DEF Freeing
<1>4. ListsType'
  BY <1>1, <1>2, <1>3 DEF ListsType, Copies
<1>5. WalkInv' /\ FreeInv' /\ CopyInv'
  BY <1>2, BetweenCalls
<1> QED
  BY <1>1, <1>3, <1>4, <1>5 DEF IInv

LEMMA StartsCopy ==
  ASSUME IInv, NEW l \in Lists, NEW source \in Lists, CopyConstruct(l, source)
  PROVE  /\ IInv' /\ op.name = "none" /\ result' = result
         /\ op'.name = "copy" /\ op'.list = l
         /\ l \notin Live /\ Live' = Live \cup {l}
         /\ \A m \in Live : Content(m)' = Content(m)
<1> DEFINE node == lists[source].head
<1>1. /\ op.name = "none" /\ l \in Lists \ Live /\ source \in Live
      /\ lists' = With(lists, l, Empty) /\ heap' = heap /\ result' = result
      /\ Call("copy", l, source, node)
  BY DEF CopyConstruct
<1>2. ListsType /\ EmptyInv /\ FitsInv /\ lists[source] \in Heads
  BY <1>1 DEF IInv, ListsType
<1>3. /\ op' \in Ops /\ op'.name = "copy" /\ op'.list = l /\ op'.source = source
      /\ op'.node = node
  <2>1. "copy" \in Names /\ source \in Lists \cup {""} /\ node \in Nat
    BY <1>2 DEF Names, Heads, Copies
  <2> QED
    BY <2>1, <1>1, CallIs
<1>4. /\ FitsInv' /\ EmptyInv' /\ Live' = Live \cup {l}
      /\ Live' \subseteq Lists /\ lists' \in [Live' -> Heads]
      /\ Chains'[l] = <<>> /\ Chains'[source] = Chains[source]
      /\ \A m \in Live : Content(m)' = Content(m)
  BY <1>1, <1>3, NewList DEF Freeing
<1>5. ListsType'
  BY <1>1, <1>3, <1>4 DEF ListsType
<1>6. WalkInv' /\ FreeInv'
  BY <1>3 DEF WalkInv, FreeInv, Freeing
<1>7. CopyInv'
  <2>1. /\ Len(Chains[source]) = lists[source].count
        /\ lists[source].count > 0 => node = Chains[source][1]
    BY <1>1, <1>2, OneList DEF Freeing
  <2>2. node = IF Len(Chains[source]) = 0 THEN NULL ELSE Chains[source][1]
    BY <1>1, <1>2, <2>1 DEF EmptyInv, Empty, Heads
  <2>3. Len(<<>>) = 0 /\ 0 + 1 = 1 /\ Len(Chains[source]) \in Nat
    BY <1>2, <2>1 DEF Heads
  <2>4. /\ Len(Chains'[l]) = 0 /\ 0 <= Len(Chains'[source])
        /\ op'.node = IF 0 = Len(Chains'[source]) THEN NULL ELSE Chains'[source][0 + 1]
    BY <1>3, <1>4, <2>2, <2>3
  <2> QED
    BY <1>3, <2>4 DEF CopyInv
<1> QED
  BY <1>1, <1>3, <1>4, <1>5, <1>6, <1>7 DEF IInv


-----------------------------------------------------------------------------
(* Nodes are freed. *)

LEMMA NoContents ==
  ASSUME NEW h, NEW c, Len(c) = 0
  PROVE  Contents(h, c) = <<>>
BY DEF Contents

LEMMA SetsList ==
  ASSUME ListsType, EmptyInv, NEW l \in Live, NEW r \in Heads, lists' = With(lists, l, r),
         r.count = 0 => r = Empty
  PROVE  /\ Live' = Live /\ lists' \in [Live -> Heads] /\ EmptyInv'
         /\ lists'[l] = r /\ \A m \in Live \ {l} : lists'[m] = lists[m]
<1>1. /\ Live' = Live /\ lists'[l] = r
      /\ \A m \in Live \ {l} : lists'[m] = lists[m]
  BY DEF Live, ListsType, With
<1>2. lists' \in [Live -> Heads]
  <2>1. lists' = [m \in Live |-> lists'[m]]
    BY DEF Live, With
  <2> QED
    BY <2>1, <1>1 DEF ListsType
<1> QED
  BY <1>1, <1>2 DEF EmptyInv

(* The list that is being freed. *)
LEMMA BeingFreed ==
  ASSUME IInv, op.name \in Freeing, NEW l, l = op.list
  PROVE  /\ ListsType /\ EmptyInv /\ FitsInv /\ l \in Live /\ op \in Ops
         /\ lists[l] \in Heads /\ lists[l].count \in Nat /\ op.i \in Nat
         /\ op.i <= lists[l].count
         /\ Sizes[l] = lists[l].count - op.i /\ Len(Chains[l]) = lists[l].count - op.i
         /\ DOMAIN Chains = Live /\ Shape(heap, Chains)
<1>1. ListsType /\ EmptyInv /\ FitsInv /\ FreeInv
  BY DEF IInv
<1>2. op \in Ops /\ op.list \in Live /\ op.i \in Nat
  BY <1>1 DEF ListsType, Freeing, Ops
<1>3. lists[op.list] \in Heads /\ lists[op.list].count \in Nat
  BY <1>1, <1>2 DEF ListsType, Heads
<1>4. op.i <= lists[op.list].count
  BY <1>1 DEF FreeInv
<1>5. Sizes[op.list] = lists[op.list].count - op.i
  BY <1>2 DEF Sizes
<1> QED
  BY <1>1, <1>2, <1>3, <1>4, <1>5, OneList

LEMMA FreesNode ==
  ASSUME IInv, FreeNode
  PROVE  IInv' /\ Silent
<1> DEFINE l == op.list
           ct == lists[l].count
           n == Chains[l][1]
           next == getNext(n)
           r == [lists[l] EXCEPT !.head = next]
           g == Without(heap, n)
           c == Tail(Chains[l])
           m == ct - op.i
<1>1. /\ op.name \in Freeing /\ op.i < ct
      /\ result' = result /\ before' = before
  BY DEF FreeNode, Freeing
<1>2. /\ ListsType /\ EmptyInv /\ FitsInv /\ l \in Live /\ op \in Ops
      /\ lists[l] \in Heads /\ ct \in Nat /\ op.i \in Nat
      /\ Sizes[l] = m /\ Len(Chains[l]) = m /\ m \in Nat /\ m > 0
      /\ DOMAIN Chains = Live /\ Shape(heap, Chains)
  BY <1>1, BeingFreed
<1>3. lists[l].head = n /\ lists[l].tail = Chains[l][m]
  BY <1>2, OneList
<1>4. heap' = g
  BY <1>3 DEF FreeNode
<1>5. next \in Nat /\ next = IF m = 1 THEN NULL ELSE Chains[l][2]
  <2>1. 1 \in 1..m
    BY <1>2
  <2>2. heap[n] \in Node /\ heap[n].next = IF 1 = m THEN NULL ELSE Chains[l][1 + 1]
    BY <1>2, <2>1, OneChain
  <2> QED
    BY <2>2 DEF getNext, Node
<1>6. lists' = With(lists, l, r)
  <2>1. lists' = [lists EXCEPT ![l] = r]
    BY <1>2, <1>3 DEF FreeNode, ListsType
  <2>2. lists \in [Live -> Heads]
    BY <1>2 DEF ListsType
  <2> HIDE DEF r
  <2> QED
    BY <1>2, <2>1, <2>2, ExceptIsWith
<1> HIDE DEF next
<1>7. r \in Heads /\ r.head = next /\ r.tail = lists[l].tail /\ r.count = ct
  BY <1>2, <1>5 DEF Heads
<1>8. /\ op' \in Ops /\ op'.name = op.name /\ op'.list = l /\ op'.source = op.source
      /\ op'.i = op.i + 1
  <2> DEFINE i == op.i + 1
             o == [op EXCEPT !.i = i]
  <2>1. op' = o
    BY DEF FreeNode
  <2>2. i \in Nat
    BY <1>2
  <2> HIDE DEF i
  <2>3. o \in Ops /\ o.name = op.name /\ o.list = op.list /\ o.source = op.source /\ o.i = i
    BY <1>2, <2>2 DEF Ops
  <2> QED
    BY <2>1, <2>3 DEF i
<1>9. /\ Changes(heap, Chains, l, g, c, Tail(Contents(heap, Chains[l])))
      /\ Len(c) = m - 1 /\ \A k \in 1..(m - 1) : c[k] = Chains[l][k + 1]
  BY <1>2, DropFront
<1> HIDE DEF r, g, c
<1>10. /\ Live' = Live /\ lists' \in [Live -> Heads] /\ EmptyInv'
       /\ lists'[l] = r /\ \A x \in Live \ {l} : lists'[x] = lists[x]
  <2>1. r.count # 0
    BY <1>1, <1>2, <1>7
  <2> QED
    BY <2>1, <1>2, <1>6, <1>7, SetsList
<1>11. Sizes'[l] = Len(c) /\ \A x \in Live \ {l} : Sizes'[x] = Sizes[x]
  <2>1. Sizes'[l] = lists'[l].count - op'.i
    BY <1>1, <1>2, <1>8, <1>10 DEF Sizes
  <2>2. Sizes'[l] = Len(c)
    BY <2>1, <1>2, <1>7, <1>8, <1>9, <1>10
  <2> QED
    BY <2>2, <1>8, <1>10 DEF Sizes
<1>12. Len(c) > 0 => r.head = c[1] /\ r.tail = c[Len(c)]
  <2> SUFFICES ASSUME Len(c) > 0
               PROVE  r.head = c[1] /\ r.tail = c[Len(c)]
    OBVIOUS
  <2>1. 1 \in 1..(m - 1) /\ m - 1 \in 1..(m - 1) /\ m # 1 /\ (m - 1) + 1 = m /\ 1 + 1 = 2
    BY <1>2, <1>9
  <2>2. c[1] = Chains[l][2] /\ c[m - 1] = Chains[l][m]
    BY <2>1, <1>9
  <2> QED
    BY <2>1, <2>2, <1>3, <1>5, <1>7, <1>9
<1>13. /\ FitsInv' /\ \A x \in Live \ {l} : Chains'[x] = Chains[x]
  <2>1. Shape(heap', With(Chains, l, c))
    BY <1>4, <1>9 DEF Changes
  <2> QED
    BY <2>1, <1>2, <1>6, <1>11, <1>12, UpdateFits
<1>14. \A x \in Live \ {l} : Content(x)' = Content(x)
  BY <1>2, <1>4, <1>9, <1>13 DEF Changes, Content
<1>15. ListsType'
  BY <1>1, <1>2, <1>8, <1>10 DEF ListsType, Freeing
<1>16. WalkInv' /\ CopyInv'
  BY <1>1, <1>8 DEF WalkInv, CopyInv, Freeing, Copies
<1>17. FreeInv'
  BY <1>1, <1>2, <1>7, <1>8, <1>10 DEF FreeInv
<1>18. Silent
  BY <1>1, <1>8, <1>10, <1>14 DEF Silent, Freeing
<1> QED
  BY <1>10, <1>13, <1>15, <1>16, <1>17, <1>18 DEF IInv


(* The list has no nodes left, and is set to be empty. *)
LEMMA Emptied ==
  ASSUME IInv, op.name \in Freeing, op.i = lists[op.list].count,
         heap' = heap, lists' = With(lists, op.list, Empty),
         op'.name \notin Freeing, NEW l, l = op.list
  PROVE  /\ l \in Live /\ Live' = Live /\ FitsInv' /\ EmptyInv'
         /\ lists' \in [Live -> Heads]
         /\ Content(l)' = <<>> /\ Chains' = Chains /\ Len(Chains[l]) = 0
         /\ \A m \in Live \ {l} : Content(m)' = Content(m)
<1> DEFINE c == Chains[l]
<1>1. /\ ListsType /\ EmptyInv /\ FitsInv /\ l \in Live
      /\ lists[l].count \in Nat /\ Len(c) = lists[l].count - op.i
      /\ DOMAIN Chains = Live /\ Shape(heap, Chains)
  BY BeingFreed
<1>2. Len(c) = 0
  BY <1>1
<1>3. With(Chains, l, c) = Chains
  <2>1. Chains = [m \in Live |-> Chains[m]]
    BY DEF Chains, ChainsOf, Live
  <2> QED
    BY <1>1, <2>1 DEF With
<1>4. Empty \in Heads /\ Empty.count = 0
  BY DEF Empty, Heads, NULL
<1>5. lists' = With(lists, l, Empty)
  OBVIOUS
<1>6. /\ Live' = Live /\ lists' \in [Live -> Heads] /\ EmptyInv'
      /\ lists'[l] = Empty /\ \A m \in Live \ {l} : lists'[m] = lists[m]
  BY <1>1, <1>4, <1>5, SetsList
<1>7. Sizes'[l] = Len(c) /\ \A m \in Live \ {l} : Sizes'[m] = Sizes[m]
  <2>1. \A m \in Live : Sizes'[m] = lists'[m].count
    BY <1>6 DEF Sizes
  <2>2. \A m \in Live \ {l} : Sizes[m] = lists[m].count
    BY DEF Sizes
  <2> QED
    BY <2>1, <2>2, <1>1, <1>2, <1>4, <1>6
<1> HIDE DEF c
<1>8. Shape(heap', With(Chains, l, c)) /\ ~ (Len(c) > 0)
  BY <1>1, <1>2, <1>3
<1>9. FitsInv' /\ Chains' = Chains
  BY <1>1, <1>3, <1>5, <1>7, <1>8, UpdateFits
<1>10. Content(l)' = <<>> /\ \A m \in Live \ {l} : Content(m)' = Content(m)
  BY <1>2, <1>9, NoContents DEF Content, c
<1> QED
  BY <1>1, <1>2, <1>6, <1>9, <1>10 DEF c

LEMMA EndsFree ==
  ASSUME IInv, EndFree
  PROVE  /\ IInv' /\ op.name = "free" /\ result' = result
         /\ \E l \in Live : Finishes(l, <<>>)
<1>0. PICK l \in Live : l = op.list
  BY DEF IInv, ListsType, EndFree, Freed
<1>1. /\ op.name = "free" /\ op.i = lists[op.list].count
      /\ op' = NoCall /\ before' = <<>> /\ heap' = heap /\ result' = result
  BY DEF EndFree, Freed, Return
<1>2. NoCall.name = "none" /\ NoCall \in Ops
  BY DEF NoCall, Ops, Names, NULL
<1>3. /\ Live' = Live /\ FitsInv' /\ EmptyInv'
      /\ lists' \in [Live -> Heads] /\ Content(l)' = <<>>
      /\ \A m \in Live \ {l} : Content(m)' = Content(m)
  <2>1. lists' = With(lists, op.list, Empty)
    BY <1>0, ExceptIsWith DEF IInv, ListsType, EndFree
  <2> QED
    BY <2>1, <1>0, <1>1, <1>2, Emptied DEF Freeing
<1>4. ListsType'
  BY <1>1, <1>2, <1>3 DEF IInv, ListsType, Copies
<1>5. WalkInv' /\ FreeInv' /\ CopyInv'
  BY <1>1, BetweenCalls
<1>6. Finishes(l, <<>>)
  BY <1>0, <1>1, <1>3 DEF Finishes, Becomes
<1> QED
  BY <1>1, <1>3, <1>4, <1>5, <1>6 DEF IInv

LEMMA EndsFreeOfAssign ==
  ASSUME IInv, EndFreeOfAssign
  PROVE  IInv' /\ Silent
<1>1. /\ op.name = "assign" /\ op.i = lists[op.list].count
      /\ before' = before /\ heap' = heap /\ result' = result
  BY DEF EndFreeOfAssign, Freed
<1>2. ListsType /\ EmptyInv /\ FitsInv /\ op \in Ops
  BY <1>1 DEF IInv, ListsType
<1>3. PICK l \in Live : l = op.list
  BY <1>1, <1>2 DEF ListsType
<1>4. PICK source \in Live \ {l} : source = op.source
  BY <1>1, <1>2, <1>3 DEF ListsType
<1> DEFINE node == lists[source].head
           nodes == Chains[source]
<1>5. PICK name :
        /\ name \in {"copy to", "iterate to"}
        /\ op' = [op EXCEPT !.name = name, !.node = lists[op.source].head, !.i = 0]
  BY DEF EndFreeOfAssign
<1>6. lists[source] \in Heads /\ node \in Nat
  BY <1>2 DEF ListsType, Heads
<1> HIDE DEF node, nodes
<1>7. /\ op' \in Ops /\ op'.name \in {"copy to", "iterate to"}
      /\ op'.list = l /\ op'.source = source /\ op'.node = node
  <2> DEFINE o == [[[op EXCEPT !.name = name] EXCEPT !.node = node] EXCEPT !.i = 0]
  <2>1. op' = o
    BY <1>4, <1>5 DEF node
  <2>2. name \in Names
    BY <1>5 DEF Names, Copies
  <2>3. /\ o \in Ops /\ o.name = name /\ o.list = op.list /\ o.source = op.source
        /\ o.node = node
    BY <1>2, <1>6, <2>2 DEF Ops
  <2> QED
    BY <2>1, <2>3, <1>3, <1>4, <1>5
<1>8. /\ Live' = Live /\ FitsInv' /\ EmptyInv' /\ lists' \in [Live -> Heads]
      /\ Chains' = Chains /\ Len(Chains[l]) = 0
      /\ \A m \in Live \ {l} : Content(m)' = Content(m)
  <2>1. lists' = With(lists, op.list, Empty)
    <3>1. lists' = [lists EXCEPT ![op.list] = Empty]
      BY DEF EndFreeOfAssign
    <3>2. lists \in [Live -> Heads] /\ op.list \in Live
      BY <1>2, <1>3 DEF ListsType
    <3> QED
      BY <3>1, <3>2, ExceptIsWith
  <2> QED
    BY <2>1, <1>1, <1>3, <1>7, Emptied DEF Freeing
<1>9. ListsType'
  BY <1>2, <1>7, <1>8 DEF ListsType
<1>10. WalkInv' /\ FreeInv'
  BY <1>7 DEF WalkInv, FreeInv, Freeing
<1>11. node = IF Len(nodes) = 0 THEN NULL ELSE nodes[1]
  <2>1. lists[source].count = 0 => node = NULL
    <3>1. lists[source].count = 0 => lists[source] = Empty
      BY <1>2, <1>4 DEF EmptyInv
    <3>2. Empty.head = NULL
      BY DEF Empty
    <3> QED
      BY <3>1, <3>2 DEF node
  <2>2. Sizes[source] = lists[source].count
    BY <1>3, <1>4, SizesAre
  <2>3. Len(nodes) = lists[source].count /\ (lists[source].count > 0 => node = nodes[1])
    BY <1>2, <2>2, OneList DEF node, nodes
  <2>4. lists[source].count \in Nat
    BY <1>6 DEF Heads
  <2>5. CASE Len(nodes) = 0
    BY <2>1, <2>3, <2>5
  <2>6. CASE Len(nodes) # 0
    BY <2>3, <2>4, <2>6
  <2> QED
    BY <2>5, <2>6
<1>12. CopyInv'
  <2>1. Chains'[op'.source] = nodes /\ Len(Chains'[op'.list]) = 0 /\ op'.node = node
    BY <1>7, <1>8 DEF nodes
  <2>2. Len(nodes) \in Nat
    BY <1>2, <1>4, OneList, OneChain DEF nodes
  <2> DEFINE f == Chains'[op'.source]
             t == Chains'[op'.list]
  <2>3. Len(t) = 0 /\ f = nodes /\ op'.node = node
    BY <2>1
  <2> HIDE DEF t, f
  <2>4. /\ Len(t) <= Len(f)
        /\ op'.node = IF Len(t) = Len(f) THEN NULL ELSE f[Len(t) + 1]
    <3>1. CASE Len(f) = 0
      BY <3>1, <2>3, <1>11
    <3>2. CASE Len(f) # 0
      BY <3>2, <2>2, <2>3, <1>11
    <3> QED
      BY <3>1, <3>2
  <2>5. \A k \in 1..Len(t) : heap'[t[k]].data = heap'[f[k]].data
    BY <2>3
  <2> QED
    BY <2>4, <2>5 DEF CopyInv, t, f
<1>13. Silent
  BY <1>1, <1>3, <1>7, <1>8 DEF Silent
<1> QED
  BY <1>8, <1>9, <1>10, <1>12, <1>13 DEF IInv

LEMMA EndsDestroy ==
  ASSUME IInv, EndDestroy
  PROVE  /\ IInv' /\ op.name = "destroy" /\ op' = NoCall /\ result' = result
         /\ op.list \in Live /\ Live' = Live \ {op.list}
         /\ \A m \in Live \ {op.list} : Content(m)' = Content(m)
<1>1. /\ op.name = "destroy" /\ op.i = lists[op.list].count
      /\ op' = NoCall /\ before' = <<>> /\ heap' = heap /\ result' = result
      /\ lists' = Without(lists, op.list)
  BY DEF EndDestroy, Freed, Return
<1>2. PICK l \in Live : l = op.list
  BY <1>1 DEF IInv, ListsType
<1> DEFINE C == Without(Chains, l)
<1>3. /\ ListsType /\ EmptyInv /\ FitsInv /\ lists[l].count \in Nat
      /\ Len(Chains[l]) = lists[l].count - op.i
      /\ DOMAIN Chains = Live /\ Shape(heap, Chains)
  BY <1>1, <1>2, BeingFreed DEF Freeing
<1>4. /\ Live' = Live \ {l} /\ \A m \in Live' : lists'[m] = lists[m]
  BY <1>1, <1>2 DEF Live, Without
<1>5. Shape(heap', C)
  <2>1. Len(Chains[l]) = 0
    BY <1>1, <1>2, <1>3
  <2> QED
    BY <2>1, <1>1, <1>3, DropList
<1>6. C = [m \in Live' |-> C[m]] /\ \A m \in Live' : C[m] = Chains[m]
  BY <1>3, <1>4 DEF Without
<1> HIDE DEF C
<1>7. NoCall.name = "none" /\ NoCall \in Ops
  BY DEF NoCall, Ops, Names, NULL
<1>8. \A m \in Live' : Sizes'[m] = Sizes[m]
  <2>1. \A m \in Live' : Sizes'[m] = lists'[m].count
    BY <1>1, <1>7 DEF Sizes, Freeing
  <2>2. \A m \in Live' : Sizes[m] = lists[m].count
    BY <1>2, <1>4 DEF Sizes
  <2> QED
    BY <2>1, <2>2, <1>4
<1>9. FitsInv' /\ Chains' = C
  <2>1. \A m \in Live' :
          /\ Len(C[m]) = Sizes'[m]
          /\ Sizes'[m] > 0 => lists'[m].head = C[m][1] /\ lists'[m].tail = C[m][Sizes'[m]]
    BY <1>3, <1>4, <1>6, <1>8, OneList
  <2>2. Fits(heap', lists', Sizes', C)
    BY <2>1, <1>5, <1>6 DEF Fits, Live
  <2> QED
    BY <2>2, StepFits
<1>10. ListsType'
  <2>1. lists' = [m \in Live' |-> lists'[m]]
    BY <1>1 DEF Without, Live
  <2>2. Live' \subseteq Lists /\ lists' \in [Live' -> Heads]
    BY <2>1, <1>3, <1>4 DEF ListsType
  <2> QED
    BY <2>2, <1>1, <1>7 DEF ListsType, Copies
<1>11. EmptyInv'
  BY <1>3, <1>4 DEF EmptyInv
<1>12. WalkInv' /\ FreeInv' /\ CopyInv'
  BY <1>1, BetweenCalls
<1>13. \A m \in Live \ {l} : Content(m)' = Content(m)
  BY <1>1, <1>4, <1>6, <1>9 DEF Content
<1> QED
  BY <1>1, <1>2, <1>4, <1>9, <1>10, <1>11, <1>12, <1>13 DEF IInv

-----------------------------------------------------------------------------
(* Lists are copied. *)

(* A copy that is being made, and its source. *)
LEMMA BeingCopied ==
  ASSUME IInv, op.name \in Copies, NEW l, l = op.list, NEW k, k = op.source
  PROVE  /\ ListsType /\ EmptyInv /\ FitsInv /\ op \in Ops
         /\ l \in Live /\ k \in Live \ {l} /\ Sizes[l] = lists[l].count
         /\ DOMAIN Chains = Live /\ Shape(heap, Chains)
         /\ Len(Chains[l]) \in Nat /\ Len(Chains[k]) \in Nat
         /\ Len(Chains[l]) = lists[l].count
         /\ Len(Chains[l]) <= Len(Chains[k])
         /\ \A j \in 1..Len(Chains[l]) : heap[Chains[l][j]].data = heap[Chains[k][j]].data
         /\ op.node = IF Len(Chains[l]) = Len(Chains[k]) THEN NULL
                      ELSE Chains[k][Len(Chains[l]) + 1]
         /\ MoreToCopy <=> op.node # NULL
         /\ op.node # NULL <=> Len(Chains[l]) # Len(Chains[k])
<1>1. ListsType /\ EmptyInv /\ FitsInv /\ CopyInv
  BY DEF IInv
<1>2. op \in Ops /\ l \in Live /\ k \in Live \ {l}
  BY <1>1 DEF ListsType, Copies
<1>3. /\ DOMAIN Chains = Live /\ Shape(heap, Chains) /\ Sizes[l] = lists[l].count
      /\ Len(Chains[l]) = lists[l].count
  BY <1>1, <1>2, OneList DEF Freeing, Copies
<1>4. Len(Chains[l]) \in Nat /\ Len(Chains[k]) \in Nat
  BY <1>2, <1>3, OneChain
<1>5. /\ Len(Chains[l]) <= Len(Chains[k])
      /\ \A j \in 1..Len(Chains[l]) : heap[Chains[l][j]].data = heap[Chains[k][j]].data
      /\ op.node = IF Len(Chains[l]) = Len(Chains[k]) THEN NULL
                   ELSE Chains[k][Len(Chains[l]) + 1]
  BY <1>1 DEF CopyInv
<1>6. MoreToCopy <=> op.node # NULL
  BY DEF MoreToCopy, NotEqual
<1>7. Len(Chains[l]) # Len(Chains[k]) => Chains[k][Len(Chains[l]) + 1] # NULL
  <2> SUFFICES ASSUME Len(Chains[l]) # Len(Chains[k])
               PROVE  Chains[k][Len(Chains[l]) + 1] # NULL
    OBVIOUS
  <2>1. Len(Chains[l]) + 1 \in 1..Len(Chains[k])
    BY <1>4, <1>5
  <2>2. Chains[k][Len(Chains[l]) + 1] \in DOMAIN heap
    BY <2>1, <1>2, <1>3, OneChain
  <2> QED
    BY <2>2, <1>3 DEF Shape, Addresses
<1> QED
  BY <1>1, <1>2, <1>3, <1>4, <1>5, <1>6, <1>7


LEMMA CopiesElement ==
  ASSUME IInv, CopyElement
  PROVE  IInv' /\ Silent
<1>1. /\ op.name \in Copies /\ MoreToCopy
      /\ result' = result /\ before' = before
  BY DEF CopyElement, Copying, Copies
<1>2. PICK l \in Live : l = op.list
  BY <1>1 DEF IInv, ListsType, Copies
<1>3. PICK k : k = op.source
  OBVIOUS
<1> DEFINE from == Chains[k]
           n == Len(Chains[l])
           m == Len(from)
           node == from[n + 1]
           d == heap[node].data
<1>4. /\ ListsType /\ EmptyInv /\ FitsInv /\ op \in Ops
      /\ k \in Live \ {l} /\ Sizes[l] = lists[l].count
      /\ DOMAIN Chains = Live /\ Shape(heap, Chains)
      /\ n \in Nat /\ m \in Nat /\ n = lists[l].count /\ n < m
      /\ \A j \in 1..n : heap[Chains[l][j]].data = heap[from[j]].data
      /\ op.node = node
  BY <1>1, <1>2, <1>3, BeingCopied
<1>5. n + 1 \in 1..m
  BY <1>4
<1>6. /\ d \in Data /\ getNext(node) \in Nat
      /\ getNext(node) = IF n + 1 = m THEN NULL ELSE from[(n + 1) + 1]
  <2>1. /\ heap[node] \in Node
        /\ heap[node].next = IF n + 1 = m THEN NULL ELSE from[(n + 1) + 1]
    BY <1>4, <1>5, OneChain
  <2> QED
    BY <2>1 DEF Node, getNext
<1> HIDE DEF d, node
<1>7. PutBack(l, d)
  BY <1>2, <1>4 DEF CopyElement, d
<1>8. PICK a \in Addresses, r \in Heads :
        LET c == Append(Chains[l], a)
        IN  /\ Changes(heap, Chains, l, heap', c, Append(Content(l), d))
            /\ lists' = With(lists, l, r)
            /\ Len(c) = lists[l].count + 1 /\ r.count = Len(c)
            /\ r.head = c[1] /\ r.tail = c[Len(c)]
  BY <1>4, <1>6, <1>7, PutsBack
<1> DEFINE c == Append(Chains[l], a)
<1>9. /\ Shape(heap', With(Chains, l, c)) /\ Contents(heap', c) = Append(Content(l), d)
      /\ \A x \in Live \ {l} : Contents(heap', Chains[x]) = Contents(heap, Chains[x])
      /\ lists' = With(lists, l, r) /\ Len(c) = n + 1 /\ r.count = n + 1
      /\ r.head = c[1] /\ r.tail = c[Len(c)]
  BY <1>4, <1>8 DEF Changes
<1> HIDE DEF c
<1>10. /\ op' \in Ops /\ op'.name = op.name /\ op'.list = l /\ op'.source = k
       /\ op'.node = getNext(node) /\ op'.i = op.i
  <2> DEFINE o == [op EXCEPT !.node = getNext(node)]
  <2>1. op' = o
    BY <1>4 DEF CopyElement
  <2>2. getNext(node) \in Nat
    BY <1>6
  <2>3. /\ o \in Ops /\ o.name = op.name /\ o.list = op.list /\ o.source = op.source
        /\ o.node = getNext(node) /\ o.i = op.i
    BY <1>4, <2>2 DEF Ops
  <2> QED
    BY <2>1, <2>3, <1>2, <1>3
<1>11. /\ Live' = Live /\ lists' \in [Live -> Heads] /\ EmptyInv'
       /\ lists'[l] = r /\ \A x \in Live \ {l} : lists'[x] = lists[x]
  <2>1. r.count # 0
    BY <1>4, <1>9
  <2> QED
    BY <2>1, <1>4, <1>9, SetsList
<1>12. Sizes'[l] = Len(c) /\ \A x \in Live \ {l} : Sizes'[x] = Sizes[x]
  <2>1. \A x \in Live : Sizes'[x] = lists'[x].count /\ Sizes[x] = lists[x].count
    BY <1>1, <1>10, <1>11 DEF Sizes, Freeing, Copies
  <2> QED
    BY <2>1, <1>9, <1>11
<1>13. /\ FitsInv' /\ Chains'[l] = c /\ \A x \in Live \ {l} : Chains'[x] = Chains[x]
  BY <1>4, <1>9, <1>12, UpdateFits
<1>14. \A x \in Live \ {l} : Content(x)' = Content(x)
  BY <1>9, <1>13 DEF Content
<1>15. ListsType'
  BY <1>1, <1>4, <1>10, <1>11 DEF ListsType, Copies
<1>16. WalkInv' /\ FreeInv'
  BY <1>1, <1>10 DEF WalkInv, FreeInv, Freeing, Copies
<1>17. \A j \in 1..(n + 1) : heap'[c[j]].data = heap'[from[j]].data
  <2>1. \A j \in 1..m : heap'[from[j]].data = heap[from[j]].data
    <3>1. Contents(heap', from) = Contents(heap, from)
      BY <1>4, <1>9
    <3>2. \A j \in 1..m : /\ Contents(heap', from)[j] = heap'[from[j]].data
                          /\ Contents(heap, from)[j] = heap[from[j]].data
      BY DEF Contents
    <3> QED
      BY <3>1, <3>2
  <2>2. \A j \in 1..(n + 1) : heap'[c[j]].data = Append(Content(l), d)[j]
    <3>1. \A j \in 1..(n + 1) : Contents(heap', c)[j] = heap'[c[j]].data
      BY <1>9 DEF Contents
    <3> QED
      BY <3>1, <1>9
  <2>3. /\ Content(l) \in Seq(Data) /\ Len(Content(l)) = n
        /\ \A j \in 1..n : Content(l)[j] = heap[Chains[l][j]].data
    <3>1. \A j \in 1..n : heap[Chains[l][j]].data \in Data
      BY <1>4, OneChain DEF Node
    <3> QED
      BY <3>1, <1>4 DEF Content, Contents
  <2>4. /\ \A j \in 1..n : Append(Content(l), d)[j] = Content(l)[j]
        /\ Append(Content(l), d)[n + 1] = d
    BY <2>3, <1>6, AppendProperties
  <2>5. \A j \in 1..n : j \in 1..m /\ j \in 1..(n + 1)
    BY <1>4
  <2>6. \A j \in 1..n : heap'[c[j]].data = heap'[from[j]].data
    BY <2>1, <2>2, <2>3, <2>4, <2>5, <1>4
  <2>7. heap'[c[n + 1]].data = heap'[from[n + 1]].data
    <3>1. n + 1 \in 1..(n + 1) /\ d = heap[from[n + 1]].data
      BY <1>4 DEF d, node
    <3> QED
      BY <2>1, <2>2, <2>4, <3>1, <1>5
  <2> QED
    BY <2>6, <2>7, <1>4
<1>18. CopyInv'
  <2>1. Chains'[op'.list] = c /\ Chains'[op'.source] = from /\ Len(c) = n + 1
    BY <1>4, <1>9, <1>10, <1>13
  <2>2. Len(c) <= Len(from)
    BY <1>4, <1>9
  <2>3. op'.node = IF Len(c) = Len(from) THEN NULL ELSE from[Len(c) + 1]
    BY <1>6, <1>9, <1>10
  <2> HIDE DEF n, from
  <2> QED
    BY <2>1, <2>2, <2>3, <1>17 DEF CopyInv
<1>19. Silent
  BY <1>1, <1>2, <1>10, <1>11, <1>14 DEF Silent, Copies
<1> QED
  BY <1>11, <1>13, <1>15, <1>16, <1>18, <1>19 DEF IInv

LEMMA EndsCopy ==
  ASSUME IInv, EndCopy
  PROVE  /\ IInv' /\ op.name \in Copies /\ op' = NoCall /\ result' = result
         /\ op.list \in Live /\ op.source \in Live \ {op.list}
         /\ Content(op.list) = Content(op.source)
         /\ Live' = Live /\ \A m \in Live : Content(m)' = Content(m)
<1>1. /\ op.name \in Copies /\ ~MoreToCopy /\ op' = NoCall /\ before' = <<>>
      /\ heap' = heap /\ lists' = lists /\ result' = result
  BY DEF EndCopy, Return, Copying, Copies
<1> DEFINE from == Chains[op.source]
           copied == Chains[op.list]
<1>2. /\ ListsType /\ EmptyInv /\ FitsInv
      /\ op.list \in Live /\ op.source \in Live \ {op.list}
      /\ Len(copied) \in Nat /\ Len(copied) = Len(from)
      /\ \A j \in 1..Len(copied) : heap[copied[j]].data = heap[from[j]].data
  BY <1>1, BeingCopied
<1>3. Content(op.list) = Content(op.source)
  BY <1>2 DEF Content, Contents
<1>4. NoCall.name = "none" /\ NoCall \in Ops
  BY DEF NoCall, Ops, Names, NULL
<1>5. Sizes' = Sizes
  BY <1>1, <1>4 DEF Sizes, Live, Freeing, Copies
<1>6. FitsInv' /\ Chains' = Chains
  BY <1>1, <1>2, <1>5, SameFits
<1>7. ListsType' /\ EmptyInv' /\ Live' = Live
  BY <1>1, <1>2, <1>4 DEF ListsType, EmptyInv, Live, Copies
<1>8. WalkInv' /\ FreeInv' /\ CopyInv'
  BY <1>1, BetweenCalls
<1> QED
  BY <1>1, <1>2, <1>3, <1>6, <1>7, <1>8 DEF IInv, Content


-----------------------------------------------------------------------------
(* The invariant. *)

LEMMA Asks ==
  ASSUME IInv, NEW l \in Lists, PopEmpty(l) \/ isEmpty(l) \/ noElements(l)
  PROVE  /\ l \in Live /\ op.name = "none" /\ op' = op
         /\ IInv' /\ Becomes(l, Content(l))
         /\ \/ Content(l) = <<>> /\ result' \in Data
            \/ result' \in {Len(Content(l)), IF Content(l) = <<>> THEN 1 ELSE 0}
<1>1. /\ l \in Live /\ op.name = "none" /\ UNCHANGED <<heap, lists, op, before>>
  BY DEF PopEmpty, isEmpty, noElements, Idle
<1>2. /\ Len(Chains[l]) = lists[l].count /\ lists[l].count \in Nat
  BY <1>1, OneList DEF IInv, ListsType, Freeing, Heads
<1>3. Len(Content(l)) = lists[l].count /\ (Content(l) = <<>> <=> lists[l].count = 0)
  <2>1. Content(l) = [k \in 1..lists[l].count |-> heap[Chains[l][k]].data]
    BY <1>2 DEF Content, Contents
  <2> QED
    BY <2>1, <1>2
<1>4. \/ Content(l) = <<>> /\ result' \in Data
      \/ result' \in {Len(Content(l)), IF Content(l) = <<>> THEN 1 ELSE 0}
  <2>1. CASE PopEmpty(l)
    BY <2>1, <1>3 DEF PopEmpty
  <2>2. CASE isEmpty(l)
    BY <2>2, <1>2, <1>3 DEF isEmpty
  <2>3. CASE noElements(l)
    BY <2>3, <1>3 DEF noElements
  <2> QED
    BY <2>1, <2>2, <2>3
<1> QED
  BY <1>1, <1>4, Unchanged DEF Becomes

LEMMA Initially == Init => IInv
<1> SUFFICES ASSUME Init
             PROVE  IInv
  OBVIOUS
<1>1. /\ heap = <<>> /\ lists = <<>> /\ op = NoCall
  BY DEF Init
<1>2. NoCall.name = "none" /\ NoCall \in Ops
  BY DEF NoCall, Ops, Names, NULL
<1>3. DOMAIN heap = {} /\ DOMAIN lists = {} /\ Live = {}
  BY <1>1 DEF Live
<1>4. ListsType /\ EmptyInv
  BY <1>1, <1>2, <1>3 DEF ListsType, EmptyInv, Copies
<1>5. Chains = [l \in {} |-> Path(heap, lists[l].head, Sizes[l])]
  BY <1>3 DEF Chains, ChainsOf
<1>6. DOMAIN Chains = {} /\ Chains = [l \in {} |-> Chains[l]]
  BY <1>5
<1>7. Shape(heap, Chains)
  <2>1. IsFiniteSet(DOMAIN heap)
    BY <1>3, FS_EmptySet
  <2>2. heap \in [DOMAIN heap -> Node]
    BY <1>1
  <2> QED
    BY <2>1, <2>2, <1>3, <1>6 DEF Shape
<1>8. FitsInv
  BY <1>3, <1>6, <1>7 DEF FitsInv, Fits
<1>9. WalkInv /\ FreeInv /\ CopyInv
  BY <1>1, <1>2 DEF WalkInv, FreeInv, CopyInv, Freeing, Copies
<1> QED
  BY <1>4, <1>8, <1>9 DEF IInv

LEMMA Inductive == IInv /\ [Next]_vars => IInv'
<1> SUFFICES ASSUME IInv, [Next]_vars
             PROVE  IInv'
  OBVIOUS
<1>1. ASSUME NEW l \in Lists, Construct(l) PROVE IInv'
  BY <1>1, Constructs
<1>2. ASSUME NEW l \in Lists, NEW d \in Data, pushFront(l, d) PROVE IInv'
  BY <1>2, PushFront
<1>3. ASSUME NEW l \in Lists, NEW d \in Data, pushBack(l, d) PROVE IInv'
  BY <1>3, PushBack
<1>4. ASSUME NEW l \in Lists, PopEmpty(l) \/ isEmpty(l) \/ noElements(l) PROVE IInv'
  BY <1>4, Asks
<1>5. ASSUME NEW l \in Lists, popFront(l) PROVE IInv'
  BY <1>5, PopFront
<1>6. ASSUME NEW l \in Lists, StartPopBack(l) PROVE IInv'
  BY <1>6, StartsPopBack
<1>7. ASSUME NEW l \in Lists, StartFree(l) PROVE IInv'
  BY <1>7, StartsFree
<1>8. ASSUME NEW l \in Lists, NEW source \in Lists, CopyConstruct(l, source) PROVE IInv'
  BY <1>8, StartsCopy
<1>9. ASSUME NEW l \in Lists, NEW source \in Lists, StartAssign(l, source) PROVE IInv'
  BY <1>9, StartsAssign
<1>10. CASE Continue
  BY <1>10, WalksBack, EndsPopBack, FreesNode, EndsFree, EndsDestroy, EndsFreeOfAssign,
     CopiesElement, EndsCopy DEF Continue
<1>11. CASE UNCHANGED vars
  BY <1>11, Unchanged DEF vars
<1> QED
  BY <1>1, <1>2, <1>3, <1>4, <1>5, <1>6, <1>7, <1>8, <1>9, <1>10, <1>11 DEF Next

(* The inductive invariant: where each list begins and ends, that its      *)
(* nodes are a chain of their own, and how far the call is.                *)
THEOREM Invariant == Spec => []IInv
BY Initially, Inductive, PTL DEF Spec

LEMMA HeapHolds == IInv => HeapIsTheLists
<1> SUFFICES ASSUME IInv, op.name = "none"
             PROVE  HeapIsTheLists
  BY DEF HeapIsTheLists
<1>1. \A l \in Live : /\ Nodes(l) = Chains[l] /\ Len(Chains[l]) = lists[l].count
                      /\ lists[l].count \in Nat
                      /\ lists[l].count > 0 => lists[l].tail = Chains[l][lists[l].count]
  <2> TAKE l \in Live
  <2>1. ListsType /\ FitsInv /\ Sizes[l] = lists[l].count /\ lists[l] \in Heads
    BY SizesAre DEF IInv, ListsType, Freeing
  <2> QED
    BY <2>1, ElementsAre, OneList DEF Heads
<1>2. DOMAIN Chains = Live /\ Shape(heap, Chains)
  BY DEF IInv, FitsInv, Fits, Chains, ChainsOf, Live
<1>3. ASSUME NEW l \in Live, lists[l].count # 0
      PROVE  /\ lists[l].tail = Nodes(l)[lists[l].count]
             /\ getNext(lists[l].tail) = NULL
  <2>1. lists[l].count \in 1..Len(Chains[l]) /\ lists[l].count > 0
    BY <1>1, <1>3
  <2>2. heap[Chains[l][lists[l].count]].next = NULL
    BY <2>1, <1>1, <1>2, OneChain
  <2> QED
    BY <2>1, <2>2, <1>1 DEF getNext
<1>4. \A l \in Live : IF lists[l].count = 0 THEN lists[l] = Empty
                      ELSE /\ lists[l].tail = Nodes(l)[lists[l].count]
                           /\ getNext(lists[l].tail) = NULL
  BY <1>3 DEF IInv, EmptyInv
<1>5. DOMAIN heap = UNION {{Nodes(l)[k] : k \in 1..lists[l].count} : l \in Live}
  <2>1. \A a \in DOMAIN heap : \E l \in Live : \E k \in 1..lists[l].count : a = Nodes(l)[k]
    BY <1>1, <1>2 DEF Shape
  <2>2. \A l \in Live : \A k \in 1..lists[l].count : Nodes(l)[k] \in DOMAIN heap
    BY <1>1, <1>2, OneChain
  <2> DEFINE Own(l) == {Nodes(l)[k] : k \in 1..lists[l].count}
  <2>3. \A l \in Live : \A a : a \in Own(l) <=> \E k \in 1..lists[l].count : a = Nodes(l)[k]
    OBVIOUS
  <2> HIDE DEF Own
  <2>4. DOMAIN heap = UNION {Own(l) : l \in Live}
    <3>1. ASSUME NEW a \in DOMAIN heap
          PROVE  a \in UNION {Own(l) : l \in Live}
      <4>1. PICK l \in Live : \E k \in 1..lists[l].count : a = Nodes(l)[k]
        BY <2>1
      <4>2. a \in Own(l)
        BY <4>1, <2>3
      <4> QED
        BY <4>2
    <3>2. ASSUME NEW a \in UNION {Own(l) : l \in Live}
          PROVE  a \in DOMAIN heap
      <4>1. PICK l \in Live : a \in Own(l)
        OBVIOUS
      <4> QED
        BY <4>1, <2>2, <2>3
    <3> QED
      BY <3>1, <3>2
  <2> QED
    BY <2>4 DEF Own
<1>6. \A l, m \in Live : \A j \in 1..lists[l].count, k \in 1..lists[m].count :
        Nodes(l)[j] = Nodes(m)[k] => l = m /\ j = k
  BY <1>1, <1>2 DEF Shape
<1> QED
  BY <1>4, <1>5, <1>6 DEF HeapIsTheLists

(* Nothing is leaked and nothing shared: between the calls each node of    *)
(* the heap is in one list, once, and each list ends where it says.        *)
THEOREM HeapIsAlwaysTheLists == Spec => []HeapIsTheLists
BY Invariant, HeapHolds, PTL


-----------------------------------------------------------------------------
(* The deques. *)

(* What a caller sees, by the chains. *)
Seen == [l \in Visible |-> IF op.name # "none" /\ l = op.list THEN before ELSE Content(l)]

ViewIsSeen == View = Seen

LEMMA ViewIs == IInv => ViewIsSeen
<1> SUFFICES ASSUME IInv, NEW l \in Visible, ~ (op.name # "none" /\ l = op.list)
             PROVE  Elements(l) = Content(l)
  BY DEF View, Seen, ViewIsSeen
<1>1. l \in Live /\ Sizes[l] = lists[l].count
  BY SizesAre DEF Visible, Freeing
<1> QED
  BY <1>1, ElementsAre DEF IInv

LEMMA ViewIsNext == IInv' => ViewIsSeen'
BY ViewIs, PTL

LEMMA SilentSees ==
  ASSUME Silent
  PROVE  Seen' = Seen
<1>1. Visible' = Visible
  BY DEF Silent, Visible
<1>2. \A l \in Visible : l # op.list => Content(l)' = Content(l)
  BY DEF Silent, Visible
<1> QED
  BY <1>1, <1>2 DEF Silent, Seen

(* A call of l begins. *)
LEMMA StartSees ==
  ASSUME op.name = "none", op'.name # "none", op'.name # "copy",
         NEW l \in Live, op'.list = l, before' = Content(l),
         Live' = Live, \A m \in Live : Content(m)' = Content(m)
  PROVE  Seen' = Seen
BY DEF Seen, Visible

LEMMA CopySees ==
  ASSUME op.name = "none", op'.name = "copy",
         NEW l, op'.list = l, l \notin Live, Live' = Live \cup {l},
         \A m \in Live : Content(m)' = Content(m)
  PROVE  Seen' = Seen
<1>1. Visible' = Live /\ Visible = Live
  BY DEF Visible
<1> QED
  BY <1>1 DEF Seen

(* An operation on l is done, with or without a call. *)
LEMMA UpdateSees ==
  ASSUME NEW l \in Live, NEW s, Becomes(l, s), op'.name = "none",
         op.name = "none" \/ (op.name # "copy" /\ op.list = l)
  PROVE  /\ l \in DOMAIN Seen /\ Seen' = [Seen EXCEPT ![l] = s]
         /\ Seen[l] = IF op.name = "none" THEN Content(l) ELSE before
<1>1. Visible' = Live /\ Visible = Live
  BY DEF Visible, Becomes
<1> QED
  BY <1>1 DEF Seen, Becomes


LEMMA StepImplements ==
  IInv /\ IInv' /\ [Next]_vars => [Abstract!Next]_<<View, result>>
<1> SUFFICES ASSUME IInv, IInv', [Next]_vars
             PROVE  \/ \E l \in Lists : Abstract!Construct(l)
                    \/ \E l \in DOMAIN View :
                         \/ Abstract!Destroy(l) \/ Abstract!Push(l) \/ Abstract!Pop(l)
                         \/ Abstract!Ask(l) \/ Abstract!Assign(l)
                    \/ View' = View /\ result' = result
  BY DEF Abstract!Next
<1>1. View = Seen /\ View' = Seen'
  BY ViewIs, ViewIsNext DEF ViewIsSeen
<1>2. NoCall.name = "none" /\ (op.name = "none" => op = NoCall)
  BY DEF NoCall, IInv, ListsType
<1>3. ASSUME NEW l \in Lists, Construct(l)
      PROVE  Abstract!Construct(l)
  <2>1. /\ op.name = "none" /\ op' = op /\ result' = result
        /\ l \notin Live /\ Live' = Live \cup {l}
        /\ Content(l)' = <<>> /\ \A m \in Live : Content(m)' = Content(m)
    BY <1>3, Constructs
  <2>2. Visible = Live /\ Visible' = Live \cup {l}
    BY <2>1 DEF Visible
  <2>3. Seen' = [k \in DOMAIN Seen \cup {l} |-> IF k = l THEN <<>> ELSE Seen[k]]
    BY <2>1, <2>2 DEF Seen
  <2>4. l \notin DOMAIN Seen
    BY <2>1, <2>2 DEF Seen
  <2> QED
    BY <1>1, <2>1, <2>3, <2>4 DEF Abstract!Construct, Abstract!Make
<1>4. ASSUME NEW l \in Lists, NEW d \in Data, pushFront(l, d) \/ pushBack(l, d)
      PROVE  l \in DOMAIN View /\ Abstract!Push(l)
  <2> DEFINE s == IF pushFront(l, d) THEN <<d>> \o Content(l) ELSE Append(Content(l), d)
  <2>1. /\ l \in Live /\ op.name = "none" /\ op' = op /\ result' = result /\ Becomes(l, s)
    BY <1>4, PushFront, PushBack
  <2>2. l \in DOMAIN Seen /\ Seen' = [Seen EXCEPT ![l] = s] /\ Seen[l] = Content(l)
    BY <2>1, UpdateSees
  <2> QED
    BY <1>1, <2>1, <2>2 DEF Abstract!Push, Abstract!Replace
<1>5. ASSUME NEW l \in Lists, PopEmpty(l) \/ isEmpty(l) \/ noElements(l)
      PROVE  l \in DOMAIN View /\ (Abstract!Pop(l) \/ Abstract!Ask(l))
  <2>1. /\ l \in Live /\ op.name = "none" /\ op' = op /\ Becomes(l, Content(l))
        /\ \/ Content(l) = <<>> /\ result' \in Data
           \/ result' \in {Len(Content(l)), IF Content(l) = <<>> THEN 1 ELSE 0}
    BY <1>5, Asks
  <2>2. /\ l \in DOMAIN Seen /\ Seen' = [Seen EXCEPT ![l] = Content(l)]
        /\ Seen[l] = Content(l)
    BY <2>1, UpdateSees
  <2>3. Seen' = Seen
    BY <2>2 DEF Seen
  <2> QED
    BY <1>1, <2>1, <2>2, <2>3 DEF Abstract!Pop, Abstract!Ask
<1>6. ASSUME NEW l \in Lists, popFront(l)
      PROVE  l \in DOMAIN View /\ Abstract!Pop(l)
  <2>1. /\ l \in Live /\ op.name = "none" /\ op' = op
        /\ Content(l) # <<>>
        /\ result' = Head(Content(l)) /\ Becomes(l, Tail(Content(l)))
    BY <1>6, PopFront
  <2>2. /\ l \in DOMAIN Seen /\ Seen' = [Seen EXCEPT ![l] = Tail(Content(l))]
        /\ Seen[l] = Content(l)
    BY <2>1, UpdateSees
  <2> QED
    BY <1>1, <2>1, <2>2 DEF Abstract!Pop, Abstract!Replace
<1>7. ASSUME NEW l \in Lists, StartPopBack(l) \/ StartFree(l)
      PROVE  View' = View /\ result' = result
  <2>1. /\ l \in Live /\ op.name = "none" /\ result' = result
        /\ op'.name \in {"popBack", "free", "destroy"} /\ op'.list = l /\ before' = Content(l)
        /\ Live' = Live /\ \A m \in Live : Content(m)' = Content(m)
    BY <1>7, StartsPopBack, StartsFree
  <2>2. Seen' = Seen
    BY <2>1, StartSees
  <2> QED
    BY <1>1, <2>1, <2>2
<1>8. ASSUME NEW l \in Lists, NEW source \in Lists,
             CopyConstruct(l, source) \/ StartAssign(l, source)
      PROVE  View' = View /\ result' = result
  <2>1. CASE CopyConstruct(l, source)
    BY <2>1, <1>1, StartsCopy, CopySees
  <2>2. CASE StartAssign(l, source)
    <3>1. /\ l \in Live /\ op.name = "none" /\ result' = result
          /\ op'.name = "assign" /\ op'.list = l /\ before' = Content(l)
          /\ Live' = Live /\ \A m \in Live : Content(m)' = Content(m)
      BY <2>2, StartsAssign
    <3>2. Seen' = Seen
      BY <3>1, StartSees
    <3> QED
      BY <1>1, <3>1, <3>2
  <2> QED
    BY <1>8, <2>1, <2>2
<1>9. CASE WalkBack \/ FreeNode \/ EndFreeOfAssign \/ CopyElement
  <2>1. Silent
    BY <1>9, WalksBack, FreesNode, EndsFreeOfAssign, CopiesElement
  <2> QED
    BY <1>1, <2>1, SilentSees DEF Silent
<1>10. ASSUME NEW l \in Live, NEW s, Finishes(l, s), op.name # "copy"
       PROVE  l \in DOMAIN View /\ View' = [View EXCEPT ![l] = s] /\ View[l] = before
  <2>1. /\ op.name # "none" /\ op.list = l /\ op'.name = "none" /\ Becomes(l, s)
    BY <1>2, <1>10 DEF Finishes
  <2> QED
    BY <1>1, <1>10, <2>1, UpdateSees
<1>11. CASE EndPopBack
  <2>1. PICK l \in Live : Finishes(l, SubSeq(before, 1, Len(before) - 1))
    BY <1>11, EndsPopBack
  <2>2. before # <<>> /\ op.name # "copy" /\ result' = before[Len(before)]
    BY <1>11, EndsPopBack
  <2>3. /\ l \in DOMAIN View /\ View[l] = before
        /\ View' = [View EXCEPT ![l] = SubSeq(before, 1, Len(before) - 1)]
    BY <1>10, <2>1, <2>2
  <2>4. Abstract!Pop(l)
    BY <2>2, <2>3 DEF Abstract!Pop, Abstract!Replace
  <2> QED
    BY <2>3, <2>4
<1>12. CASE EndFree
  <2>1. PICK l \in Live : Finishes(l, <<>>)
    BY <1>12, EndsFree
  <2>2. op.name # "copy" /\ result' = result
    BY <1>12, EndsFree
  <2>3. l \in DOMAIN View /\ View' = [View EXCEPT ![l] = <<>>]
    BY <1>10, <2>1, <2>2
  <2>4. Abstract!Assign(l)
    BY <2>2, <2>3 DEF Abstract!Assign, Abstract!Replace
  <2> QED
    BY <2>3, <2>4
<1>13. CASE EndDestroy
  <2>1. /\ op.name = "destroy" /\ op' = NoCall /\ result' = result
        /\ op.list \in Live /\ Live' = Live \ {op.list}
        /\ \A m \in Live \ {op.list} : Content(m)' = Content(m)
    BY <1>13, EndsDestroy
  <2>2. PICK l \in Live : l = op.list
    BY <2>1
  <2>3. Visible = Live /\ Visible' = Live \ {l}
    BY <1>2, <2>1, <2>2 DEF Visible
  <2>4. l \in DOMAIN Seen /\ Seen' = [k \in DOMAIN Seen \ {l} |-> Seen[k]]
    BY <1>2, <2>1, <2>2, <2>3 DEF Seen
  <2>5. Abstract!Destroy(l)
    BY <1>1, <2>1, <2>4 DEF Abstract!Destroy
  <2> QED
    BY <1>1, <2>4, <2>5
<1>14. CASE EndCopy
  <2>1. /\ op.name \in Copies /\ op' = NoCall /\ result' = result
        /\ op.list \in Live /\ op.source \in Live \ {op.list}
        /\ Content(op.list) = Content(op.source)
        /\ Live' = Live /\ \A m \in Live : Content(m)' = Content(m)
    BY <1>14, EndsCopy
  <2>2. PICK l \in Live : l = op.list
    BY <2>1
  <2>3. PICK k \in Live \ {l} : k = op.source
    BY <2>1, <2>2
  <2>4. Visible' = Live /\ k \in Visible
    BY <1>2, <2>1, <2>2 DEF Visible
  <2>5. Content(l)' = Content(k) /\ Seen[k] = Content(k) /\ k \in DOMAIN Seen
    BY <2>1, <2>2, <2>3, <2>4 DEF Seen
  <2>6. CASE op.name = "copy"
    <3>1. Visible = Live \ {l}
      BY <2>2, <2>6 DEF Visible
    <3>2. Seen' = [m \in DOMAIN Seen \cup {l} |-> IF m = l THEN Seen[k] ELSE Seen[m]]
      BY <1>2, <2>1, <2>2, <2>4, <2>5, <3>1 DEF Seen
    <3>3. l \in Lists /\ l \notin DOMAIN Seen
      BY <3>1 DEF IInv, ListsType, Seen
    <3>4. Abstract!Construct(l)
      BY <1>1, <2>1, <2>5, <3>2, <3>3 DEF Abstract!Construct, Abstract!Make
    <3> QED
      BY <3>3, <3>4
  <2>7. CASE op.name # "copy"
    <3>1. Visible = Live
      BY <2>7 DEF Visible
    <3>2. l \in DOMAIN Seen /\ Seen' = [Seen EXCEPT ![l] = Seen[k]]
      BY <1>2, <2>1, <2>2, <2>4, <2>5, <3>1 DEF Seen
    <3>3. Abstract!Assign(l)
      BY <1>1, <2>1, <2>5, <3>2 DEF Abstract!Assign, Abstract!Replace
    <3> QED
      BY <1>1, <3>2, <3>3
  <2> QED
    BY <2>6, <2>7
<1>15. CASE UNCHANGED vars
  BY <1>15 DEF vars, View, Visible, Elements, Nodes, Live
<1> QED
  BY <1>3, <1>4, <1>5, <1>6, <1>7, <1>8, <1>9, <1>11, <1>12, <1>13, <1>14, <1>15
     DEF Next, Continue

(* The list does what Deques says, whatever is called on however many      *)
(* objects: every element comes out as it went in, in order, a copy has    *)
(* the elements of its source, and a source keeps its own.                 *)
THEOREM ListImplementsDeques == Spec => ImplementsDeques
<1>1. Init => Abstract!Init
  <2> SUFFICES ASSUME Init
               PROVE  View = <<>> /\ result = 0
    BY DEF Abstract!Init
  <2>1. Visible = {}
    BY DEF Init, Visible, Live
  <2> QED
    BY <2>1 DEF Init, View
<1>2. IInv /\ IInv' /\ [Next]_vars => [Abstract!Next]_<<View, result>>
  BY StepImplements
<1> QED
  BY <1>1, <1>2, Invariant, PTL DEF Spec, ImplementsDeques, Abstract!Spec


=============================================================================
