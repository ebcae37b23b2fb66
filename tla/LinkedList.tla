----------------------------- MODULE LinkedList -----------------------------
(***************************************************************************)
(* LinkedList, with LinkedListNode and Iterator, over a heap of nodes.     *)
(* The program has one such list (Network::frameQueue), which it makes and *)
(* destroys with its Network, and copies with it: nothing is ever put in.  *)
(* Here a caller does anything the class offers, one call at a time.  An   *)
(* operation with a loop takes a step per turn.                            *)
(***************************************************************************)
EXTENDS Integers, Sequences, FiniteSetsExt

CONSTANTS
  Lists,     \* the list objects there can be
  Data,      \* the elements
  MaxNodes   \* bound: nodes in the heap

ASSUME LinkedListAssumption == MaxNodes \in Nat /\ Data \subseteq Int /\ IsFiniteSet(Lists)

VARIABLES
  heap,      \* address -> node, for the nodes that are not deleted
  lists,     \* object -> head, tail and count, for the objects there are
  op,        \* the call of an operation with a loop: its name ("none" between
             \*   the calls), its object, and its local variables
  result,    \* what the last operation has returned
  before     \* history: the elements op.list had at the call

vars == <<heap, lists, op, result, before>>

NULL == 0

Empty == [head |-> NULL, tail |-> NULL, count |-> 0]

NoCall == [name |-> "none", list |-> "", source |-> "", node |-> NULL,
           lastNode |-> NULL, i |-> 0]

Init ==
  /\ heap = <<>> /\ lists = <<>> /\ op = NoCall
  /\ result = 0 /\ before = <<>>

Live == DOMAIN lists

getNext(n) == heap[n].next

(* An address that is not in use.  Which does not matter: the code compares*)
(* addresses with NULL only, and those of list objects.                    *)
NewNode == Min(1..(Cardinality(DOMAIN heap) + 1) \ DOMAIN heap)

(* The bound leaves room for n more nodes. *)
Room(n) == Cardinality(DOMAIN heap) + n <= MaxNodes

With(f, k, v) == [x \in DOMAIN f \cup {k} |-> IF x = k THEN v ELSE f[x]]

Without(f, k) == [x \in DOMAIN f \ {k} |-> f[x]]

(* n nodes of the heap h, from a along next. *)
Path(h, a, n) ==
  LET node[k \in 1..n] == IF k = 1 THEN a ELSE h[node[k - 1]].next
  IN  node

(* The nodes of a list: as many as it counts. *)
Nodes(l) == Path(heap, lists[l].head, lists[l].count)

Elements(l) == [k \in 1..lists[l].count |-> heap[Nodes(l)[k]].data]

-----------------------------------------------------------------------------
(* The operations that take one step. *)

Idle(l) == op.name = "none" /\ l \in Live

Construct(l) ==
  /\ op.name = "none" /\ l \in Lists \ Live
  /\ lists' = With(lists, l, Empty)
  /\ UNCHANGED <<heap, op, result, before>>

(* d is put before the head of l. *)
pushFront(l, d) ==
  /\ Idle(l) /\ Room(1)
  /\ LET n == NewNode
         wasEmpty == lists[l].count = 0
     IN  /\ heap' = With(heap, n, [data |-> d, next |-> IF wasEmpty THEN NULL ELSE lists[l].head])
         /\ lists' = [lists EXCEPT ![l] =
              [head |-> n, tail |-> IF wasEmpty THEN n ELSE @.tail, count |-> @.count + 1]]
  /\ UNCHANGED <<op, result, before>>

(* Mutant of AfterPushBack: the tail of an empty list is not set. *)
PushBackHeadOnly(list, n) ==
  [list EXCEPT !.head = IF list.count = 0 THEN n ELSE @,
               !.tail = IF list.count = 0 THEN @ ELSE n,
               !.count = @ + 1]

(* The list when n is its last node. *)
AfterPushBack(list, n) ==
  [list EXCEPT !.head = IF list.count = 0 THEN n ELSE @,
               !.tail = n,
               !.count = @ + 1]

(* d is put behind the tail of l. *)
PutBack(l, d) ==
  LET n == NewNode
      linked == IF lists[l].count = 0 THEN heap
                ELSE [heap EXCEPT ![lists[l].tail].next = n]
  IN  /\ heap' = With(linked, n, [data |-> d, next |-> NULL])
      /\ lists' = [lists EXCEPT ![l] = AfterPushBack(@, n)]

pushBack(l, d) ==
  /\ Idle(l) /\ Room(1)
  /\ PutBack(l, d)
  /\ UNCHANGED <<op, result, before>>

(* Either pop of an empty list: data is returned as it was constructed. *)
PopEmpty(l) ==
  /\ Idle(l) /\ lists[l].count = 0
  /\ result' \in Data
  /\ UNCHANGED <<heap, lists, op, before>>

(* The list without its first node, when n is the second. *)
AfterPopFront(list, n) ==
  IF list.count = 1 THEN Empty ELSE [list EXCEPT !.head = n, !.count = @ - 1]

(* popFront, and popBack of a single element. *)
popFront(l) ==
  /\ Idle(l) /\ lists[l].count > 0
  /\ LET n == lists[l].head
     IN  /\ result' = heap[n].data
         /\ heap' = Without(heap, n)
         /\ lists' = [lists EXCEPT ![l] = AfterPopFront(@, getNext(n))]
  /\ UNCHANGED <<op, before>>

isEmpty(l) ==
  /\ Idle(l)
  /\ result' = IF lists[l].count > 0 THEN 0 ELSE 1
  /\ UNCHANGED <<heap, lists, op, before>>

noElements(l) ==
  /\ Idle(l)
  /\ result' = lists[l].count
  /\ UNCHANGED <<heap, lists, op, before>>

-----------------------------------------------------------------------------
(* popBack of more than one element: a walk to the last node. *)

Call(name, l, source, node) ==
  /\ op' = [NoCall EXCEPT !.name = name, !.list = l, !.source = source, !.node = node]
  /\ before' = IF l \in Live THEN Elements(l) ELSE <<>>

Return == op' = NoCall /\ before' = <<>>

StartPopBack(l) ==
  /\ Idle(l) /\ lists[l].count > 1
  /\ Call("popBack", l, "", lists[l].head)
  /\ UNCHANGED <<heap, lists, result>>

(* Mutant of Onward: the walk stays where it is. *)
Standing(n) == n

Onward(n) == getNext(n)

WalkBack ==
  /\ op.name = "popBack" /\ getNext(op.node) # NULL
  /\ op' = [op EXCEPT !.lastNode = op.node, !.node = Onward(op.node)]
  /\ UNCHANGED <<heap, lists, result, before>>

(* The list without its last node, when n is the one before. *)
AfterPopBack(list, n) == [list EXCEPT !.tail = n, !.count = @ - 1]

EndPopBack ==
  /\ op.name = "popBack" /\ getNext(op.node) = NULL
  /\ result' = heap[op.node].data
  /\ heap' = Without([heap EXCEPT ![op.lastNode].next = NULL], op.node)
  /\ lists' = [lists EXCEPT ![op.list] = AfterPopBack(@, op.lastNode)]
  /\ Return

-----------------------------------------------------------------------------
(* free and the destructor: as many nodes as the list counts, from its     *)
(* head.  An assignment frees first.                                       *)

StartFree(l) ==
  /\ Idle(l)
  /\ \E name \in {"free", "destroy"} : Call(name, l, "", NULL)
  /\ UNCHANGED <<heap, lists, result>>

FreeNode ==
  /\ op.name \in {"free", "destroy", "assign"} /\ op.i < lists[op.list].count
  /\ LET n == lists[op.list].head
     IN  /\ lists' = [lists EXCEPT ![op.list].head = getNext(n)]
         /\ heap' = Without(heap, n)
  /\ op' = [op EXCEPT !.i = @ + 1]
  /\ UNCHANGED <<result, before>>

Freed(name) == op.name = name /\ op.i = lists[op.list].count

EndFree ==
  /\ Freed("free")
  /\ lists' = [lists EXCEPT ![op.list] = Empty]
  /\ Return
  /\ UNCHANGED <<heap, result>>

(* The object is gone. *)
EndDestroy ==
  /\ Freed("destroy")
  /\ lists' = Without(lists, op.list)
  /\ Return
  /\ UNCHANGED <<heap, result>>

-----------------------------------------------------------------------------
(* The copy constructor and the two operators =.  One of those walks the   *)
(* source by an Iterator from begin() to end(), the others by its nodes.   *)

CopyConstruct(l, source) ==
  /\ op.name = "none" /\ l \in Lists \ Live /\ source \in Live
  /\ Room(lists[source].count)
  /\ lists' = With(lists, l, Empty)
  /\ Call("copy", l, source, lists[source].head)
  /\ UNCHANGED <<heap, result>>

(* An assignment of a list to itself does nothing. *)
StartAssign(l, source) ==
  /\ Idle(l) /\ source \in Live \ {l}
  /\ Room(lists[source].count - lists[l].count)
  /\ Call("assign", l, source, NULL)
  /\ UNCHANGED <<heap, lists, result>>

EndFreeOfAssign ==
  /\ Freed("assign")
  /\ lists' = [lists EXCEPT ![op.list] = Empty]
  /\ \E name \in {"copy to", "iterate to"} :
       op' = [op EXCEPT !.name = name, !.node = lists[op.source].head, !.i = 0]
  /\ UNCHANGED <<heap, result, before>>

(* Mutant of NotEqual: the comparison that is commented out. *)
NotSameData(n, end) == n # NULL /\ heap[n].data # heap[end].data

(* Iterator::operator!=, which does not look at its argument. *)
NotEqual(n, end) == n # NULL

MoreToCopy ==
  IF op.name = "iterate to" THEN NotEqual(op.node, lists[op.source].tail)
  ELSE op.node # NULL

Copying == op.name \in {"copy", "copy to", "iterate to"}

CopyElement ==
  /\ Copying /\ MoreToCopy
  /\ PutBack(op.list, heap[op.node].data)
  /\ op' = [op EXCEPT !.node = getNext(@)]
  /\ UNCHANGED <<result, before>>

EndCopy ==
  /\ Copying /\ ~MoreToCopy
  /\ Return
  /\ UNCHANGED <<heap, lists, result>>

-----------------------------------------------------------------------------

(* A turn of a loop, or what follows it. *)
Continue ==
  \/ WalkBack \/ EndPopBack
  \/ FreeNode \/ EndFree \/ EndDestroy \/ EndFreeOfAssign
  \/ CopyElement \/ EndCopy

Next ==
  \/ \E l \in Lists :
       \/ Construct(l)
       \/ \E d \in Data : pushFront(l, d) \/ pushBack(l, d)
       \/ PopEmpty(l) \/ popFront(l) \/ StartPopBack(l)
       \/ isEmpty(l) \/ noElements(l) \/ StartFree(l)
       \/ \E source \in Lists : CopyConstruct(l, source) \/ StartAssign(l, source)
  \/ Continue

Spec == Init /\ [][Next]_vars

FairSpec == Spec /\ WF_vars(Continue)

-----------------------------------------------------------------------------

(* Between the calls the nodes of every list end in its tail and in NULL,  *)
(* as many as it counts; each node is in one list, once, and none is left  *)
(* over: nothing is leaked and nothing shared, whatever is copied, freed   *)
(* and destroyed (LinkedList.h:42-99, 179-195, 251-310).                   *)
HeapIsTheLists ==
  op.name = "none" =>
    /\ \A l \in Live :
         IF lists[l].count = 0 THEN lists[l] = Empty
         ELSE /\ lists[l].tail = Nodes(l)[lists[l].count]
              /\ getNext(lists[l].tail) = NULL
    /\ DOMAIN heap = UNION {{Nodes(l)[k] : k \in 1..lists[l].count} : l \in Live}
    /\ \A l, m \in Live : \A j \in 1..lists[l].count, k \in 1..lists[m].count :
         Nodes(l)[j] = Nodes(m)[k] => l = m /\ j = k

(* The objects whose constructor has returned. *)
Visible == {l \in Live : ~(op.name = "copy" /\ l = op.list)}

(* The elements of an object, for its caller: during a call that changes   *)
(* it they are those from before.                                          *)
View == [l \in Visible |-> IF op.name # "none" /\ l = op.list THEN before ELSE Elements(l)]

Abstract == INSTANCE Deques WITH seqs <- View

(* The list does what Deques says: every element comes out as it went in,  *)
(* in the order of a deque, a copy has the elements of its source in their *)
(* order, and the source keeps its own.                                    *)
ImplementsDeques == Abstract!Spec

(* Every walk over a list comes to an end (LinkedList.h:35, 212, 295).     *)
CallsReturn == op.name # "none" ~> op.name = "none"

=============================================================================
