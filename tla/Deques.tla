------------------------------- MODULE Deques -------------------------------
(***************************************************************************)
(* What LinkedList promises: objects that are sequences, each operation in *)
(* one step.                                                               *)
(***************************************************************************)
EXTENDS Sequences, Integers

CONSTANTS Lists, Data

VARIABLES
  seqs,      \* the objects there are -> their elements in order
  result     \* what the last operation has returned

Init == seqs = <<>> /\ result = 0

Replace(l, s) == seqs' = [seqs EXCEPT ![l] = s]

Make(l, s) == seqs' = [k \in DOMAIN seqs \cup {l} |-> IF k = l THEN s ELSE seqs[k]]

(* An object is made, empty or as a copy of another, or destroyed. *)
Construct(l) ==
  /\ l \notin DOMAIN seqs
  /\ Make(l, <<>>) \/ \E k \in DOMAIN seqs : Make(l, seqs[k])
  /\ UNCHANGED result

Destroy(l) ==
  /\ seqs' = [k \in DOMAIN seqs \ {l} |-> seqs[k]]
  /\ UNCHANGED result

Push(l) ==
  /\ \E d \in Data : Replace(l, <<d>> \o seqs[l]) \/ Replace(l, Append(seqs[l], d))
  /\ UNCHANGED result

(* What is popped from an empty list is a T that nobody has set. *)
Pop(l) ==
  \/ seqs[l] = <<>> /\ result' \in Data /\ UNCHANGED seqs
  \/ /\ seqs[l] # <<>>
     /\ \/ Replace(l, Tail(seqs[l])) /\ result' = Head(seqs[l])
        \/ /\ Replace(l, SubSeq(seqs[l], 1, Len(seqs[l]) - 1))
           /\ result' = seqs[l][Len(seqs[l])]

(* The number of elements, or whether there are none. *)
Ask(l) ==
  /\ result' \in {Len(seqs[l]), IF seqs[l] = <<>> THEN 1 ELSE 0}
  /\ UNCHANGED seqs

Assign(l) ==
  /\ Replace(l, <<>>) \/ \E k \in DOMAIN seqs : Replace(l, seqs[k])
  /\ UNCHANGED result

Next ==
  \/ \E l \in Lists : Construct(l)
  \/ \E l \in DOMAIN seqs : Destroy(l) \/ Push(l) \/ Pop(l) \/ Ask(l) \/ Assign(l)

Spec == Init /\ [][Next]_<<seqs, result>>

=============================================================================
