---------------------------- MODULE MCLinkedList ----------------------------
(***************************************************************************)
(* LinkedList for TLC: strings name the lists and the elements.            *)
(***************************************************************************)
EXTENDS LinkedList

=============================================================================
