-------------------------------- MODULE Log --------------------------------
(***************************************************************************)
(* log() of Common.cpp, with its helpers formatCount and markTypes.  A     *)
(* format is a sequence of symbols; an argument of the call is its number, *)
(* and what is printed for it the number with the type it is read as.      *)
(***************************************************************************)
EXTENDS Integers, SequencesExt

CONSTANTS
  Letters,     \* symbols that formats are made of, apart from "%"
  MaxFormat    \* bound: the length of a format

ASSUME LogAssumption == Letters \subseteq STRING /\ MaxFormat \in Nat

VARIABLES
  format,       \* the format of the call, or <<>> when there is none
  markList,     \* what markTypes has found
  mark,         \* the index in markList of the next mark
  startOffset,  \* symbols of the format dealt with
  output,       \* outputString
  logPc         \* "idle", "marks" in the loop over the marks, "printed" or "dropped"

logVars == <<format, markList, mark, startOffset, output, logPc>>

Symbols == Letters \cup {"%"}

LogInit ==
  /\ format = <<>> /\ markList = <<>> /\ mark = 1
  /\ startOffset = 0 /\ output = <<>> /\ logPc = "idle"

markType(symbol) ==
  CASE symbol = "s" -> "STRING"
    [] symbol = "c" -> "CHAR"
    [] symbol = "d" -> "INT"
    [] symbol = "f" -> "DOUBLE"
    [] OTHER -> "NONE"

(* There is a mark at place k; after the last symbol comes a 0. *)
IsMark(f, k) == f[k] = "%" /\ k < Len(f) /\ markType(f[k + 1]) # "NONE"

Marks(f) == {k \in 1..Len(f) : IsMark(f, k)}

formatCount(f) == Cardinality(Marks(f))

(* The marks counted when the scan has passed the place k, and the place   *)
(* where it counts the nth.                                                *)
Counted(f, k) == Cardinality(Marks(f) \cap 1..k)

Place(f, n) == CHOOSE k \in Marks(f) : Counted(f, k) = n

(* Every mark with its distance from the end of the one before. *)
markTypes(f) ==
  [n \in 1..formatCount(f) |->
     LET curPos == Place(f, n)
         oldPos == IF n = 1 THEN -1 ELSE Place(f, n - 1)
     IN  [type |-> markType(f[curPos + 1]), offset |-> curPos - (oldPos + 2)]]

Printed(n, type) == <<[argument |-> n, as |-> type]>>

(* The call.  A format without marks is printed as it is; a line that is   *)
(* for debugging only is not, unless it is wanted.                         *)
LogCall(f, heard) ==
  /\ logPc = "idle"
  /\ format' = f
  /\ markList' = IF heard THEN markTypes(f) ELSE <<>>
  /\ mark' = 1 /\ startOffset' = 0
  /\ output' = IF heard /\ formatCount(f) = 0 THEN f ELSE <<>>
  /\ logPc' = IF ~heard THEN "dropped" ELSE IF formatCount(f) = 0 THEN "printed" ELSE "marks"

(* Mutant of AfterMark: the mark counts as one symbol. *)
AfterPercent(start, m) == start + m.offset + 1

AfterMark(start, m) == start + m.offset + 2

(* A turn of the loop: the text before the mark, and its argument. *)
LogMark ==
  /\ logPc = "marks" /\ mark <= formatCount(format)
  /\ LET m == markList[mark]
     IN  /\ output' = output \o SubSeq(format, startOffset + 1, startOffset + m.offset)
                             \o Printed(mark, m.type)
         /\ startOffset' = AfterMark(startOffset, m)
  /\ mark' = mark + 1
  /\ UNCHANGED <<format, markList, logPc>>

(* The text after the last mark, and doLog. *)
LogRest ==
  /\ logPc = "marks" /\ mark > formatCount(format)
  /\ output' = output \o SubSeq(format, startOffset + 1, Len(format))
  /\ logPc' = "printed"
  /\ UNCHANGED <<format, markList, mark, startOffset>>

LogReturn ==
  /\ logPc \in {"printed", "dropped"}
  /\ format' = <<>> /\ markList' = <<>> /\ mark' = 1
  /\ startOffset' = 0 /\ output' = <<>> /\ logPc' = "idle"

-----------------------------------------------------------------------------

(* What is to be printed for the kth symbol of f, and for the first n. *)
Piece(f, k) ==
  IF k \in Marks(f) THEN Printed(Counted(f, k), markType(f[k + 1]))
  ELSE IF k - 1 \in Marks(f) THEN <<>>
  ELSE <<f[k]>>

Replaced(f, n) == FlattenSeq([k \in 1..n |-> Piece(f, k)])

(* At every turn the output is the part of the format before startOffset   *)
(* with every mark in it replaced by the argument of its number, read as   *)
(* the type it names, and so it is for the whole format in the end: no     *)
(* symbol is lost or printed twice, and no argument is read as another's   *)
(* type, wherever the marks are (Common.cpp:76-118, 186-216).              *)
PrintsArgumentsInPlace ==
  /\ logPc = "marks" => output = Replaced(format, startOffset)
  /\ logPc = "printed" => output = Replaced(format, Len(format))

=============================================================================
