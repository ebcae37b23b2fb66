---------------------------- MODULE CommandLine ----------------------------
(***************************************************************************)
(* main(): the arguments are walked twice, by checkForDebug, so that what  *)
(* the second walk logs is heard, and for the options.  The second looks   *)
(* at one argument a turn and does not skip the value of an option.        *)
(***************************************************************************)
EXTENDS Integers, SequencesExt

CONSTANT MaxArgs    \* bound: arguments after the program's name

ASSUME CommandLineAssumption == MaxArgs \in Nat

VARIABLES
  argv,      \* the arguments after the program's name
  i,         \* where the second walk is
  mode,      \* "UNKNOWN", "SERVER" or "CLIENT"
  address, port,
  debug,     \* the global debug
  mainPc     \* "debug", "walk", "running", "returned" or "crashed"; then, in Process,
             \*   "begun", "logging", "logged"

mainVars == <<argv, i, mode, address, port, debug, mainPc>>

Flags  == {"-server", "-client", "-ip", "-port", "-debug"}
Values == {"short", "long"}    \* up to 15 characters, and more
Arguments == Flags \cup Values

CommandLineInit ==
  /\ argv \in BoundedSeq(Arguments, MaxArgs)
  /\ i = 1
  /\ mode = "UNKNOWN"
  /\ address = "127.0.0.1" /\ port = "34567"
  /\ debug = FALSE
  /\ mainPc = "debug"

(* checkForDebug only reads argv, so its walk is one step. *)
checkForDebug ==
  /\ mainPc = "debug"
  /\ debug' = \E k \in 1..Len(argv) : argv[k] = "-debug"
  /\ mainPc' = "walk"
  /\ UNCHANGED <<argv, i, mode, address, port>>

(* A turn of the second walk at one of these arguments. *)
Turn(arguments) ==
  /\ mainPc = "walk" /\ i <= Len(argv)
  /\ argv[i] \in arguments
  /\ i' = i + 1
  /\ UNCHANGED <<argv, debug, mainPc>>

(* Mutant of ModeOf: an option after the first is passed over. *)
FirstMode(flag) ==
  IF mode # "UNKNOWN" THEN mode
  ELSE IF flag = "-server" THEN "SERVER" ELSE "CLIENT"

ModeOf(flag) == IF flag = "-server" THEN "SERVER" ELSE "CLIENT"

SetMode ==
  /\ Turn({"-server", "-client"})
  /\ mode' = ModeOf(argv[i])
  /\ UNCHANGED <<address, port>>

(* (i+1) <= argc, where argc counts the program's name. *)
PassesTest == i + 1 <= Len(argv) + 1

(* argv[argc] is a null pointer. *)
ReadsNull == argv[i] \in {"-ip", "-port"} /\ PassesTest /\ i = Len(argv)

SetAddress ==
  /\ Turn({"-ip"}) /\ PassesTest /\ ~ReadsNull
  /\ \/ argv[i + 1] # "long" /\ address' = argv[i + 1]
     \/ argv[i + 1] = "long" /\ UNCHANGED address
  /\ UNCHANGED <<mode, port>>

SetPort ==
  /\ Turn({"-port"}) /\ PassesTest /\ ~ReadsNull
  /\ port' = argv[i + 1]
  /\ UNCHANGED <<mode, address>>

(* Another argument, or the test has failed and a message says so. *)
PassOver ==
  /\ Turn(Arguments \ {"-server", "-client"})
  /\ argv[i] \in {"-ip", "-port"} => ~PassesTest
  /\ UNCHANGED <<mode, address, port>>

Crash ==
  /\ mainPc = "walk" /\ i <= Len(argv) /\ ReadsNull
  /\ mainPc' = "crashed"
  /\ UNCHANGED <<argv, i, mode, address, port, debug>>

Walk == SetMode \/ SetAddress \/ SetPort \/ PassOver \/ Crash

(* The walk has ended. *)
Dispatch ==
  /\ mainPc = "walk" /\ i > Len(argv)
  /\ mainPc' = IF mode = "UNKNOWN" THEN "returned" ELSE "running"
  /\ UNCHANGED <<argv, i, mode, address, port, debug>>

-----------------------------------------------------------------------------
(* What the arguments mean. *)

(* The last place in argv that Is holds for, or 0. *)
LastPlace(Is(_)) == Max({0} \cup {k \in 1..Len(argv) : Is(k)})

LastMode ==
  LET k == LastPlace(LAMBDA n : argv[n] \in {"-server", "-client"})
  IN  IF k = 0 THEN "UNKNOWN" ELSE IF argv[k] = "-server" THEN "SERVER" ELSE "CLIENT"

LastAddress ==
  LET k == LastPlace(LAMBDA n : n < Len(argv) /\ argv[n] = "-ip" /\ argv[n + 1] # "long")
  IN  IF k = 0 THEN "127.0.0.1" ELSE argv[k + 1]

LastPort ==
  LET k == LastPlace(LAMBDA n : n < Len(argv) /\ argv[n] = "-port")
  IN  IF k = 0 THEN "34567" ELSE argv[k + 1]

(* The program runs with the last of every option, in whatever order they  *)
(* are given; a value that has the form of an option is one as well        *)
(* (main.cpp:60-105).                                                      *)
LastOptionWins ==
  mainPc \in {"running", "returned"} =>
    mode = LastMode /\ address = LastAddress /\ port = LastPort

=============================================================================
