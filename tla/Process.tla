------------------------------ MODULE Process ------------------------------
(***************************************************************************)
(* One process in time: main() reads its arguments, a client logs where it *)
(* connects to, connects, and plays; a server plays at once.  The game is  *)
(* left out: here is what CommandLine, Log, Timer and Sockets do around    *)
(* it.                                                                     *)
(***************************************************************************)
EXTENDS CommandLine, Log, Timer, Sockets

vars == <<mainVars, logVars, timerVars, socketVars>>

Init == CommandLineInit /\ LogInit /\ TimerInit /\ SocketsInit

(* The mode is known, and main's variables are not read again: nothing of  *)
(* them is kept but debug and the mode.                                    *)
Begin ==
  /\ mainPc = "running"
  /\ mainPc' = "begun"
  /\ argv' = <<>> /\ i' = 1 /\ address' = "127.0.0.1" /\ port' = "34567"
  /\ UNCHANGED <<mode, debug, logVars, timerVars, socketVars>>

(* A client logs a line, whose format may be any. *)
LogLine ==
  /\ mainPc = "begun" /\ mode = "CLIENT"
  /\ \E f \in BoundedSeq(Symbols, MaxFormat) : LogCall(f, debug)
  /\ mainPc' = "logging"
  /\ UNCHANGED <<argv, i, mode, address, port, debug, timerVars, socketVars>>

Logging == (LogMark \/ LogRest) /\ UNCHANGED <<mainVars, timerVars, socketVars>>

LineLogged ==
  /\ mainPc = "logging"
  /\ LogReturn
  /\ mainPc' = "logged"
  /\ UNCHANGED <<argv, i, mode, address, port, debug, timerVars, socketVars>>

(* The first request, and its repetition. *)
ClientConnects ==
  /\ mainPc = "logged"
  /\ StartConnecting
  /\ Request
  /\ UNCHANGED <<mainVars, logVars>>

ClientRetries == Retry /\ Request /\ UNCHANGED <<mainVars, logVars>>

(* A server's first frame. *)
ServerStarts ==
  /\ mainPc = "begun" /\ mode = "SERVER"
  /\ timerPc = "none"
  /\ timerPc' = "working"
  /\ ServerSetup
  /\ StartTimer(stop(timer))
  /\ UNCHANGED <<attempts, sleep, mainVars, logVars>>

Next ==
  \/ (checkForDebug \/ Walk \/ Dispatch) /\ UNCHANGED <<logVars, timerVars, socketVars>>
  \/ Begin \/ LogLine \/ Logging \/ LineLogged
  \/ ClientConnects \/ ClientRetries \/ ServerStarts
  \/ (Connected \/ StartFrame \/ EndWork \/ WakeUp \/ Tick \/ SetClock)
       /\ UNCHANGED <<mainVars, logVars, socketVars>>

Spec == Init /\ [][Next]_vars

=============================================================================
