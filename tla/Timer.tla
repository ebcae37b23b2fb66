------------------------------- MODULE Timer -------------------------------
(***************************************************************************)
(* Timer, and the loops that wait by one: Client::connect, which sends its *)
(* request again after CONNECTION_TIMEOUT, and the frames of Client::run   *)
(* and Server::run, which sleep for what is left of a frame.  The timer    *)
(* reads CLOCK_REALTIME, which people and daemons may set at any moment;   *)
(* usleep waits in real time.                                              *)
(*                                                                         *)
(* A tick stands for a microsecond.  Only the distance of the clock from   *)
(* the last start of the timer matters, so whole seconds are taken off the *)
(* clock when the timer is started.                                        *)
(***************************************************************************)
EXTENDS Integers

CONSTANTS
  MILLI,               \* ticks in a millisecond: 1000
  MILLIS,              \* milliseconds in a second: 1000
  FRAME,               \* 1000/MAXFPS, in milliseconds: 16
  CONNECTION_TIMEOUT,  \* in milliseconds: 2000
  ATTEMPTS,            \* CONNECTION_ATTEMPTS: 5
  USECONDS,            \* usleep takes a number below it: 2^32
  Settings,            \* bound: by how much the clock is set, once at most
                       \*   between two starts of the timer
  MaxWork              \* bound: ticks that a wait or the work of a frame takes

ASSUME TimerAssumption ==
  /\ MILLI \in Nat \ {0} /\ MILLIS \in Nat \ {0} /\ USECONDS \in Nat \ {0}
  /\ FRAME \in Nat /\ CONNECTION_TIMEOUT \in Nat /\ ATTEMPTS \in Nat
  /\ Settings \subseteq Int \ {0} /\ MaxWork \in Nat

VARIABLES
  clock,      \* CLOCK_REALTIME
  timer,      \* started and startTime of the Timer object
  timerPc,    \* "none"; "connecting"; "working", "sleeping" and "over" in a frame
  attempts,   \* connectCount
  sleep,      \* ticks of the sleep that are left
  elapsed,    \* history: ticks since the timer was started
  worked,     \* history: elapsed when the frame's work was done
  moved       \* history: by how much the clock has been set since then

timerVars == <<clock, timer, timerPc, attempts, sleep, elapsed, worked, moved>>

SECOND == MILLI * MILLIS

Garbage == 0    \* stop() fills startTime with ones, and nothing reads them

TimerInit ==
  /\ clock \in 0..(SECOND - 1)
  /\ timer = [started |-> FALSE, startTime |-> Garbage]
  /\ timerPc = "none"
  /\ attempts = 0 /\ sleep = 0 /\ elapsed = 0 /\ worked = 0 /\ moved = 0

-----------------------------------------------------------------------------
(* The operations of Timer. *)

(* Mutant of stop: the timer goes on. *)
GoOn(t) == t

stop(t) == [started |-> FALSE, startTime |-> Garbage]

start(t, now) == IF t.started THEN t ELSE [started |-> TRUE, startTime |-> now]

(* Division rounds towards zero. *)
Quotient(n, d) == IF n < 0 THEN -((-n) \div d) ELSE n \div d

(* Mutant of Fractions: as if they could not be negative. *)
Distance(now, then) ==
  LET d == (now % SECOND) - (then % SECOND) IN IF d < 0 THEN -d ELSE d

(* The difference of the two tv_nsec. *)
Fractions(now, then) == (now % SECOND) - (then % SECOND)

getTime(t, now) ==
  IF t.started
  THEN MILLIS * ((now \div SECOND) - (t.startTime \div SECOND))
       + Quotient(Fractions(now, t.startTime), MILLI)
  ELSE 0

(* The timer is started, having been stopped or not. *)
StartTimer(t) ==
  LET now == clock % SECOND
  IN  /\ clock' = now
      /\ timer' = start(t, now)
      /\ elapsed' = 0 /\ moved' = 0 /\ worked' = 0

-----------------------------------------------------------------------------
(* The loops. *)

(* connect(): the first request is sent and the timer started. *)
StartConnecting ==
  /\ timerPc = "none"
  /\ timerPc' = "connecting"
  /\ StartTimer(timer)
  /\ UNCHANGED <<attempts, sleep>>

(* Mutant of TimedOut: a millisecond early. *)
TimedOutEarly == getTime(timer, clock) > CONNECTION_TIMEOUT - 1

TimedOut == getTime(timer, clock) > CONNECTION_TIMEOUT

(* The request is sent again. *)
Retry ==
  /\ timerPc = "connecting" /\ attempts < ATTEMPTS
  /\ TimedOut
  /\ attempts' = attempts + 1
  /\ StartTimer(stop(timer))
  /\ UNCHANGED <<timerPc, sleep>>

(* connect() returns: with an answer, or after the last attempt. *)
Connected ==
  /\ timerPc = "connecting"
  /\ attempts = ATTEMPTS \/ ~TimedOut
  /\ timerPc' = IF attempts < ATTEMPTS THEN "over" ELSE "failed"
  /\ attempts' = 0
  /\ timer' = [started |-> FALSE, startTime |-> Garbage]    \* run has its own
  /\ elapsed' = 0 /\ moved' = 0
  /\ UNCHANGED <<clock, sleep, worked>>

(* A frame begins. *)
StartFrame ==
  /\ timerPc = "over"
  /\ timerPc' = "working"
  /\ StartTimer(stop(timer))
  /\ UNCHANGED <<attempts, sleep>>

(* Mutant of Remaining: the whole frame, whatever the work took. *)
WholeFrame(time) == FRAME * MILLI

(* The argument of usleep, as a useconds_t. *)
Remaining(time) == ((FRAME - time) * MILLI) % USECONDS

(* The work of a frame is done, and what is left of it slept. *)
EndWork ==
  /\ timerPc = "working"
  /\ worked' = elapsed
  /\ LET time == getTime(timer, clock)
     IN  \/ time < FRAME /\ timerPc' = "sleeping" /\ sleep' = Remaining(time)
         \/ time >= FRAME /\ timerPc' = "over" /\ UNCHANGED sleep
  /\ UNCHANGED <<clock, timer, attempts, elapsed, moved>>

WakeUp ==
  /\ timerPc = "sleeping" /\ sleep = 0
  /\ timerPc' = "over"
  /\ UNCHANGED <<clock, timer, attempts, sleep, elapsed, worked, moved>>

(* Time passes. *)
Tick ==
  /\ \/ timerPc \in {"connecting", "working"} /\ elapsed < MaxWork /\ UNCHANGED sleep
     \/ timerPc = "sleeping" /\ sleep > 0 /\ sleep' = sleep - 1
  /\ clock' = clock + 1
  /\ elapsed' = elapsed + 1
  /\ UNCHANGED <<timer, timerPc, attempts, worked, moved>>

(* Somebody sets the clock. *)
SetClock ==
  /\ timerPc \in {"connecting", "working", "sleeping"} /\ moved = 0
  /\ moved' \in Settings
  /\ clock' = clock + moved'
  /\ UNCHANGED <<timer, timerPc, attempts, sleep, elapsed, worked>>

-----------------------------------------------------------------------------

(* The time of a timer is, to less than a millisecond, the time that has   *)
(* passed, and by how much the clock was set since: where the fraction of  *)
(* a second is smaller now than at the start, and where the clock was set  *)
(* back (Timer.cpp:75-81).                                                 *)
TimeIsElapsed ==
  timer.started =>
    LET error == MILLI * getTime(timer, clock) - (elapsed + moved)
    IN  -MILLI < error /\ error < MILLI

(* Frames come no faster than MAXFPS, but for the millisecond that is      *)
(* rounded off, unless the clock is set forward, or so far back that       *)
(* useconds_t overflows (Client.cpp:151-155, Server.cpp:58-62).            *)
NoFasterThanMaxFps ==
  timerPc = "over" /\ timer.started /\ moved <= 0 /\ (FRAME + 1) * MILLI - moved <= USECONDS =>
    elapsed > (FRAME - 1) * MILLI

(* A frame sleeps only as long as its work leaves of it, but for the       *)
(* millisecond, unless the clock is set back: then the game stands still   *)
(* for as long as that.                                                    *)
SleepsTheRest ==
  timerPc = "over" /\ timer.started =>
    elapsed = worked \/ elapsed + (IF moved < 0 THEN moved ELSE 0) < (FRAME + 1) * MILLI

RetryIsDue == attempts' > attempts => elapsed + moved > CONNECTION_TIMEOUT * MILLI

(* The request is sent again when more than the timeout has passed, not    *)
(* before, unless the clock is set forward (Client.cpp:55).                *)
RetriesAfterTimeout == [][RetryIsDue]_timerVars

=============================================================================
