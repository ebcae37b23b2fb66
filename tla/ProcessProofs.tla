--------------------------- MODULE ProcessProofs ---------------------------
(***************************************************************************)
(* Proofs about the timer and the loops that wait by it, and about the     *)
(* arguments of main, for every length of a frame and of a second, every   *)
(* clock and every argv.                                                   *)
(***************************************************************************)
EXTENDS Process, FiniteSetTheorems, SequenceTheorems, WellFoundedInduction, TLAPS

(* The clock has gone on by what has passed since the timer was started.   *)
ClockInv ==
  /\ clock \in Int /\ elapsed \in Nat /\ worked \in Nat /\ moved \in Int
  /\ attempts \in Nat /\ sleep \in Nat
  /\ timer.started \in BOOLEAN /\ timer.startTime \in Int
  /\ timer.started => clock = timer.startTime + elapsed + moved
  /\ timerPc \in {"connecting", "working", "sleeping"} => timer.started
  /\ timerPc = "none" => ~timer.started

(* The clock has not been set so far back that the sleep overflows. *)
Sleepable == moved <= 0 /\ (FRAME + 1) * MILLI - moved <= USECONDS

(* Of a frame that has done its work, sleep is what is left. *)
SleepInv ==
  /\ timerPc = "sleeping" =>
       /\ Sleepable => elapsed + sleep > (FRAME - 1) * MILLI
       /\ elapsed + sleep + (IF moved < 0 THEN moved ELSE 0) < (FRAME + 1) * MILLI
  /\ timerPc = "over" /\ timer.started =>
       /\ Sleepable => elapsed > (FRAME - 1) * MILLI
       /\ \/ elapsed = worked
          \/ elapsed + (IF moved < 0 THEN moved ELSE 0) < (FRAME + 1) * MILLI

TimerInv == ClockInv /\ SleepInv

-----------------------------------------------------------------------------
(* Arithmetic. *)

LEMMA Constants ==
  /\ MILLI \in Nat /\ MILLI > 0 /\ MILLIS \in Nat /\ MILLIS > 0
  /\ USECONDS \in Nat /\ USECONDS > 0 /\ FRAME \in Nat /\ CONNECTION_TIMEOUT \in Nat
  /\ ATTEMPTS \in Nat /\ Settings \subseteq Int /\ SECOND \in Nat /\ SECOND > 0
<1>1. /\ MILLI \in Nat /\ MILLI > 0 /\ MILLIS \in Nat /\ MILLIS > 0
      /\ USECONDS \in Nat /\ USECONDS > 0 /\ FRAME \in Nat /\ CONNECTION_TIMEOUT \in Nat
      /\ ATTEMPTS \in Nat /\ Settings \subseteq Int
  BY TimerAssumption
<1>2. SECOND \in Nat /\ SECOND > 0
  BY <1>1 DEF SECOND
<1> QED
  BY <1>1, <1>2

LEMMA Division ==
  ASSUME NEW n \in Int, NEW d \in Nat, d > 0
  PROVE  \E q \in Int, r \in Int :
           /\ q = n \div d /\ r = n % d
           /\ n = d * q + r /\ 0 <= r /\ r < d
<1>1. PICK q \in Int, r \in Int : q = n \div d /\ r = n % d
  OBVIOUS
<1>2. n = d * q + r /\ 0 <= r /\ r < d
  BY <1>1
<1> QED
  BY <1>1, <1>2

(* Rounding towards zero is off by less than one. *)
LEMMA Rounds ==
  ASSUME NEW n \in Int, NEW d \in Nat, d > 0
  PROVE  \E q \in Int :
           /\ q = Quotient(n, d)
           /\ -d < d * q - n /\ d * q - n < d
<1>1. CASE n < 0
  <2>1. PICK p \in Int, r \in Int :
          p = (-n) \div d /\ -n = d * p + r /\ 0 <= r /\ r < d
    BY Division
  <2>2. Quotient(n, d) = -p /\ d * (-p) = -(d * p)
    BY <1>1, <2>1 DEF Quotient
  <2> QED
    BY <2>1, <2>2
<1>2. CASE n >= 0
  <2>1. PICK p \in Int, r \in Int :
          p = n \div d /\ n = d * p + r /\ 0 <= r /\ r < d
    BY Division
  <2>2. Quotient(n, d) = p
    BY <1>2, <2>1 DEF Quotient
  <2> QED
    BY <2>1, <2>2
<1> QED
  BY <1>1, <1>2

LEMMA Scale ==
  ASSUME NEW k \in Nat, NEW a \in Int, NEW b \in Int, a <= b
  PROVE  k * a <= k * b /\ k * a \in Int /\ k * b \in Int
  OBVIOUS

(* getTime is off by less than a millisecond, also where the fraction of a *)
(* second is smaller now than it was at the start.                         *)
LEMMA TimeRead ==
  ASSUME NEW t, t.started, t.startTime \in Int, NEW now \in Int
  PROVE  \E time \in Int :
           /\ time = getTime(t, now)
           /\ -MILLI < MILLI * time - (now - t.startTime)
           /\ MILLI * time - (now - t.startTime) < MILLI
<1> USE Constants
<1>1. PICK q1 \in Int, r1 \in Int :
        q1 = now \div SECOND /\ r1 = now % SECOND /\ now = SECOND * q1 + r1
  BY Division
<1>2. PICK q2 \in Int, r2 \in Int :
        /\ q2 = t.startTime \div SECOND /\ r2 = t.startTime % SECOND
        /\ t.startTime = SECOND * q2 + r2
  BY Division
<1>3. PICK fraction \in Int : fraction = r1 - r2
  OBVIOUS
<1>4. PICK q \in Int : /\ q = Quotient(fraction, MILLI)
                      /\ -MILLI < MILLI * q - fraction /\ MILLI * q - fraction < MILLI
  BY Rounds
<1>5. PICK seconds \in Int : seconds = q1 - q2
  OBVIOUS
<1>6. now - t.startTime = SECOND * seconds + fraction
  <2>1. PICK a \in Int, b \in Int : a = SECOND * q1 /\ b = SECOND * q2
    OBVIOUS
  <2>2. SECOND * seconds = a - b
    BY <1>5, <2>1
  <2>3. now = a + r1
    BY <1>1, <2>1
  <2>4. t.startTime = b + r2
    BY <1>2, <2>1
  <2>5. PICK c \in Int : c = SECOND * seconds
    OBVIOUS
  <2> QED
    BY <1>3, <2>2, <2>3, <2>4, <2>5
<1>7. PICK time \in Int : time = MILLIS * seconds + q
  OBVIOUS
<1>8. getTime(t, now) = time
  BY <1>1, <1>2, <1>3, <1>4, <1>5, <1>7 DEF getTime, Fractions
<1>9. PICK whole \in Int, part \in Int : whole = SECOND * seconds /\ part = MILLI * q
  OBVIOUS
<1>10. MILLI * time = whole + part
  BY <1>7, <1>9 DEF SECOND
<1> QED
  BY <1>4, <1>6, <1>8, <1>9, <1>10

-----------------------------------------------------------------------------
(* The timer. *)

LEMMA Started ==
  ASSUME ClockInv, NEW t, t.started = FALSE, StartTimer(t)
  PROVE  /\ clock' \in Int /\ clock' = timer'.startTime
         /\ timer' = [started |-> TRUE, startTime |-> clock']
         /\ elapsed' = 0 /\ moved' = 0 /\ worked' = 0
<1>1. clock % SECOND \in Int
  BY Constants, Division DEF ClockInv
<1> QED
  BY <1>1 DEF StartTimer, start

LEMMA StartStep ==
  ASSUME TimerInv, NEW t, t.started = FALSE, StartTimer(t),
         timerPc' \in {"connecting", "working"}, attempts' \in Nat, sleep' = sleep
  PROVE  TimerInv'
<1>1. /\ clock' \in Int /\ clock' = timer'.startTime
      /\ timer' = [started |-> TRUE, startTime |-> clock']
      /\ elapsed' = 0 /\ moved' = 0 /\ worked' = 0
  BY Started DEF TimerInv
<1>2. ClockInv'
  BY <1>1 DEF TimerInv, ClockInv
<1>3. SleepInv'
  BY DEF SleepInv
<1> QED
  BY <1>2, <1>3 DEF TimerInv

(* What a started timer reads, next to what has passed. *)
LEMMA Reading ==
  ASSUME ClockInv, timer.started
  PROVE  \E time \in Int : \E milli \in Int :
           /\ time = getTime(timer, clock) /\ milli = MILLI * time
           /\ -MILLI < milli - (elapsed + moved) /\ milli - (elapsed + moved) < MILLI
<1>1. /\ timer.startTime \in Int /\ clock \in Int /\ elapsed \in Nat /\ moved \in Int
      /\ clock = timer.startTime + elapsed + moved
  BY DEF ClockInv
<1>2. PICK time \in Int :
        /\ time = getTime(timer, clock)
        /\ -MILLI < MILLI * time - (clock - timer.startTime)
        /\ MILLI * time - (clock - timer.startTime) < MILLI
  BY <1>1, TimeRead
<1>3. PICK milli \in Int : milli = MILLI * time
  BY Constants
<1>4. PICK s \in Int : s = timer.startTime
  BY <1>1
<1>5. clock - timer.startTime = elapsed + moved
  BY <1>1, <1>4
<1> QED
  BY <1>2, <1>3, <1>5

LEMMA EndWorkStep ==
  ASSUME TimerInv, EndWork
  PROVE  TimerInv'
<1>1. /\ ClockInv /\ timerPc = "working" /\ timer.started
      /\ worked' = elapsed /\ UNCHANGED <<clock, timer, attempts, elapsed, moved>>
  BY DEF TimerInv, ClockInv, EndWork
<1>2. /\ elapsed \in Nat /\ moved \in Int /\ sleep \in Nat
  BY <1>1 DEF ClockInv
<1>3. PICK time \in Int, milli \in Int :
        /\ time = getTime(timer, clock) /\ milli = MILLI * time
        /\ -MILLI < milli - (elapsed + moved) /\ milli - (elapsed + moved) < MILLI
  BY <1>1, Reading
<1>4. PICK whole \in Int : whole = FRAME * MILLI
  BY Constants
<1>5. (FRAME + 1) * MILLI = whole + MILLI /\ (FRAME - 1) * MILLI = whole - MILLI
  BY <1>4, Constants
<1>6. CASE time < FRAME /\ timerPc' = "sleeping" /\ sleep' = Remaining(time)
  <2>1. PICK rest \in Int : rest = (FRAME - time) * MILLI
    BY Constants
  <2>2. rest = whole - milli
    BY <1>3, <1>4, <2>1, Constants
  <2>3. rest >= 0
    BY <1>6, <2>1, Constants
  <2>4. PICK q \in Int, r \in Int :
          r = rest % USECONDS /\ rest = USECONDS * q + r /\ 0 <= r /\ r < USECONDS
    BY Constants, Division
  <2>5. sleep' = r
    BY <1>6, <2>1, <2>4 DEF Remaining
  <2>6. r <= rest /\ (rest < USECONDS => r = rest)
    <3>1. q >= 0
      BY <2>3, <2>4, Constants
    <3>2. q = 0 \/ USECONDS * q >= USECONDS
      BY <3>1, Constants
    <3>3. USECONDS * q \in Int /\ USECONDS * q >= 0
      BY <3>1, Constants
    <3> QED
      BY <2>3, <2>4, <3>2, <3>3, Constants
  <2>7. elapsed + r + (IF moved < 0 THEN moved ELSE 0) < whole + MILLI
    BY <1>2, <1>3, <2>2, <2>6, Constants
  <2>8. moved <= 0 /\ whole + MILLI - moved <= USECONDS => elapsed + r > whole - MILLI
    BY <1>2, <1>3, <2>2, <2>6, Constants
  <2>9. ClockInv'
    <3>1. sleep' \in Nat
      BY <2>4, <2>5, Constants
    <3>2. timerPc' = "sleeping" /\ worked' \in Nat /\ timer.started
      BY <1>1, <1>2, <1>6
    <3> QED
      BY <1>1, <3>1, <3>2 DEF ClockInv
  <2>10. SleepInv'
    <3>1. timerPc' = "sleeping" /\ sleep' = r /\ elapsed' = elapsed /\ moved' = moved
      BY <1>1, <1>6, <2>5
    <3>2. Sleepable' => elapsed' + sleep' > (FRAME - 1) * MILLI
      <4>1. SUFFICES ASSUME Sleepable'
                     PROVE  elapsed + r > whole - MILLI
        BY <1>5, <3>1
      <4>2. moved <= 0 /\ (FRAME + 1) * MILLI - moved <= USECONDS
        BY <3>1, <4>1 DEF Sleepable
      <4>3. whole + MILLI - moved <= USECONDS
        BY <1>2, <1>4, <1>5, <4>2, Constants
      <4> QED
        BY <2>8, <4>2, <4>3
    <3>3. elapsed' + sleep' + (IF moved' < 0 THEN moved' ELSE 0) < (FRAME + 1) * MILLI
      BY <1>5, <2>7, <3>1
    <3> QED
      BY <3>1, <3>2, <3>3 DEF SleepInv
  <2> QED
    BY <2>9, <2>10 DEF TimerInv
<1>7. CASE time >= FRAME /\ timerPc' = "over" /\ sleep' = sleep
  <2>1. milli >= whole
    BY <1>3, <1>4, <1>7, Constants
  <2>2. moved <= 0 => elapsed > whole - MILLI
    BY <1>2, <1>3, <2>1, Constants
  <2>3. ClockInv'
    BY <1>1, <1>2, <1>7 DEF ClockInv
  <2>4. SleepInv'
    BY <1>1, <1>5, <1>7, <2>2 DEF SleepInv, Sleepable
  <2> QED
    BY <2>3, <2>4 DEF TimerInv
<1> QED
  BY <1>3, <1>6, <1>7 DEF EndWork

LEMMA TimePassesStep ==
  ASSUME TimerInv, Tick \/ WakeUp \/ SetClock
  PROVE  TimerInv'
<1>1. /\ ClockInv /\ SleepInv
      /\ clock \in Int /\ elapsed \in Nat /\ worked \in Nat /\ moved \in Int
      /\ attempts \in Nat /\ sleep \in Nat
      /\ timer.started \in BOOLEAN /\ timer.startTime \in Int
  BY DEF TimerInv, ClockInv
<1>2. PICK high \in Int, low \in Int :
        high = (FRAME + 1) * MILLI /\ low = (FRAME - 1) * MILLI
  BY Constants
<1>3. CASE Tick
  <2>1. ClockInv'
    BY <1>1, <1>3 DEF ClockInv, Tick
  <2>2. SleepInv'
    BY <1>1, <1>2, <1>3 DEF SleepInv, Sleepable, Tick
  <2> QED
    BY <2>1, <2>2 DEF TimerInv
<1>4. CASE WakeUp
  <2>1. ClockInv'
    BY <1>1, <1>4 DEF ClockInv, WakeUp
  <2>2. SleepInv'
    BY <1>1, <1>2, <1>4 DEF SleepInv, Sleepable, WakeUp
  <2> QED
    BY <2>1, <2>2 DEF TimerInv
<1>5. CASE SetClock
  <2>1. moved' \in Int /\ clock' = clock + moved' /\ moved = 0
    BY <1>5, Constants DEF SetClock
  <2>2. ClockInv'
    BY <1>1, <1>5, <2>1 DEF ClockInv, SetClock
  <2>3. SleepInv'
    <3>1. /\ timerPc' = timerPc /\ timerPc /= "over"
          /\ elapsed' = elapsed /\ sleep' = sleep
      BY <1>5 DEF SetClock
    <3>2. CASE timerPc = "sleeping"
      <4>1. /\ high - 0 <= USECONDS => elapsed + sleep > low
            /\ elapsed + sleep < high
        BY <1>1, <1>2, <2>1, <3>2 DEF SleepInv, Sleepable
      <4>2. Sleepable' => elapsed' + sleep' > low
        <5>1. SUFFICES ASSUME Sleepable'
                       PROVE  elapsed + sleep > low
          BY <3>1
        <5>2. moved' <= 0 /\ high - moved' <= USECONDS
          BY <1>2, <5>1 DEF Sleepable
        <5>3. PICK m \in Int, u \in Int : m = moved' /\ u = USECONDS
          BY <2>1, Constants
        <5>4. m <= 0 /\ high - m <= u
          BY <5>2, <5>3
        <5>5. high <= u
          BY <5>4
        <5> QED
          BY <4>1, <5>3, <5>5
      <4>3. elapsed' + sleep' + (IF moved' < 0 THEN moved' ELSE 0) < high
        <5>1. PICK sum \in Int, m \in Int : sum = elapsed + sleep /\ m = moved'
          BY <1>1, <2>1
        <5>2. sum + (IF m < 0 THEN m ELSE 0) < high
          BY <4>1, <5>1
        <5> QED
          BY <3>1, <5>1, <5>2
      <4> QED
        BY <1>2, <3>1, <4>2, <4>3 DEF SleepInv
    <3>3. CASE timerPc /= "sleeping"
      BY <3>1, <3>3 DEF SleepInv
    <3> QED
      BY <3>2, <3>3
  <2> QED
    BY <2>2, <2>3 DEF TimerInv
<1> QED
  BY <1>3, <1>4, <1>5

LEMMA TimerStep ==
  ASSUME TimerInv, [Next]_vars
  PROVE  TimerInv'
<1>1. CASE UNCHANGED timerVars
  BY <1>1 DEF timerVars, TimerInv, ClockInv, SleepInv, Sleepable
<1>2. CASE StartConnecting
  <2>1. ClockInv /\ timerPc = "none"
    BY <1>2 DEF TimerInv, StartConnecting
  <2>2. timer.started = FALSE
    BY <2>1 DEF ClockInv
  <2>3. attempts' \in Nat /\ timerPc' = "connecting" /\ StartTimer(timer) /\ sleep' = sleep
    BY <1>2, <2>1 DEF StartConnecting, ClockInv
  <2> QED
    BY <2>2, <2>3, StartStep
<1>3. CASE Retry \/ StartFrame \/ ServerStarts
  <2>1. stop(timer).started = FALSE
    BY DEF stop
  <2>2. /\ StartTimer(stop(timer)) /\ sleep' = sleep
        /\ timerPc' \in {"connecting", "working"}
        /\ attempts' \in Nat
    BY <1>3 DEF Retry, StartFrame, ServerStarts, TimerInv, ClockInv
  <2> QED
    BY <2>1, <2>2, StartStep
<1>4. CASE Connected
  <2>1. ClockInv'
    BY <1>4 DEF Connected, TimerInv, ClockInv, Garbage
  <2>2. SleepInv'
    BY <1>4 DEF Connected, SleepInv
  <2> QED
    BY <2>1, <2>2 DEF TimerInv
<1>5. CASE EndWork
  BY <1>5, EndWorkStep
<1>6. CASE Tick \/ WakeUp \/ SetClock
  BY <1>6, TimePassesStep
<1> QED
  BY <1>1, <1>2, <1>3, <1>4, <1>5, <1>6
     DEF Next, vars, Begin, LogLine, Logging, LineLogged, ClientConnects, ClientRetries

LEMMA InitTimer ==
  ASSUME Init
  PROVE  TimerInv
<1>1. clock \in Int
  BY Constants DEF Init, TimerInit
<1> QED
  BY <1>1 DEF Init, TimerInit, TimerInv, ClockInv, SleepInv, Garbage

(* The clock and the sleep of the frame stay as the invariant says. *)
THEOREM TimerKeeps == Spec => []TimerInv
<1>1. Init => TimerInv
  BY InitTimer
<1>2. TimerInv /\ [Next]_vars => TimerInv'
  BY TimerStep
<1> QED
  BY <1>1, <1>2, PTL DEF Spec

(* The time of a timer is what has passed and what the clock was set by,   *)
(* to less than a millisecond, whatever the lengths of a millisecond and   *)
(* of a second.                                                            *)
THEOREM ReadsElapsed == Spec => []TimeIsElapsed
<1>1. TimerInv => TimeIsElapsed
  <2>1. SUFFICES ASSUME ClockInv, timer.started
                 PROVE  /\ -MILLI < MILLI * getTime(timer, clock) - (elapsed + moved)
                        /\ MILLI * getTime(timer, clock) - (elapsed + moved) < MILLI
    BY DEF TimerInv, TimeIsElapsed
  <2> QED
    BY <2>1, Reading
<1> QED
  BY <1>1, TimerKeeps, PTL

(* No frame is shorter than 1000/MAXFPS milliseconds, but for the one that *)
(* is rounded off, unless the clock is set forward or far back.            *)
THEOREM FramesLast == Spec => []NoFasterThanMaxFps
<1>1. TimerInv => NoFasterThanMaxFps
  BY DEF TimerInv, SleepInv, Sleepable, NoFasterThanMaxFps
<1> QED
  BY <1>1, TimerKeeps, PTL

(* No frame sleeps longer than its work leaves of it, but for as long as   *)
(* the clock was set back.                                                 *)
THEOREM FramesEnd == Spec => []SleepsTheRest
<1>1. TimerInv => SleepsTheRest
  BY DEF TimerInv, SleepInv, SleepsTheRest
<1> QED
  BY <1>1, TimerKeeps, PTL

(* No request is sent again before the timeout, unless the clock is set    *)
(* forward.                                                                *)
THEOREM RetriesWhenDue == Spec => RetriesAfterTimeout
<1>1. TimerInv /\ [Next]_vars => [RetryIsDue]_timerVars
  <2>1. SUFFICES ASSUME TimerInv, [Next]_vars, attempts' > attempts
                 PROVE  elapsed + moved > CONNECTION_TIMEOUT * MILLI
    BY DEF RetryIsDue
  <2>2. attempts \in Nat /\ elapsed \in Nat /\ moved \in Int
    BY <2>1 DEF TimerInv, ClockInv
  <2>3. Retry
    <3>1. attempts' /= attempts /\ (attempts' = 0 => FALSE)
      BY <2>1, <2>2
    <3> QED
      BY <2>1, <3>1
         DEF Next, vars, timerVars, Begin, LogLine, Logging, LineLogged, ClientConnects, ClientRetries,
             ServerStarts, StartConnecting, Connected, StartFrame, EndWork, WakeUp, Tick, SetClock
  <2>4. timer.started
    BY <2>1, <2>3 DEF TimerInv, ClockInv, Retry
  <2>5. PICK time \in Int, milli \in Int :
          /\ time = getTime(timer, clock) /\ milli = MILLI * time
          /\ milli - (elapsed + moved) < MILLI
    BY <2>1, <2>4, Reading DEF TimerInv
  <2>6. CONNECTION_TIMEOUT + 1 <= time
    BY <2>3, <2>5, Constants DEF Retry, TimedOut
  <2>7. PICK due \in Int : due = CONNECTION_TIMEOUT * MILLI
    BY Constants
  <2>8. due + MILLI <= milli
    BY <2>5, <2>6, <2>7, Constants
  <2> QED
    BY <2>2, <2>5, <2>7, <2>8, Constants
<1> QED
  BY <1>1, TimerKeeps, PTL DEF Spec, RetriesAfterTimeout

-----------------------------------------------------------------------------
(* The arguments. *)

(* Where the walk over the arguments is. *)
ArgumentsInv ==
  /\ argv \in Seq(Arguments) /\ i \in Nat
  /\ mainPc \in {"debug", "walk"} => i > 0
  /\ mainPc = "debug" => i = 1

LEMMA ArgumentsInit ==
  ASSUME Init
  PROVE  ArgumentsInv
<1>1. argv \in BoundedSeq(Arguments, MaxArgs)
  BY DEF Init, CommandLineInit
<1>2. PICK m \in 0..MaxArgs : argv \in [1..m -> Arguments]
  BY <1>1 DEF BoundedSeq, SeqOf
<1>3. argv \in Seq(Arguments)
  BY <1>2, CommandLineAssumption
<1> QED
  BY <1>3 DEF Init, CommandLineInit, ArgumentsInv

LEMMA ArgumentsStep ==
  ASSUME ArgumentsInv, [Next]_vars
  PROVE  ArgumentsInv'
<1>1. CASE checkForDebug
  BY <1>1 DEF checkForDebug, ArgumentsInv
<1>2. CASE Walk
  <2>1. /\ mainPc = "walk" /\ argv' = argv
        /\ \/ i' = i + 1 /\ mainPc' = "walk"
           \/ i' = i /\ mainPc' = "crashed"
    BY <1>2 DEF Walk, SetMode, SetAddress, SetPort, PassOver, Crash, Turn
  <2> QED
    BY <2>1 DEF ArgumentsInv
<1>3. CASE Dispatch
  BY <1>3 DEF Dispatch, ArgumentsInv
<1>4. CASE Begin
  <2>1. argv' = <<>> /\ i' = 1 /\ mainPc' = "begun"
    BY <1>4 DEF Begin
  <2> QED
    BY <2>1 DEF ArgumentsInv
<1>5. CASE LogLine \/ LineLogged
  <2>1. argv' = argv /\ i' = i /\ mainPc' \in {"logging", "logged"}
    BY <1>5 DEF LogLine, LineLogged
  <2> QED
    BY <2>1 DEF ArgumentsInv
<1>6. CASE UNCHANGED mainVars
  BY <1>6 DEF mainVars, ArgumentsInv
<1> QED
  BY <1>1, <1>2, <1>3, <1>4, <1>5, <1>6 DEF Next, vars, Logging, ClientConnects, ClientRetries, ServerStarts

-----------------------------------------------------------------------------
(* The options. *)

(* Where the options of each kind are among the first n arguments. *)
ModePlaces(n) == {k \in 1..n : argv[k] \in {"-server", "-client"}}
AddressPlaces(n) == {k \in 1..n : k < Len(argv) /\ argv[k] = "-ip" /\ argv[k + 1] # "long"}
PortPlaces(n) == {k \in 1..n : k < Len(argv) /\ argv[k] = "-port"}

(* k is the last of these places, or 0 if there are none. *)
IsLastOf(places, k) == k \in {0} \cup places /\ \A j \in places : j <= k

ModeAt(k) ==
  IF k = 0 THEN "UNKNOWN" ELSE IF argv[k] = "-server" THEN "SERVER" ELSE "CLIENT"
AddressAt(k) == IF k = 0 THEN "127.0.0.1" ELSE argv[k + 1]
PortAt(k) == IF k = 0 THEN "34567" ELSE argv[k + 1]

(* At every turn the last options of those walked over hold. *)
OptionsInv ==
  mainPc \in {"debug", "walk", "running", "returned"} =>
    /\ i - 1 <= Len(argv)
    /\ mainPc \in {"running", "returned"} => i - 1 = Len(argv)
    /\ i > 0
    /\ \E k : IsLastOf(ModePlaces(i - 1), k) /\ mode = ModeAt(k)
    /\ \E k : IsLastOf(AddressPlaces(i - 1), k) /\ address = AddressAt(k)
    /\ \E k : IsLastOf(PortPlaces(i - 1), k) /\ port = PortAt(k)

LEMMA MaxIsLast ==
  ASSUME NEW places \in SUBSET Nat, NEW k, IsLastOf(places, k)
  PROVE  Max({0} \cup places) = k
<1>1. k \in {0} \cup places /\ \A j \in {0} \cup places : k >= j /\ j \in Nat
  BY DEF IsLastOf
<1>2. \A x \in {0} \cup places : (\A j \in {0} \cup places : x >= j) => x = k
  BY <1>1
<1> QED
  BY <1>1, <1>2 DEF Max

(* One more argument is a place of its kind, or none. *)
LEMMA OneMorePlace ==
  ASSUME NEW n \in Nat, NEW places \in SUBSET (1..n), NEW k, IsLastOf(places, k)
  PROVE  IsLastOf(places \cup {n + 1}, n + 1)
  BY DEF IsLastOf

LEMMA OptionsInit ==
  ASSUME Init
  PROVE  OptionsInv
<1>1. ArgumentsInv
  BY ArgumentsInit
<1>2. Len(argv) \in Nat /\ i = 1
  BY <1>1 DEF ArgumentsInv, Init, CommandLineInit
<1>3. ModePlaces(i - 1) = {} /\ AddressPlaces(i - 1) = {} /\ PortPlaces(i - 1) = {}
  BY <1>2 DEF ModePlaces, AddressPlaces, PortPlaces
<1>4. \A places : places = {} => IsLastOf(places, 0)
  BY DEF IsLastOf
<1> QED
  BY <1>2, <1>3, <1>4 DEF OptionsInv, Init, CommandLineInit, ModeAt, AddressAt, PortAt

LEMMA OptionsWalk ==
  ASSUME ArgumentsInv, OptionsInv, SetMode \/ SetAddress \/ SetPort \/ PassOver
  PROVE  OptionsInv'
<1>1. PICK n \in Nat : n = i - 1
  BY DEF ArgumentsInv, SetMode, SetAddress, SetPort, PassOver, Turn
<1>2. /\ mainPc = "walk" /\ mainPc' = "walk" /\ argv' = argv /\ argv \in Seq(Arguments)
      /\ i = n + 1 /\ n + 1 <= Len(argv) /\ i' = n + 2 /\ i' - 1 = n + 1
      /\ argv[n + 1] \in Arguments
  BY <1>1 DEF ArgumentsInv, SetMode, SetAddress, SetPort, PassOver, Turn
<1>3. Len(argv) \in Nat /\ PassesTest
  BY <1>2 DEF PassesTest
<1>4. /\ ModePlaces(n + 1) = ModePlaces(n) \cup
           {k \in {n + 1} : argv[k] \in {"-server", "-client"}}
      /\ AddressPlaces(n + 1) = AddressPlaces(n) \cup
           {k \in {n + 1} : k < Len(argv) /\ argv[k] = "-ip" /\ argv[k + 1] # "long"}
      /\ PortPlaces(n + 1) = PortPlaces(n) \cup
           {k \in {n + 1} : k < Len(argv) /\ argv[k] = "-port"}
  BY <1>1 DEF ModePlaces, AddressPlaces, PortPlaces
<1>5. /\ ModePlaces(n) \in SUBSET (1..n) /\ AddressPlaces(n) \in SUBSET (1..n)
      /\ PortPlaces(n) \in SUBSET (1..n)
  BY DEF ModePlaces, AddressPlaces, PortPlaces
<1>6. PICK m : IsLastOf(ModePlaces(n), m) /\ mode = ModeAt(m)
  BY <1>1, <1>2 DEF OptionsInv
<1>7. PICK a : IsLastOf(AddressPlaces(n), a) /\ address = AddressAt(a)
  BY <1>1, <1>2 DEF OptionsInv
<1>8. PICK p : IsLastOf(PortPlaces(n), p) /\ port = PortAt(p)
  BY <1>1, <1>2 DEF OptionsInv
<1>9. \E k : IsLastOf(ModePlaces(n + 1), k) /\ mode' = ModeAt(k)
  <2>1. CASE SetMode
    <3>1. argv[n + 1] \in {"-server", "-client"} /\ mode' = ModeAt(n + 1)
      BY <1>1, <1>2, <2>1 DEF SetMode, Turn, ModeOf, ModeAt
    <3>2. ModePlaces(n + 1) = ModePlaces(n) \cup {n + 1}
      BY <1>4, <3>1
    <3> QED
      BY <1>5, <1>6, <3>1, <3>2, OneMorePlace
  <2>2. CASE SetAddress \/ SetPort \/ PassOver
    <3>1. argv[n + 1] \notin {"-server", "-client"} /\ mode' = mode
      BY <1>2, <2>2 DEF SetAddress, SetPort, PassOver, Turn
    <3>2. ModePlaces(n + 1) = ModePlaces(n)
      BY <1>4, <3>1
    <3> QED
      BY <1>6, <3>1, <3>2
  <2> QED
    BY <2>1, <2>2
<1>10. \E k : IsLastOf(AddressPlaces(n + 1), k) /\ address' = AddressAt(k)
  <2>1. CASE SetAddress /\ argv[i + 1] # "long"
    <3>1. /\ n + 1 < Len(argv) /\ argv[n + 1] = "-ip" /\ argv[(n + 1) + 1] # "long"
          /\ address' = argv[(n + 1) + 1]
      BY <1>1, <1>2, <1>3, <2>1 DEF SetAddress, Turn, ReadsNull
    <3>2. AddressPlaces(n + 1) = AddressPlaces(n) \cup {n + 1}
      BY <1>4, <3>1
    <3>3. address' = AddressAt(n + 1)
      BY <1>1, <3>1 DEF AddressAt
    <3> QED
      BY <1>5, <1>7, <3>2, <3>3, OneMorePlace
  <2>2. CASE ~(SetAddress /\ argv[i + 1] # "long")
    <3>1. /\ address' = address
          /\ ~(n + 1 < Len(argv) /\ argv[n + 1] = "-ip" /\ argv[(n + 1) + 1] # "long")
      BY <1>1, <1>2, <1>3, <2>2 DEF SetMode, SetAddress, SetPort, PassOver, Turn, ReadsNull
    <3>2. AddressPlaces(n + 1) = AddressPlaces(n)
      BY <1>4, <3>1
    <3> QED
      BY <1>7, <3>1, <3>2
  <2> QED
    BY <2>1, <2>2
<1>11. \E k : IsLastOf(PortPlaces(n + 1), k) /\ port' = PortAt(k)
  <2>1. CASE SetPort
    <3>1. n + 1 < Len(argv) /\ argv[n + 1] = "-port" /\ port' = argv[(n + 1) + 1]
      BY <1>1, <1>2, <1>3, <2>1 DEF SetPort, Turn, ReadsNull
    <3>2. PortPlaces(n + 1) = PortPlaces(n) \cup {n + 1}
      BY <1>4, <3>1
    <3>3. port' = PortAt(n + 1)
      BY <1>1, <3>1 DEF PortAt
    <3> QED
      BY <1>5, <1>8, <3>2, <3>3, OneMorePlace
  <2>2. CASE SetMode \/ SetAddress \/ PassOver
    <3>1. port' = port /\ ~(n + 1 < Len(argv) /\ argv[n + 1] = "-port")
      BY <1>1, <1>2, <1>3, <2>2 DEF SetMode, SetAddress, PassOver, Turn
    <3>2. PortPlaces(n + 1) = PortPlaces(n)
      BY <1>4, <3>1
    <3> QED
      BY <1>8, <3>1, <3>2
  <2> QED
    BY <2>1, <2>2
<1>12. /\ \E k : IsLastOf(ModePlaces(i - 1), k)' /\ mode' = ModeAt(k)'
       /\ \E k : IsLastOf(AddressPlaces(i - 1), k)' /\ address' = AddressAt(k)'
       /\ \E k : IsLastOf(PortPlaces(i - 1), k)' /\ port' = PortAt(k)'
  BY <1>2, <1>9, <1>10, <1>11
     DEF ModePlaces, AddressPlaces, PortPlaces, ModeAt, AddressAt, PortAt, IsLastOf
<1> QED
  BY <1>1, <1>2, <1>3, <1>12 DEF OptionsInv

LEMMA OptionsStep ==
  ASSUME ArgumentsInv, OptionsInv, [Next]_vars
  PROVE  OptionsInv'
<1> USE DEF ModePlaces, AddressPlaces, PortPlaces, ModeAt, AddressAt, PortAt, IsLastOf
<1>1. CASE checkForDebug
  BY <1>1 DEF checkForDebug, OptionsInv
<1>2. CASE Crash
  BY <1>2 DEF Crash, OptionsInv
<1>3. CASE Dispatch
  <2>1. Len(argv) \in Nat /\ i \in Nat
    BY DEF ArgumentsInv
  <2>2. i - 1 <= Len(argv) => i - 1 = Len(argv)
    BY <1>3, <2>1 DEF Dispatch
  <2>3. /\ mainPc = "walk" /\ UNCHANGED <<argv, i, mode, address, port>>
        /\ OptionsInv
    BY <1>3 DEF Dispatch
  <2> QED
    BY <2>2, <2>3 DEF OptionsInv
<1>4. CASE Begin
  BY <1>4 DEF Begin, OptionsInv
<1>5. CASE LogLine \/ LineLogged
  BY <1>5 DEF LogLine, LineLogged, OptionsInv
<1>6. CASE UNCHANGED mainVars
  BY <1>6 DEF mainVars, OptionsInv
<1> QED
  BY <1>1, <1>2, <1>3, <1>4, <1>5, <1>6, OptionsWalk
     DEF Next, vars, Walk, Logging, ClientConnects, ClientRetries, ServerStarts

(* Whatever the arguments and however many, the program runs with the last *)
(* option of every kind.                                                   *)
THEOREM LastOptions == Spec => []LastOptionWins
<1>1. ArgumentsInv /\ OptionsInv => LastOptionWins
  <2>1. SUFFICES ASSUME ArgumentsInv, OptionsInv, mainPc \in {"running", "returned"}
                 PROVE  mode = LastMode /\ address = LastAddress /\ port = LastPort
    BY DEF LastOptionWins
  <2>2. i - 1 = Len(argv)
    BY <2>1 DEF OptionsInv
  <2>3. PICK m : IsLastOf(ModePlaces(Len(argv)), m) /\ mode = ModeAt(m)
    BY <2>1, <2>2 DEF OptionsInv
  <2>4. PICK a : IsLastOf(AddressPlaces(Len(argv)), a) /\ address = AddressAt(a)
    BY <2>1, <2>2 DEF OptionsInv
  <2>5. PICK p : IsLastOf(PortPlaces(Len(argv)), p) /\ port = PortAt(p)
    BY <2>1, <2>2 DEF OptionsInv
  <2>6. /\ Max({0} \cup ModePlaces(Len(argv))) = m
        /\ Max({0} \cup AddressPlaces(Len(argv))) = a
        /\ Max({0} \cup PortPlaces(Len(argv))) = p
    <3>1. /\ ModePlaces(Len(argv)) \in SUBSET Nat /\ AddressPlaces(Len(argv)) \in SUBSET Nat
          /\ PortPlaces(Len(argv)) \in SUBSET Nat
      BY DEF ModePlaces, AddressPlaces, PortPlaces
    <3> QED
      BY <2>3, <2>4, <2>5, <3>1, MaxIsLast
  <2>7. mode = LastMode
    BY <2>3, <2>6 DEF LastMode, LastPlace, ModePlaces, ModeAt
  <2>8. address = LastAddress
    BY <2>4, <2>6 DEF LastAddress, LastPlace, AddressPlaces, AddressAt
  <2>9. port = LastPort
    BY <2>5, <2>6 DEF LastPort, LastPlace, PortPlaces, PortAt
  <2> QED
    BY <2>7, <2>8, <2>9
<1>2. Init => ArgumentsInv /\ OptionsInv
  BY ArgumentsInit, OptionsInit
<1>3. ArgumentsInv /\ OptionsInv /\ [Next]_vars => (ArgumentsInv /\ OptionsInv)'
  BY ArgumentsStep, OptionsStep
<1> QED
  BY <1>1, <1>2, <1>3, PTL DEF Spec

-----------------------------------------------------------------------------
(* Sockets. *)

InUse == asked \cup ({sfd} \ {NoSocket})

(* Each socket in use or asked from is one that got no thread, but for the *)
(* one that did.                                                           *)
SocketsInv ==
  /\ opened \in Nat /\ sfd \in 0..opened /\ asked \subseteq 1..opened
  /\ setup \in BOOLEAN /\ unthreaded \in Nat
  /\ setup => listening = sfd
  /\ Cardinality(InUse) <= unthreaded + (IF setup THEN 1 ELSE 0)

LEMMA FiniteInUse ==
  ASSUME SocketsInv
  PROVE  /\ IsFiniteSet(asked) /\ IsFiniteSet(InUse)
         /\ Cardinality(asked) \in Nat /\ Cardinality(InUse) \in Nat
         /\ Cardinality(asked) <= Cardinality(InUse)
<1>1. IsFiniteSet(1..opened)
  BY FS_Interval DEF SocketsInv
<1>2. asked \subseteq InUse /\ InUse \subseteq 1..opened
  BY DEF SocketsInv, InUse, NoSocket
<1>3. IsFiniteSet(InUse)
  BY <1>1, <1>2, FS_Subset
<1>4. IsFiniteSet(asked) /\ Cardinality(asked) <= Cardinality(InUse)
  BY <1>2, <1>3, FS_Subset
<1> QED
  BY <1>3, <1>4, FS_CardinalityType

(* A call of Setup, with a request that is sent or not. *)
LEMMA SetupStep ==
  ASSUME SocketsInv, NEW unbound \in Nat, Setup(unbound),
         asked' = asked \/ asked' = asked \cup ({sfd'} \ {NoSocket})
  PROVE  SocketsInv'
<1>1. CASE UNCHANGED <<sfd, setup, listening, unthreaded>> /\ opened' \in Nat /\ opened <= opened'
  <2>1. InUse' = InUse
    BY <1>1 DEF InUse
  <2>2. asked' \subseteq 1..opened'
    <3>1. opened \in Nat /\ sfd' \in 0..opened /\ asked \subseteq 1..opened
      BY <1>1 DEF SocketsInv
    <3>2. 1..opened \subseteq 1..opened' /\ 0..opened \ {NoSocket} = 1..opened
      BY <1>1, <3>1 DEF NoSocket
    <3>3. {sfd'} \ {NoSocket} \subseteq 1..opened
      BY <3>1, <3>2
    <3> QED
      BY <3>1, <3>2, <3>3
  <2> QED
    BY <1>1, <2>1, <2>2 DEF SocketsInv, InUse
<1>2. ASSUME NEW left \in 0..unbound, Created(left)
      PROVE  ~setup => SocketsInv'
  <2> SUFFICES ASSUME ~setup PROVE SocketsInv'
    OBVIOUS
  <2>1. /\ opened' \in Nat /\ opened < opened' /\ sfd' = opened'
        /\ \/ setup' = TRUE /\ listening' = sfd' /\ unthreaded' = unthreaded
           \/ unthreaded' = unthreaded + 1 /\ setup' = FALSE
    <3>1. setup = FALSE
      BY Zenon DEF SocketsInv
    <3> QED
      BY <1>2, <3>1 DEF Created, SocketsInv
  <2>2. asked' \subseteq 1..opened'
    <3>1. asked \subseteq 1..opened /\ 1..opened \subseteq 1..opened' /\ sfd' \in 1..opened'
      BY <2>1 DEF SocketsInv
    <3> QED
      BY <3>1
  <2>3. InUse' \subseteq InUse \cup {sfd'}
    BY <2>1 DEF InUse
  <2>4. Cardinality(InUse') <= Cardinality(InUse) + 1 /\ Cardinality(InUse') \in Nat
    <3>1. IsFiniteSet(InUse \cup {sfd'}) /\ Cardinality(InUse \cup {sfd'}) <= Cardinality(InUse) + 1
      <4>1. Cardinality(InUse \cup {sfd'}) = Cardinality(InUse)
              \/ Cardinality(InUse \cup {sfd'}) = Cardinality(InUse) + 1
        BY FiniteInUse, FS_AddElement
      <4> QED
        BY <4>1, FiniteInUse, FS_AddElement
    <3>2. /\ IsFiniteSet(InUse')
          /\ Cardinality(InUse') <= Cardinality(InUse \cup {sfd'})
      BY <2>3, <3>1, FS_Subset
    <3>3. Cardinality(InUse') \in Nat /\ Cardinality(InUse \cup {sfd'}) \in Nat
      BY <3>1, <3>2, FS_CardinalityType
    <3> QED
      BY <3>1, <3>2, <3>3, FiniteInUse
  <2>5. Cardinality(InUse) <= unthreaded
    BY DEF SocketsInv, InUse
  <2>6. Cardinality(InUse') <= unthreaded' + (IF setup' THEN 1 ELSE 0)
    BY <2>1, <2>4, <2>5, FiniteInUse DEF SocketsInv
  <2> QED
    <3>1. setup' \in BOOLEAN /\ (setup' => listening' = sfd')
      BY <2>1
    <3>2. unthreaded' \in Nat
      BY <2>1 DEF SocketsInv
    <3>3. opened' \in Nat /\ sfd' \in 0..opened'
      BY <2>1
    <3> QED
      BY <2>2, <2>6, <3>1, <3>2, <3>3 DEF SocketsInv
<1>3. \/ UNCHANGED <<sfd, setup, listening, unthreaded>> /\ opened' \in Nat /\ opened <= opened'
      \/ ~setup /\ \E left \in 0..unbound : Created(left)
  BY DEF Setup, CreateSocket, CreateFails, SocketsInv
<1> QED
  BY <1>1, <1>2, <1>3

(* SocketsInv holds whatever getaddrinfo, socket and pthread_create do. *)
LEMMA SocketsKeep == Spec => []SocketsInv
<1>1. Init => SocketsInv
  <2> SUFFICES ASSUME Init PROVE SocketsInv
    OBVIOUS
  <2>1. InUse = {} /\ asked = {} /\ sfd = 0 /\ opened = 0 /\ setup = FALSE /\ unthreaded = 0
    BY DEF Init, SocketsInit, NoSocket, InUse
  <2>2. Cardinality(InUse) <= unthreaded + (IF setup THEN 1 ELSE 0)
    <3>1. Cardinality(InUse) = 0
      BY <2>1, FS_EmptySet
    <3> QED
      BY <2>1, <3>1
  <2>3. opened \in Nat /\ sfd \in 0..opened /\ asked \subseteq 1..opened
    BY <2>1
  <2>4. setup \in BOOLEAN /\ unthreaded \in Nat /\ (setup => listening = sfd)
    BY <2>1
  <2> QED
    BY <2>2, <2>3, <2>4 DEF SocketsInv
<1>2. SocketsInv /\ [Next]_vars => SocketsInv'
  <2> SUFFICES ASSUME SocketsInv, [Next]_vars PROVE SocketsInv'
    OBVIOUS
  <2>1. CASE UNCHANGED socketVars
    BY <2>1 DEF SocketsInv, InUse, socketVars
  <2>2. CASE Request
    BY <2>2, SetupStep DEF Request
  <2>3. CASE ServerSetup
    BY <2>3, SetupStep, SocketsAssumption DEF ServerSetup
  <2> QED
    BY <2>1, <2>2, <2>3
       DEF Next, vars, Begin, LogLine, Logging, LineLogged, ClientConnects, ClientRetries, ServerStarts
<1> QED
  BY <1>1, <1>2, PTL DEF Spec

(* Once there is a network thread, it listens to the socket in use. *)
THEOREM AnswersAreHeard == Spec => []HearsItsAnswers
<1>1. SocketsInv => HearsItsAnswers
  BY DEF SocketsInv, HearsItsAnswers
<1> QED
  BY <1>1, SocketsKeep, PTL

(* A client asks from one address and from one more per socket that got no *)
(* thread, however often it asks.                                          *)
THEOREM OneAddress == Spec => []AsksFromOneAddress
<1>1. SocketsInv => AsksFromOneAddress
  <2> SUFFICES ASSUME SocketsInv PROVE AsksFromOneAddress
    OBVIOUS
  <2>1. Cardinality(InUse) <= unthreaded + 1
    BY FiniteInUse DEF SocketsInv, InUse
  <2> QED
    BY <2>1, FiniteInUse DEF AsksFromOneAddress, SocketsInv
<1> QED
  BY <1>1, SocketsKeep, PTL

-----------------------------------------------------------------------------
(* Induction on the naturals, by sets. *)

LEMMA LeastNatural ==
  ASSUME NEW T, T \subseteq Nat, T # {}
  PROVE  \E x \in T : \A y \in T : x <= y
<1> DEFINE R == OpToRel(<, Nat)
<1>1. IsWellFoundedOn(R, Nat)
  BY NatLessThanWellFounded
<1>2. PICK x \in T : \A y \in T : ~ (<<y, x>> \in R)
  BY <1>1, WFMin
<1>3. \A y \in T : ~ (y < x)
  BY <1>2 DEF OpToRel
<1> QED
  BY <1>3

LEMMA Induction ==
  ASSUME NEW T, 0 \in T, \A n \in T : n \in Nat => n + 1 \in T
  PROVE  Nat \subseteq T
<1> SUFFICES ASSUME Nat \ T # {} PROVE FALSE
  OBVIOUS
<1>1. PICK x \in Nat \ T : \A y \in Nat \ T : x <= y
  BY LeastNatural
<1>2. x > 0 /\ x - 1 \in Nat
  BY <1>1
<1>3. x - 1 \in T
  BY <1>1, <1>2
<1> QED
  BY <1>1, <1>2, <1>3

-----------------------------------------------------------------------------
(* Sequences put together. *)

(* g[j] is the first j of the n sequences, together. *)
Joins(g, p, n) == g = [j \in 1..n |-> IF j = 1 THEN p[j] ELSE g[j - 1] \o p[j]]

LEMMA JoinExists ==
  ASSUME NEW p
  PROVE  \A n \in Nat : \E g : Joins(g, p, n)
<1> DEFINE T == {n \in Nat : \E g : Joins(g, p, n)}
<1>1. 0 \in T
  <2>1. Joins([j \in 1..0 |-> 0], p, 0)
    BY DEF Joins
  <2> QED
    BY <2>1
<1>2. ASSUME NEW n \in T, n \in Nat
      PROVE  n + 1 \in T
  <2>1. PICK g : Joins(g, p, n)
    BY <1>2
  <2> DEFINE h == [j \in 1..(n + 1) |->
                     IF j <= n THEN g[j] ELSE IF n = 0 THEN p[j] ELSE g[n] \o p[j]]
  <2>2. \A j \in 1..(n + 1) : h[j] = IF j = 1 THEN p[j] ELSE h[j - 1] \o p[j]
    <3> TAKE j \in 1..(n + 1)
    <3>1. \A c \in 1..n : g[c] = IF c = 1 THEN p[c] ELSE g[c - 1] \o p[c]
      BY <2>1 DEF Joins
    <3>2. CASE j = 1
      BY <3>1, <3>2, <1>2
    <3>3. CASE j # 1
      <4>1. j - 1 \in 1..n /\ j - 1 \in 1..(n + 1) /\ n # 0
        BY <3>3, <1>2
      <4>2. h[j - 1] = g[j - 1]
        BY <4>1
      <4>3. CASE j <= n
        <5>1. j \in 1..n
          BY <4>3, <1>2
        <5> QED
          BY <3>1, <3>3, <4>2, <4>3, <5>1
      <4>4. CASE ~ (j <= n)
        <5>1. j - 1 = n
          BY <4>4, <1>2
        <5> QED
          BY <3>3, <4>1, <4>2, <4>4, <5>1
      <4> QED
        BY <4>3, <4>4
    <3> QED
      BY <3>2, <3>3
  <2>3. h = [j \in 1..(n + 1) |-> h[j]]
    OBVIOUS
  <2> HIDE DEF h
  <2>4. Joins(h, p, n + 1)
    BY <2>2, <2>3 DEF Joins
  <2> QED
    BY <2>4, <1>2
<1>3. Nat \subseteq T
  <2> HIDE DEF T
  <2> QED
    BY <1>1, <1>2, Induction
<1> QED
  BY <1>3

LEMMA JoinIsUnique ==
  ASSUME NEW p, NEW q, NEW g, NEW h, NEW m \in Nat, NEW n \in Nat, n <= m,
         Joins(g, p, n), Joins(h, q, m), \A k \in 1..n : p[k] = q[k]
  PROVE  \A j \in 1..n : g[j] = h[j]
<1>1. \A j \in 1..n : /\ g[j] = IF j = 1 THEN p[j] ELSE g[j - 1] \o p[j]
                      /\ h[j] = IF j = 1 THEN p[j] ELSE h[j - 1] \o p[j]
  <2>1. \A j \in 1..n : g[j] = IF j = 1 THEN p[j] ELSE g[j - 1] \o p[j]
    BY DEF Joins
  <2>2. \A j \in 1..m : h[j] = IF j = 1 THEN q[j] ELSE h[j - 1] \o q[j]
    BY DEF Joins
  <2>3. \A j \in 1..n : j \in 1..m
    OBVIOUS
  <2> QED
    BY <2>1, <2>2, <2>3
<1> DEFINE T == {j \in Nat : j \in 1..n => g[j] = h[j]}
<1>2. 0 \in T
  OBVIOUS
<1>3. ASSUME NEW j \in T, j \in Nat
      PROVE  j + 1 \in T
  <2> SUFFICES ASSUME j + 1 \in 1..n
               PROVE  g[j + 1] = h[j + 1]
    BY <1>3
  <2>1. CASE j = 0
    BY <2>1, <1>1
  <2>2. CASE j # 0
    <3>1. j \in 1..n /\ (j + 1) - 1 = j /\ j + 1 # 1
      BY <2>2, <1>3
    <3> QED
      BY <3>1, <1>1, <1>3
  <2> QED
    BY <2>1, <2>2
<1>4. Nat \subseteq T
  <2> HIDE DEF T
  <2> QED
    BY <1>2, <1>3, Induction
<1> QED
  BY <1>4

LEMMA FlattenIs ==
  ASSUME NEW S, NEW s \in Seq(S), s # <<>>, NEW q, NEW h, NEW m \in Nat, Len(s) <= m,
         Joins(h, q, m), \A k \in 1..Len(s) : s[k] = q[k]
  PROVE  FlattenSeq(s) = h[Len(s)]
<1> DEFINE n == Len(s)
<1>1. n \in Nat /\ n # 0
  OBVIOUS
<1>2. FlattenSeq(s) = (CHOOSE g : Joins(g, s, n))[n]
  BY <1>1 DEF FlattenSeq, Joins
<1>3. PICK g : g = (CHOOSE x : Joins(x, s, n)) /\ Joins(g, s, n)
  BY <1>1, JoinExists
<1>4. g[n] = h[n]
  <2>1. n \in 1..n
    BY <1>1
  <2> QED
    BY <2>1, <1>1, <1>3, JoinIsUnique
<1> QED
  BY <1>2, <1>3, <1>4

(* The first n + 1 sequences are the first n and one more. *)
LEMMA FlattenOneMore ==
  ASSUME NEW S, NEW p, NEW n \in Nat, \A k \in 1..(n + 1) : p[k] \in Seq(S),
         FlattenSeq([k \in 1..n |-> p[k]]) \in Seq(S)
  PROVE  FlattenSeq([k \in 1..(n + 1) |-> p[k]]) = FlattenSeq([k \in 1..n |-> p[k]]) \o p[n + 1]
<1> DEFINE s == [k \in 1..n |-> p[k]]
           t == [k \in 1..(n + 1) |-> p[k]]
<1>1. /\ s \in Seq(Seq(S)) /\ Len(s) = n /\ \A k \in 1..n : s[k] = p[k]
      /\ t \in Seq(Seq(S)) /\ Len(t) = n + 1 /\ \A k \in 1..(n + 1) : t[k] = p[k]
  OBVIOUS
<1>a. n + 1 \in Nat /\ n + 1 # 0 /\ n \in Nat /\ n <= n + 1 /\ n + 1 <= n + 1
  OBVIOUS
<1>b. t \in Seq(Seq(S)) /\ t # <<>> /\ Len(t) <= n + 1 /\ \A k \in 1..Len(t) : t[k] = p[k]
  <2>1. t \in Seq(Seq(S)) /\ Len(t) = n + 1
    BY <1>1
  <2>2. t # <<>>
    <3>1. ASSUME t = <<>> PROVE FALSE
      <4> HIDE DEF t
      <4>1. Len(t) = 0
        BY <3>1
      <4> QED
        BY <4>1, <2>1, <1>a
    <3> QED
      BY <3>1
  <2> HIDE DEF t
  <2> QED
    BY <2>1, <2>2, <1>1, <1>a
<1>2. PICK g : Joins(g, p, n + 1)
  BY JoinExists, <1>a
<1>3. n + 1 \in 1..(n + 1) /\ (n + 1) - 1 = n
  OBVIOUS
<1>4. g[n + 1] = IF n + 1 = 1 THEN p[n + 1] ELSE g[n] \o p[n + 1]
  BY <1>2, <1>3 DEF Joins
<1> HIDE DEF s, t
<1>5. FlattenSeq(t) = g[n + 1]
  <2>1. FlattenSeq(t) = g[Len(t)]
    BY <1>a, <1>b, <1>2, FlattenIs
  <2> QED
    BY <2>1, <1>1
<1>6. ASSUME n = 0
      PROVE  FlattenSeq(t) = FlattenSeq(s) \o p[n + 1]
  <2>1. s = <<>> /\ FlattenSeq(s) = <<>>
    <3>1. s = <<>>
      BY <1>1, <1>6, EmptySeq
    <3> QED
      BY <3>1 DEF FlattenSeq
  <2>2. <<>> \o p[n + 1] = p[n + 1]
    BY <1>3, ConcatEmptySeq
  <2> QED
    BY <2>1, <2>2, <1>4, <1>5, <1>6
<1>7. ASSUME n # 0
      PROVE  FlattenSeq(t) = FlattenSeq(s) \o p[n + 1]
  <2>1. s # <<>>
    <3>1. ASSUME s = <<>> PROVE FALSE
      <4>1. Len(s) = 0
        BY <3>1
      <4> QED
        BY <4>1, <1>1, <1>7
    <3> QED
      BY <3>1
  <2>2. s \in Seq(Seq(S)) /\ Len(s) <= n + 1 /\ \A k \in 1..Len(s) : s[k] = p[k]
    BY <1>1, <1>a
  <2>3. FlattenSeq(s) = g[Len(s)]
    BY <2>1, <2>2, <1>a, <1>2, FlattenIs
  <2>4. FlattenSeq(s) = g[n]
    BY <2>3, <1>1
  <2> QED
    <3>1. n + 1 # 1
      BY <1>7
    <3> QED
      BY <2>4, <1>4, <1>5, <3>1
<1>8. FlattenSeq(t) = FlattenSeq(s) \o p[n + 1]
  BY <1>6, <1>7
<1> QED
  BY <1>8 DEF s, t



-----------------------------------------------------------------------------
(* The marks of a format, and their places. *)

(* What follows a mark's "%" is in the format, and no "%". *)
LEMMA MarksOf ==
  ASSUME NEW f \in Seq(Symbols)
  PROVE  /\ Marks(f) \subseteq 1..Len(f) /\ IsFiniteSet(Marks(f))
         /\ \A k \in Marks(f) : k + 1 \in 1..Len(f) /\ k + 1 \notin Marks(f)
<1>1. Marks(f) \subseteq 1..Len(f) /\ Len(f) \in Nat
  BY DEF Marks
<1>2. IsFiniteSet(Marks(f))
  <2>1. IsFiniteSet(1..Len(f))
    BY <1>1, FS_Interval
  <2> QED
    BY <2>1, <1>1, FS_Subset
<1>3. ASSUME NEW k \in Marks(f)
      PROVE  k + 1 \in 1..Len(f) /\ k + 1 \notin Marks(f)
  <2>1. k \in 1..Len(f) /\ k < Len(f) /\ markType(f[k + 1]) # "NONE"
    BY <1>3 DEF Marks, IsMark
  <2>2. k + 1 \in 1..Len(f)
    BY <2>1, <1>1
  <2>3. f[k + 1] # "%"
    BY <2>1 DEF markType
  <2> QED
    BY <2>2, <2>3 DEF Marks, IsMark
<1> QED
  BY <1>1, <1>2, <1>3

LEMMA CountedIs ==
  ASSUME NEW f \in Seq(Symbols)
  PROVE  /\ Counted(f, 0) = 0 /\ Counted(f, Len(f)) = formatCount(f)
         /\ \A k \in 0..Len(f) : Counted(f, k) \in Nat
         /\ \A k \in 1..Len(f) :
              Counted(f, k) = IF k \in Marks(f) THEN Counted(f, k - 1) + 1 ELSE Counted(f, k - 1)
<1> DEFINE Seen(k) == Marks(f) \cap 1..k
<1>1. \A k \in Nat : IsFiniteSet(Seen(k)) /\ Cardinality(Seen(k)) \in Nat
  BY MarksOf, FS_Intersection, FS_CardinalityType
<1>2. Seen(0) = {} /\ Seen(Len(f)) = Marks(f)
  BY MarksOf
<1>3. ASSUME NEW k \in 1..Len(f)
      PROVE  Counted(f, k) = IF k \in Marks(f) THEN Counted(f, k - 1) + 1 ELSE Counted(f, k - 1)
  <2>1. k - 1 \in Nat /\ k \notin Seen(k - 1) /\ 1..k = (1..(k - 1)) \cup {k}
    OBVIOUS
  <2>2. CASE k \in Marks(f)
    <3>1. Seen(k) = Seen(k - 1) \cup {k}
      BY <2>1, <2>2
    <3>2. Cardinality(Seen(k - 1) \cup {k}) = Cardinality(Seen(k - 1)) + 1
      <4>1. IsFiniteSet(Seen(k - 1)) /\ k \notin Seen(k - 1)
        BY <1>1, <2>1
      <4> HIDE DEF Seen
      <4> QED
        BY <4>1, FS_AddElement
    <3> QED
      BY <2>2, <3>1, <3>2 DEF Counted
  <2>3. CASE k \notin Marks(f)
    <3>1. Seen(k) = Seen(k - 1)
      BY <2>1, <2>3
    <3> QED
      BY <2>3, <3>1 DEF Counted
  <2> QED
    BY <2>2, <2>3
<1>4. Len(f) \in Nat
  OBVIOUS
<1>5. \A k \in 0..Len(f) : Counted(f, k) \in Nat
  <2> TAKE k \in 0..Len(f)
  <2>1. k \in Nat
    BY <1>4
  <2>2. Cardinality(Seen(k)) \in Nat
    BY <2>1, <1>1
  <2> QED
    BY <2>2 DEF Counted
<1>6. Counted(f, 0) = 0 /\ Counted(f, Len(f)) = formatCount(f)
  BY <1>2, FS_EmptySet DEF Counted, formatCount
<1> QED
  BY <1>3, <1>5, <1>6

LEMMA CountedGrows ==
  ASSUME NEW f \in Seq(Symbols), NEW a \in 0..Len(f), NEW b \in 0..Len(f), a <= b
  PROVE  /\ Counted(f, a) <= Counted(f, b)
         /\ a < b /\ b \in Marks(f) => Counted(f, a) < Counted(f, b)
<1>1. \A c \in 0..Len(f) : a <= c => Counted(f, a) <= Counted(f, c)
  <2> SUFFICES ASSUME NEW c \in 0..Len(f), a <= c
               PROVE  Counted(f, a) <= Counted(f, c)
    OBVIOUS
  <2>1. Marks(f) \cap 1..a \subseteq Marks(f) \cap 1..c /\ IsFiniteSet(Marks(f) \cap 1..c)
    <3>1. 1..a \subseteq 1..c
      OBVIOUS
    <3> QED
      BY <3>1, MarksOf, FS_Intersection
  <2> QED
    BY <2>1, FS_Subset DEF Counted
<1>2. ASSUME a < b, b \in Marks(f)
      PROVE  Counted(f, a) < Counted(f, b)
  <2>1. b \in 1..Len(f) /\ b - 1 \in 0..Len(f) /\ a <= b - 1
    BY <1>2
  <2>2. Counted(f, b) = Counted(f, b - 1) + 1 /\ Counted(f, b - 1) \in Nat /\ Counted(f, a) \in Nat
    BY <2>1, <1>2, CountedIs
  <2> QED
    BY <2>1, <2>2, <1>1
<1> QED
  BY <1>1, <1>2

(* Every mark that is counted has its place. *)
LEMMA PlaceIs ==
  ASSUME NEW f \in Seq(Symbols), NEW n \in 1..formatCount(f)
  PROVE  Place(f, n) \in Marks(f) /\ Counted(f, Place(f, n)) = n
<1> DEFINE T == {k \in 0..Len(f) : Counted(f, k) >= n}
<1>1. Len(f) \in T /\ T \subseteq Nat /\ Len(f) \in Nat /\ formatCount(f) \in Nat
  <2>1. Len(f) \in Nat /\ Len(f) \in 0..Len(f)
    OBVIOUS
  <2>2. Counted(f, Len(f)) = formatCount(f) /\ Counted(f, Len(f)) \in Nat
    BY <2>1, CountedIs
  <2> QED
    BY <2>1, <2>2
<1>2. PICK k \in T : \A y \in T : k <= y
  BY <1>1, LeastNatural
<1>3. k \in 0..Len(f) /\ Counted(f, k) >= n /\ n \in Nat /\ n > 0 /\ Counted(f, k) \in Nat
  BY <1>1, <1>2, CountedIs
<1>4. k # 0
  BY <1>3, CountedIs
<1>5. k \in 1..Len(f) /\ k - 1 \in 0..Len(f) /\ ~ (k <= k - 1)
  BY <1>1, <1>3, <1>4
<1>6. k - 1 \notin T
  BY <1>2, <1>5
<1>7. Counted(f, k - 1) < n /\ Counted(f, k - 1) \in Nat
  BY <1>1, <1>3, <1>5, <1>6, CountedIs
<1>8. k \in Marks(f) /\ Counted(f, k) = n
  BY <1>3, <1>5, <1>7, CountedIs
<1> QED
  BY <1>8 DEF Place

-----------------------------------------------------------------------------
(* The text between the marks. *)

(* Of the nth mark, the text before it is from after Start to End; of the  *)
(* mark after the last, the text to the end of the format.                 *)
Start(f, n) == IF n = 1 THEN 0 ELSE Place(f, n - 1) + 1

End(f, n) == IF n <= formatCount(f) THEN Place(f, n) - 1 ELSE Len(f)

LEMMA CountIsNatural ==
  ASSUME NEW f \in Seq(Symbols)
  PROVE  formatCount(f) \in Nat /\ Len(f) \in Nat
<1>1. Len(f) \in Nat /\ Len(f) \in 0..Len(f)
  OBVIOUS
<1> QED
  BY <1>1, CountedIs

(* No mark is after the one before and before the nth. *)
LEMMA NoMarkBetween ==
  ASSUME NEW f \in Seq(Symbols), NEW n \in 1..(formatCount(f) + 1),
         NEW k \in Marks(f), n = 1 \/ Place(f, n - 1) < k
  PROVE  n <= formatCount(f) /\ Place(f, n) <= k
<1>1. formatCount(f) \in Nat /\ Len(f) \in Nat /\ n \in Nat /\ k \in 1..Len(f) /\ k \in 0..Len(f)
  BY CountIsNatural, MarksOf
<1>2. Counted(f, k) \in Nat
  BY <1>1, CountedIs
<1>3. Counted(f, k) >= n
  <2>1. CASE n = 1
    <3>1. 0 \in 0..Len(f) /\ 0 < k /\ 0 <= k
      BY <1>1
    <3>2. Counted(f, 0) < Counted(f, k)
      BY <3>1, <1>1, CountedGrows
    <3> QED
      BY <2>1, <3>2, <1>2, CountedIs
  <2>2. CASE n # 1
    <3>1. n - 1 \in 1..formatCount(f)
      BY <2>2, <1>1
    <3>2. Place(f, n - 1) \in Marks(f) /\ Counted(f, Place(f, n - 1)) = n - 1
      BY <3>1, PlaceIs
    <3>3. Place(f, n - 1) \in 0..Len(f) /\ Place(f, n - 1) < k /\ Place(f, n - 1) <= k
      BY <2>2, <3>2, <1>1, MarksOf
    <3>4. Counted(f, Place(f, n - 1)) < Counted(f, k)
      BY <3>3, <1>1, CountedGrows
    <3> QED
      BY <3>2, <3>4, <1>1, <1>2
  <2> QED
    BY <2>1, <2>2
<1>4. n <= formatCount(f)
  <2>1. Len(f) \in 0..Len(f) /\ k <= Len(f)
    BY <1>1
  <2>2. Counted(f, k) <= formatCount(f)
    BY <2>1, <1>1, CountedGrows, CountedIs
  <2> QED
    BY <2>2, <1>1, <1>2, <1>3
<1>5. Place(f, n) \in Marks(f) /\ Counted(f, Place(f, n)) = n
  <2>1. n \in 1..formatCount(f)
    BY <1>1, <1>4
  <2> QED
    BY <2>1, PlaceIs
<1>6. Place(f, n) \in 0..Len(f)
  BY <1>1, <1>5, MarksOf
<1>7. ASSUME k < Place(f, n)
      PROVE  FALSE
  <2>1. Counted(f, k) < Counted(f, Place(f, n))
    <3>1. k <= Place(f, n)
      BY <1>1, <1>6, <1>7
    <3> QED
      BY <3>1, <1>1, <1>5, <1>6, <1>7, CountedGrows
  <2> QED
    BY <2>1, <1>1, <1>2, <1>3, <1>5
<1> QED
  BY <1>1, <1>4, <1>6, <1>7

LEMMA TextBetween ==
  ASSUME NEW f \in Seq(Symbols), NEW n \in 1..(formatCount(f) + 1)
  PROVE  /\ Start(f, n) \in 0..Len(f) /\ End(f, n) \in 0..Len(f)
         /\ Start(f, n) <= End(f, n)
         /\ \A k \in (Start(f, n) + 1)..End(f, n) : Piece(f, k) = <<f[k]>>
<1>1. formatCount(f) \in Nat /\ Len(f) \in Nat /\ n \in Nat /\ n >= 1
  BY CountIsNatural
<1>2. /\ n # 1 => /\ Place(f, n - 1) \in Marks(f) /\ Place(f, n - 1) + 1 \notin Marks(f)
                  /\ Place(f, n - 1) \in 1..Len(f) /\ Place(f, n - 1) + 1 \in 1..Len(f)
                  /\ Counted(f, Place(f, n - 1)) = n - 1
      /\ n <= formatCount(f) => /\ Place(f, n) \in Marks(f) /\ Place(f, n) \in 1..Len(f)
                                /\ Counted(f, Place(f, n)) = n
  <2>1. n # 1 => n - 1 \in 1..formatCount(f)
    BY <1>1
  <2>2. n <= formatCount(f) => n \in 1..formatCount(f)
    BY <1>1
  <2> QED
    BY <2>1, <2>2, PlaceIs, MarksOf
<1>3. Start(f, n) \in 0..Len(f) /\ End(f, n) \in 0..Len(f)
  BY <1>1, <1>2 DEF Start, End
<1>4. Start(f, n) <= End(f, n)
  <2>1. CASE n = 1 \/ ~ (n <= formatCount(f))
    BY <2>1, <1>1, <1>2, <1>3 DEF Start, End
  <2>2. CASE n # 1 /\ n <= formatCount(f)
    <3>1. Place(f, n - 1) < Place(f, n)
      <4>1. ASSUME Place(f, n) <= Place(f, n - 1)
            PROVE  FALSE
        <5>1. Place(f, n) \in 0..Len(f) /\ Place(f, n - 1) \in 0..Len(f)
          BY <2>2, <1>1, <1>2
        <5>2. Counted(f, Place(f, n)) <= Counted(f, Place(f, n - 1))
          BY <4>1, <5>1, CountedGrows
        <5> QED
          BY <5>2, <2>2, <1>1, <1>2
      <4> QED
        BY <4>1, <2>2, <1>1, <1>2
    <3>2. Place(f, n) # Place(f, n - 1) + 1
      BY <2>2, <1>2
    <3> QED
      BY <3>1, <3>2, <2>2, <1>1, <1>2 DEF Start, End
  <2> QED
    BY <2>1, <2>2
<1>5. ASSUME NEW k \in (Start(f, n) + 1)..End(f, n)
      PROVE  Piece(f, k) = <<f[k]>>
  <2>1. k \in Int /\ Start(f, n) < k /\ k <= End(f, n)
    BY <1>3
  <2>2. \A c \in Marks(f) : c \in {k - 1, k} => FALSE
    <3> SUFFICES ASSUME NEW c \in Marks(f), c \in {k - 1, k}
                 PROVE  FALSE
      OBVIOUS
    <3>1. c \in Nat /\ c <= k
      BY <2>1, MarksOf
    <3>2. n = 1 \/ Place(f, n - 1) < c
      BY <2>1, <3>1, <1>1, <1>2 DEF Start
    <3>3. n <= formatCount(f) /\ Place(f, n) <= c
      BY <3>2, NoMarkBetween
    <3>4. c < Place(f, n)
      BY <2>1, <3>1, <3>3, <1>1, <1>2 DEF End
    <3> QED
      BY <3>1, <3>3, <3>4, <1>2
  <2> QED
    BY <2>2 DEF Piece
<1> QED
  BY <1>3, <1>4, <1>5


-----------------------------------------------------------------------------
(* What is printed for a part of the format. *)

(* A symbol, or the number of an argument with the type it is read as. *)
Types == {"STRING", "CHAR", "INT", "DOUBLE", "NONE"}

Out == Symbols \cup [argument : Nat, as : Types]

LEMMA PieceType ==
  ASSUME NEW f \in Seq(Symbols), NEW k \in 1..Len(f)
  PROVE  Piece(f, k) \in Seq(Out)
<1>1. f[k] \in Symbols
  OBVIOUS
<1>2. k \in 0..Len(f)
  OBVIOUS
<1>3. Counted(f, k) \in Nat
  BY <1>2, CountedIs
<1>4. markType(f[k + 1]) \in Types
  <2>1. \A c : markType(c) \in Types
    BY DEF markType, Types
  <2> QED
    BY <2>1
<1>5. Printed(Counted(f, k), markType(f[k + 1])) \in Seq(Out)
  BY <1>3, <1>4 DEF Printed, Out
<1>6. <<f[k]>> \in Seq(Out) /\ <<>> \in Seq(Out)
  BY <1>1 DEF Out
<1> QED
  BY <1>5, <1>6 DEF Piece

LEMMA ReplacedNone ==
  ASSUME NEW f
  PROVE  Replaced(f, 0) = <<>>
<1>1. [k \in 1..0 |-> Piece(f, k)] = <<>>
  OBVIOUS
<1> QED
  BY <1>1 DEF Replaced, FlattenSeq

LEMMA ReplacedIs ==
  ASSUME NEW f \in Seq(Symbols)
  PROVE  \A n \in 0..Len(f) :
           /\ Replaced(f, n) \in Seq(Out)
           /\ n < Len(f) => Replaced(f, n + 1) = Replaced(f, n) \o Piece(f, n + 1)
<1>1. ASSUME NEW n \in Nat, n < Len(f), Replaced(f, n) \in Seq(Out)
      PROVE  Replaced(f, n + 1) = Replaced(f, n) \o Piece(f, n + 1)
  <2>1. \A k \in 1..(n + 1) : k \in 1..Len(f)
    BY <1>1
  <2>2. \A k \in 1..(n + 1) : Piece(f, k) \in Seq(Out)
    BY <2>1, PieceType
  <2>3. PICK p : p = [k \in 1..(n + 1) |-> Piece(f, k)]
    OBVIOUS
  <2>4. \A k \in 1..(n + 1) : p[k] = Piece(f, k) /\ p[k] \in Seq(Out)
    BY <2>2, <2>3
  <2>5. /\ [k \in 1..n |-> p[k]] = [k \in 1..n |-> Piece(f, k)]
        /\ [k \in 1..(n + 1) |-> p[k]] = [k \in 1..(n + 1) |-> Piece(f, k)]
        /\ p[n + 1] = Piece(f, n + 1)
    <3>1. \A k \in 1..n : k \in 1..(n + 1)
      BY <1>1
    <3>2. n + 1 \in 1..(n + 1)
      BY <1>1
    <3> QED
      BY <3>1, <3>2, <2>4
  <2>6. FlattenSeq([k \in 1..n |-> p[k]]) \in Seq(Out)
    BY <2>5, <1>1 DEF Replaced
  <2>7. FlattenSeq([k \in 1..(n + 1) |-> p[k]]) = FlattenSeq([k \in 1..n |-> p[k]]) \o p[n + 1]
    BY <2>4, <2>6, <1>1, FlattenOneMore
  <2> QED
    BY <2>5, <2>7 DEF Replaced
<1> DEFINE T == {n \in Nat : n <= Len(f) => Replaced(f, n) \in Seq(Out)}
<1>2. 0 \in T
  <2>1. Replaced(f, 0) \in Seq(Out)
    <3>1. <<>> \in Seq(Out)
      OBVIOUS
    <3> QED
      BY <3>1, ReplacedNone
  <2> QED
    BY <2>1
<1>3. ASSUME NEW n \in T, n \in Nat
      PROVE  n + 1 \in T
  <2> SUFFICES ASSUME n + 1 <= Len(f)
               PROVE  Replaced(f, n + 1) \in Seq(Out)
    BY <1>3
  <2>1. Replaced(f, n) \in Seq(Out) /\ n < Len(f) /\ n + 1 \in 1..Len(f)
    BY <1>3
  <2>2. Replaced(f, n + 1) = Replaced(f, n) \o Piece(f, n + 1) /\ Piece(f, n + 1) \in Seq(Out)
    BY <2>1, <1>1, <1>3, PieceType
  <2> QED
    BY <2>1, <2>2, ConcatProperties
<1>4. Nat \subseteq T
  <2> HIDE DEF T
  <2> QED
    BY <1>2, <1>3, Induction
<1>5. ASSUME NEW n \in 0..Len(f)
      PROVE  n \in Nat /\ n <= Len(f)
  OBVIOUS
<1> QED
  BY <1>1, <1>4, <1>5

(* Symbols that are no part of a mark are printed as they are. *)
LEMMA ReplacedText ==
  ASSUME NEW f \in Seq(Symbols), NEW a \in 0..Len(f), NEW b \in 0..Len(f), a <= b,
         \A k \in (a + 1)..b : Piece(f, k) = <<f[k]>>
  PROVE  Replaced(f, b) = Replaced(f, a) \o SubSeq(f, a + 1, b)
<1>0. Len(f) \in Nat /\ a \in Nat /\ b \in Nat
  OBVIOUS
<1> DEFINE P(c) == c <= b => Replaced(f, c) = Replaced(f, a) \o SubSeq(f, a + 1, c)
           T == {n \in Nat : P(a + n)}
<1>1. Replaced(f, a) \in Seq(Out) /\ Seq(Symbols) \subseteq Seq(Out)
  <2>1. Symbols \subseteq Out
    BY DEF Out
  <2> QED
    BY <2>1, ReplacedIs, SeqMonotonic
<1>2. 0 \in T
  <2>1. SubSeq(f, a + 1, a) = <<>>
    BY <1>0
  <2>2. Replaced(f, a) \o <<>> = Replaced(f, a)
    BY <1>1, ConcatEmptySeq
  <2>3. a + 0 = a
    BY <1>0
  <2>4. P(a)
    BY <2>1, <2>2
  <2> HIDE DEF P
  <2> QED
    BY <2>3, <2>4
<1>3. ASSUME NEW n \in T, n \in Nat
      PROVE  n + 1 \in T
  <2>1. PICK c : c = a + n
    OBVIOUS
  <2> SUFFICES ASSUME c + 1 <= b
               PROVE  Replaced(f, c + 1) = Replaced(f, a) \o SubSeq(f, a + 1, c + 1)
    <3>1. P(c + 1)
      OBVIOUS
    <3>2. a + (n + 1) = c + 1 /\ n + 1 \in Nat
      BY <2>1, <1>0, <1>3
    <3> HIDE DEF P
    <3> QED
      BY <3>1, <3>2
  <2>2. /\ c \in Nat /\ c \in 0..Len(f) /\ c < Len(f) /\ c <= b /\ a <= c
        /\ c + 1 \in (a + 1)..b /\ c + 1 \in 1..Len(f)
    BY <2>1, <1>0, <1>3
  <2>3. Replaced(f, c) = Replaced(f, a) \o SubSeq(f, a + 1, c)
    <3>1. P(c)
      <4> HIDE DEF P
      <4> QED
        BY <1>3, <2>1
    <3> QED
      BY <3>1, <2>2
  <2>4. Replaced(f, c + 1) = Replaced(f, c) \o <<f[c + 1]>>
    BY <2>2, ReplacedIs
  <2>5. SubSeq(f, a + 1, c + 1) = SubSeq(f, a + 1, c) \o <<f[c + 1]>>
    <3>1. SubSeq(f, a + 1, c + 1) = Append(SubSeq(f, a + 1, c), f[c + 1])
      BY <1>0, <2>2
    <3>2. SubSeq(f, a + 1, c) \in Seq(Symbols) /\ f[c + 1] \in Symbols
      BY <1>0, <2>2
    <3> QED
      BY <3>1, <3>2, AppendIsConcat
  <2>6. SubSeq(f, a + 1, c) \in Seq(Out) /\ <<f[c + 1]>> \in Seq(Out)
    <3>1. SubSeq(f, a + 1, c) \in Seq(Symbols) /\ <<f[c + 1]>> \in Seq(Symbols)
      BY <1>0, <2>2
    <3> QED
      BY <3>1, <1>1
  <2>7. (Replaced(f, a) \o SubSeq(f, a + 1, c)) \o <<f[c + 1]>>
          = Replaced(f, a) \o (SubSeq(f, a + 1, c) \o <<f[c + 1]>>)
    <3>1. ASSUME NEW x \in Seq(Out), NEW y \in Seq(Out), NEW z \in Seq(Out)
          PROVE  (x \o y) \o z = x \o (y \o z)
      BY <3>1, ConcatAssociative
    <3> QED
      BY <2>6, <1>1, <3>1
  <2> QED
    BY <2>2, <2>3, <2>4, <2>5, <2>7
<1>4. Nat \subseteq T
  <2> HIDE DEF T
  <2> QED
    BY <1>2, <1>3, Induction
<1>5. b - a \in Nat /\ a + (b - a) = b /\ b <= b
  BY <1>0
<1>6. P(b)
  <2> HIDE DEF P
  <2> QED
    BY <1>4, <1>5
<1> QED
  BY <1>5, <1>6


-----------------------------------------------------------------------------
(* The call of log(). *)

(* Before the turn for a mark, startOffset is where the text before it     *)
(* starts, and the output all that is to be printed before that.           *)
LogInv ==
  /\ format \in Seq(Symbols)
  /\ logPc = "marks" =>
       /\ markList = markTypes(format)
       /\ mark \in 1..(formatCount(format) + 1)
       /\ startOffset = Start(format, mark)
       /\ output = Replaced(format, startOffset)
  /\ logPc = "printed" => output = Replaced(format, Len(format))

LEMMA LastText ==
  ASSUME NEW f \in Seq(Symbols), NEW n, n = formatCount(f) + 1
  PROVE  Replaced(f, Len(f)) = Replaced(f, Start(f, n)) \o SubSeq(f, Start(f, n) + 1, Len(f))
<1>1. n \in 1..(formatCount(f) + 1) /\ ~ (n <= formatCount(f))
  BY CountIsNatural
<1>2. End(f, n) = Len(f)
  BY <1>1 DEF End
<1> QED
  BY <1>1, <1>2, TextBetween, ReplacedText

(* The text before the nth mark, its argument, and nothing for its type. *)
LEMMA NextMark ==
  ASSUME NEW f \in Seq(Symbols), NEW n \in 1..formatCount(f), NEW m, m = markTypes(f)[n]
  PROVE  /\ Start(f, n + 1) = Start(f, n) + m.offset + 2
         /\ Replaced(f, Start(f, n + 1))
              = Replaced(f, Start(f, n))
                  \o SubSeq(f, Start(f, n) + 1, Start(f, n) + m.offset)
                  \o Printed(n, m.type)
<1>1. formatCount(f) \in Nat /\ Len(f) \in Nat /\ n \in Nat /\ n \in 1..(formatCount(f) + 1)
  BY CountIsNatural
<1>2. PICK c : c = Place(f, n)
  OBVIOUS
<1>3. /\ c \in Marks(f) /\ c \in 1..Len(f) /\ c + 1 \in 1..Len(f) /\ c + 1 \notin Marks(f)
      /\ Counted(f, c) = n
  BY <1>2, PlaceIs, MarksOf
<1>4. PICK a : a = Start(f, n)
  OBVIOUS
<1>5. /\ a \in 0..Len(f) /\ c - 1 \in 0..Len(f) /\ a <= c - 1
      /\ \A k \in (a + 1)..(c - 1) : Piece(f, k) = <<f[k]>>
  <2>1. End(f, n) = c - 1
    BY <1>1, <1>2 DEF End
  <2> QED
    BY <2>1, <1>1, <1>4, TextBetween
<1>6. m.type = markType(f[c + 1]) /\ m.offset = c - (IF n = 1 THEN -1 ELSE Place(f, n - 1)) - 2
  <2>1. m = [type |-> markType(f[c + 1]),
             offset |-> c - ((IF n = 1 THEN -1 ELSE Place(f, n - 1)) + 2)]
    BY <1>2 DEF markTypes
  <2>2. n # 1 => Place(f, n - 1) \in Int
    <3>1. n # 1 => n - 1 \in 1..formatCount(f)
      BY <1>1
    <3> QED
      BY <3>1, PlaceIs, MarksOf
  <2> QED
    BY <2>1, <2>2, <1>3
<1>7. a + m.offset = c - 1 /\ a + m.offset + 2 = c + 1
  <2>1. CASE n = 1
    BY <2>1, <1>3, <1>4, <1>6 DEF Start
  <2>2. CASE n # 1
    <3>1. n - 1 \in 1..formatCount(f)
      BY <2>2, <1>1
    <3>2. Place(f, n - 1) \in Int
      BY <3>1, PlaceIs, MarksOf
    <3> QED
      BY <3>2, <2>2, <1>3, <1>4, <1>6 DEF Start
  <2> QED
    BY <2>1, <2>2
<1>8. Start(f, n + 1) = c + 1
  <2>1. n + 1 # 1 /\ (n + 1) - 1 = n
    BY <1>1
  <2> QED
    BY <2>1, <1>2 DEF Start
<1>9. Replaced(f, c - 1) = Replaced(f, a) \o SubSeq(f, a + 1, c - 1)
  BY <1>5, ReplacedText
<1>10. Replaced(f, c) = Replaced(f, c - 1) \o Printed(n, m.type)
  <2>1. Piece(f, c) = Printed(n, m.type)
    BY <1>3, <1>6 DEF Piece
  <2>2. c - 1 < Len(f) /\ (c - 1) + 1 = c
    BY <1>3
  <2> QED
    BY <2>1, <2>2, <1>5, ReplacedIs
<1>11. Replaced(f, c + 1) = Replaced(f, c)
  <2>1. Piece(f, c + 1) = <<>>
    <3>1. (c + 1) - 1 = c
      BY <1>3
    <3> QED
      BY <3>1, <1>3 DEF Piece
  <2>2. c < Len(f) /\ c \in 0..Len(f)
    BY <1>1, <1>3
  <2>3. Replaced(f, c + 1) = Replaced(f, c) \o <<>> /\ Replaced(f, c) \in Seq(Out)
    BY <2>1, <2>2, ReplacedIs
  <2> QED
    BY <2>3, ConcatEmptySeq
<1> QED
  BY <1>4, <1>7, <1>8, <1>9, <1>10, <1>11

(* LogInv holds whatever the format is. *)
LEMMA LogKeeps == Spec => []LogInv
<1>1. Init => LogInv
  BY DEF Init, LogInit, LogInv
<1>2. LogInv /\ [Next]_vars => LogInv'
  <2> SUFFICES ASSUME LogInv, [Next]_vars PROVE LogInv'
    OBVIOUS
  <2>1. CASE UNCHANGED logVars
    BY <2>1 DEF LogInv, logVars
  <2>2. CASE LogLine
    <3>1. PICK f \in BoundedSeq(Symbols, MaxFormat) : LogCall(f, debug)
      BY <2>2 DEF LogLine
    <3>2. f \in Seq(Symbols)
      BY <3>1, LogAssumption DEF BoundedSeq, SeqOf
    <3>3. format' = f /\ mark' = 1 /\ startOffset' = 0
      BY <3>1 DEF LogCall
    <3>4. ASSUME logPc' = "marks"
          PROVE  /\ markList' = markTypes(f) /\ 1 \in 1..(formatCount(f) + 1)
                 /\ 0 = Start(f, 1) /\ output' = Replaced(f, 0)
      <4>1. markList' = markTypes(f) /\ output' = <<>>
        BY <3>1, <3>4 DEF LogCall
      <4>2. 1 \in 1..(formatCount(f) + 1)
        BY <3>2, CountIsNatural
      <4> QED
        BY <4>1, <4>2, ReplacedNone DEF Start
    <3>5. ASSUME logPc' = "printed"
          PROVE  output' = Replaced(f, Len(f))
      <4>1. output' = f /\ formatCount(f) = 0
        BY <3>1, <3>5 DEF LogCall
      <4>2. Replaced(f, Len(f)) = Replaced(f, 0) \o SubSeq(f, 1, Len(f))
        <5>1. 1 = formatCount(f) + 1 /\ Start(f, 1) = 0 /\ 0 + 1 = 1
          BY <4>1 DEF Start
        <5> QED
          BY <5>1, <3>2, LastText
      <4>3. <<>> \o SubSeq(f, 1, Len(f)) = f
        BY <3>2, SubSeqFull, ConcatEmptySeq
      <4> QED
        BY <4>1, <4>2, <4>3, ReplacedNone
    <3> QED
      BY <3>2, <3>3, <3>4, <3>5 DEF LogInv
  <2>3. CASE LogMark
    <3>1. PICK m : m = markList[mark]
      OBVIOUS
    <3>2. /\ output' = output \o SubSeq(format, startOffset + 1, startOffset + m.offset)
                              \o Printed(mark, m.type)
          /\ startOffset' = startOffset + m.offset + 2
          /\ mark' = mark + 1 /\ format' = format /\ markList' = markList
          /\ logPc = "marks" /\ logPc' = "marks" /\ mark <= formatCount(format)
      BY <2>3, <3>1 DEF LogMark, AfterMark
    <3>3. /\ markList = markTypes(format) /\ mark \in 1..formatCount(format)
          /\ mark + 1 \in 1..(formatCount(format) + 1)
          /\ startOffset = Start(format, mark) /\ output = Replaced(format, startOffset)
          /\ format \in Seq(Symbols)
      <4>1. formatCount(format) \in Nat
        BY CountIsNatural DEF LogInv
      <4> QED
        BY <4>1, <3>2 DEF LogInv
    <3>4. /\ Start(format, mark + 1) = Start(format, mark) + m.offset + 2
          /\ Replaced(format, Start(format, mark + 1))
               = Replaced(format, Start(format, mark))
                   \o SubSeq(format, Start(format, mark) + 1, Start(format, mark) + m.offset)
                   \o Printed(mark, m.type)
      BY <3>1, <3>3, NextMark
    <3>5. startOffset' = Start(format, mark + 1) /\ output' = Replaced(format, startOffset')
      BY <3>2, <3>3, <3>4
    <3> QED
      BY <3>2, <3>3, <3>5 DEF LogInv
  <2>4. CASE LogRest
    <3>1. /\ output' = output \o SubSeq(format, startOffset + 1, Len(format))
          /\ logPc = "marks" /\ logPc' = "printed" /\ format' = format
          /\ mark > formatCount(format)
      BY <2>4 DEF LogRest
    <3>2. /\ mark = formatCount(format) + 1 /\ format \in Seq(Symbols)
          /\ startOffset = Start(format, mark) /\ output = Replaced(format, startOffset)
      <4>1. formatCount(format) \in Nat
        BY CountIsNatural DEF LogInv
      <4> QED
        BY <4>1, <3>1 DEF LogInv
    <3>3. output' = Replaced(format, Len(format))
      BY <3>1, <3>2, LastText
    <3> QED
      BY <3>1, <3>2, <3>3 DEF LogInv
  <2>5. CASE LogReturn
    <3>1. <<>> \in Seq(Symbols)
      OBVIOUS
    <3> QED
      BY <2>5, <3>1 DEF LogReturn, LogInv
  <2> QED
    BY <2>1, <2>2, <2>3, <2>4, <2>5
       DEF Next, vars, Begin, Logging, LineLogged, ClientConnects, ClientRetries, ServerStarts
<1> QED
  BY <1>1, <1>2, PTL DEF Spec

(* Of every format, wherever its marks are, what is printed is the format  *)
(* with each mark replaced by the argument of its number, of its type.     *)
THEOREM ArgumentsInPlace == Spec => []PrintsArgumentsInPlace
<1>1. LogInv => PrintsArgumentsInPlace
  BY DEF LogInv, PrintsArgumentsInPlace
<1> QED
  BY <1>1, LogKeeps, PTL

=============================================================================
