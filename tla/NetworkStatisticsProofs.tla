---------------------- MODULE NetworkStatisticsProofs ----------------------
(***************************************************************************)
(* Proofs about the byte counters, for every size of a kibibyte and of the *)
(* frames, and every interleaving of the two threads.                      *)
(***************************************************************************)
EXTENDS NetworkStatistics, TLAPS

Counters == [Units -> Int]

(* What the counters f of a direction are when nobody is adding to them,   *)
(* in which this many bytes were counted, a carry perhaps left no          *)
(* remainder, and recvfrom has failed this often.                          *)
Settled(f, total, even, fails) ==
  /\ f \in Counters
  /\ f["bytes"] < KILO /\ -fails <= f["bytes"]
  /\ f["kibi"] \in 0..(KILO - 1) /\ f["mebi"] \in Nat
  /\ f["mebi"] > 0 => f["kibi"] = KILO - 1
  /\ total <= Counted(f)
  /\ ~even => total = Counted(f)

(* The writes W, in any order, lead from c to f, without a counter going   *)
(* down that is shown.                                                     *)
Leads(W, c, f) ==
  /\ W \subseteq [unit : Units, value : Int]
  /\ \A w \in W : f[w.unit] = w.value
  /\ \A u \in Units : f[u] = c[u] \/ \E w \in W : w.unit = u
  /\ c["kibi"] <= f["kibi"] /\ c["mebi"] <= f["mebi"]

(* Who adds holds the lock, and who does not has nothing to write. *)
LockInv ==
  \A t \in Threads :
    /\ adding[t] # "none" <=> lock = t
    /\ writes[t] # {} => adding[t] # "none"

CountersInv ==
  \A m \in Modes :
    /\ counters[m] \in Counters
    /\ -failures <= counters[m]["bytes"]
    /\ (\A t \in Threads : adding[t] # m) =>
         Settled(counters[m], added[m], evenCarry[m], failures)
    /\ \A t \in Threads : adding[t] = m =>
         \E f \in Counters : /\ Leads(writes[t], counters[m], f)
                            /\ Settled(f, added[m], evenCarry[m], failures)

(* The main thread does not add while it copies. *)
PcInv ==
  /\ pc["main"] = "copy" => adding["main"] = "none" /\ direction \in Modes
  /\ pc["main"] # "copy" => DOMAIN copied = {}

(* The member u as the copy has it, or will have it if it comes next. *)
Seen(u) == IF u \in DOMAIN copied THEN copied[u] ELSE counters[direction][u]

(* A copied unit is not above the counter any more, and what is seen is    *)
(* not below what it was in the beginning.                                 *)
CopyInv ==
  pc["main"] = "copy" =>
    /\ \A u \in Units \cap DOMAIN copied : copied[u] \in Int
    /\ "bytes" \in DOMAIN copied => -failures <= copied["bytes"] /\ copied["bytes"] < KILO
    /\ \A u \in {"kibi", "mebi"} \cap DOMAIN copied : copied[u] <= counters[direction][u]
    /\ atStart <= KILO * Seen("mebi") + Seen("kibi")

IInv == TypeOK /\ LockInv /\ CountersInv /\ PcInv

-----------------------------------------------------------------------------
(* Arithmetic. *)

LEMMA CarryOne ==
  ASSUME NEW k \in Nat \ {0}, NEW s \in Int, k <= s, s < 2 * k
  PROVE  s \div k = 1 /\ s % k = s - k
  OBVIOUS

LEMMA OneMore ==
  ASSUME NEW k \in Int, NEW a \in Int, NEW b \in Int, b = a + 1
  PROVE  k * b = k * a + k
  OBVIOUS

LEMMA Monotone ==
  ASSUME NEW k \in Nat, NEW a \in Int, NEW b \in Int, a <= b
  PROVE  k * a <= k * b
  OBVIOUS

LEMMA SmallQuotient ==
  ASSUME NEW n \in Int, KILO \in Nat, -KILO < n, n < KILO
  PROVE  Quotient(n) = 0
<1>1. CASE n < 0
  <2>1. (-n) \div KILO = 0
    BY <1>1
  <2> QED
    BY <1>1, <2>1 DEF Quotient
<1>2. CASE n >= 0
  <2>1. n \div KILO = 0
    BY <1>2
  <2> QED
    BY <1>2, <2>1 DEF Quotient
<1> QED
  BY <1>1, <1>2

(* The carry out of kibi, when one kibibyte is added, never leaves a       *)
(* remainder.                                                              *)
LEMMA AddOneKibibyte ==
  ASSUME NEW c \in Counters, KILO \in Nat \ {0, 1},
         c["kibi"] \in 0..(KILO - 1), c["mebi"] \in Nat,
         c["mebi"] > 0 => c["kibi"] = KILO - 1
  PROVE  \/ /\ c["kibi"] + 1 < KILO /\ c["mebi"] = 0
            /\ addKibibytes(c, 1) = {Write("kibi", c["kibi"] + 1)}
         \/ /\ c["kibi"] = KILO - 1
            /\ addKibibytes(c, 1) = {Write("mebi", c["mebi"] + 1)}
<1>1. CASE c["kibi"] + 1 < KILO
  <2>1. addKibibytes(c, 1) = {Write("kibi", c["kibi"] + 1)}
    BY <1>1 DEF addKibibytes
  <2> QED
    BY <1>1, <2>1
<1>2. CASE ~(c["kibi"] + 1 < KILO)
  <2>1. c["kibi"] = KILO - 1 /\ c["kibi"] + 1 = KILO
    BY <1>2
  <2>2. KILO \div KILO = 1 /\ KILO % KILO = 0
    BY CarryOne
  <2>3. Remainder("kibi", KILO) = {}
    BY <2>2 DEF Remainder
  <2>4. addKibibytes(c, 1) = addMebibytes(c, 1)
    BY <1>2, <2>1, <2>2, <2>3 DEF addKibibytes
  <2> QED
    BY <2>1, <2>4 DEF addMebibytes
<1> QED
  BY <1>1, <1>2

(* Whatever addBytes writes, it leads to counters that have taken in the   *)
(* bytes, and stays in the shape that a carry of one needs.                *)
LEMMA AddBytes ==
  ASSUME KILO \in Nat \ {0, 1},
         NEW c, NEW total \in Int, NEW even \in BOOLEAN, NEW fails \in Nat,
         NEW n \in Int, NEW fails2 \in Nat, n < KILO,
         (n >= 0 /\ fails2 = fails) \/ (n = -1 /\ fails2 = fails + 1),
         Settled(c, total, even, fails)
  PROVE  \E f \in Counters :
           /\ Leads(addBytes(c, n), c, f)
           /\ Settled(f, total + n,
                      even \/ (c["bytes"] + n >= KILO /\ (c["bytes"] + n) % KILO = 0),
                      fails2)
<1> DEFINE sum == c["bytes"] + n
           even2 == even \/ (sum >= KILO /\ sum % KILO = 0)
<1>1. /\ c \in Counters /\ c["bytes"] \in Int /\ c["kibi"] \in Int /\ c["mebi"] \in Nat
      /\ sum \in Int /\ sum < 2 * KILO
  BY DEF Settled, Counters, Units
<1>2. CASE sum < KILO
  <2> DEFINE f == [c EXCEPT !["bytes"] = sum]
  <2>1. addBytes(c, n) = {Write("bytes", sum)}
    BY <1>2 DEF addBytes
  <2>2. /\ f \in Counters /\ f["bytes"] = sum /\ f["kibi"] = c["kibi"]
        /\ f["mebi"] = c["mebi"]
    BY <1>1 DEF Counters, Units
  <2>3. Leads(addBytes(c, n), c, f)
    BY <1>1, <2>1, <2>2 DEF Leads, Write, Units
  <2>4. Counted(f) = Counted(c) + n
    BY <1>1, <2>2 DEF Counted
  <2>5. Counted(c) \in Int /\ Counted(f) \in Int
    BY <1>1, <2>2 DEF Counted
  <2>6. Settled(f, total + n, even2, fails2)
    BY <1>1, <1>2, <2>2, <2>4, <2>5 DEF Settled
  <2> QED
    BY <2>2, <2>3, <2>6
<1>3. CASE ~(sum < KILO)
  <2>1. sum \div KILO = 1 /\ sum % KILO = sum - KILO
    <3>1. KILO \in Nat \ {0} /\ KILO <= sum
      BY <1>1, <1>3
    <3> HIDE DEF sum
    <3> QED
      BY <1>1, <3>1, CarryOne
  <2>2. /\ n >= 0 /\ fails2 = fails
        /\ even2 = (even \/ sum = KILO)
    BY <1>1, <1>3, <2>1 DEF Settled
  <2>3. addBytes(c, n) = addKibibytes(c, 1) \cup Remainder("bytes", sum)
    BY <1>3, <2>1 DEF addBytes
  <2> DEFINE rest == IF sum = KILO THEN c["bytes"] ELSE sum - KILO
             more == IF c["kibi"] + 1 < KILO THEN "kibi" ELSE "mebi"
             f == [[c EXCEPT !["bytes"] = rest] EXCEPT ![more] = c[more] + 1]
             R == IF sum = KILO THEN {} ELSE {Write("bytes", rest)}
  <2>4. Remainder("bytes", sum) = R
    <3>1. CASE sum = KILO
      BY <2>1, <3>1 DEF Remainder
    <3>2. CASE sum # KILO
      <4>1. sum % KILO > 0 /\ rest = sum % KILO
        BY <1>1, <1>3, <2>1, <3>2
      <4> QED
        BY <3>2, <4>1 DEF Remainder
    <3> QED
      BY <3>1, <3>2
  <2>5. /\ addKibibytes(c, 1) = {Write(more, c[more] + 1)}
        /\ \/ more = "kibi" /\ c["mebi"] = 0 /\ c["kibi"] + 1 < KILO
           \/ more = "mebi" /\ c["kibi"] = KILO - 1
    <3>1. /\ c["kibi"] \in 0..(KILO - 1)
          /\ c["mebi"] > 0 => c["kibi"] = KILO - 1
      BY DEF Settled
    <3>2. \/ /\ c["kibi"] + 1 < KILO /\ c["mebi"] = 0
             /\ addKibibytes(c, 1) = {Write("kibi", c["kibi"] + 1)}
          \/ /\ c["kibi"] = KILO - 1
             /\ addKibibytes(c, 1) = {Write("mebi", c["mebi"] + 1)}
      BY <1>1, <3>1, AddOneKibibyte
    <3> QED
      BY <1>1, <3>2
  <2>6. /\ f \in Counters /\ f["bytes"] = rest
        /\ f[more] = c[more] + 1
        /\ f["kibi"] + f["mebi"] = c["kibi"] + c["mebi"] + 1
    BY <1>1, <2>5 DEF Counters, Units
  <2>7. /\ more = "kibi" => f["kibi"] = c["kibi"] + 1 /\ f["mebi"] = c["mebi"]
        /\ more = "mebi" => f["mebi"] = c["mebi"] + 1 /\ f["kibi"] = c["kibi"]
    BY <1>1, <2>5 DEF Counters, Units
  <2>8. Leads(addBytes(c, n), c, f)
    <3>1. addBytes(c, n) = {Write(more, c[more] + 1)} \cup R
      BY <2>3, <2>4, <2>5
    <3>2. /\ Write(more, c[more] + 1) \in [unit : Units, value : Int]
          /\ f[Write(more, c[more] + 1).unit] = Write(more, c[more] + 1).value
      BY <1>1, <2>5, <2>6 DEF Write, Units
    <3>3. \A w \in R : w \in [unit : Units, value : Int] /\ f[w.unit] = w.value
      <4>1. rest \in Int
        BY <1>1
      <4>2. f["bytes"] = rest
        BY <2>6
      <4> HIDE DEF f, rest
      <4> QED
        BY <4>1, <4>2 DEF Write, Units
    <3>4. \A u \in Units : f[u] = c[u] \/ \E w \in addBytes(c, n) : w.unit = u
      <4>1. f["bytes"] = c["bytes"] \/ Write("bytes", rest) \in R
        BY <2>6
      <4>2. f["kibi"] = c["kibi"] \/ more = "kibi"
        BY <2>5, <2>7
      <4>3. f["mebi"] = c["mebi"] \/ more = "mebi"
        BY <2>5, <2>7
      <4>4. PICK w : w = Write(more, c[more] + 1)
        OBVIOUS
      <4>5. w \in addBytes(c, n) /\ w.unit = more
        BY <3>1, <4>4 DEF Write
      <4>6. Write("bytes", rest).unit = "bytes" /\ R \subseteq addBytes(c, n)
        BY <3>1 DEF Write
      <4> HIDE DEF f, rest, more, R
      <4> QED
        BY <4>1, <4>2, <4>3, <4>5, <4>6 DEF Units
    <3>5. /\ c["kibi"] <= f["kibi"] /\ c["mebi"] <= f["mebi"]
      BY <1>1, <2>5, <2>7
    <3> QED
      BY <3>1, <3>2, <3>3, <3>4, <3>5 DEF Leads
  <2>9. /\ Counted(c) \in Int /\ Counted(f) \in Int
        /\ Counted(f) = Counted(c) - c["bytes"] + rest + KILO
    <3>1. KILO * (f["kibi"] + f["mebi"]) = KILO * (c["kibi"] + c["mebi"]) + KILO
      BY <1>1, <2>5, <2>6, <2>7, OneMore
    <3> QED
      BY <1>1, <2>6, <3>1 DEF Counted
  <2>10. /\ total + n <= Counted(f)
         /\ ~even2 => total + n = Counted(f)
    BY <1>1, <1>3, <2>2, <2>9 DEF Settled
  <2>11. /\ f["bytes"] < KILO /\ -fails2 <= f["bytes"]
         /\ f["kibi"] \in 0..(KILO - 1) /\ f["mebi"] \in Nat
         /\ f["mebi"] > 0 => f["kibi"] = KILO - 1
    <3>1. rest < KILO /\ -fails2 <= rest
      BY <1>1, <1>3, <2>2 DEF Settled
    <3>2. /\ c["kibi"] \in 0..(KILO - 1)
          /\ c["mebi"] > 0 => c["kibi"] = KILO - 1
      BY DEF Settled
    <3> HIDE DEF f, rest, more
    <3> QED
      BY <1>1, <2>5, <2>6, <2>7, <3>1, <3>2
  <2>12. Settled(f, total + n, even2, fails2)
    BY <2>6, <2>10, <2>11 DEF Settled
  <2> QED
    BY <2>6, <2>8, <2>12
<1> QED
  BY <1>2, <1>3

-----------------------------------------------------------------------------
(* What a step needs of a state. *)

LEMMA Constants == KILO \in Nat \ {0, 1} /\ MaxFailures \in Nat
  BY StatisticsAssumption

LEMMA FrameSizes ==
  ASSUME NEW type
  PROVE  sizeofFrame(type) \in Nat /\ sizeofFrame(type) < KILO
  BY StatisticsAssumption DEF sizeofFrame

LEMMA SettledLater ==
  ASSUME NEW f, NEW total, NEW even, NEW fails \in Nat, NEW fails2 \in Nat,
         fails <= fails2, Settled(f, total, even, fails)
  PROVE  Settled(f, total, even, fails2)
<1>1. f["bytes"] \in Int
  BY DEF Settled, Counters, Units
<1> QED
  BY <1>1 DEF Settled

(* Only one thread is in addBytes, and it holds the lock. *)
LEMMA OneAdds ==
  ASSUME TypeOK, LockInv
  PROVE  /\ lock = "free" => \A t \in Threads : adding[t] = "none" /\ writes[t] = {}
         /\ \A t, u \in Threads : adding[t] # "none" /\ u # t =>
              adding[u] = "none" /\ writes[u] = {}
  BY DEF TypeOK, LockInv, Threads

LEMMA InitIInv == Init => IInv
<1> SUFFICES ASSUME Init PROVE IInv
  OBVIOUS
<1> USE Constants DEF Init
<1>1. TypeOK
  BY DEF TypeOK, Threads, Modes, Units, Members
<1>2. LockInv
  BY DEF LockInv, Threads
<1>3. CountersInv
  <2> SUFFICES ASSUME NEW m \in Modes
               PROVE  /\ counters[m] \in Counters
                      /\ -failures <= counters[m]["bytes"]
                      /\ Settled(counters[m], added[m], evenCarry[m], failures)
                      /\ \A t \in Threads : adding[t] # m
    BY DEF CountersInv
  <2>1. counters[m] \in Counters /\ \A u \in Units : counters[m][u] = 0
    BY DEF Counters
  <2>2. Counted(counters[m]) = 0
    BY <2>1 DEF Counted, Units
  <2> QED
    BY <2>1, <2>2 DEF Settled, Modes, Units, Threads
<1>4. PcInv
  BY DEF PcInv, Threads
<1> QED
  BY <1>1, <1>2, <1>3, <1>4 DEF IInv

(* A call of addBytes, with the failures counted that it is about. *)
LEMMA StartAddingStep ==
  ASSUME IInv, NEW t \in Threads, NEW n \in Int, NEW mode \in Modes,
         n < KILO,
         (n >= 0 /\ failures' = failures) \/ (n = -1 /\ failures' = failures + 1),
         failures' \in 0..MaxFailures,
         StartAdding(t, n, mode)
  PROVE  /\ LockInv' /\ CountersInv'
         /\ counters' = counters /\ copyVars' = copyVars
         /\ adding' = [adding EXCEPT ![t] = mode] /\ lock' = t
         /\ DOMAIN writes' = Threads
         /\ \A u \in Threads : \A w \in writes'[u] : w.unit \in Units /\ w.value \in Int
         /\ added' \in [Modes -> Int] /\ evenCarry' \in [Modes -> BOOLEAN]
<1> DEFINE c == counters[mode]
           even2 == evenCarry[mode] \/ (c["bytes"] + n >= KILO /\ (c["bytes"] + n) % KILO = 0)
<1>1. /\ TypeOK /\ LockInv /\ CountersInv
      /\ adding \in [Threads -> Modes \cup {"none"}] /\ DOMAIN writes = Threads
      /\ added \in [Modes -> Int] /\ evenCarry \in [Modes -> BOOLEAN]
      /\ failures \in Nat /\ failures' \in Nat
  BY Constants DEF IInv, TypeOK
<1>2. /\ lock = "free" /\ \A u \in Threads : adding[u] = "none" /\ writes[u] = {}
  BY <1>1, OneAdds DEF StartAdding, CanLock
<1>3. /\ lock' = t /\ adding' = [adding EXCEPT ![t] = mode]
      /\ writes' = [writes EXCEPT ![t] = addBytes(c, n)]
      /\ added' = [added EXCEPT ![mode] = @ + n]
      /\ evenCarry' = [evenCarry EXCEPT ![mode] = even2]
      /\ counters' = counters /\ copyVars' = copyVars
  BY DEF StartAdding, copyVars
<1>4. mode # "none" /\ t # "free"
  BY DEF Modes, Threads
<1>5. LockInv'
  <2> SUFFICES ASSUME NEW u \in Threads
               PROVE  /\ adding'[u] # "none" <=> lock' = u
                      /\ writes'[u] # {} => adding'[u] # "none"
    BY DEF LockInv
  <2>1. CASE u = t
    BY <1>1, <1>3, <1>4, <2>1
  <2>2. CASE u # t
    BY <1>1, <1>2, <1>3, <2>2
  <2> QED
    BY <2>1, <2>2
<1>6. \A m \in Modes : Settled(counters[m], added[m], evenCarry[m], failures)
  <2> SUFFICES ASSUME NEW m \in Modes
               PROVE  Settled(counters[m], added[m], evenCarry[m], failures)
    OBVIOUS
  <2>1. \A u \in Threads : adding[u] # m
    BY <1>2 DEF Modes
  <2> QED
    BY <1>1, <2>1 DEF CountersInv
<1>7. PICK f \in Counters :
        /\ Leads(addBytes(c, n), c, f)
        /\ Settled(f, added[mode] + n, even2, failures')
  <2>1. Settled(c, added[mode], evenCarry[mode], failures)
    BY <1>6
  <2>2. added[mode] \in Int /\ evenCarry[mode] \in BOOLEAN
    BY <1>1
  <2> QED
    <3>1. (n >= 0 /\ failures' = failures) \/ (n = -1 /\ failures' = failures + 1)
      OBVIOUS
    <3> DEFINE total == added[mode]
               even == evenCarry[mode]
               fails == failures
               fails2 == failures'
    <3>2. /\ total \in Int /\ even \in BOOLEAN /\ fails \in Nat /\ fails2 \in Nat
          /\ (n >= 0 /\ fails2 = fails) \/ (n = -1 /\ fails2 = fails + 1)
          /\ Settled(c, total, even, fails)
      BY <1>1, <2>1, <2>2, <3>1
    <3>3. \E f \in Counters :
            /\ Leads(addBytes(c, n), c, f)
            /\ Settled(f, total + n,
                       even \/ (c["bytes"] + n >= KILO /\ (c["bytes"] + n) % KILO = 0),
                       fails2)
      <4> HIDE DEF c, total, even, fails, fails2
      <4> QED
        BY <3>2, Constants, AddBytes
    <3> QED
      BY <3>3
<1>8. CountersInv'
  <2> SUFFICES ASSUME NEW m \in Modes
               PROVE  /\ counters[m] \in Counters
                      /\ -failures' <= counters[m]["bytes"]
                      /\ (\A u \in Threads : adding'[u] # m) =>
                           Settled(counters[m], added'[m], evenCarry'[m], failures')
                      /\ \A u \in Threads : adding'[u] = m =>
                           \E g \in Counters :
                             /\ Leads(writes'[u], counters[m], g)
                             /\ Settled(g, added'[m], evenCarry'[m], failures')
    BY <1>3 DEF CountersInv
  <2>1. /\ counters[m] \in Counters
        /\ -failures' <= counters[m]["bytes"]
    <3>1. counters[m] \in Counters /\ -failures <= counters[m]["bytes"]
      BY <1>1 DEF CountersInv
    <3> QED
      BY <1>1, <3>1 DEF Counters, Units
  <2>2. CASE m = mode
    <3>1. adding'[t] = m /\ \A u \in Threads : adding'[u] = m => u = t
      BY <1>1, <1>2, <1>3, <1>4, <2>2
    <3>2. /\ writes'[t] = addBytes(counters[m], n)
          /\ added'[m] = added[mode] + n /\ evenCarry'[m] = even2
      BY <1>1, <1>3, <2>2
    <3> QED
      BY <1>7, <2>1, <2>2, <3>1, <3>2
  <2>3. CASE m # mode
    <3>1. \A u \in Threads : adding'[u] # m
      <4>1. m # "none"
        BY DEF Modes
      <4> QED
        BY <1>1, <1>2, <1>3, <2>3, <4>1
    <3>2. added'[m] = added[m] /\ evenCarry'[m] = evenCarry[m]
      BY <1>1, <1>3, <2>3
    <3>3. Settled(counters[m], added[m], evenCarry[m], failures')
      BY <1>1, <1>6, SettledLater
    <3> QED
      BY <2>1, <3>1, <3>2, <3>3
  <2> QED
    BY <2>2, <2>3
<1>9. /\ DOMAIN writes' = Threads
      /\ \A u \in Threads : \A w \in writes'[u] : w.unit \in Units /\ w.value \in Int
  <2>1. \A w \in addBytes(c, n) : w.unit \in Units /\ w.value \in Int
    BY <1>7 DEF Leads
  <2> QED
    BY <1>1, <1>2, <1>3, <2>1
<1>10. added' \in [Modes -> Int] /\ evenCarry' \in [Modes -> BOOLEAN]
  BY <1>1, <1>3
<1> QED
  BY <1>3, <1>5, <1>8, <1>9, <1>10

(* A write, and what it does to the counters. *)
LEMMA WriteCounterStep ==
  ASSUME IInv, NEW t \in Threads, WriteCounter(t)
  PROVE  /\ IInv'
         /\ \A m \in Modes : /\ counters[m]["kibi"] <= counters'[m]["kibi"]
                             /\ counters[m]["mebi"] <= counters'[m]["mebi"]
<1> DEFINE m == adding[t]
           c == counters[m]
<1>1. /\ TypeOK /\ LockInv /\ CountersInv /\ PcInv
      /\ adding \in [Threads -> Modes \cup {"none"}] /\ DOMAIN writes = Threads
      /\ counters \in [Modes -> Counters]
      /\ failures \in Nat
  BY Constants DEF IInv, TypeOK, Counters
<1>2. PICK w \in writes[t] :
        /\ counters' = [counters EXCEPT ![m][w.unit] = w.value]
        /\ writes' = [writes EXCEPT ![t] = @ \ {w}]
  BY DEF WriteCounter
<1>3. UNCHANGED <<lock, adding, pc, copyVars, historyVars>>
  BY DEF WriteCounter
<1>4. m \in Modes /\ \A u \in Threads : u # t => adding[u] = "none" /\ writes[u] = {}
  BY <1>1, <1>2, OneAdds DEF LockInv
<1>5. PICK f \in Counters :
        Leads(writes[t], c, f) /\ Settled(f, added[m], evenCarry[m], failures)
  BY <1>1, <1>4 DEF CountersInv
<1>6. /\ w \in [unit : Units, value : Int] /\ f[w.unit] = w.value
      /\ c \in Counters
      /\ counters'[m] = [c EXCEPT ![w.unit] = w.value]
      /\ \A k \in Modes \ {m} : counters'[k] = counters[k]
  BY <1>1, <1>2, <1>4, <1>5 DEF Leads
<1>7. /\ counters'[m] \in Counters /\ counters' \in [Modes -> Counters]
      /\ \A u \in Units : counters'[m][u] = IF u = w.unit THEN f[u] ELSE c[u]
  BY <1>1, <1>2, <1>4, <1>6 DEF Counters
<1>8. /\ c["kibi"] <= counters'[m]["kibi"] /\ counters'[m]["kibi"] <= f["kibi"]
      /\ c["mebi"] <= counters'[m]["mebi"] /\ counters'[m]["mebi"] <= f["mebi"]
  BY <1>5, <1>6, <1>7 DEF Leads, Counters, Units
<1>9. Leads(writes'[t], counters'[m], f)
  <2>1. writes'[t] = writes[t] \ {w}
    BY <1>1, <1>2
  <2>2. ASSUME NEW u \in Units
        PROVE  f[u] = counters'[m][u] \/ \E x \in writes'[t] : x.unit = u
    BY <1>5, <1>7, <2>1 DEF Leads
  <2> QED
    BY <1>5, <1>8, <2>1, <2>2 DEF Leads
<1>10. CountersInv'
  <2> SUFFICES ASSUME NEW k \in Modes
               PROVE  /\ counters'[k] \in Counters
                      /\ -failures <= counters'[k]["bytes"]
                      /\ (\A u \in Threads : adding[u] # k) =>
                           Settled(counters'[k], added[k], evenCarry[k], failures)
                      /\ \A u \in Threads : adding[u] = k =>
                           \E g \in Counters :
                             /\ Leads(writes'[u], counters'[k], g)
                             /\ Settled(g, added[k], evenCarry[k], failures)
    BY <1>3 DEF CountersInv, historyVars
  <2>1. CASE k = m
    <3>1. -failures <= counters'[m]["bytes"]
      BY <1>1, <1>4, <1>5, <1>7 DEF CountersInv, Settled, Units
    <3>2. \A u \in Threads : adding[u] = k => u = t
      BY <1>4, <2>1 DEF Modes
    <3> QED
      BY <1>5, <1>7, <1>9, <2>1, <3>1, <3>2
  <2>2. CASE k # m
    <3>1. \A u \in Threads : adding[u] # k
      BY <1>4, <2>2 DEF Modes
    <3> QED
      BY <1>1, <1>6, <2>2, <3>1 DEF CountersInv
  <2> QED
    BY <2>1, <2>2
<1>11. TypeOK'
  <2>1. \A k \in Modes : /\ counters'[k]["bytes"] < KILO
                         /\ counters'[k]["kibi"] \in 0..(KILO - 1)
                         /\ counters'[k]["mebi"] \in Nat
    <3> SUFFICES ASSUME NEW k \in Modes
                 PROVE  /\ counters'[k]["bytes"] < KILO
                        /\ counters'[k]["kibi"] \in 0..(KILO - 1)
                        /\ counters'[k]["mebi"] \in Nat
      OBVIOUS
    <3>1. CASE k = m
      BY <1>1, <1>4, <1>5, <1>7, <3>1 DEF TypeOK, Settled, Units
    <3>2. CASE k # m
      BY <1>1, <1>6, <3>2 DEF TypeOK
    <3> QED
      BY <3>1, <3>2
  <2>2. /\ DOMAIN writes' = Threads
        /\ \A u \in Threads : \A x \in writes'[u] : x.unit \in Units /\ x.value \in Int
    BY <1>1, <1>2 DEF TypeOK
  <2> QED
    BY <1>1, <1>3, <1>7, <2>1, <2>2 DEF TypeOK, Counters, copyVars, historyVars
<1>12. LockInv' /\ PcInv'
  <2>1. \A u \in Threads : writes'[u] \subseteq writes[u]
    BY <1>1, <1>2
  <2> QED
    BY <1>1, <1>3, <2>1 DEF LockInv, PcInv, copyVars
<1>13. \A k \in Modes : /\ counters[k]["kibi"] <= counters'[k]["kibi"]
                        /\ counters[k]["mebi"] <= counters'[k]["mebi"]
  <2> SUFFICES ASSUME NEW k \in Modes
               PROVE  /\ counters[k]["kibi"] <= counters'[k]["kibi"]
                      /\ counters[k]["mebi"] <= counters'[k]["mebi"]
    OBVIOUS
  <2>1. CASE k = m
    BY <1>8, <2>1
  <2>2. CASE k # m
    BY <1>1, <1>6, <2>2 DEF TypeOK
  <2> QED
    BY <2>1, <2>2
<1> QED
  BY <1>10, <1>11, <1>12, <1>13 DEF IInv

(* A call of addBytes in a thread that then is somewhere else. *)
LEMMA CallStep ==
  ASSUME IInv, NEW t \in Threads, NEW n, n \in Int, NEW mode \in Modes,
         n < KILO,
         (n >= 0 /\ failures' = failures) \/ (n = -1 /\ failures' = failures + 1),
         failures' \in 0..MaxFailures,
         pc[t] # "copy",
         NEW at \in {"receive", "acknowledge", "frame", "print"}, GoTo(t, at),
         StartAdding(t, n, mode)
  PROVE  IInv' /\ counters' = counters /\ copyVars' = copyVars
<1>1. /\ TypeOK /\ PcInv
      /\ pc \in [Threads -> {"receive", "acknowledge", "frame", "print", "copy"}]
      /\ adding \in [Threads -> Modes \cup {"none"}]
  BY DEF IInv, TypeOK
<1>2. /\ LockInv' /\ CountersInv'
      /\ counters' = counters /\ copyVars' = copyVars
      /\ adding' = [adding EXCEPT ![t] = mode] /\ lock' = t
      /\ DOMAIN writes' = Threads
      /\ \A u \in Threads : \A w \in writes'[u] : w.unit \in Units /\ w.value \in Int
      /\ added' \in [Modes -> Int] /\ evenCarry' \in [Modes -> BOOLEAN]
  BY StartAddingStep
<1>3. pc' = [pc EXCEPT ![t] = at]
  BY DEF GoTo
<1>4. TypeOK'
  BY <1>1, <1>2, <1>3 DEF TypeOK, copyVars
<1>5. PcInv'
  <2>1. CASE t = "main"
    BY <1>1, <1>2, <1>3, <2>1 DEF PcInv, copyVars, Threads
  <2>2. CASE t # "main"
    BY <1>1, <1>2, <1>3, <2>2 DEF PcInv, copyVars, Threads
  <2> QED
    BY <2>1, <2>2
<1> QED
  BY <1>2, <1>4, <1>5 DEF IInv

LEMMA ReceiveStep ==
  ASSUME IInv, NEW type, Receive(type)
  PROVE  IInv' /\ counters' = counters /\ copyVars' = copyVars
<1>1. /\ failures' = failures /\ failures \in 0..MaxFailures
      /\ pc["network"] = "receive" /\ "network" \in Threads /\ "STAT_IN" \in Modes
  BY DEF Receive, Idle, IInv, TypeOK, Threads, Modes
<1>2. PICK at \in {"receive", "acknowledge"} : GoTo("network", at)
  BY DEF Receive
<1>3. StartAdding("network", sizeofFrame(type), "STAT_IN")
  BY DEF Receive
<1> QED
  <2>1. sizeofFrame(type) \in Int /\ 0 <= sizeofFrame(type) /\ sizeofFrame(type) < KILO
    BY FrameSizes
  <2> QED
    BY <1>1, <1>2, <1>3, <2>1, CallStep

LEMMA ReceiveFailsStep ==
  ASSUME IInv, ReceiveFails
  PROVE  IInv' /\ counters' = counters /\ copyVars' = copyVars
<1>1. /\ failures' = failures + 1 /\ failures' \in 0..MaxFailures
      /\ pc["network"] = "receive" /\ "network" \in Threads /\ "STAT_IN" \in Modes
      /\ -1 < KILO
  BY Constants DEF ReceiveFails, Idle, IInv, TypeOK, Threads, Modes
<1>2. PICK at \in {"receive", "acknowledge"} : GoTo("network", at)
  BY DEF ReceiveFails
<1>3. StartAdding("network", -1, "STAT_IN")
  BY DEF ReceiveFails
<1> QED
  BY <1>1, <1>2, <1>3, CallStep

LEMMA SendStep ==
  ASSUME IInv, sendACK \/ sendKey
  PROVE  IInv' /\ counters' = counters /\ copyVars' = copyVars
<1>1. /\ failures' = failures /\ failures \in 0..MaxFailures
      /\ Threads = {"network", "main"} /\ "STAT_OUT" \in Modes
  BY DEF sendACK, sendKey, IInv, TypeOK, Threads, Modes
<1>2. CASE sendACK
  <2>1. /\ pc["network"] = "acknowledge" /\ GoTo("network", "receive")
        /\ StartAdding("network", sizeofFrame("ACK"), "STAT_OUT")
    BY <1>2 DEF sendACK, Idle
  <2>2. /\ sizeofFrame("ACK") \in Int /\ 0 <= sizeofFrame("ACK")
        /\ sizeofFrame("ACK") < KILO
    BY FrameSizes
  <2> QED
    BY <1>1, <2>1, <2>2, CallStep
<1>3. CASE sendKey
  <2>1. /\ pc["main"] = "frame" /\ GoTo("main", "print")
        /\ StartAdding("main", sizeofFrame("DATA_KEY_DOWN"), "STAT_OUT")
    BY <1>3 DEF sendKey, Idle
  <2>2. /\ sizeofFrame("DATA_KEY_DOWN") \in Int /\ 0 <= sizeofFrame("DATA_KEY_DOWN")
        /\ sizeofFrame("DATA_KEY_DOWN") < KILO
    BY FrameSizes
  <2> QED
    BY <1>1, <2>1, <2>2, CallStep
<1> QED
  BY <1>2, <1>3

LEMMA UnlockStep ==
  ASSUME IInv, NEW t \in Threads, Unlock(t)
  PROVE  IInv'
<1> DEFINE m == adding[t]
<1>1. /\ TypeOK /\ LockInv /\ CountersInv /\ PcInv
      /\ adding \in [Threads -> Modes \cup {"none"}]
      /\ m \in Modes /\ writes[t] = {}
  BY DEF IInv, TypeOK, Unlock
<1>2. /\ adding' = [adding EXCEPT ![t] = "none"] /\ lock' = "free"
      /\ UNCHANGED <<counters, writes, pc, copyVars, historyVars>>
  BY DEF Unlock
<1>3. \A u \in Threads : u # t => adding[u] = "none" /\ writes[u] = {}
  BY <1>1, OneAdds DEF Modes
<1>4. \A u \in Threads : adding'[u] = "none" /\ writes'[u] = {}
  BY <1>1, <1>2, <1>3
<1>5. LockInv'
  BY <1>2, <1>4 DEF LockInv, Threads
<1>6. PICK f \in Counters :
        Leads({}, counters[m], f) /\ Settled(f, added[m], evenCarry[m], failures)
  BY <1>1 DEF CountersInv
<1>7. counters[m] = f
  <2>1. counters[m] \in Counters /\ \A u \in Units : f[u] = counters[m][u]
    BY <1>1, <1>6 DEF CountersInv, Leads
  <2> QED
    BY <2>1 DEF Counters
<1>8. CountersInv'
  <2> SUFFICES ASSUME NEW k \in Modes
               PROVE  /\ counters[k] \in Counters /\ -failures <= counters[k]["bytes"]
                      /\ Settled(counters[k], added[k], evenCarry[k], failures)
    BY <1>2, <1>4 DEF CountersInv, historyVars, Modes
  <2>1. CASE k = m
    BY <1>1, <1>6, <1>7, <2>1 DEF CountersInv
  <2>2. CASE k # m
    <3>1. \A u \in Threads : adding[u] # k
      BY <1>3, <2>2 DEF Modes
    <3> QED
      BY <1>1, <3>1 DEF CountersInv
  <2> QED
    BY <2>1, <2>2
<1>9. TypeOK'
  <2>1. adding' \in [Threads -> Modes \cup {"none"}]
    BY <1>1, <1>2
  <2> QED
    BY <1>1, <1>2, <2>1 DEF TypeOK, copyVars, historyVars
<1>10. PcInv'
  BY <1>1, <1>2, <1>4 DEF PcInv, copyVars, Threads
<1> QED
  BY <1>5, <1>8, <1>9, <1>10 DEF IInv

(* The frames of the main thread touch no counter. *)
LEMMA FrameStep ==
  ASSUME IInv, NoKey \/ StartCopy \/ CopyMember \/ printNetStats
  PROVE  IInv' /\ counters' = counters
<1>1. /\ TypeOK /\ LockInv /\ CountersInv /\ PcInv
      /\ pc \in [Threads -> {"receive", "acknowledge", "frame", "print", "copy"}]
      /\ counters \in [Modes -> [Units -> Int]] /\ Threads = {"network", "main"}
  BY DEF IInv, TypeOK, Threads
<1>2. UNCHANGED <<counters, lock, adding, writes, historyVars>>
  BY DEF NoKey, StartCopy, CopyMember, printNetStats
<1>3. LockInv' /\ CountersInv'
  BY <1>1, <1>2 DEF LockInv, CountersInv, historyVars
<1>4. CASE NoKey
  <2>1. TypeOK' /\ PcInv'
    BY <1>1, <1>2, <1>4 DEF NoKey, GoTo, Idle, TypeOK, PcInv, copyVars, historyVars
  <2> QED
    BY <1>2, <1>3, <2>1 DEF IInv
<1>5. CASE StartCopy
  <2>1. /\ pc' = [pc EXCEPT !["main"] = "copy"] /\ adding["main"] = "none"
        /\ direction' \in Modes /\ copied' = <<>>
        /\ atStart' = getMebibytes(counters[direction'])
    BY <1>5 DEF StartCopy, GoTo, Idle
  <2>2. atStart' \in Int
    <3>1. \A u \in Units : counters[direction'][u] \in Int
      BY <1>1, <2>1
    <3>2. \A n \in Int : Quotient(n) \in Int
      BY Constants DEF Quotient
    <3> QED
      BY <2>1, <3>1, <3>2, Constants DEF getMebibytes, Units
  <2>3. TypeOK'
    BY <1>1, <1>2, <2>1, <2>2 DEF TypeOK, historyVars
  <2>4. PcInv'
    BY <1>1, <1>2, <2>1 DEF PcInv
  <2> QED
    BY <1>2, <1>3, <2>3, <2>4 DEF IInv
<1>6. CASE CopyMember
  <2>1. PICK x \in Members \ DOMAIN copied : DOMAIN copied' = DOMAIN copied \cup {x}
    BY <1>6 DEF CopyMember
  <2>2. UNCHANGED <<pc, direction, atStart>> /\ pc["main"] = "copy"
    BY <1>6 DEF CopyMember
  <2> QED
    BY <1>1, <1>2, <1>3, <2>1, <2>2 DEF IInv, TypeOK, PcInv, historyVars
<1>7. CASE printNetStats
  <2>1. /\ pc' = [pc EXCEPT !["main"] = "frame"]
        /\ direction' = "none" /\ copied' = <<>> /\ atStart' = 0
    BY <1>7 DEF printNetStats, GoTo
  <2>2. TypeOK' /\ PcInv'
    BY <1>1, <1>2, <2>1 DEF TypeOK, PcInv, historyVars
  <2> QED
    BY <1>2, <1>3, <2>2 DEF IInv
<1> QED
  BY <1>4, <1>5, <1>6, <1>7

LEMMA Stutter == IInv /\ UNCHANGED vars => IInv'
  BY DEF vars, copyVars, historyVars, IInv, TypeOK, LockInv, CountersInv, PcInv

LEMMA Step == IInv /\ [Next]_vars => IInv'
<1> SUFFICES ASSUME IInv, [Next]_vars PROVE IInv'
  OBVIOUS
<1>1. ASSUME NEW t \in Threads, WriteCounter(t) PROVE IInv'
  BY <1>1, WriteCounterStep
<1>2. ASSUME NEW t \in Threads, Unlock(t) PROVE IInv'
  BY <1>2, UnlockStep
<1>3. ASSUME NEW type, Receive(type) PROVE IInv'
  BY <1>3, ReceiveStep
<1>4. CASE ReceiveFails
  BY <1>4, ReceiveFailsStep
<1>5. CASE sendACK \/ sendKey
  BY <1>5, SendStep
<1>6. CASE NoKey \/ StartCopy \/ CopyMember \/ printNetStats
  BY <1>6, FrameStep
<1>7. CASE UNCHANGED vars
  BY <1>7, Stutter
<1> QED
  BY <1>1, <1>2, <1>3, <1>4, <1>5, <1>6, <1>7 DEF Next

LEMMA CountersNeverFall ==
  ASSUME IInv, [Next]_vars
  PROVE  \A m \in Modes : /\ counters[m]["kibi"] <= counters'[m]["kibi"]
                         /\ counters[m]["mebi"] <= counters'[m]["mebi"]
<1> DEFINE Goal == \A m \in Modes : /\ counters[m]["kibi"] <= counters'[m]["kibi"]
                                   /\ counters[m]["mebi"] <= counters'[m]["mebi"]
<1>1. ASSUME UNCHANGED counters PROVE Goal
  BY <1>1 DEF IInv, TypeOK
<1>2. ASSUME NEW t \in Threads, WriteCounter(t) PROVE Goal
  BY <1>2, WriteCounterStep
<1>3. (\E t \in Threads : WriteCounter(t)) \/ UNCHANGED counters
  BY ReceiveStep, ReceiveFailsStep, SendStep, FrameStep DEF Next, Unlock, vars
<1> QED
  BY <1>1, <1>2, <1>3

(* A copy that goes on while counters rise. *)
LEMMA CopyInvStep ==
  ASSUME MaxFailures < KILO, IInv, CopyInv, [Next]_vars
  PROVE  CopyInv'
<1> DEFINE c == counters[direction]
<1>1. /\ IInv' /\ TypeOK /\ PcInv
  BY Step DEF IInv
<1>2. \A m \in Modes : /\ counters[m]["kibi"] <= counters'[m]["kibi"]
                      /\ counters[m]["mebi"] <= counters'[m]["mebi"]
  BY CountersNeverFall
<1>3. /\ counters \in [Modes -> [Units -> Int]] /\ counters' \in [Modes -> [Units -> Int]]
      /\ pc \in [Threads -> {"receive", "acknowledge", "frame", "print", "copy"}]
      /\ "main" \in Threads /\ "network" \in Threads
  BY <1>1 DEF IInv, TypeOK, Threads
<1>4. CASE StartCopy
  <2>1. /\ direction' \in Modes /\ copied' = <<>> /\ counters' = counters
        /\ atStart' = getMebibytes(counters[direction'])
    BY <1>4 DEF StartCopy
  <2>2. /\ counters[direction']["bytes"] \in Int
        /\ -KILO < counters[direction']["bytes"] /\ counters[direction']["bytes"] < KILO
    BY <1>1, <1>3, <2>1, Constants DEF IInv, TypeOK, CountersInv, Units
  <2>3. Quotient(counters[direction']["bytes"]) = 0
    BY <2>2, Constants, SmallQuotient
  <2>4. /\ Seen("kibi")' = counters[direction']["kibi"] /\ Seen("mebi")' = counters[direction']["mebi"]
        /\ DOMAIN copied' = {}
    BY <2>1 DEF Seen
  <2>5. atStart' <= KILO * Seen("mebi")' + Seen("kibi")'
    <3>1. /\ counters[direction']["kibi"] \in Int /\ counters[direction']["mebi"] \in Int
      BY <1>3, <2>1 DEF Units
    <3> QED
      BY <2>1, <2>3, <2>4, <3>1, Constants DEF getMebibytes
  <2> QED
    BY <2>4, <2>5 DEF CopyInv
<1>5. CASE pc["main"] = "copy" /\ ~printNetStats /\ ~StartCopy
  <2>1. UNCHANGED <<direction, atStart>> /\ direction \in Modes
    <3>1. direction \in Modes
      BY <1>1, <1>5 DEF PcInv
    <3>2. CASE UNCHANGED copyVars
      BY <3>1, <3>2 DEF copyVars
    <3>3. CASE CopyMember
      BY <3>1, <3>3 DEF CopyMember
    <3>4. UNCHANGED copyVars \/ CopyMember
      BY <1>5 DEF Next, vars, WriteCounter, Unlock, Receive, ReceiveFails, sendACK, sendKey,
                  NoKey, StartAdding
    <3> QED
      BY <3>2, <3>3, <3>4
  <2>2. /\ c \in [Units -> Int] /\ counters'[direction] \in [Units -> Int]
        /\ c["kibi"] <= counters'[direction]["kibi"]
        /\ c["mebi"] <= counters'[direction]["mebi"]
    BY <1>2, <1>3, <2>1
  <2>3. -MaxFailures <= c["bytes"] /\ -failures <= c["bytes"] /\ c["bytes"] < KILO
    <3>1. /\ failures \in 0..MaxFailures /\ c["bytes"] \in Int
          /\ -failures <= c["bytes"] /\ c["bytes"] < KILO
      BY <1>1, <2>1, <2>2 DEF IInv, TypeOK, CountersInv, Units
    <3> QED
      BY <3>1, Constants
  <2>4. /\ \A u \in Units \cap DOMAIN copied : copied[u] \in Int
        /\ "bytes" \in DOMAIN copied => -failures <= copied["bytes"] /\ copied["bytes"] < KILO
        /\ \A u \in {"kibi", "mebi"} \cap DOMAIN copied : copied[u] <= c[u]
        /\ atStart <= KILO * Seen("mebi") + Seen("kibi")
    BY <1>5 DEF CopyInv
  <2>5. failures \in Nat /\ failures' \in Nat /\ failures <= failures'
    <3>1. failures \in Nat /\ failures' \in Nat
      BY <1>1, Constants DEF IInv, TypeOK
    <3>2. failures' = failures \/ failures' = failures + 1
      BY DEF Next, vars, WriteCounter, Unlock, Receive, ReceiveFails, sendACK, sendKey,
             NoKey, StartCopy, CopyMember, printNetStats, historyVars
    <3> QED
      BY <3>1, <3>2
  <2> DEFINE V(u) == IF u \in DOMAIN copied THEN copied[u] ELSE c[u]
             V2(u) == IF u \in DOMAIN copied' THEN copied'[u] ELSE counters'[direction][u]
  <2>6. /\ \A u \in Units \cap DOMAIN copied' : copied'[u] \in Int
        /\ "bytes" \in DOMAIN copied' => -failures' <= copied'["bytes"] /\ copied'["bytes"] < KILO
        /\ \A u \in {"kibi", "mebi"} \cap DOMAIN copied' : copied'[u] <= counters'[direction][u]
        /\ \A u \in {"kibi", "mebi"} : /\ V(u) \in Int /\ V2(u) \in Int /\ V(u) <= V2(u)
    <3>1. CASE copied' = copied
      BY <2>2, <2>3, <2>4, <2>5, <3>1 DEF Units
    <3>2. CASE CopyMember
      <4>1. counters' = counters /\ failures' = failures
        BY <3>2 DEF CopyMember, historyVars
      <4>2. PICK x \in Members \ DOMAIN copied :
              copied' = [y \in DOMAIN copied \cup {x} |->
                           IF y \in DOMAIN copied THEN copied[y]
                           ELSE IF x = "lock" THEN lock ELSE c[x]]
        BY <3>2 DEF CopyMember
      <4>3. /\ DOMAIN copied' = DOMAIN copied \cup {x}
            /\ \A y \in DOMAIN copied : copied'[y] = copied[y]
            /\ x \in Units => copied'[x] = c[x]
        BY <4>2 DEF Units
      <4>4. /\ \A u \in Units \cap DOMAIN copied' :
                 copied'[u] = IF u \in DOMAIN copied THEN copied[u] ELSE c[u]
            /\ x \notin DOMAIN copied
        BY <4>2, <4>3
      <4>5. \A u \in {"kibi", "mebi"} : V2(u) = V(u)
        BY <4>1, <4>3, <4>4 DEF Units
      <4>6. \A u \in {"kibi", "mebi"} : V(u) \in Int /\ V(u) <= c[u]
        BY <2>2, <2>4 DEF Units
      <4>7. "bytes" \in DOMAIN copied' => -failures' <= copied'["bytes"] /\ copied'["bytes"] < KILO
        BY <2>3, <2>4, <4>1, <4>4 DEF Units
      <4>8. \A u \in Units \cap DOMAIN copied' : copied'[u] \in Int
        BY <2>2, <2>4, <4>4
      <4>9. \A u \in {"kibi", "mebi"} \cap DOMAIN copied' : copied'[u] <= counters'[direction][u]
        BY <4>1, <4>4, <4>6 DEF Units
      <4> QED
        BY <4>5, <4>6, <4>7, <4>8, <4>9
    <3>3. UNCHANGED copied \/ CopyMember
      BY <1>5 DEF Next, vars, WriteCounter, Unlock, Receive, ReceiveFails, sendACK, sendKey,
                  NoKey, StartAdding, copyVars
    <3> QED
      BY <3>1, <3>2, <3>3
  <2>7. /\ Seen("kibi") = V("kibi") /\ Seen("mebi") = V("mebi")
        /\ Seen("kibi")' = V2("kibi") /\ Seen("mebi")' = V2("mebi")
    BY <2>1 DEF Seen
  <2>8. atStart' <= KILO * Seen("mebi")' + Seen("kibi")'
    <3> HIDE DEF V, V2
    <3>1. KILO * V("mebi") <= KILO * V2("mebi")
      BY <2>6, Constants, Monotone
    <3>2. atStart \in Int /\ KILO * V("mebi") \in Int /\ KILO * V2("mebi") \in Int
      BY <1>1, <2>6, Constants DEF TypeOK
    <3> QED
      BY <2>1, <2>4, <2>6, <2>7, <3>1, <3>2
  <2> QED
    BY <2>1, <2>6, <2>8 DEF CopyInv
<1>6. CASE pc'["main"] # "copy"
  BY <1>6 DEF CopyInv
<1>7. \/ pc["main"] = "copy" /\ ~printNetStats /\ ~StartCopy
      \/ StartCopy \/ pc'["main"] # "copy"
  <2>1. CASE pc["main"] # "copy" /\ ~StartCopy
    BY <1>3, <2>1 DEF Next, vars, WriteCounter, Unlock, Receive, ReceiveFails, sendACK, sendKey,
                NoKey, CopyMember, printNetStats, GoTo
  <2>2. CASE printNetStats
    BY <1>3, <2>2 DEF printNetStats, GoTo
  <2> QED
    BY <2>1, <2>2
<1> QED
  BY <1>4, <1>5, <1>6, <1>7

(* What is shown is what is seen. *)
LEMMA CopyInvShows ==
  ASSUME MaxFailures < KILO, IInv, CopyInv
  PROVE  ShownIsBetween
<1> SUFFICES ASSUME DOMAIN copied = Members, Shown # 0
             PROVE  atStart <= Shown /\ Shown <= getMebibytes(counters[direction])
  BY DEF ShownIsBetween
<1> DEFINE c == counters[direction]
<1>1. pc["main"] = "copy" /\ direction \in Modes
  BY DEF IInv, PcInv, Members
<1>2. /\ \A u \in Units : copied[u] \in Int
      /\ -failures <= copied["bytes"] /\ copied["bytes"] < KILO
      /\ copied["kibi"] <= c["kibi"] /\ copied["mebi"] <= c["mebi"]
      /\ atStart <= KILO * copied["mebi"] + copied["kibi"]
  BY <1>1 DEF CopyInv, Seen, Members, Units
<1>3. /\ c \in [Units -> Int] /\ failures \in Nat /\ failures < KILO
      /\ -failures <= c["bytes"] /\ c["bytes"] < KILO /\ atStart \in Int
  BY <1>1, Constants DEF IInv, TypeOK, CountersInv
<1>4. Quotient(copied["bytes"]) = 0 /\ Quotient(c["bytes"]) = 0
  <2>1. /\ copied["bytes"] \in Int /\ c["bytes"] \in Int
    BY <1>2, <1>3 DEF Units
  <2>2. /\ -KILO < copied["bytes"] /\ -KILO < c["bytes"]
    BY <1>2, <1>3, <2>1, Constants
  <2> HIDE DEF c
  <2> QED
    BY <1>2, <1>3, <2>1, <2>2, Constants, SmallQuotient
<1>5. /\ Shown = KILO * copied["mebi"] + copied["kibi"]
      /\ getMebibytes(c) = KILO * c["mebi"] + c["kibi"]
  <2>1. /\ KILO * copied["mebi"] + copied["kibi"] \in Int
        /\ KILO * c["mebi"] + c["kibi"] \in Int
    BY <1>2, <1>3, Constants DEF Units
  <2>2. Shown = getMebibytes([u \in Units |-> copied[u]])
    BY DEF Shown
  <2> QED
    BY <1>4, <2>1, <2>2 DEF getMebibytes, Units
<1>6. KILO * copied["mebi"] <= KILO * c["mebi"]
  BY <1>2, <1>3, Constants, Monotone DEF Units
<1>7. KILO * copied["mebi"] \in Int /\ KILO * c["mebi"] \in Int
  BY <1>2, <1>3, Constants DEF Units
<1> QED
  BY <1>2, <1>3, <1>5, <1>6, <1>7 DEF Units

-----------------------------------------------------------------------------
(* The theorems. *)

(* The invariant of the counters holds in every reachable state. *)
THEOREM Invariant == Spec => []IInv
<1>1. Init => IInv
  BY InitIInv
<1>2. IInv /\ [Next]_vars => IInv'
  BY Step
<1> QED
  BY <1>1, <1>2, PTL DEF Spec

(* Every variable has its type in every reachable state, and no counter    *)
(* but mebi reaches a unit of the next.                                    *)
THEOREM TypeCorrect == Spec => []TypeOK
<1>1. IInv => TypeOK
  BY DEF IInv
<1> QED
  BY <1>1, Invariant, PTL

(* No byte is lost or counted twice, whatever the interleaving, until a    *)
(* carry of bytes leaves no remainder.                                     *)
THEOREM Counts == Spec => []CountsEveryByte
<1>1. IInv => CountsEveryByte
  <2> SUFFICES ASSUME IInv, lock = "free", NEW m \in Modes
               PROVE  Settled(counters[m], added[m], evenCarry[m], failures)
    BY DEF CountsEveryByte, Settled
  <2>1. \A t \in Threads : adding[t] # m
    BY OneAdds DEF IInv, Modes
  <2> QED
    BY <2>1 DEF IInv, CountersInv
<1> QED
  BY <1>1, Invariant, PTL

(* What is shown never goes down by a carry. *)
THEOREM UnitsRise == Spec => UnitsNeverFall
<1>1. IInv /\ [Next]_vars => [UnitsRiseOrStay]_vars
  BY CountersNeverFall DEF UnitsRiseOrStay
<1> QED
  BY <1>1, Invariant, PTL DEF Spec, UnitsNeverFall

(* A number on the screen is one that a copy at once would have shown at   *)
(* the beginning, at the end, or one between them, while recvfrom fails    *)
(* less often than there are bytes in a kibibyte.                          *)
THEOREM ShowsBetween ==
  ASSUME MaxFailures < KILO
  PROVE  Spec => []ShownIsBetween
<1>1. Init => CopyInv
  BY DEF Init, CopyInv, Threads
<1>2. IInv /\ CopyInv /\ [Next]_vars => CopyInv'
  BY CopyInvStep
<1>3. IInv /\ CopyInv => ShownIsBetween
  BY CopyInvShows
<1> QED
  BY <1>1, <1>2, <1>3, Invariant, PTL DEF Spec

=============================================================================
