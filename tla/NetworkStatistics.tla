------------------------- MODULE NetworkStatistics -------------------------
(***************************************************************************)
(* The byte counters of a client.  Its network thread counts what it       *)
(* receives and the ACKs it sends, its main thread the keys it sends, both *)
(* in addBytes and under its lock.  In every frame the main thread copies  *)
(* the whole object without the lock (Network::getStatistics) and shows    *)
(* the copy.                                                               *)
(*                                                                         *)
(* A step of addBytes is one write to a counter; the copy reads one member *)
(* at a time.  Since nothing orders the two, the writes of one call and    *)
(* the reads of one copy may come in any order.  The two directions are    *)
(* counted in members of their own and shown in lines of their own: of a   *)
(* copy, the model follows the members of either direction, and the lock.  *)
(***************************************************************************)
EXTENDS Integers

CONSTANTS
  KILO,          \* 1024
  Header, Body,  \* sizes of the parts of a NET_Frame: 8 and 140
  MaxIn, MaxOut, \* bounds: bytes counted in either direction
  MaxFailures    \* bound: calls of recvfrom that fail

ASSUME StatisticsAssumption ==
  /\ KILO \in Nat /\ Header \in Nat \ {0} /\ Body \in Nat
  /\ Header + Body < KILO
  /\ MaxIn \in Nat /\ MaxOut \in Nat /\ MaxFailures \in Nat

VARIABLES
  counters,   \* direction -> bytes, kibibytes and mebibytes
  lock,       \* the thread that holds the lock, or "free"
  adding,     \* thread -> the direction it is in addBytes for, or "none"
  writes,     \* thread -> the writes its addBytes has still to do
  pc,         \* thread -> where it is between its calls
  direction,  \* the direction whose members are being copied, or "none"
  copied,     \* the members of the copy, as far as they have been read
  added,      \* history: direction -> sum of the arguments of addBytes
  evenCarry,  \* history: direction -> a carry of bytes left no remainder
  failures,   \* history, bounded by MaxFailures: recvfrom returned -1
  atStart     \* history: what a copy at once would have shown

copyVars == <<direction, copied, atStart>>
historyVars == <<added, evenCarry, failures>>
vars == <<counters, lock, adding, writes, pc, copyVars, historyVars>>

Threads == {"network", "main"}
Modes   == {"STAT_IN", "STAT_OUT"}
Units   == {"bytes", "kibi", "mebi"}
Members == Units \cup {"lock"}

Init ==
  /\ counters = [m \in Modes |-> [u \in Units |-> 0]]
  /\ lock = "free"
  /\ adding = [t \in Threads |-> "none"]
  /\ writes = [t \in Threads |-> {}]
  /\ pc = [t \in Threads |-> IF t = "main" THEN "frame" ELSE "receive"]
  /\ direction = "none"
  /\ copied = <<>>
  /\ added = [m \in Modes |-> 0]
  /\ evenCarry = [m \in Modes |-> FALSE]
  /\ failures = 0
  /\ atStart = 0

-----------------------------------------------------------------------------
(* The arithmetic: what a call writes to the counters c of its direction.  *)

Write(unit, value) == [unit |-> unit, value |-> value]

(* Mutant of Remainder: what was carried is not subtracted. *)
WholeSum(unit, sum) == {Write(unit, sum)}

(* After a carry a remainder is kept if it is not zero.  If it is, the     *)
(* counter keeps the value it had before.                                  *)
Remainder(unit, sum) == IF sum % KILO > 0 THEN {Write(unit, sum % KILO)} ELSE {}

addMebibytes(c, n) == {Write("mebi", c["mebi"] + n)}

addKibibytes(c, n) ==
  LET sum == c["kibi"] + n
  IN  IF sum < KILO THEN {Write("kibi", sum)}
      ELSE addMebibytes(c, sum \div KILO) \cup Remainder("kibi", sum)

addBytes(c, n) ==
  LET sum == c["bytes"] + n
  IN  IF sum < KILO THEN {Write("bytes", sum)}
      ELSE addKibibytes(c, sum \div KILO) \cup Remainder("bytes", sum)

(* Integer division in C++ rounds towards zero. *)
Quotient(n) == IF n < 0 THEN -((-n) \div KILO) ELSE n \div KILO

(* getMebibytes, as a number of kibibytes; bytes / 1024 is an integer. *)
getMebibytes(c) == KILO * c["mebi"] + c["kibi"] + Quotient(c["bytes"])

sizeofFrame(type) ==
  IF type \in {"ACK", "CONNECTION_REQUEST_ACK"} THEN Header ELSE Header + Body

-----------------------------------------------------------------------------
(* The threads. *)

(* Mutant of CanLock: the lock is taken to be free. *)
LockAnyway == TRUE

CanLock == lock = "free"

Idle(t, at) == pc[t] = at /\ adding[t] = "none"

GoTo(t, at) == pc' = [pc EXCEPT ![t] = at]

(* The call of addBytes, up to the lock. *)
StartAdding(t, n, mode) ==
  /\ CanLock
  /\ lock' = t
  /\ adding' = [adding EXCEPT ![t] = mode]
  /\ writes' = [writes EXCEPT ![t] = addBytes(counters[mode], n)]
  /\ added[mode] + n <= (IF mode = "STAT_IN" THEN MaxIn ELSE MaxOut)
  /\ added' = [added EXCEPT ![mode] = @ + n]
  /\ evenCarry' = [evenCarry EXCEPT ![mode] =
                     @ \/ (counters[mode]["bytes"] + n >= KILO
                           /\ (counters[mode]["bytes"] + n) % KILO = 0)]
  /\ UNCHANGED <<counters, copyVars>>

(* One of its writes. *)
WriteCounter(t) ==
  /\ \E w \in writes[t] :
       /\ counters' = [counters EXCEPT ![adding[t]][w.unit] = w.value]
       /\ writes' = [writes EXCEPT ![t] = @ \ {w}]
  /\ UNCHANGED <<lock, adding, pc, copyVars, historyVars>>

(* Its end. *)
Unlock(t) ==
  /\ adding[t] # "none" /\ writes[t] = {}
  /\ adding' = [adding EXCEPT ![t] = "none"]
  /\ lock' = "free"
  /\ UNCHANGED <<counters, writes, pc, copyVars, historyVars>>

(* A frame is received and counted, and acknowledged unless it is an ACK. *)
Receive(type) ==
  /\ Idle("network", "receive")
  /\ StartAdding("network", sizeofFrame(type), "STAT_IN")
  /\ GoTo("network", IF type = "ACK" THEN "receive" ELSE "acknowledge")
  /\ UNCHANGED failures

(* recvfrom has failed, and -1 is counted; the frame, which nothing has    *)
(* been read into, is acknowledged or not.                                 *)
ReceiveFails ==
  /\ failures < MaxFailures
  /\ failures' = failures + 1
  /\ Idle("network", "receive")
  /\ StartAdding("network", -1, "STAT_IN")
  /\ \E at \in {"receive", "acknowledge"} : GoTo("network", at)

sendACK ==
  /\ Idle("network", "acknowledge")
  /\ StartAdding("network", sizeofFrame("ACK"), "STAT_OUT")
  /\ GoTo("network", "receive")
  /\ UNCHANGED failures

(* A frame of the game in which a key is sent, or none. *)
sendKey ==
  /\ Idle("main", "frame")
  /\ StartAdding("main", sizeofFrame("DATA_KEY_DOWN"), "STAT_OUT")
  /\ GoTo("main", "print")
  /\ UNCHANGED failures

NoKey ==
  /\ Idle("main", "frame")
  /\ GoTo("main", "print")
  /\ UNCHANGED <<counters, lock, adding, writes, copyVars, historyVars>>

(* getStatistics begins to copy, ... *)
StartCopy ==
  /\ Idle("main", "print")
  /\ GoTo("main", "copy")
  /\ direction' \in Modes
  /\ copied' = <<>>
  /\ atStart' = getMebibytes(counters[direction'])
  /\ UNCHANGED <<counters, lock, adding, writes, historyVars>>

(* ... copies a member, which may be the lock, ... *)
CopyMember ==
  /\ pc["main"] = "copy"
  /\ \E x \in Members \ DOMAIN copied :
       copied' = [y \in DOMAIN copied \cup {x} |->
                    IF y \in DOMAIN copied THEN copied[y]
                    ELSE IF x = "lock" THEN lock ELSE counters[direction][x]]
  /\ UNCHANGED <<counters, lock, adding, writes, pc, direction, atStart, historyVars>>

(* ... and shows the copy: 0, if its lock was copied locked, since         *)
(* pthread_mutex_trylock fails for ever then.                              *)
Shown == IF copied["lock"] # "free" THEN 0
         ELSE getMebibytes([u \in Units |-> copied[u]])

(* What is shown is gone from the program when it is on the screen. *)
printNetStats ==
  /\ pc["main"] = "copy" /\ DOMAIN copied = Members
  /\ GoTo("main", "frame")
  /\ direction' = "none" /\ copied' = <<>> /\ atStart' = 0
  /\ UNCHANGED <<counters, lock, adding, writes, historyVars>>

Next ==
  \/ \E t \in Threads : WriteCounter(t) \/ Unlock(t)
  \/ \E type \in {"ACK", "CONNECTION_REQUEST_ACK", "DATA_GAMEUPDATE"} : Receive(type)
  \/ ReceiveFails \/ sendACK
  \/ sendKey \/ NoKey \/ StartCopy \/ CopyMember \/ printNetStats

Spec == Init /\ [][Next]_vars

-----------------------------------------------------------------------------

(* Every variable has a value of its type; in particular the two lower     *)
(* counters stay below a unit of the next.                                 *)
TypeOK ==
  /\ counters \in [Modes -> [Units -> Int]]
  /\ \A m \in Modes : /\ counters[m]["bytes"] < KILO
                      /\ counters[m]["kibi"] \in 0..(KILO - 1)
                      /\ counters[m]["mebi"] \in Nat
  /\ lock \in Threads \cup {"free"}
  /\ adding \in [Threads -> Modes \cup {"none"}]
  /\ \A t \in Threads : \A w \in writes[t] : w.unit \in Units /\ w.value \in Int
  /\ DOMAIN writes = Threads
  /\ pc \in [Threads -> {"receive", "acknowledge", "frame", "print", "copy"}]
  /\ DOMAIN copied \subseteq Members
  /\ direction \in Modes \cup {"none"} /\ atStart \in Int
  /\ added \in [Modes -> Int] /\ evenCarry \in [Modes -> BOOLEAN]
  /\ failures \in 0..MaxFailures

(* What the counters of a direction have taken in, if every kibibyte that  *)
(* was carried is counted as one: until the first mebibyte there are kibi  *)
(* of them, from then on each adds one to mebi.                            *)
Counted(c) == c["bytes"] + KILO * (c["kibi"] + c["mebi"])

(* No byte is lost, whichever thread adds it and however the calls of      *)
(* addBytes interleave, and none is counted twice, until a carry of bytes  *)
(* leaves no remainder: then the bytes from before stay                    *)
(* (NetworkStatistics.cpp:129).                                            *)
CountsEveryByte ==
  lock = "free" =>
    \A m \in Modes :
      /\ added[m] <= Counted(counters[m])
      /\ ~evenCarry[m] => added[m] = Counted(counters[m])

(* The copy is taken without the lock, in the middle of a carry perhaps.   *)
(* Still a number on the screen is one that a copy at once would have      *)
(* shown between the beginning and the end of the copy, or 0 because of a  *)
(* copied lock (Network.cpp:632, Client.cpp:212, NetworkStatistics.cpp:78).*)
ShownIsBetween ==
  DOMAIN copied = Members /\ Shown # 0 =>
    atStart <= Shown /\ Shown <= getMebibytes(counters[direction])

UnitsRiseOrStay ==
  \A m \in Modes : /\ counters[m]["kibi"] <= counters'[m]["kibi"]
                  /\ counters[m]["mebi"] <= counters'[m]["mebi"]

(* It is so because the counters that are shown never go down: no          *)
(* addBytes takes back a carry of another thread's, nor one of its own.    *)
UnitsNeverFall == [][UnitsRiseOrStay]_vars

=============================================================================
