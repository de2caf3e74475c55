-------------------------- MODULE SemTimeoutProofs ---------------------------
(***************************************************************************)
(* For any alarm and any deadline, sem.c does only what TimedWait allows:  *)
(* the safety half of the refinement that TLC checks with its fairness.    *)
(***************************************************************************)
EXTENDS SemTimeout, TLAPS

\* Every step expands what only abbreviates.
USE DEF Goto

\* The clock is read before the deadline is known, and one signal comes at most.
ClockInv ==
    /\ ts = Never <=> pc \in {"alarm", "clock"}
    /\ ts = Never => now <= MaxDelay
    /\ pc = "alarm" => alarm_at = Never /\ sem = 0
    /\ sem > 0 => alarm_at = Never

\* Main blocks with nothing posted, and what it has of the last call is never stale.
WaitInv ==
    /\ pc = "blocked" => sem = 0
    /\ pc \in {"alarm", "clock", "call", "blocked"} => s \in {"none", "EINTR"}
    /\ pc = "returned" => s # "none"
    /\ pc = "exit" => s \in {"success", "ETIMEDOUT"}

SemInv == TypeOK /\ ClockInv /\ WaitInv

------------------------------------------------------------------------------
(* The invariant *)

\* At the start nothing is set.
LEMMA SemInit == Init => SemInv
    BY BoundsAssumption DEF Init, SemInv, TypeOK, ClockInv, WaitInv

\* Every step keeps the invariant.
LEMMA SemStep == SemInv /\ [Next]_vars => SemInv'
<1> SUFFICES ASSUME SemInv, [Next]_vars PROVE SemInv'
    OBVIOUS
<1> USE BoundsAssumption DEF SemInv, TypeOK, ClockInv, WaitInv
<1>1. CASE SetAlarm
    <2>1. now + alarm_secs \in 0 .. MaxDelay + MaxSecs
        BY <1>1 DEF SetAlarm
    <2> QED
        BY <1>1, <2>1 DEF SetAlarm
<1>2. CASE ReadClock
    <2>1. now + wait_secs \in 0 .. MaxDelay + MaxSecs /\ now + wait_secs # Never
        BY <1>2 DEF ReadClock
    <2> QED
        BY <1>2, <2>1 DEF ReadClock
<1>3. CASE Take
    BY <1>3 DEF Take
<1>4. CASE Block
    BY <1>4 DEF Block
<1>5. CASE TimeOut
    BY <1>5 DEF TimeOut
<1>6. CASE Restart
    BY <1>6 DEF Restart
<1>7. CASE Exit
    BY <1>7 DEF Exit
<1>8. CASE Handler
    <2>1. sem = 0 /\ sem' = 1 /\ alarm_at' = Never
        BY <1>8 DEF Handler
    <2> QED
        BY <1>8, <2>1 DEF Handler
<1>9. CASE Tick
    <2>1. /\ now' = now + 1 /\ now + 1 \in 0 .. MaxDelay + MaxSecs
          /\ ts = Never => now + 1 <= MaxDelay
        BY <1>9 DEF Tick
    <2> QED
        BY <1>9, <2>1 DEF Tick
<1>10. CASE UNCHANGED vars
    BY <1>10 DEF vars
<1> QED
    BY <1>1, <1>2, <1>3, <1>4, <1>5, <1>6, <1>7, <1>8, <1>9, <1>10 DEF Next, Main

\* The invariant holds for ever.
LEMMA SemAlways == Spec => []SemInv
<1>1. Init => SemInv
    BY SemInit
<1>2. SemInv /\ [Next]_vars => SemInv'
    BY SemStep
<1> QED
    BY <1>1, <1>2, PTL DEF Spec

------------------------------------------------------------------------------
(* Theorems *)

\* Every variable keeps its type; the semaphore is posted once at most.
THEOREM SemTypeCorrect == Spec => []TypeOK
<1>1. SemInv => TypeOK
    BY DEF SemInv
<1> QED
    BY <1>1, SemAlways, PTL

\* Each step of main, of the handler or of the clock is a step of the abstract wait or none.
LEMMA WaitStep == SemInv /\ [Next]_vars => [Wait!Next]_(Wait!vars)
<1> SUFFICES ASSUME SemInv, [Next]_vars PROVE [Wait!Next]_(Wait!vars)
    OBVIOUS
<1> USE BoundsAssumption
    DEF SemInv, TypeOK, ClockInv, WaitInv, Wait!Next, Wait!vars, Outcome
<1>1. CASE SetAlarm \/ Block \/ Restart
    BY <1>1 DEF SetAlarm, Block, Restart
<1>2. CASE ReadClock \/ Tick
    <2>1. UNCHANGED <<sem, s>> /\ (pc' = "exit" <=> pc = "exit")
        BY <1>2 DEF ReadClock, Tick
    <2>2. ts # Never /\ now >= ts => ts' # Never /\ now' >= ts'
        BY <1>2 DEF ReadClock, Tick
    <2> QED
        BY <2>1, <2>2 DEF Wait!Expire
<1>3. CASE Take
    BY <1>3 DEF Take, Wait!Succeed
<1>4. CASE TimeOut
    BY <1>4 DEF TimeOut, Wait!GiveUp
<1>5. CASE Exit
    BY <1>5 DEF Exit
<1>6. CASE Handler
    BY <1>6 DEF Handler, Wait!Post
<1>7. CASE UNCHANGED vars
    BY <1>7 DEF vars
<1> QED
    BY <1>1, <1>2, <1>3, <1>4, <1>5, <1>6, <1>7 DEF Next, Main

\* The program gives up only after the deadline and with nothing posted, succeeds only if
\* the handler posted, and what it came to is final.
THEOREM WaitIsSafe == Spec => Wait!Spec
<1>1. Init => Wait!Init
    BY DEF Init, Wait!Init, Outcome
<1>2. SemInv /\ [Next]_vars => [Wait!Next]_(Wait!vars)
    BY WaitStep
<1> QED
    BY <1>1, <1>2, SemAlways, PTL DEF Spec, Wait!Spec

==============================================================================
