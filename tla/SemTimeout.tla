------------------------------ MODULE SemTimeout ------------------------------
(***************************************************************************)
(* clase7/ejemplo-sem/sem.c: main waits on a semaphore until a deadline,   *)
(* and an alarm whose handler posts the semaphore may interrupt the wait.  *)
(* The handler runs on the thread of main, between two of its steps, and   *)
(* makes sem_timedwait return EINTR when it finds it blocked; main then    *)
(* calls it again with the same deadline.                                  *)
(*                                                                         *)
(* Time is a counter.  Main may be slow: any time may pass between two of  *)
(* its steps, also while a call that could return has not returned.        *)
(***************************************************************************)
EXTENDS Integers

CONSTANTS
    MaxSecs,    \* bound: the arguments alarm-secs and wait-secs
    MaxDelay,   \* bound: the time by which main has read the clock
    Never

ASSUME BoundsAssumption == MaxSecs \in Nat /\ MaxDelay \in Nat /\ Never \notin Nat

VARIABLES
    pc,
    alarm_secs, wait_secs,  \* argv
    now,        \* the clock
    alarm_at,   \* when SIGALRM comes
    ts,         \* the deadline
    sem,
    s           \* what sem_timedwait returned: success, or the errno

vars == <<pc, alarm_secs, wait_secs, now, alarm_at, ts, sem, s>>

Init ==
    /\ pc = "alarm" /\ now = 0 /\ alarm_at = Never /\ ts = Never /\ sem = 0 /\ s = "none"
    /\ alarm_secs \in 0 .. MaxSecs /\ wait_secs \in 0 .. MaxSecs

Goto(from, to) ==
    /\ pc = from
    /\ pc' = to
    /\ UNCHANGED <<alarm_secs, wait_secs, now>>

\* alarm, which sets no alarm for 0.  The handler is set already.
SetAlarm ==
    /\ Goto("alarm", "clock")
    /\ alarm_at' = IF alarm_secs = 0 THEN Never ELSE now + alarm_secs
    /\ UNCHANGED <<ts, sem, s>>

\* clock_gettime and the deadline
ReadClock ==
    /\ Goto("clock", "call")
    /\ now <= MaxDelay
    /\ ts' = now + wait_secs
    /\ UNCHANGED <<alarm_at, sem, s>>

\* sem_timedwait takes the semaphore if it can, whatever the time, and returns at once.
Take ==
    /\ Goto("call", "returned")
    /\ sem > 0
    /\ sem' = sem - 1 /\ s' = "success"
    /\ UNCHANGED <<alarm_at, ts>>

Block ==
    /\ Goto("call", "blocked")
    /\ sem = 0
    /\ UNCHANGED <<alarm_at, ts, sem, s>>

\* The deadline ends the wait, even if a signal is pending.
TimeOut ==
    /\ Goto("blocked", "returned")
    /\ now >= ts
    /\ s' = "ETIMEDOUT"
    /\ UNCHANGED <<alarm_at, ts, sem>>

\* Fault: an interrupted wait is not taken up again.
NoRestart ==
    /\ s = "EINTR" /\ Goto("returned", "exit")
    /\ UNCHANGED <<alarm_at, ts, sem, s>>

\* The loop calls sem_timedwait again after EINTR.
Restart ==
    /\ s = "EINTR" /\ Goto("returned", "call")
    /\ UNCHANGED <<alarm_at, ts, sem, s>>

\* exit, with the status that s gives
Exit ==
    /\ s # "EINTR" /\ Goto("returned", "exit")
    /\ UNCHANGED <<alarm_at, ts, sem, s>>

\* SIGALRM is delivered: the handler posts, and the wait that it interrupts returns.
Handler ==
    /\ alarm_at # Never /\ now >= alarm_at /\ pc # "exit"
    /\ alarm_at' = Never
    /\ sem' = sem + 1
    /\ \/ pc = "blocked" /\ pc' = "returned" /\ s' = "EINTR"
       \/ pc # "blocked" /\ UNCHANGED <<pc, s>>
    /\ UNCHANGED <<alarm_secs, wait_secs, now, ts>>

Tick ==
    /\ now < IF ts = Never THEN MaxDelay ELSE MaxDelay + MaxSecs
    /\ now' = now + 1
    /\ UNCHANGED <<pc, alarm_secs, wait_secs, alarm_at, ts, sem, s>>

Main == SetAlarm \/ ReadClock \/ Take \/ Block \/ TimeOut \/ Restart \/ Exit

Next == Main \/ Handler \/ Tick

\* Time passes, main runs when it can and the signal is delivered.
Spec == Init /\ [][Next]_vars
FairSpec == Spec /\ WF_vars(Main) /\ WF_vars(Handler) /\ WF_vars(Tick)

------------------------------------------------------------------------------
(* Properties *)

\* Every variable keeps its type.
TypeOK ==
    /\ pc \in {"alarm", "clock", "call", "blocked", "returned", "exit"}
    /\ alarm_secs \in 0 .. MaxSecs /\ wait_secs \in 0 .. MaxSecs
    /\ now \in 0 .. MaxDelay + MaxSecs /\ sem \in 0 .. 1
    /\ {alarm_at, ts} \subseteq 0 .. MaxDelay + MaxSecs \cup {Never}
    /\ s \in {"none", "success", "EINTR", "ETIMEDOUT"}

\* What the wait has come to.  Only an exit makes an interruption a failure.
Outcome ==
    IF s = "success" THEN "success"
    ELSE IF s = "ETIMEDOUT" \/ pc = "exit" THEN "failure"
    ELSE "none"

\* A post of the handler that comes before sem_timedwait gives up is never lost, whenever
\* the signal comes: the program fails only after the deadline and if nothing was posted,
\* and it always ends.
Wait == INSTANCE TimedWait WITH
    posted <- sem > 0 \/ s = "success",
    expired <- ts # Never /\ now >= ts,
    outcome <- Outcome
ImplementsTimedWait == Wait!FairSpec
==============================================================================
