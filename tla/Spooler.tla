------------------------------- MODULE Spooler -------------------------------
(***************************************************************************)
(* The producer / spooler program of clase7/ejemplo-sem2/unnamed.c: the    *)
(* threads of one process share a ring of MAX_BUFFERS strings.             *)
(*                                                                         *)
(* A producer takes a free buffer (buffer_count_sem), claims the next slot *)
(* index under mutex_sem, RELEASES the mutex, writes its string in the     *)
(* slot and only then signals the spooler (spool_signal_sem).  The spooler *)
(* prints the slots in index order.  main creates the threads, joins the   *)
(* producers, polls spool_signal_sem until it is 0, cancels the spooler,   *)
(* destroys the semaphores and exits.                                      *)
(*                                                                         *)
(* The sem_* calls have no reachable failure (private semaphores, no       *)
(* signal handler, so no EINTR): their exit(1) branches are left out.      *)
(* pthread_create can fail for lack of resources and its branch is kept.   *)
(***************************************************************************)
EXTENDS Integers, FiniteSets

CONSTANTS
    Producers,      \* the producer threads (10 in the code)
    MAX_BUFFERS,    \* slots of the ring (10 in the code)
    STRINGS,        \* strings each producer makes (10 in the code)
    Empty,          \* content of a slot nobody has written: the zeroed global
    Partial,        \* content of a slot whose only writer is inside sprintf
    Torn            \* content two overlapping sprintf calls may leave

ASSUME ProducersAssumption == IsFiniteSet(Producers) /\ Producers # {}
ASSUME SizeAssumption == MAX_BUFFERS \in Nat \ {0} /\ STRINGS \in Nat \ {0}

\* The text "Producer <id>: <count>".
String == Producers \X (1 .. STRINGS)

ASSUME ContentAssumption ==
    /\ {Empty, Partial, Torn} \cap String = {}
    /\ Empty # Partial /\ Partial # Torn /\ Torn # Empty

Slots == 0 .. (MAX_BUFFERS - 1)
Content == String \cup {Empty, Partial, Torn}

VARIABLES
    mutex_sem,              \* protects buffer_produce_index
    buffer_count_sem,       \* available buffers
    spool_signal_sem,       \* strings the producers announced
    buffer_produce_index,
    buffer_print_index,
    buf,                    \* content of each slot
    pc,                     \* where each producer is
    j,                      \* each producer's local j
    count,                  \* each producer's local count
    spoolerPc,
    mainPc,
    cancelRequested,        \* pthread_cancel(tid_spooler) was called
    claimed,                \* history: slots claimed so far
    ticket,                 \* history: the claim number each producer holds
    printed,                \* history: number of printf calls of the spooler
    lastPrinted             \* history: what the last printf printed

sems == <<mutex_sem, buffer_count_sem, spool_signal_sem>>
ringVars == <<buffer_produce_index, buf, claimed>>
locals == <<j, count, ticket>>
printVars == <<buffer_print_index, printed, lastPrinted>>
vars == <<sems, ringVars, pc, locals, printVars, spoolerPc, mainPc, cancelRequested>>

ProducerPc == {"new", "wait_count", "wait_mutex", "read_index", "advance_index",
               "post_mutex", "sprintf", "sprintf_end", "post_signal", "done"}
SpoolerPc == {"new", "wait", "print", "pause", "release", "cancelled"}
MainPc == {"create_spooler", "create", "join", "poll", "cancel", "destroy",
           "exit", "exited", "failed"}

Init ==
    /\ mutex_sem = 1
    /\ buffer_count_sem = MAX_BUFFERS
    /\ spool_signal_sem = 0
    /\ buffer_produce_index = 0
    /\ buffer_print_index = 0
    /\ buf = [s \in Slots |-> Empty]
    /\ pc = [p \in Producers |-> "new"]
    /\ j = [p \in Producers |-> 0]
    /\ count = [p \in Producers |-> 0]
    /\ spoolerPc = "new"
    /\ mainPc = "create_spooler"
    /\ cancelRequested = FALSE
    /\ claimed = 0
    /\ ticket = [p \in Producers |-> 0]
    /\ printed = 0
    /\ lastPrinted = Empty

\* Every thread dies with the process.
Running == mainPc \notin {"exited", "failed"}

\* A producer changes nothing that is the spooler's or main's.
Goto(p, from, to) ==
    /\ Running /\ pc[p] = from
    /\ pc' = [pc EXCEPT ![p] = to]
    /\ UNCHANGED <<printVars, spoolerPc, mainPc, cancelRequested>>

------------------------------------------------------------------------------
(* producer() *)

\* Fault: the result of the wait is ignored.
WaitBufferIgnored(p) ==
    /\ Goto(p, "wait_count", "wait_mutex")
    /\ buffer_count_sem' = IF buffer_count_sem > 0 THEN buffer_count_sem - 1 ELSE 0
    /\ UNCHANGED <<mutex_sem, spool_signal_sem, ringVars, locals>>

\* sem_wait(&buffer_count_sem)
WaitBuffer(p) ==
    /\ Goto(p, "wait_count", "wait_mutex")
    /\ buffer_count_sem > 0
    /\ buffer_count_sem' = buffer_count_sem - 1
    /\ UNCHANGED <<mutex_sem, spool_signal_sem, ringVars, locals>>

\* Fault: the mutex is not taken.
LockIndexMissing(p) ==
    /\ Goto(p, "wait_mutex", "read_index")
    /\ UNCHANGED <<sems, ringVars, locals>>

\* sem_wait(&mutex_sem)
LockIndex(p) ==
    /\ Goto(p, "wait_mutex", "read_index")
    /\ mutex_sem > 0
    /\ mutex_sem' = mutex_sem - 1
    /\ UNCHANGED <<buffer_count_sem, spool_signal_sem, ringVars, locals>>

\* int j = buffer_produce_index
ReadIndex(p) ==
    /\ Goto(p, "read_index", "advance_index")
    /\ j' = [j EXCEPT ![p] = buffer_produce_index]
    /\ ticket' = [ticket EXCEPT ![p] = claimed]
    /\ UNCHANGED <<sems, ringVars, count>>

\* Fault: the wrap-around is missing.
NextIndexNoWrap(i) == i + 1

\* The index after slot i: ++, and back to 0 at MAX_BUFFERS.
NextIndex(i) == IF i + 1 = MAX_BUFFERS THEN 0 ELSE i + 1

\* buffer_produce_index++ and its wrap-around
AdvanceIndex(p) ==
    /\ Goto(p, "advance_index", "post_mutex")
    /\ buffer_produce_index' = NextIndex(buffer_produce_index)
    /\ claimed' = claimed + 1
    /\ UNCHANGED <<sems, buf, locals>>

\* sem_post(&mutex_sem)
UnlockIndex(p) ==
    /\ Goto(p, "post_mutex", "sprintf")
    /\ mutex_sem' = mutex_sem + 1
    /\ UNCHANGED <<buffer_count_sem, spool_signal_sem, ringVars, locals>>

\* The producers other than p that are inside sprintf(buf[s], ...).
OtherWriters(p, s) == {q \in Producers \ {p} : pc[q] = "sprintf_end" /\ j[q] = s}

\* sprintf(buf[j], ..., ++count) starts to write the slot, outside the mutex ...
BeginSprintf(p) ==
    /\ Goto(p, "sprintf", "sprintf_end")
    /\ count' = [count EXCEPT ![p] = @ + 1]
    /\ buf' = [buf EXCEPT ![j[p]] = IF OtherWriters(p, j[p]) = {} THEN Partial ELSE Torn]
    /\ UNCHANGED <<sems, buffer_produce_index, j, ticket, claimed>>

\* ... and ends.  Two overlapping calls on one slot are a data race: the bytes of
\* either string, or a mix of both, are left.
EndSprintf(p) ==
    /\ Goto(p, "sprintf_end", "post_signal")
    /\ \E c \in {<<p, count[p]>>} \cup (IF buf[j[p]] = Partial THEN {} ELSE {buf[j[p]], Torn}) :
          buf' = [buf EXCEPT ![j[p]] = c]
    /\ UNCHANGED <<sems, buffer_produce_index, locals, claimed>>

\* sem_post(&spool_signal_sem), then the loop test
PostSignal(p) ==
    /\ Goto(p, "post_signal", IF count[p] = STRINGS THEN "done" ELSE "wait_count")
    /\ spool_signal_sem' = spool_signal_sem + 1
    /\ UNCHANGED <<mutex_sem, buffer_count_sem, ringVars, locals>>

ProducerStep(p) ==
    \/ WaitBuffer(p) \/ LockIndex(p) \/ ReadIndex(p) \/ AdvanceIndex(p)
    \/ UnlockIndex(p) \/ BeginSprintf(p) \/ EndSprintf(p) \/ PostSignal(p)

------------------------------------------------------------------------------
(* spooler() *)

\* The spooler writes no slot and takes no mutex.
SpoolerGoto(from, to) ==
    /\ Running /\ spoolerPc = from
    /\ spoolerPc' = to
    /\ UNCHANGED <<mutex_sem, ringVars, pc, locals, mainPc, cancelRequested>>

\* sem_wait(&spool_signal_sem), which acts on a pending cancellation first
WaitSignal ==
    /\ SpoolerGoto("wait", "print")
    /\ ~cancelRequested
    /\ spool_signal_sem > 0
    /\ spool_signal_sem' = spool_signal_sem - 1
    /\ UNCHANGED <<buffer_count_sem, printVars>>

\* printf("%s", buf[buffer_print_index])
PrintString ==
    /\ SpoolerGoto("print", "pause")
    /\ lastPrinted' = buf[buffer_print_index]
    /\ printed' = printed + 1
    /\ UNCHANGED <<buffer_count_sem, spool_signal_sem, buffer_print_index>>

\* usleep(...)
Pause ==
    /\ SpoolerGoto("pause", "release")
    /\ ~cancelRequested
    /\ UNCHANGED <<buffer_count_sem, spool_signal_sem, printVars>>

\* Fault: the buffer is not given back.
ReleaseBufferNoPost ==
    /\ SpoolerGoto("release", "wait")
    /\ buffer_print_index' = NextIndex(buffer_print_index)
    /\ UNCHANGED <<buffer_count_sem, spool_signal_sem, printed, lastPrinted>>

\* Fault: the print index stays where it is.
ReleaseBufferStuck ==
    /\ SpoolerGoto("release", "wait")
    /\ buffer_count_sem' = buffer_count_sem + 1
    /\ UNCHANGED <<spool_signal_sem, printVars>>

\* Advance buffer_print_index and sem_post(&buffer_count_sem).  No cancellation
\* point here: after a cancel the post may reach a destroyed semaphore, where
\* sem_destroy of the C library leaves the counter in place.
ReleaseBuffer ==
    /\ SpoolerGoto("release", "wait")
    /\ buffer_print_index' = NextIndex(buffer_print_index)
    /\ buffer_count_sem' = buffer_count_sem + 1
    /\ UNCHANGED <<spool_signal_sem, printed, lastPrinted>>

\* The deferred cancellation takes effect in sem_wait, printf or usleep.
Cancelled ==
    /\ Running /\ cancelRequested
    /\ spoolerPc \in {"wait", "print", "pause"}
    /\ spoolerPc' = "cancelled"
    /\ UNCHANGED <<sems, ringVars, pc, locals, printVars, mainPc, cancelRequested>>

SpoolerStep == WaitSignal \/ PrintString \/ Pause \/ ReleaseBuffer \/ Cancelled

------------------------------------------------------------------------------
(* main() *)

\* main itself changes no semaphore and no slot.
MainGoto(from, to) ==
    /\ mainPc = from
    /\ mainPc' = to
    /\ UNCHANGED <<sems, ringVars, locals, printVars>>

CreateSpooler ==
    /\ MainGoto("create_spooler", "create")
    /\ spoolerPc' = "wait"
    /\ UNCHANGED <<pc, cancelRequested>>

\* pthread_create of one more producer; the last one leads to the joins
CreateProducer(p) ==
    /\ pc[p] = "new"
    /\ MainGoto("create", IF \E q \in Producers \ {p} : pc[q] = "new" THEN "create" ELSE "join")
    /\ pc' = [pc EXCEPT ![p] = "wait_count"]
    /\ UNCHANGED <<spoolerPc, cancelRequested>>

\* pthread_create fails (EAGAIN): exit(1), whatever the threads were doing
CreateFails ==
    /\ mainPc \in {"create_spooler", "create"}
    /\ mainPc' = "failed"
    /\ UNCHANGED <<sems, ringVars, pc, locals, printVars, spoolerPc, cancelRequested>>

\* pthread_join of every producer
JoinProducers ==
    /\ MainGoto("join", "poll")
    /\ \A p \in Producers : pc[p] = "done"
    /\ UNCHANGED <<pc, spoolerPc, cancelRequested>>

\* Fault: main does not wait for the semaphore to become 0.
PollIgnored ==
    /\ MainGoto("poll", "cancel")
    /\ UNCHANGED <<pc, spoolerPc, cancelRequested>>

\* sem_getvalue(&spool_signal_sem): leave the loop on 0, else sleep and look again
Poll ==
    /\ MainGoto("poll", "cancel")
    /\ spool_signal_sem = 0
    /\ UNCHANGED <<pc, spoolerPc, cancelRequested>>

\* pthread_cancel(tid_spooler)
CancelSpooler ==
    /\ MainGoto("cancel", "destroy")
    /\ cancelRequested' = TRUE
    /\ UNCHANGED <<pc, spoolerPc>>

\* The three sem_destroy calls; the spooler has not been joined
DestroySemaphores ==
    /\ MainGoto("destroy", "exit")
    /\ UNCHANGED <<pc, spoolerPc, cancelRequested>>

\* exit(0)
Exit ==
    /\ MainGoto("exit", "exited")
    /\ UNCHANGED <<pc, spoolerPc, cancelRequested>>

MainStep ==
    \/ CreateSpooler \/ \E p \in Producers : CreateProducer(p)
    \/ JoinProducers \/ Poll \/ CancelSpooler \/ DestroySemaphores \/ Exit

\* The process is gone: the only state with nothing left to do.
Terminated == ~Running /\ UNCHANGED vars

Next ==
    \/ \E p \in Producers : ProducerStep(p)
    \/ SpoolerStep
    \/ MainStep
    \/ CreateFails
    \/ Terminated

\* The kernel keeps scheduling every thread that can run.
Fairness ==
    /\ \A p \in Producers : WF_vars(ProducerStep(p))
    /\ WF_vars(SpoolerStep)
    /\ WF_vars(MainStep)

Spec == Init /\ [][Next]_vars
FairSpec == Spec /\ Fairness

------------------------------------------------------------------------------
(* Properties *)

\* Producers that took a buffer and have not signalled it yet.
Holding == {p \in Producers : pc[p] \notin {"new", "wait_count", "done"}}

\* Producers whose claim is complete but not signalled yet.
Claimers == {p \in Producers :
                pc[p] \in {"post_mutex", "sprintf", "sprintf_end", "post_signal"}}

\* Producers between sem_wait(&mutex_sem) and sem_post(&mutex_sem).
InCritical == {p \in Producers : pc[p] \in {"read_index", "advance_index", "post_mutex"}}

One(b) == IF b THEN 1 ELSE 0

\* Every variable keeps its type; in particular both indexes stay inside buf.
TypeOK ==
    /\ mutex_sem \in Nat
    /\ buffer_count_sem \in Nat
    /\ spool_signal_sem \in Nat
    /\ buffer_produce_index \in Slots
    /\ buffer_print_index \in Slots
    /\ buf \in [Slots -> Content]
    /\ pc \in [Producers -> ProducerPc]
    /\ j \in [Producers -> Slots]
    /\ count \in [Producers -> 0 .. STRINGS]
    /\ spoolerPc \in SpoolerPc
    /\ mainPc \in MainPc
    /\ cancelRequested \in BOOLEAN
    /\ claimed \in Nat
    /\ ticket \in [Producers -> Nat]
    /\ printed \in Nat
    /\ lastPrinted \in Content

\* The comment "protects buffer_produce_index": one producer at a time is between
\* the wait and the post of mutex_sem, and the semaphore is 0 exactly then.
IndexExclusive ==
    /\ \A p, q \in InCritical : p = q
    /\ mutex_sem = One(InCritical = {})

\* The two counting semaphores, the producers holding a buffer and the spooler at
\* work account for every slot of the ring: none is lost, none is used twice
\* (until a cancellation stops the spooler for good).
SlotBudget ==
    spoolerPc # "cancelled" =>
        buffer_count_sem + Cardinality(Holding) + spool_signal_sem
          + One(spoolerPc \in {"print", "pause", "release"}) = MAX_BUFFERS

\* No claim of a slot is lost or given twice, however the producers interleave:
\* the produce index counts the claims, and the claims in hand are distinct.
DistinctClaims ==
    /\ buffer_produce_index = claimed % MAX_BUFFERS
    /\ \A p \in Claimers : ticket[p] < claimed /\ j[p] = ticket[p] % MAX_BUFFERS
    /\ \A p, q \in Claimers : p # q => ticket[p] # ticket[q]

\* Two producers can be at work on one slot (the mutex does not cover sprintf) only
\* when the spooler has printed that slot before its first owner finished it.
SharedSlotWasPrintedEarly ==
    \A p, q \in Claimers :
        (ticket[p] < ticket[q] /\ j[p] = j[q]) => ticket[p] < printed

\* When main gives up on the spooler no producer will touch a semaphore again, so none is
\* destroyed under it, and the spooler has called printf once for every claim, but for the
\* one that it has in hand or that the cancellation took from it.  These are calls: one made
\* before its string was ready leaves one string more unprinted (see PrintsReadyString).
OrderlyShutdown ==
    mainPc \in {"cancel", "destroy", "exit", "exited"} =>
        /\ \A p \in Producers : pc[p] = "done"
        /\ printed \in {claimed - 1, claimed}
        /\ printed # claimed => spoolerPc \in {"print", "cancelled"}

\* The next call of a producer, of the spooler or of main returns at once.
ProducerCanGo(p) ==
    \/ pc[p] \notin {"new", "wait_count", "wait_mutex", "done"}
    \/ pc[p] = "wait_count" /\ buffer_count_sem > 0
    \/ pc[p] = "wait_mutex" /\ mutex_sem > 0
SpoolerCanGo ==
    \/ spoolerPc \in {"print", "pause", "release"}
    \/ spoolerPc = "wait" /\ (spool_signal_sem > 0 \/ cancelRequested)
MainCanGo ==
    \/ mainPc \in {"create_spooler", "cancel", "destroy", "exit"}
    \/ mainPc = "create" /\ \E p \in Producers : pc[p] = "new"
    \/ mainPc = "join" /\ \A p \in Producers : pc[p] = "done"
    \/ mainPc = "poll" /\ spool_signal_sem = 0

\* Three groups of threads wait for each other's semaphores, the joins and the poll, and
\* never all at once: until the process ends somebody can go on.
NoDeadlock == Running => SpoolerCanGo \/ MainCanGo \/ \E p \in Producers : ProducerCanGo(p)

\* The program ends, whatever the order in which the threads run.
Termination == <>(mainPc \in {"exited", "failed"})

\* "number of strings ready to be printed": every string the spooler prints is one
\* a producer finished.
PrintsReadyString == printed > 0 => lastPrinted \in String

==============================================================================
