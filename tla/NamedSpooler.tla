----------------------------- MODULE NamedSpooler -----------------------------
(***************************************************************************)
(* The producer / spooler program with NAMED semaphores,                   *)
(* clase7/ejemplo-sem2/named.c.  Its threads are those of Spooler; its     *)
(* semaphores belong to the system and outlive the process.  A run opens   *)
(* them with sem_open(name, O_CREAT, 0660, value), which ignores value if  *)
(* the name exists, and unlinks them before it exits.                      *)
(*                                                                         *)
(* The process may be killed at any point.  What it leaves to the next run *)
(* is the value of each semaphore whose name is still there; the ring, the *)
(* indexes and the threads are gone.  Runs follow one another.             *)
(***************************************************************************)
EXTENDS Spooler

CONSTANT MaxRuns    \* bound: times the program is started

ASSUME MaxRunsAssumption == MaxRuns \in Nat \ {0}

VARIABLES
    named,      \* the semaphores whose name exists
    opened,     \* how many semaphores this run has opened
    runs        \* times the program was started

namedVars == <<named, opened, runs>>
allVars == <<vars, namedVars>>

\* The order of the sem_open calls, and of the sem_unlink calls.
mutex == 1
buffer_count == 2
spool_signal == 3
Names == {mutex, buffer_count, spool_signal}

NamedInit == Init /\ named = {} /\ opened = 0 /\ runs = 1

\* What the process itself keeps starts again; the semaphores are left alone.
Restart ==
    /\ ~Running /\ runs < MaxRuns
    /\ runs' = runs + 1 /\ opened' = 0
    /\ mainPc' = "create_spooler" /\ spoolerPc' = "new" /\ cancelRequested' = FALSE
    /\ pc' = [p \in Producers |-> "new"]
    /\ j' = [p \in Producers |-> 0] /\ count' = [p \in Producers |-> 0]
    /\ ticket' = [p \in Producers |-> 0]
    /\ buf' = [s \in Slots |-> Empty]
    /\ buffer_produce_index' = 0 /\ buffer_print_index' = 0
    /\ claimed' = 0 /\ printed' = 0 /\ lastPrinted' = Empty
    /\ UNCHANGED <<sems, named>>

\* The value a semaphore has after sem_open.
ValueOf(n, old, initial) == IF opened + 1 = n /\ n \notin named THEN initial ELSE old

\* Fault: the buffers are counted from the start again, the signals are not.
OpenSemaphoreReset ==
    /\ Running /\ opened < 3
    /\ opened' = opened + 1
    /\ named' = named \cup {opened + 1}
    /\ mutex_sem' = ValueOf(mutex, mutex_sem, 1)
    /\ buffer_count_sem' = IF opened + 1 = buffer_count THEN MAX_BUFFERS ELSE buffer_count_sem
    /\ spool_signal_sem' = ValueOf(spool_signal, spool_signal_sem, 0)
    /\ UNCHANGED <<ringVars, pc, locals, printVars, spoolerPc, mainPc, cancelRequested, runs>>

\* sem_open of the next semaphore
OpenSemaphore ==
    /\ Running /\ opened < 3
    /\ opened' = opened + 1
    /\ named' = named \cup {opened + 1}
    /\ mutex_sem' = ValueOf(mutex, mutex_sem, 1)
    /\ buffer_count_sem' = ValueOf(buffer_count, buffer_count_sem, MAX_BUFFERS)
    /\ spool_signal_sem' = ValueOf(spool_signal, spool_signal_sem, 0)
    /\ UNCHANGED <<ringVars, pc, locals, printVars, spoolerPc, mainPc, cancelRequested, runs>>

\* Fault: main waits for every buffer to be back.
UnlinkWhenFull ==
    /\ mainPc = "destroy" /\ buffer_count_sem = MAX_BUFFERS
    /\ \E n \in named :
          /\ \A k \in named : n <= k
          /\ named' = named \ {n}
    /\ mainPc' = IF named' = {} THEN "exit" ELSE "destroy"
    /\ UNCHANGED <<sems, ringVars, pc, locals, printVars, spoolerPc, cancelRequested, opened,
                   runs>>

\* sem_unlink of the next semaphore, after which main exits
Unlink ==
    /\ mainPc = "destroy"
    /\ \E n \in named :
          /\ \A k \in named : n <= k
          /\ named' = named \ {n}
    /\ mainPc' = IF named' = {} THEN "exit" ELSE "destroy"
    /\ UNCHANGED <<sems, ringVars, pc, locals, printVars, spoolerPc, cancelRequested, opened,
                   runs>>

\* The process is killed, or a call fails: exit(1).
Kill ==
    /\ Running
    /\ mainPc' = "failed"
    /\ UNCHANGED <<sems, ringVars, pc, locals, printVars, spoolerPc, cancelRequested, namedVars>>

\* The steps of main that named.c has in common with unnamed.c.
NamedMain ==
    \/ CreateSpooler \/ \E p \in Producers : CreateProducer(p)
    \/ JoinProducers \/ Poll \/ CancelSpooler \/ Exit

\* A step of Spooler, once the semaphores are open.
Threads(A) == opened = 3 /\ A /\ UNCHANGED namedVars

MainProgress == OpenSemaphore \/ Unlink \/ Threads(NamedMain)

NamedNext ==
    \/ \E p \in Producers : Threads(ProducerStep(p))
    \/ Threads(SpoolerStep)
    \/ MainProgress
    \/ Kill
    \/ Restart

\* As in Spooler; nobody owes a restart or a kill.
NamedFairness ==
    /\ \A p \in Producers : WF_allVars(Threads(ProducerStep(p)))
    /\ WF_allVars(Threads(SpoolerStep))
    /\ WF_allVars(MainProgress)

NamedSpec == NamedInit /\ [][NamedNext]_allVars
NamedFairSpec == NamedSpec /\ NamedFairness

------------------------------------------------------------------------------
(* Properties *)

\* Every variable keeps its type.
NamedTypeOK ==
    /\ TypeOK
    /\ named \subseteq Names
    /\ opened \in 0 .. 3
    /\ runs \in 1 .. MaxRuns

\* A run that is killed, at any point and also between two sem_open or two sem_unlink
\* calls, can lose buffers and the mutex for the next run, but never adds to them: the
\* ring is not overrun and the index keeps one user in every later run.
CrashNeverAdds ==
    opened = 3 =>
        /\ mutex_sem + Cardinality(InCritical) <= 1
        /\ spoolerPc # "cancelled" =>
              buffer_count_sem + Cardinality(Holding) + spool_signal_sem
                + One(spoolerPc \in {"print", "pause", "release"}) <= MAX_BUFFERS

\* A run started after a crash still ends, if what was left to it is a free mutex and
\* at least one buffer, counted as free or as signalled.
EndsWithWhatIsLeft ==
    (/\ opened = 3 /\ mainPc = "create_spooler"
     /\ mutex_sem = 1 /\ buffer_count_sem + spool_signal_sem > 0)
        ~> ~Running

==============================================================================
