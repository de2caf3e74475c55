---------------------------- MODULE SharedCounter ----------------------------
(***************************************************************************)
(* The two counters of clase6/ejemplo-mutex.  Threads increment data.a and *)
(* data.b for ever and main copies both and prints them: main_ok.c under a *)
(* mutex, main_incorrecto.c (and ejemplo_en_clase/Concurrencia.c, the same *)
(* but for the name of the type) without.  An increment is a load and a    *)
(* store, between which other threads may run.                             *)
(***************************************************************************)
EXTENDS Integers, FiniteSets

CONSTANTS
    Workers,    \* the threads t1, t2
    Main,
    None,       \* nobody
    MaxLoops    \* bound: rounds of each worker

ASSUME ThreadsAssumption ==
    IsFiniteSet(Workers) /\ Main \notin Workers /\ None \notin Workers \cup {Main}

VARIABLES
    program,    \* the program that runs
    a, b,       \* data
    mutex,      \* who holds the mutex
    pc,
    reg,        \* what a worker loaded, or the local a of main
    reg_b,      \* the local b of main
    loops,      \* rounds of each worker
    count,      \* history: increments made (main_ok) or begun (main_incorrecto)
    seen        \* history: the last pair that main got

vars == <<program, a, b, mutex, pc, reg, reg_b, loops, count, seen>>

Threads == Workers \cup {Main}
Protected == program = "main_ok"

Init ==
    /\ program \in {"main_ok", "main_incorrecto"}
    /\ a = 0 /\ b = 0 /\ mutex = None
    /\ pc = [t \in Threads |-> "sleep"]
    /\ reg = [t \in Threads |-> 0] /\ reg_b = 0
    /\ loops = [t \in Workers |-> 0] /\ count = 0 /\ seen = <<0, 0>>

Goto(t, from, to) ==
    /\ pc[t] = from
    /\ pc' = [pc EXCEPT ![t] = to]
    /\ UNCHANGED program

\* usleep or sleep returns
Wake(t) ==
    /\ Goto(t, "sleep", IF Protected THEN "lock" ELSE "load_a")
    /\ \/ t = Main /\ UNCHANGED loops
       \/ t # Main /\ loops[t] < MaxLoops /\ loops' = [loops EXCEPT ![t] = @ + 1]
    /\ UNCHANGED <<a, b, mutex, reg, reg_b, count, seen>>

\* Fault: trylock, and on regardless of what it returns.
LockAnyway(t) ==
    /\ Goto(t, "lock", "load_a")
    /\ mutex' = IF mutex = None THEN t ELSE mutex
    /\ UNCHANGED <<a, b, reg, reg_b, loops, count, seen>>

\* pthread_mutex_lock
Lock(t) ==
    /\ Goto(t, "lock", "load_a")
    /\ mutex = None /\ mutex' = t
    /\ UNCHANGED <<a, b, reg, reg_b, loops, count, seen>>

\* The load of data.a++, or main's copy of data.a
LoadA(t) ==
    /\ Goto(t, "load_a", IF t = Main THEN "load_b" ELSE "store_a")
    /\ reg' = [reg EXCEPT ![t] = a]
    /\ count' = IF t # Main /\ ~Protected THEN count + 1 ELSE count
    /\ UNCHANGED <<a, b, mutex, reg_b, loops, seen>>

StoreA(t) ==
    /\ Goto(t, "store_a", "load_b")
    /\ a' = reg[t] + 1
    /\ UNCHANGED <<b, mutex, reg, reg_b, loops, count, seen>>

\* The load of data.b++
LoadB(t) ==
    /\ t # Main /\ Goto(t, "load_b", "store_b")
    /\ reg' = [reg EXCEPT ![t] = b]
    /\ UNCHANGED <<a, b, mutex, reg_b, loops, count, seen>>

StoreB(t) ==
    /\ Goto(t, "store_b", IF Protected THEN "unlock" ELSE "sleep")
    /\ b' = reg[t] + 1
    /\ UNCHANGED <<a, mutex, reg, reg_b, loops, count, seen>>

\* main's copy of data.b, which it prints with the other
CopyB ==
    /\ Goto(Main, "load_b", IF Protected THEN "unlock" ELSE "sleep")
    /\ reg_b' = b
    /\ seen' = IF Protected THEN seen ELSE <<reg[Main], b>>
    /\ UNCHANGED <<a, b, mutex, reg, loops, count>>

\* pthread_mutex_unlock
Unlock(t) ==
    /\ Goto(t, "unlock", "sleep")
    /\ mutex' = None
    /\ count' = IF t = Main THEN count ELSE count + 1
    /\ seen' = IF t = Main THEN <<reg[Main], reg_b>> ELSE seen
    /\ UNCHANGED <<a, b, reg, reg_b, loops>>

Next ==
    \/ CopyB
    \/ \E t \in Threads :
          \/ Wake(t) \/ Lock(t) \/ Unlock(t)
          \/ LoadA(t) \/ StoreA(t) \/ LoadB(t) \/ StoreB(t)

Spec == Init /\ [][Next]_vars

------------------------------------------------------------------------------
(* Properties *)

\* Every variable keeps its type.
TypeOK ==
    /\ program \in {"main_ok", "main_incorrecto"}
    /\ a \in Nat /\ b \in Nat /\ count \in Nat /\ reg_b \in Nat
    /\ mutex \in Threads \cup {None}
    /\ pc \in [Threads -> {"sleep", "lock", "load_a", "store_a", "load_b", "store_b", "unlock"}]
    /\ reg \in [Threads -> Nat] /\ loops \in [Workers -> Nat]
    /\ seen \in Nat \X Nat

\* main_ok.c is an atomic pair of counters: no increment is lost and main never sees one
\* counter ahead of the other.  main_incorrecto.c never counts what nobody began.
Pair == INSTANCE AtomicPair WITH exact <- Protected
ImplementsAtomicPair == Pair!Spec

==============================================================================
