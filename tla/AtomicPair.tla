------------------------------ MODULE AtomicPair ------------------------------
(* What the two programs of clase6/ejemplo-mutex promise of the pair of counters that    *)
(* their threads increment and main prints.  With the mutex (exact), a pair is printed   *)
(* that is the number of increments made so far, twice.  Without it, the two numbers     *)
(* are only known not to be greater than the number of increments begun.                 *)
EXTENDS Integers

VARIABLES
    exact,  \* the program with the mutex
    count,  \* increments of both counters
    seen    \* the pair that main saw last

vars == <<exact, count, seen>>

Init == exact \in BOOLEAN /\ count = 0 /\ seen = <<0, 0>>

Increment == count' = count + 1 /\ UNCHANGED <<exact, seen>>

Look ==
    /\ seen' \in IF exact THEN {<<count, count>>} ELSE (0 .. count) \X (0 .. count)
    /\ UNCHANGED <<exact, count>>

Next == Increment \/ Look

Spec == Init /\ [][Next]_vars
==============================================================================
