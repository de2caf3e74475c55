------------------------- MODULE SharedCounterProofs -------------------------
(***************************************************************************)
(* For any number of workers and of rounds, the program with the mutex is  *)
(* an atomic pair of counters, and the one without counts no more than was *)
(* begun.  The first rests on who may be where while somebody holds the    *)
(* mutex; the second on the increments that are still to be stored.        *)
(***************************************************************************)
EXTENDS SharedCounter, FiniteSetTheorems, TLAPS

\* Every step expands the names that only abbreviate.
USE DEF Goto, Protected, Threads

\* Where a thread of the program with the mutex is while it holds it.
Critical == {"load_a", "store_a", "load_b", "store_b", "unlock"}

\* The holder is the thread in the critical section; main stores nothing.
Held ==
    /\ Protected => \A t \in Threads : pc[t] \in Critical <=> mutex = t
    /\ ~Protected => \A t \in Threads : pc[t] \notin {"lock", "unlock"}
    /\ pc[Main] \notin {"store_a", "store_b"}

\* How far the holder of the mutex has come with its increment.
Exact ==
    /\ mutex \notin Workers => a = count /\ b = count
    /\ \A w \in Workers :
          /\ pc[w] \in {"load_a", "store_a"} => a = count /\ b = count
          /\ pc[w] \in {"load_b", "store_b"} => a = count + 1 /\ b = count
          /\ pc[w] \in {"store_a", "store_b"} => reg[w] = count
          /\ pc[w] = "unlock" => a = count + 1 /\ b = count + 1
    /\ pc[Main] \in {"load_b", "unlock"} => reg[Main] = count
    /\ pc[Main] = "unlock" => reg_b = count

\* The increments begun whose store of b is still to come.
InFlight == {w \in Workers : pc[w] \in {"store_a", "load_b", "store_b"}}

\* Neither a counter nor a value that is still to be stored counts an increment that
\* nobody began.  b and a value read from it do not count those in flight either.
Bounded ==
    /\ a <= count /\ b + Cardinality(InFlight) <= count
    /\ \A w \in Workers :
          /\ pc[w] = "store_a" => reg[w] + 1 <= count
          /\ pc[w] = "store_b" => reg[w] + Cardinality(InFlight) <= count
    /\ pc[Main] = "load_b" => reg[Main] <= count

CounterInv == TypeOK /\ Held /\ (Protected => Exact) /\ (~Protected => Bounded)

------------------------------------------------------------------------------
(* The invariant *)

\* The invariant holds at the start of either program.
LEMMA CounterInit == Init => CounterInv
<1> SUFFICES ASSUME Init PROVE CounterInv
    OBVIOUS
<1>1. TypeOK /\ Held
    BY ThreadsAssumption DEF Init, TypeOK, Held, Critical
<1>2. Exact
    BY ThreadsAssumption DEF Init, Exact
<1>3. Bounded
    <2>1. InFlight = {}
        BY DEF Init, InFlight
    <2>2. Cardinality(InFlight) = 0
        BY <2>1, FS_EmptySet
    <2> QED
        BY <2>2 DEF Init, Bounded
<1> QED
    BY <1>1, <1>2, <1>3 DEF CounterInv

\* Types, whatever else holds.
LEMMA CounterTypeStep == TypeOK /\ [Next]_vars => TypeOK'
<1> SUFFICES ASSUME TypeOK, [Next]_vars PROVE TypeOK'
    OBVIOUS
<1> USE DEF TypeOK
<1>1. ASSUME NEW t \in Threads, Wake(t) PROVE TypeOK'
    BY <1>1 DEF Wake
<1>2. ASSUME NEW t \in Threads, Lock(t) PROVE TypeOK'
    BY <1>2 DEF Lock
<1>3. ASSUME NEW t \in Threads, Unlock(t) PROVE TypeOK'
    BY <1>3 DEF Unlock
<1>4. ASSUME NEW t \in Threads, LoadA(t) PROVE TypeOK'
    BY <1>4 DEF LoadA
<1>5. ASSUME NEW t \in Threads, StoreA(t) PROVE TypeOK'
    BY <1>5 DEF StoreA
<1>6. ASSUME NEW t \in Threads, LoadB(t) PROVE TypeOK'
    BY <1>6 DEF LoadB
<1>7. ASSUME NEW t \in Threads, StoreB(t) PROVE TypeOK'
    BY <1>7 DEF StoreB
<1>8. CASE CopyB
    BY <1>8 DEF CopyB
<1>9. CASE UNCHANGED vars
    BY <1>9 DEF vars
<1> QED
    BY <1>1, <1>2, <1>3, <1>4, <1>5, <1>6, <1>7, <1>8, <1>9 DEF Next

\* Only Lock and Unlock change the holder, and only they cross the border of Critical.
LEMMA HeldStep == TypeOK /\ Held /\ [Next]_vars => Held'
<1> SUFFICES ASSUME TypeOK, Held, [Next]_vars PROVE Held'
    OBVIOUS
<1> USE ThreadsAssumption DEF TypeOK, Held, Critical
<1>1. ASSUME NEW t \in Threads, Wake(t) PROVE Held'
    BY <1>1 DEF Wake
<1>2. ASSUME NEW t \in Threads, Lock(t) PROVE Held'
    BY <1>2 DEF Lock
<1>3. ASSUME NEW t \in Threads, Unlock(t) PROVE Held'
    BY <1>3 DEF Unlock
<1>4. ASSUME NEW t \in Threads, LoadA(t) PROVE Held'
    BY <1>4 DEF LoadA
<1>5. ASSUME NEW t \in Threads, StoreA(t) PROVE Held'
    BY <1>5 DEF StoreA
<1>6. ASSUME NEW t \in Threads, LoadB(t) PROVE Held'
    BY <1>6 DEF LoadB
<1>7. ASSUME NEW t \in Threads, StoreB(t) PROVE Held'
    BY <1>7 DEF StoreB
<1>8. CASE CopyB
    BY <1>8 DEF CopyB
<1>9. CASE UNCHANGED vars
    BY <1>9 DEF vars
<1> QED
    BY <1>1, <1>2, <1>3, <1>4, <1>5, <1>6, <1>7, <1>8, <1>9 DEF Next

\* While one thread holds the mutex the others are outside, so the counters move only with it.
LEMMA ExactStep == TypeOK /\ Held /\ Protected /\ Exact /\ [Next]_vars => Exact'
<1> SUFFICES ASSUME TypeOK, Held, Protected, Exact, [Next]_vars PROVE Exact'
    OBVIOUS
<1> USE ThreadsAssumption DEF TypeOK, Held, Critical, Exact
<1>1. ASSUME NEW t \in Threads, Wake(t) PROVE Exact'
    BY <1>1 DEF Wake
<1>2. ASSUME NEW t \in Threads, Lock(t) PROVE Exact'
    BY <1>2 DEF Lock
<1>3. ASSUME NEW t \in Threads, Unlock(t) PROVE Exact'
    BY <1>3 DEF Unlock
<1>4. ASSUME NEW t \in Threads, LoadA(t) PROVE Exact'
    BY <1>4 DEF LoadA
<1>5. ASSUME NEW t \in Threads, StoreA(t) PROVE Exact'
    BY <1>5 DEF StoreA
<1>6. ASSUME NEW t \in Threads, LoadB(t) PROVE Exact'
    BY <1>6 DEF LoadB
<1>7. ASSUME NEW t \in Threads, StoreB(t) PROVE Exact'
    BY <1>7 DEF StoreB
<1>8. CASE CopyB
    BY <1>8 DEF CopyB
<1>9. CASE UNCHANGED vars
    BY <1>9 DEF vars
<1> QED
    BY <1>1, <1>2, <1>3, <1>4, <1>5, <1>6, <1>7, <1>8, <1>9 DEF Next

\* The increments in flight can be counted.
LEMMA InFlightFinite == IsFiniteSet(InFlight) /\ Cardinality(InFlight) \in Nat
<1>1. InFlight \in SUBSET Workers
    BY DEF InFlight
<1> QED
    BY <1>1, ThreadsAssumption, FS_Subset, FS_CardinalityType

\* An increment joins those in flight when it is begun and leaves them when b is stored.
LEMMA BoundedStep == TypeOK /\ Held /\ ~Protected /\ Bounded /\ [Next]_vars => Bounded'
<1> SUFFICES ASSUME TypeOK, Held, ~Protected, Bounded, [Next]_vars PROVE Bounded'
    OBVIOUS
<1> USE ThreadsAssumption, InFlightFinite DEF TypeOK, Held, Bounded
<1>1. ASSUME NEW t \in Threads, Wake(t) PROVE Bounded'
    <2>1. InFlight' = InFlight
        BY <1>1 DEF Wake, InFlight
    <2> QED
        BY <1>1, <2>1 DEF Wake
<1>2. ASSUME NEW t \in Threads, Lock(t) \/ Unlock(t) PROVE Bounded'
    BY <1>2 DEF Lock, Unlock
<1>3. ASSUME NEW t \in Workers, LoadA(t) PROVE Bounded'
    <2>1. t \notin InFlight /\ InFlight' = InFlight \cup {t}
        BY <1>3 DEF LoadA, InFlight
    <2>2. Cardinality(InFlight') = Cardinality(InFlight) + 1
        BY <2>1, FS_AddElement
    <2> QED
        BY <1>3, <2>2 DEF LoadA
<1>4. CASE LoadA(Main)
    <2>1. InFlight' = InFlight
        BY <1>4 DEF LoadA, InFlight
    <2> QED
        BY <1>4, <2>1 DEF LoadA
<1>5. ASSUME NEW t \in Threads, StoreA(t) PROVE Bounded'
    <2>1. InFlight' = InFlight
        BY <1>5 DEF StoreA, InFlight
    <2> QED
        BY <1>5, <2>1 DEF StoreA
<1>6. ASSUME NEW t \in Threads, LoadB(t) PROVE Bounded'
    <2>1. InFlight' = InFlight
        BY <1>6 DEF LoadB, InFlight
    <2> QED
        BY <1>6, <2>1 DEF LoadB
<1>7. ASSUME NEW t \in Threads, StoreB(t) PROVE Bounded'
    <2>1. t \in InFlight /\ InFlight' = InFlight \ {t}
        BY <1>7 DEF StoreB, InFlight
    <2>2. Cardinality(InFlight') = Cardinality(InFlight) - 1
        BY <2>1, FS_RemoveElement
    <2>3. /\ b' = reg[t] + 1 /\ UNCHANGED <<a, reg, count>> /\ pc[t] = "store_b"
          /\ \A w \in Threads : pc'[w] \in {pc[w], "unlock", "sleep"}
        BY <1>7 DEF StoreB
    <2>4. b' + Cardinality(InFlight') <= count'
        BY <2>2, <2>3
    <2>5. ASSUME NEW w \in Workers, pc'[w] = "store_b"
          PROVE  reg'[w] + Cardinality(InFlight') <= count'
        BY <2>2, <2>3, <2>5
    <2> QED
        BY <2>3, <2>4, <2>5
<1>8. CASE CopyB
    <2>1. InFlight' = InFlight
        BY <1>8 DEF CopyB, InFlight
    <2> QED
        BY <1>8, <2>1 DEF CopyB
<1>9. CASE UNCHANGED vars
    BY <1>9 DEF vars, InFlight
<1> QED
    BY <1>1, <1>2, <1>3, <1>4, <1>5, <1>6, <1>7, <1>8, <1>9 DEF Next

\* Every step keeps the invariant; no step changes the program.
LEMMA CounterStep == CounterInv /\ [Next]_vars => CounterInv'
<1> SUFFICES ASSUME CounterInv, [Next]_vars PROVE CounterInv'
    OBVIOUS
<1>1. UNCHANGED program
    BY DEF Next, CopyB, Wake, Lock, Unlock, LoadA, StoreA, LoadB, StoreB, vars
<1> QED
    BY <1>1, CounterTypeStep, HeldStep, ExactStep, BoundedStep DEF CounterInv

\* The invariant holds for ever.
LEMMA CounterAlways == Spec => []CounterInv
<1>1. Init => CounterInv
    BY CounterInit
<1>2. CounterInv /\ [Next]_vars => CounterInv'
    BY CounterStep
<1> QED
    BY <1>1, <1>2, PTL DEF Spec

------------------------------------------------------------------------------
(* Theorems *)

\* For any number of threads every variable keeps its type.
THEOREM CounterTypeCorrect == Spec => []TypeOK
<1>1. CounterInv => TypeOK
    BY DEF CounterInv
<1> QED
    BY <1>1, CounterAlways, PTL

\* A step of the program is an increment of the pair, a look at it, or neither.
LEMMA PairStep == CounterInv /\ [Next]_vars => [Pair!Next]_(Pair!vars)
<1> SUFFICES ASSUME CounterInv, [Next]_vars PROVE [Pair!Next]_(Pair!vars)
    OBVIOUS
<1> USE DEF Pair!Next, Pair!vars
<1>1. ASSUME NEW t \in Threads, Wake(t) \/ Lock(t) \/ StoreA(t) \/ LoadB(t) \/ StoreB(t)
      PROVE  UNCHANGED Pair!vars
    BY <1>1 DEF Wake, Lock, StoreA, LoadB, StoreB
<1>2. ASSUME NEW t \in Threads, LoadA(t) PROVE [Pair!Next]_(Pair!vars)
    BY <1>2 DEF LoadA, Pair!Increment
<1>3. ASSUME NEW t \in Workers, Unlock(t) PROVE Pair!Increment
    BY <1>3, ThreadsAssumption DEF Unlock, Pair!Increment
<1>4. CASE Unlock(Main)
    <2>1. Protected /\ reg[Main] = count /\ reg_b = count
        BY <1>4 DEF CounterInv, Held, Exact, Unlock
    <2> QED
        BY <1>4, <2>1 DEF Unlock, Pair!Look
<1>5. CASE CopyB /\ Protected
    BY <1>5 DEF CopyB
<1>6. CASE CopyB /\ ~Protected
    <2>1. reg[Main] \in 0 .. count
        BY <1>6 DEF CounterInv, TypeOK, Bounded, CopyB
    <2>2. b \in 0 .. count
        BY <1>6, InFlightFinite DEF CounterInv, TypeOK, Bounded
    <2> QED
        BY <1>6, <2>1, <2>2 DEF CopyB, Pair!Look
<1>7. CASE UNCHANGED vars
    BY <1>7 DEF vars
<1> QED
    BY <1>1, <1>2, <1>3, <1>4, <1>5, <1>6, <1>7 DEF Next

\* With the mutex, main always sees the number of increments, twice; without it, neither
\* number is ever more than the increments begun.
THEOREM CounterIsPair == Spec => ImplementsAtomicPair
<1>1. Init => Pair!Init
    BY DEF Init, Pair!Init
<1>2. CounterInv /\ [Next]_vars => [Pair!Next]_(Pair!vars)
    BY PairStep
<1> QED
    BY <1>1, <1>2, CounterAlways, PTL DEF Spec, ImplementsAtomicPair, Pair!Spec

==============================================================================
