---------------------------- MODULE SpoolerProofs ----------------------------
(***************************************************************************)
(* Proofs about Spooler, for every set of producers, every ring size and   *)
(* every number of strings; about SpoolerFifo, that with one producer the  *)
(* ring is a BoundedFifo; and about NamedSpooler, for any number of runs.  *)
(*                                                                         *)
(* The invariants TLC checks are not inductive alone: the proofs           *)
(* strengthen them with the range of count at each pc (CountInv), what     *)
(* main's progress says of the threads (StageInv), the account of the      *)
(* claims (ClaimAccount) and what a producer knows between the two halves  *)
(* of its claim (ReadInv).  The threads of NamedSpooler are those of       *)
(* Spooler; its equalities become bounds (Within), because a run may start *)
(* with less than it should, and what ties one run to the next is what it  *)
(* would inherit if the process died now (Legacy).                         *)
(***************************************************************************)
EXTENDS NamedSpooler, SpoolerFifo, FiniteSetTheorems, SequenceTheorems, TLAPS

------------------------------------------------------------------------------
(* Ring arithmetic: how a ring index moves when the count behind it moves by one, and *)
(* how far apart two counts with the same index are. *)

\* A remainder is an index of the ring.
LEMMA ModRange ==
    ASSUME NEW N \in Nat \ {0}, NEW a \in Nat
    PROVE  (a % N) \in 0 .. (N - 1)
    OBVIOUS

\* Euclidean division.
LEMMA DivMod ==
    ASSUME NEW N \in Nat \ {0}, NEW a \in Nat
    PROVE  (a \div N) \in Int /\ a = N * (a \div N) + (a % N)
    OBVIOUS

\* Zero leaves no remainder.
LEMMA ZeroMod ==
    ASSUME NEW N \in Nat \ {0}
    PROVE  (0 % N) = 0
    OBVIOUS

\* A positive multiple of N is at least N.
LEMMA MultipleBound ==
    ASSUME NEW N \in Nat \ {0}, NEW k \in Int, k >= 1
    PROVE  N * k >= N
    OBVIOUS

\* Multiples of a difference.
LEMMA Distribute ==
    ASSUME NEW N \in Nat \ {0}, NEW k \in Int, NEW l \in Int
    PROVE  N * (k - l) = (N * k) - (N * l)
    OBVIOUS

\* Quotient and remainder are unique.
LEMMA DivModUnique ==
    ASSUME NEW N \in Nat \ {0},
           NEW q \in Int, NEW r \in 0 .. (N - 1),
           NEW s \in Int, NEW t \in 0 .. (N - 1),
           N * q + r = N * s + t
    PROVE  q = s /\ r = t
<1>1. N * (q - s) = t - r /\ N * (s - q) = r - t
    BY Distribute
<1>2. ~ (q - s >= 1)
    BY <1>1, MultipleBound
<1>3. ~ (s - q >= 1)
    BY <1>1, MultipleBound
<1>4. q = s
    BY <1>2, <1>3
<1> QED
    BY <1>4

\* A remainder is recognised by any decomposition.
LEMMA ModIs ==
    ASSUME NEW N \in Nat \ {0}, NEW a \in Nat,
           NEW q \in Int, NEW r \in 0 .. (N - 1), a = N * q + r
    PROVE  (a % N) = r
<1> DEFINE s == a \div N
           t == a % N
<1>1. s \in Int /\ t \in 0 .. (N - 1) /\ N * q + r = N * s + t
    BY DivMod, ModRange
<1>2. t = r
    <2> HIDE DEF s, t
    <2> QED
        BY <1>1, DivModUnique
<1> QED
    BY <1>2

\* The successor of a count has the successor of its index, 0 after the last slot.
LEMMA ModSuccessor ==
    ASSUME NEW N \in Nat \ {0}, NEW a \in Nat
    PROVE  ((a + 1) % N) = IF (a % N) + 1 = N THEN 0 ELSE (a % N) + 1
<1> DEFINE q == a \div N
           r == a % N
<1>1. q \in Int /\ r \in 0 .. (N - 1) /\ a = N * q + r
    BY DivMod, ModRange
<1>2. CASE r + 1 = N
    <2>1. a + 1 = N * (q + 1) + 0 /\ q + 1 \in Int /\ 0 \in 0 .. (N - 1)
        <3> HIDE DEF q, r
        <3> QED
            BY <1>1, <1>2, Distribute
    <2>2. ((a + 1) % N) = 0
        BY <2>1, ModIs, a + 1 \in Nat
    <2> QED
        BY <2>2, <1>2
<1>3. CASE r + 1 # N
    <2>1. a + 1 = N * q + (r + 1) /\ r + 1 \in 0 .. (N - 1)
        <3> HIDE DEF q, r
        <3> QED
            BY <1>1, <1>3
    <2>2. ((a + 1) % N) = r + 1
        <3> HIDE DEF q, r
        <3> QED
            BY <1>1, <2>1, ModIs, a + 1 \in Nat
    <2> QED
        BY <2>2, <1>3
<1> QED
    BY <1>2, <1>3

\* Two different counts with the same index are at least one lap apart.
LEMMA ModApart ==
    ASSUME NEW N \in Nat \ {0}, NEW a \in Nat, NEW b \in Nat,
           a < b, (a % N) = (b % N)
    PROVE  b >= a + N
<1>1. N * ((b \div N) - (a \div N)) = b - a
    BY DivMod, Distribute
<1>2. (b \div N) - (a \div N) >= 1
    <2>1. CASE (a \div N) - (b \div N) >= 1
        <3>1. N * ((a \div N) - (b \div N)) = a - b
            BY DivMod, Distribute
        <3>2. N * ((a \div N) - (b \div N)) >= N
            BY <2>1, MultipleBound, DivMod
        <3> QED
            BY <3>1, <3>2
    <2>2. CASE (a \div N) = (b \div N)
        BY <2>2, DivMod
    <2> QED
        BY <2>1, <2>2, DivMod
<1>3. N * ((b \div N) - (a \div N)) >= N
    BY <1>2, MultipleBound, DivMod
<1> QED
    BY <1>1, <1>3

------------------------------------------------------------------------------
(* Spooler *)

\* Every step expands the groups of variables and the common guards.
USE DEF sems, ringVars, locals, printVars, Goto, SpoolerGoto, MainGoto

\* A producer that is still to write its string has made fewer than STRINGS.
CountInv ==
    \A p \in Producers :
        /\ pc[p] \in {"new", "wait_count", "wait_mutex", "read_index", "advance_index",
                      "post_mutex", "sprintf"} => count[p] < STRINGS
        /\ pc[p] \in {"sprintf_end", "post_signal"} => count[p] >= 1

\* What main has done so far decides what the threads can be at.
StageInv ==
    /\ mainPc = "create_spooler" => spoolerPc = "new"
    /\ mainPc \in {"poll", "cancel", "destroy", "exit", "exited"} =>
           \A p \in Producers : pc[p] = "done"
    /\ mainPc \in {"cancel", "destroy", "exit", "exited"} => spool_signal_sem = 0
    /\ cancelRequested => mainPc \in {"destroy", "exit", "exited"}
    /\ spoolerPc = "cancelled" => cancelRequested

\* Every claim is printed, announced, in the spooler's hands or in a producer's.
ClaimAccount ==
    spoolerPc # "cancelled" =>
        claimed = printed + spool_signal_sem + One(spoolerPc = "print")
                    + Cardinality(Claimers)

\* Under the mutex, what was read is still so.
ReadInv ==
    \A p \in Producers : pc[p] = "advance_index" =>
        j[p] = buffer_produce_index /\ ticket[p] = claimed

------------------------------------------------------------------------------
(* Type correctness *)

\* The successor of a ring index is a ring index.
LEMMA NextIndexType ==
    ASSUME NEW i \in Slots
    PROVE  NextIndex(i) \in Slots
    BY SizeAssumption DEF NextIndex, Slots

\* The initial values have their types.
LEMMA TypeInit == Init => TypeOK /\ CountInv
<1> SUFFICES ASSUME Init PROVE TypeOK /\ CountInv
    OBVIOUS
<1>1. Empty \in Content /\ 0 \in Slots /\ 0 \in 0 .. STRINGS
    BY SizeAssumption DEF Content, Slots
<1>2. buf \in [Slots -> Content] /\ lastPrinted \in Content
    BY <1>1 DEF Init
<1>3. TypeOK
    BY SizeAssumption, <1>1, <1>2 DEF Init, TypeOK, ProducerPc, SpoolerPc, MainPc
<1>4. CountInv
    BY SizeAssumption DEF Init, CountInv
<1> QED
    BY <1>3, <1>4

\* Every step keeps the types and the range of count.
LEMMA TypeStep == TypeOK /\ CountInv /\ [Next]_vars => TypeOK' /\ CountInv'
<1> SUFFICES ASSUME TypeOK, CountInv, [Next]_vars
             PROVE  TypeOK' /\ CountInv'
    OBVIOUS
<1> USE SizeAssumption
<1>1. ASSUME NEW p \in Producers, WaitBuffer(p)
      PROVE  TypeOK' /\ CountInv'
    BY <1>1 DEF TypeOK, CountInv, WaitBuffer, ProducerPc
<1>2. ASSUME NEW p \in Producers, LockIndex(p)
      PROVE  TypeOK' /\ CountInv'
    BY <1>2 DEF TypeOK, CountInv, LockIndex, ProducerPc
<1>3. ASSUME NEW p \in Producers, ReadIndex(p)
      PROVE  TypeOK' /\ CountInv'
    BY <1>3 DEF TypeOK, CountInv, ReadIndex, ProducerPc
<1>4. ASSUME NEW p \in Producers, AdvanceIndex(p)
      PROVE  TypeOK' /\ CountInv'
    BY <1>4, NextIndexType DEF TypeOK, CountInv, AdvanceIndex, ProducerPc
<1>5. ASSUME NEW p \in Producers, UnlockIndex(p)
      PROVE  TypeOK' /\ CountInv'
    BY <1>5 DEF TypeOK, CountInv, UnlockIndex, ProducerPc
<1>6. ASSUME NEW p \in Producers, BeginSprintf(p)
      PROVE  TypeOK' /\ CountInv'
    BY <1>6 DEF TypeOK, CountInv, BeginSprintf, ProducerPc, Content
<1>7. ASSUME NEW p \in Producers, EndSprintf(p)
      PROVE  TypeOK' /\ CountInv'
    <2>1. <<p, count[p]>> \in Content /\ Torn \in Content
        BY <1>7 DEF TypeOK, CountInv, EndSprintf, Content, String
    <2>2. buf' \in [Slots -> Content]
        BY <1>7, <2>1 DEF TypeOK, EndSprintf
    <2> QED
        BY <1>7, <2>2 DEF TypeOK, CountInv, EndSprintf, ProducerPc
<1>8. ASSUME NEW p \in Producers, PostSignal(p)
      PROVE  TypeOK' /\ CountInv'
    BY <1>8 DEF TypeOK, CountInv, PostSignal, ProducerPc
<1>9. CASE SpoolerStep
    BY <1>9, NextIndexType
    DEF TypeOK, CountInv, SpoolerStep, WaitSignal, PrintString, Pause, ReleaseBuffer, Cancelled,
        SpoolerPc
<1>10. ASSUME NEW p \in Producers, CreateProducer(p)
       PROVE  TypeOK' /\ CountInv'
    BY <1>10 DEF TypeOK, CountInv, CreateProducer, ProducerPc, MainPc
<1>11. CASE CreateSpooler \/ JoinProducers \/ Poll \/ CancelSpooler \/ DestroySemaphores \/ Exit
            \/ CreateFails
    BY <1>11
    DEF TypeOK, CountInv, CreateSpooler, JoinProducers, Poll, CancelSpooler, DestroySemaphores,
        Exit, CreateFails, MainPc, SpoolerPc
<1>12. CASE UNCHANGED vars
    BY <1>12 DEF TypeOK, CountInv, vars
<1> QED
    BY <1>1, <1>2, <1>3, <1>4, <1>5, <1>6, <1>7, <1>8, <1>9, <1>10, <1>11, <1>12
    DEF Next, ProducerStep, MainStep, Terminated

\* In every run every variable keeps its type, and no index leaves the ring.
THEOREM TypeCorrect == Spec => []TypeOK
<1>1. Init => TypeOK /\ CountInv
    BY TypeInit
<1>2. TypeOK /\ CountInv /\ [Next]_vars => (TypeOK /\ CountInv)'
    BY TypeStep
<1> QED
    BY <1>1, <1>2, PTL DEF Spec

------------------------------------------------------------------------------
(* Mutual exclusion *)

\* Only the wait and the post of mutex_sem move a producer in or out of InCritical.
LEMMA ExclusiveStep == TypeOK /\ IndexExclusive /\ [Next]_vars => IndexExclusive'
<1> SUFFICES ASSUME TypeOK, IndexExclusive, [Next]_vars
             PROVE  IndexExclusive'
    OBVIOUS
<1>1. ASSUME NEW p \in Producers, LockIndex(p)
      PROVE  IndexExclusive'
    <2>1. InCritical = {} /\ mutex_sem' = 0
        BY <1>1 DEF IndexExclusive, LockIndex, One
    <2>2. InCritical' = {p}
        BY <1>1, <2>1 DEF TypeOK, InCritical, LockIndex
    <2> QED
        BY <2>1, <2>2 DEF IndexExclusive, One
<1>2. ASSUME NEW p \in Producers, UnlockIndex(p)
      PROVE  IndexExclusive'
    <2>1. p \in InCritical
        BY <1>2 DEF InCritical, UnlockIndex
    <2>2. InCritical = {p} /\ mutex_sem' = 1
        BY <1>2, <2>1 DEF IndexExclusive, UnlockIndex, One
    <2>3. InCritical' = {}
        BY <1>2, <2>2 DEF TypeOK, InCritical, UnlockIndex
    <2> QED
        BY <2>2, <2>3 DEF IndexExclusive, One
<1>3. CASE UNCHANGED mutex_sem /\ InCritical' = InCritical
    BY <1>3 DEF IndexExclusive
<1>4. ASSUME NEW p \in Producers,
             WaitBuffer(p) \/ ReadIndex(p) \/ AdvanceIndex(p) \/ BeginSprintf(p)
               \/ EndSprintf(p) \/ PostSignal(p) \/ CreateProducer(p)
      PROVE  UNCHANGED mutex_sem /\ InCritical' = InCritical
    BY <1>4
    DEF TypeOK, InCritical, WaitBuffer, ReadIndex, AdvanceIndex, BeginSprintf, EndSprintf,
        PostSignal, CreateProducer
<1>5. ASSUME SpoolerStep \/ CreateSpooler \/ JoinProducers \/ Poll \/ CancelSpooler
               \/ DestroySemaphores \/ Exit \/ CreateFails \/ UNCHANGED vars
      PROVE  UNCHANGED mutex_sem /\ InCritical' = InCritical
    BY <1>5
    DEF InCritical, SpoolerStep, WaitSignal, PrintString, Pause, ReleaseBuffer, Cancelled,
        CreateSpooler, JoinProducers, Poll, CancelSpooler, DestroySemaphores, Exit, CreateFails,
        vars
<1> QED
    BY <1>1, <1>2, <1>3, <1>4, <1>5 DEF Next, ProducerStep, MainStep, Terminated

\* The mutex does what its comment says for any number of producers: at most one is
\* between the wait and the post of mutex_sem.
THEOREM MutualExclusion == Spec => []IndexExclusive
<1>1. Init => IndexExclusive
    BY DEF Init, IndexExclusive, InCritical, One
<1>2. IndexExclusive /\ TypeOK /\ [Next]_vars => IndexExclusive'
    BY ExclusiveStep
<1> QED
    BY <1>1, <1>2, TypeCorrect, PTL DEF Spec

------------------------------------------------------------------------------
(* Claims *)

\* Nothing is claimed at the start.
LEMMA ClaimsInit == Init => ReadInv /\ DistinctClaims
    BY SizeAssumption, ZeroMod DEF Init, ReadInv, DistinctClaims, Claimers

\* The index and the count of claims move together, one producer at a time.
LEMMA ClaimsStep ==
    TypeOK /\ IndexExclusive /\ ReadInv /\ DistinctClaims /\ [Next]_vars
        => ReadInv' /\ DistinctClaims'
<1> SUFFICES ASSUME TypeOK, IndexExclusive, ReadInv, DistinctClaims, [Next]_vars
             PROVE  ReadInv' /\ DistinctClaims'
    OBVIOUS
<1> USE SizeAssumption
<1>1. ASSUME NEW p \in Producers, ReadIndex(p)
      PROVE  ReadInv' /\ DistinctClaims'
    <2>1. Claimers' = Claimers /\ p \notin Claimers
        BY <1>1 DEF TypeOK, Claimers, ReadIndex
    <2>2. DistinctClaims'
        BY <1>1, <2>1 DEF DistinctClaims, TypeOK, Claimers, ReadIndex
    <2>3. ReadInv'
        BY <1>1 DEF ReadInv, TypeOK, ReadIndex
    <2> QED
        BY <2>2, <2>3
<1>2. ASSUME NEW p \in Producers, AdvanceIndex(p)
      PROVE  ReadInv' /\ DistinctClaims'
    <2>1. j[p] = (claimed % MAX_BUFFERS) /\ ticket[p] = claimed
        BY <1>2 DEF ReadInv, DistinctClaims, AdvanceIndex
    <2>2. Claimers' = Claimers \cup {p} /\ p \notin Claimers
        BY <1>2 DEF TypeOK, Claimers, AdvanceIndex
    <2>3. buffer_produce_index' = (claimed' % MAX_BUFFERS)
        BY <1>2, ModSuccessor DEF TypeOK, DistinctClaims, AdvanceIndex, NextIndex
    <2>4. /\ UNCHANGED <<j, ticket>> /\ claimed' = claimed + 1 /\ claimed \in Nat
          /\ \A q \in Claimers : q \in Producers /\ ticket[q] \in Nat
        BY <1>2 DEF TypeOK, Claimers, AdvanceIndex
    <2>5. \A q \in Claimers' :
              ticket'[q] < claimed' /\ j'[q] = (ticket'[q] % MAX_BUFFERS)
        BY <2>1, <2>2, <2>4 DEF DistinctClaims
    <2>6. \A q, r \in Claimers' : q # r => ticket'[q] # ticket'[r]
        BY <2>1, <2>2, <2>4 DEF DistinctClaims
    <2>7. DistinctClaims'
        BY <2>3, <2>5, <2>6 DEF DistinctClaims
    <2>8. \A q \in Producers : pc'[q] # "advance_index"
        BY <1>2 DEF IndexExclusive, InCritical, TypeOK, AdvanceIndex
    <2> QED
        BY <2>7, <2>8 DEF ReadInv
<1>3. ASSUME NEW p \in Producers,
             WaitBuffer(p) \/ LockIndex(p) \/ UnlockIndex(p) \/ BeginSprintf(p)
               \/ EndSprintf(p) \/ PostSignal(p) \/ CreateProducer(p)
      PROVE  /\ UNCHANGED <<buffer_produce_index, claimed, j, ticket>>
             /\ Claimers' \subseteq Claimers
             /\ \A q \in Producers : pc'[q] = "advance_index" => pc[q] = "advance_index"
    BY <1>3
    DEF TypeOK, Claimers, WaitBuffer, LockIndex, UnlockIndex, BeginSprintf, EndSprintf,
        PostSignal, CreateProducer
<1>4. ASSUME SpoolerStep \/ CreateSpooler \/ JoinProducers \/ Poll \/ CancelSpooler
               \/ DestroySemaphores \/ Exit \/ CreateFails \/ UNCHANGED vars
      PROVE  /\ UNCHANGED <<buffer_produce_index, claimed, j, ticket>>
             /\ Claimers' \subseteq Claimers
             /\ \A q \in Producers : pc'[q] = "advance_index" => pc[q] = "advance_index"
    BY <1>4
    DEF Claimers, SpoolerStep, WaitSignal, PrintString, Pause, ReleaseBuffer, Cancelled,
        CreateSpooler, JoinProducers, Poll, CancelSpooler, DestroySemaphores, Exit, CreateFails,
        vars
<1>5. ASSUME UNCHANGED <<buffer_produce_index, claimed, j, ticket>>,
             Claimers' \subseteq Claimers,
             \A q \in Producers : pc'[q] = "advance_index" => pc[q] = "advance_index"
      PROVE  ReadInv' /\ DistinctClaims'
    BY <1>5 DEF ReadInv, DistinctClaims
<1> QED
    BY <1>1, <1>2, <1>3, <1>4, <1>5 DEF Next, ProducerStep, MainStep, Terminated

\* No claim is lost and no two producers hold the same one, for any number of them.
THEOREM ClaimsAreDistinct == Spec => []DistinctClaims
<1>1. Init => ReadInv /\ DistinctClaims
    BY ClaimsInit
<1>2. TypeOK /\ IndexExclusive /\ ReadInv /\ DistinctClaims /\ [Next]_vars
          => (ReadInv /\ DistinctClaims)'
    BY ClaimsStep
<1> QED
    BY <1>1, <1>2, TypeCorrect, MutualExclusion, PTL DEF Spec

------------------------------------------------------------------------------
(* The account of the buffers and of the claims *)

\* The sets of producers that are counted are finite, and a claim needs a buffer.
LEMMA SetsFinite ==
    /\ IsFiniteSet(Holding) /\ Cardinality(Holding) \in Nat
    /\ IsFiniteSet(Claimers) /\ Cardinality(Claimers) \in Nat
    /\ Cardinality(Claimers) <= Cardinality(Holding)
<1>1. Holding \in SUBSET Producers /\ Claimers \in SUBSET Holding
    BY DEF Holding, Claimers
<1>2. IsFiniteSet(Holding)
    BY <1>1, ProducersAssumption, FS_Subset
<1>3. IsFiniteSet(Claimers) /\ Cardinality(Claimers) <= Cardinality(Holding)
    BY <1>1, <1>2, FS_Subset
<1> QED
    BY <1>2, <1>3, FS_CardinalityType

\* How Holding and Claimers count after one producer moved.
LEMMA CountAdd ==
    ASSUME NEW S, NEW T, NEW p, IsFiniteSet(S), p \notin S, T = S \cup {p}
    PROVE  Cardinality(T) = Cardinality(S) + 1
    BY FS_AddElement

\* The same when a producer leaves the set.
LEMMA CountRemove ==
    ASSUME NEW S, NEW T, NEW p, IsFiniteSet(S), p \in S, T = S \ {p}
    PROVE  Cardinality(T) = Cardinality(S) - 1
    BY FS_RemoveElement

\* At the start every buffer is free.
LEMMA BudgetInit == Init => SlotBudget /\ ClaimAccount /\ StageInv
<1> SUFFICES ASSUME Init PROVE SlotBudget /\ ClaimAccount /\ StageInv
    OBVIOUS
<1>1. Holding = {} /\ Claimers = {}
    BY DEF Init, Holding, Claimers
<1>2. Cardinality(Holding) = 0 /\ Cardinality(Claimers) = 0
    BY <1>1, FS_EmptySet
<1> QED
    BY <1>2, SizeAssumption DEF Init, SlotBudget, ClaimAccount, StageInv, One

\* main moves forward only, and its progress fixes the state of the threads.
LEMMA StageStep == TypeOK /\ StageInv /\ [Next]_vars => StageInv'
<1> SUFFICES ASSUME TypeOK, StageInv, [Next]_vars
             PROVE  StageInv'
    OBVIOUS
<1>1. ASSUME NEW p \in Producers, ProducerStep(p)
      PROVE  StageInv'
    BY <1>1
    DEF StageInv, TypeOK, ProducerStep, WaitBuffer, LockIndex, ReadIndex, AdvanceIndex,
        UnlockIndex, BeginSprintf, EndSprintf, PostSignal, Running
<1>2. CASE SpoolerStep
    BY <1>2
    DEF StageInv, TypeOK, SpoolerStep, WaitSignal, PrintString, Pause, ReleaseBuffer, Cancelled,
        Running
<1>3. CASE MainStep \/ CreateFails
    BY <1>3
    DEF StageInv, MainStep, CreateProducer, CreateSpooler, JoinProducers, Poll, CancelSpooler,
        DestroySemaphores, Exit, CreateFails
<1>4. CASE UNCHANGED vars
    BY <1>4 DEF StageInv, vars
<1> QED
    BY <1>1, <1>2, <1>3, <1>4 DEF Next, Terminated

Account == SlotBudget /\ ClaimAccount

\* Every step moves buffers and claims from one holder to the next.
LEMMA AccountStep == TypeOK /\ StageInv /\ Account /\ [Next]_vars => Account'
<1> SUFFICES ASSUME TypeOK, StageInv, Account, [Next]_vars
             PROVE  Account'
    OBVIOUS
<1> USE SizeAssumption, SetsFinite
<1>1. ASSUME NEW p \in Producers, WaitBuffer(p)
      PROVE  Account'
    <2>1. Cardinality(Holding') = Cardinality(Holding) + 1
        <3>1. p \notin Holding /\ Holding' = Holding \cup {p}
            BY <1>1 DEF TypeOK, Holding, WaitBuffer
        <3> QED
            BY <3>1, CountAdd
    <2>2. Claimers' = Claimers
        BY <1>1 DEF TypeOK, Claimers, WaitBuffer
    <2> QED
        BY <1>1, <2>1, <2>2
        DEF TypeOK, Account, SlotBudget, ClaimAccount, WaitBuffer, One
<1>2. ASSUME NEW p \in Producers, AdvanceIndex(p)
      PROVE  Account'
    <2>1. Cardinality(Claimers') = Cardinality(Claimers) + 1
        <3>1. p \notin Claimers /\ Claimers' = Claimers \cup {p}
            BY <1>2 DEF TypeOK, Claimers, AdvanceIndex
        <3> QED
            BY <3>1, CountAdd
    <2>2. Holding' = Holding
        BY <1>2 DEF TypeOK, Holding, AdvanceIndex
    <2> QED
        BY <1>2, <2>1, <2>2
        DEF TypeOK, Account, SlotBudget, ClaimAccount, AdvanceIndex, One
<1>3. ASSUME NEW p \in Producers, PostSignal(p)
      PROVE  Account'
    <2>1. Cardinality(Claimers') = Cardinality(Claimers) - 1
        <3>1. p \in Claimers /\ Claimers' = Claimers \ {p}
            BY <1>3 DEF TypeOK, Claimers, PostSignal
        <3> QED
            BY <3>1, CountRemove
    <2>2. Cardinality(Holding') = Cardinality(Holding) - 1
        <3>1. p \in Holding /\ Holding' = Holding \ {p}
            BY <1>3 DEF TypeOK, Holding, PostSignal
        <3> QED
            BY <3>1, CountRemove
    <2> QED
        BY <1>3, <2>1, <2>2
        DEF TypeOK, Account, SlotBudget, ClaimAccount, PostSignal, One
<1>4. ASSUME NEW p \in Producers,
             LockIndex(p) \/ ReadIndex(p) \/ UnlockIndex(p) \/ BeginSprintf(p)
               \/ EndSprintf(p) \/ CreateProducer(p)
      PROVE  Account'
    <2>1. Holding' = Holding /\ Claimers' = Claimers
        BY <1>4
        DEF TypeOK, Holding, Claimers, LockIndex, ReadIndex, UnlockIndex, BeginSprintf,
            EndSprintf, CreateProducer
    <2>2. UNCHANGED <<buffer_count_sem, spool_signal_sem, spoolerPc, claimed, printed>>
        BY <1>4
        DEF LockIndex, ReadIndex, UnlockIndex, BeginSprintf, EndSprintf, CreateProducer
    <2> QED
        BY <2>1, <2>2 DEF Account, SlotBudget, ClaimAccount
<1>5. ASSUME UNCHANGED pc
      PROVE  Holding' = Holding /\ Claimers' = Claimers
    BY <1>5 DEF Holding, Claimers
<1>6. CASE SpoolerStep
    BY <1>5, <1>6
    DEF TypeOK, StageInv, Account, SlotBudget, ClaimAccount, SpoolerStep, WaitSignal, PrintString,
        Pause, ReleaseBuffer, Cancelled, One
<1>7. CASE CreateSpooler
    BY <1>5, <1>7
    DEF TypeOK, StageInv, Account, SlotBudget, ClaimAccount, CreateSpooler, One
<1>8. CASE JoinProducers \/ Poll \/ CancelSpooler \/ DestroySemaphores \/ Exit
           \/ CreateFails \/ UNCHANGED vars
    BY <1>5, <1>8
    DEF Account, SlotBudget, ClaimAccount, JoinProducers, Poll, CancelSpooler, DestroySemaphores,
        Exit, CreateFails, vars
<1> QED
    BY <1>1, <1>2, <1>3, <1>4, <1>6, <1>7, <1>8 DEF Next, ProducerStep, MainStep, Terminated

\* The accounts hold in every reachable state.
LEMMA StageAlways == Spec => [](StageInv /\ Account)
<1>1. Init => StageInv /\ Account
    BY BudgetInit DEF Account
<1>2. TypeOK /\ StageInv /\ Account /\ [Next]_vars => (StageInv /\ Account)'
    BY StageStep, AccountStep
<1> QED
    BY <1>1, <1>2, TypeCorrect, PTL DEF Spec

\* No buffer of the ring is ever lost or handed out twice, for any ring size and any
\* number of producers.
THEOREM BuffersAccounted == Spec => []SlotBudget
<1>1. Account => SlotBudget
    BY DEF Account
<1> QED
    BY <1>1, StageAlways, PTL

------------------------------------------------------------------------------
(* The two consequences *)

\* A slot can have two owners only after the spooler printed it too early: the
\* owners are one lap apart, and the account allows a lap only over printed slots.
LEMMA SharedSlotImplied ==
    TypeOK /\ StageInv /\ Account /\ DistinctClaims => SharedSlotWasPrintedEarly
<1> SUFFICES ASSUME TypeOK, StageInv, Account, DistinctClaims,
                    NEW p \in Claimers, NEW q \in Claimers,
                    ticket[p] < ticket[q], j[p] = j[q]
             PROVE  ticket[p] < printed
    BY DEF SharedSlotWasPrintedEarly
<1> USE SizeAssumption
<1>1. ticket[p] \in Nat /\ ticket[q] \in Nat /\ ticket[q] < claimed
    BY DEF TypeOK, DistinctClaims, Claimers
<1>2. (ticket[p] % MAX_BUFFERS) = (ticket[q] % MAX_BUFFERS)
    BY DEF DistinctClaims
<1>3. ticket[q] >= ticket[p] + MAX_BUFFERS
    BY <1>1, <1>2, ModApart
<1>4. spoolerPc # "cancelled"
    BY DEF StageInv, Claimers
<1>5. claimed <= printed + MAX_BUFFERS
    BY <1>4, SetsFinite DEF TypeOK, Account, SlotBudget, ClaimAccount, One
<1> QED
    BY <1>1, <1>3, <1>5 DEF TypeOK

\* Two producers are at work on one slot only if the spooler printed it before its
\* first owner signalled, for any ring size and any number of producers.
THEOREM SharingNeedsEarlyPrint == Spec => []SharedSlotWasPrintedEarly
    BY SharedSlotImplied, TypeCorrect, StageAlways, ClaimsAreDistinct, PTL

\* The half of OrderlyShutdown that the poll gives; the joins give the other.
CallsAccounted ==
    mainPc \in {"cancel", "destroy", "exit", "exited"} =>
        /\ printed \in {claimed - 1, claimed}
        /\ spoolerPc = "print" => printed = claimed - 1
        /\ spoolerPc \notin {"print", "cancelled"} => printed = claimed

\* The poll finds the account with nothing announced and no producer at work.
LEMMA CallsStep ==
    TypeOK /\ StageInv /\ Account /\ CallsAccounted /\ [Next]_vars => CallsAccounted'
<1> SUFFICES ASSUME TypeOK, StageInv, Account, CallsAccounted, [Next]_vars
             PROVE  CallsAccounted'
    OBVIOUS
<1>1. CASE Poll
    <2>1. Claimers = {} /\ spoolerPc # "cancelled"
        BY <1>1 DEF Poll, StageInv, Claimers
    <2>2. claimed = printed + One(spoolerPc = "print")
        BY <1>1, <2>1, FS_EmptySet DEF TypeOK, Account, ClaimAccount, Poll, One
    <2> QED
        BY <1>1, <2>2 DEF TypeOK, CallsAccounted, Poll, One
<1>2. ASSUME NEW p \in Producers, ProducerStep(p)
      PROVE  CallsAccounted'
    BY <1>2
    DEF CallsAccounted, StageInv, ProducerStep, WaitBuffer, LockIndex, ReadIndex,
        AdvanceIndex, UnlockIndex, BeginSprintf, EndSprintf, PostSignal
<1>3. CASE SpoolerStep
    BY <1>3
    DEF TypeOK, StageInv, CallsAccounted, SpoolerStep, WaitSignal, PrintString, Pause,
        ReleaseBuffer, Cancelled
<1>4. CASE CreateSpooler \/ (\E p \in Producers : CreateProducer(p)) \/ JoinProducers
           \/ CancelSpooler \/ DestroySemaphores \/ Exit \/ CreateFails \/ UNCHANGED vars
    BY <1>4
    DEF CallsAccounted, CreateSpooler, CreateProducer, JoinProducers, CancelSpooler,
        DestroySemaphores, Exit, CreateFails, vars
<1> QED
    BY <1>1, <1>2, <1>3, <1>4 DEF Next, MainStep, Terminated

\* However many producers and strings, main gives up on the spooler when every producer is
\* done and printf was called once for every claim, but for one in the spooler's hands.
THEOREM ShutdownIsOrderly == Spec => []OrderlyShutdown
<1>1. Init => CallsAccounted
    BY DEF Init, CallsAccounted
<1>2. StageInv /\ CallsAccounted => OrderlyShutdown
    BY DEF StageInv, CallsAccounted, OrderlyShutdown
<1> QED
    BY <1>1, <1>2, CallsStep, TypeCorrect, StageAlways, PTL DEF Spec

------------------------------------------------------------------------------
(* Nobody waits for ever *)

\* What main has created.
CreateInv ==
    /\ mainPc = "create_spooler" => \A p \in Producers : pc[p] = "new"
    /\ mainPc = "create" => \E p \in Producers : pc[p] = "new"
    /\ mainPc = "join" => \A p \in Producers : pc[p] # "new"
    /\ mainPc \in {"create", "join", "poll"} => spoolerPc # "new"

\* main creates the spooler first and joins when it has created every producer.
LEMMA CreateStep == TypeOK /\ CreateInv /\ [Next]_vars => CreateInv'
<1> SUFFICES ASSUME TypeOK, CreateInv, [Next]_vars PROVE CreateInv'
    OBVIOUS
<1>1. ASSUME NEW p \in Producers, ProducerStep(p)
      PROVE  CreateInv'
    <2>1. /\ mainPc' = mainPc /\ spoolerPc' = spoolerPc /\ pc[p] # "new" /\ pc'[p] # "new"
          /\ \A q \in Producers : q # p => pc'[q] = pc[q]
        BY <1>1
        DEF TypeOK, ProducerStep, WaitBuffer, LockIndex, ReadIndex, AdvanceIndex, UnlockIndex,
            BeginSprintf, EndSprintf, PostSignal
    <2> QED
        BY <2>1 DEF CreateInv
<1>2. CASE SpoolerStep
    BY <1>2
    DEF CreateInv, SpoolerStep, WaitSignal, PrintString, Pause, ReleaseBuffer, Cancelled
<1>3. ASSUME NEW p \in Producers, CreateProducer(p)
      PROVE  CreateInv'
    <2>1. /\ mainPc = "create" /\ spoolerPc' = spoolerPc /\ pc'[p] # "new"
          /\ \A q \in Producers : q # p => pc'[q] = pc[q]
          /\ mainPc' = IF \E q \in Producers \ {p} : pc[q] = "new" THEN "create" ELSE "join"
        BY <1>3 DEF TypeOK, CreateProducer
    <2> QED
        BY <2>1 DEF CreateInv
<1>4. CASE CreateSpooler
    BY <1>4, ProducersAssumption DEF CreateInv, CreateSpooler
<1>5. CASE JoinProducers \/ Poll \/ CancelSpooler \/ DestroySemaphores \/ Exit \/ CreateFails
           \/ UNCHANGED vars
    BY <1>5
    DEF CreateInv, JoinProducers, Poll, CancelSpooler, DestroySemaphores, Exit, CreateFails, vars
<1> QED
    BY <1>1, <1>2, <1>3, <1>4, <1>5 DEF Next, MainStep, Terminated

\* If all wait, the mutex is free and nobody waits for it; then no producer has a buffer and
\* nothing is announced, all buffers are free and nobody waits for one; then all are done.
LEMMA WaitingIsCircular ==
    TypeOK /\ StageInv /\ CreateInv /\ IndexExclusive /\ Account => NoDeadlock
<1> SUFFICES ASSUME TypeOK, StageInv, CreateInv, IndexExclusive, Account, Running,
                    ~SpoolerCanGo, ~MainCanGo, \A p \in Producers : ~ProducerCanGo(p)
             PROVE  FALSE
    BY DEF NoDeadlock
<1>1. mainPc \in {"join", "poll"} /\ ~cancelRequested
    BY DEF TypeOK, StageInv, CreateInv, MainCanGo, Running, MainPc
<1>2. spoolerPc = "wait" /\ spool_signal_sem = 0
    BY <1>1 DEF TypeOK, StageInv, CreateInv, SpoolerCanGo, SpoolerPc
<1>3. \A p \in Producers : pc[p] \in {"wait_count", "done"}
    <2>1. \A p \in Producers : pc[p] \in {"new", "wait_count", "wait_mutex", "done"}
        BY DEF ProducerCanGo
    <2>2. mutex_sem = 1
        BY <2>1 DEF IndexExclusive, InCritical, One
    <2>3. \A p \in Producers : pc[p] # "new"
        BY <1>1 DEF CreateInv, StageInv
    <2> QED
        BY <2>1, <2>2, <2>3 DEF ProducerCanGo
<1>4. buffer_count_sem > 0
    <2>1. Holding = {} /\ Cardinality(Holding) = 0
        BY <1>3, FS_EmptySet DEF Holding
    <2> QED
        BY <1>2, <2>1, SizeAssumption DEF TypeOK, Account, SlotBudget, One
<1>5. \A p \in Producers : pc[p] = "done"
    BY <1>3, <1>4 DEF ProducerCanGo
<1> QED
    BY <1>1, <1>2, <1>5 DEF MainCanGo

\* However many producers, buffers and strings, the threads never all wait for each other.
THEOREM SomebodyGoesOn == Spec => []NoDeadlock
<1>1. Init => CreateInv
    BY DEF Init, CreateInv
<1> QED
    BY <1>1, CreateStep, WaitingIsCircular, TypeCorrect, StageAlways, MutualExclusion, PTL DEF Spec

------------------------------------------------------------------------------
(* One producer: the ring is a bounded first-in first-out buffer *)

\* The only producer's string, ticket and slot, at each pc.
OnlyInv ==
    \A p \in Producers :
        /\ claimed = count[p] + One(pc[p] \in {"post_mutex", "sprintf"})
        /\ pc[p] = "advance_index" => ticket[p] = claimed
        /\ p \in Claimers => ticket[p] = claimed - 1
        /\ pc[p] = "sprintf_end" => buf[j[p]] = Partial
        /\ pc[p] = "post_signal" => buf[j[p]] = <<p, count[p]>>

\* The print index counts the strings printed.
PrintIndexInv ==
    spoolerPc # "cancelled" =>
        IF spoolerPc \in {"pause", "release"}
        THEN printed >= 1 /\ buffer_print_index = ((printed - 1) % MAX_BUFFERS)
        ELSE buffer_print_index = (printed % MAX_BUFFERS)

SingleInv == TypeOK /\ StageInv /\ Account /\ DistinctClaims /\ PrintIndexInv /\ OnlyInv

\* With one producer Claimers is all or nothing.
LEMMA OneClaimer ==
    ASSUME NEW p, Producers = {p}
    PROVE  /\ pc[p] \in {"post_mutex", "sprintf", "sprintf_end", "post_signal"} =>
                  Claimers = {p} /\ Cardinality(Claimers) = 1
           /\ pc[p] \notin {"post_mutex", "sprintf", "sprintf_end", "post_signal"} =>
                  Claimers = {} /\ Cardinality(Claimers) = 0
    BY FS_Singleton, FS_EmptySet DEF Claimers

\* What is announced, by the producer's pc.
LEMMA AnnouncedIs ==
    ASSUME TypeOK, NEW p, Producers = {p}
    PROVE  Announced =
             claimed - One(pc[p] \in {"post_mutex", "sprintf", "sprintf_end", "post_signal"})
    BY OneClaimer DEF TypeOK, Announced, One

\* The same after a step.
LEMMA AnnouncedWillBe ==
    ASSUME TypeOK', NEW p, Producers = {p}
    PROVE  Announced' =
             claimed' - One(pc'[p] \in {"post_mutex", "sprintf", "sprintf_end", "post_signal"})
<1>1. /\ pc'[p] \in {"post_mutex", "sprintf", "sprintf_end", "post_signal"} =>
             Claimers' = {p} /\ Cardinality(Claimers') = 1
      /\ pc'[p] \notin {"post_mutex", "sprintf", "sprintf_end", "post_signal"} =>
             Claimers' = {} /\ Cardinality(Claimers') = 0
    BY FS_Singleton, FS_EmptySet DEF Claimers
<1> QED
    BY <1>1 DEF TypeOK, Announced, One

\* At the start the producer has made nothing.
LEMMA SingleInit == Init => PrintIndexInv /\ OnlyInv
    BY SizeAssumption, ZeroMod DEF Init, PrintIndexInv, OnlyInv, Claimers, One

\* The print index moves with the strings printed.
LEMMA PrintIndexStep == TypeOK /\ StageInv /\ PrintIndexInv /\ [Next]_vars => PrintIndexInv'
<1> SUFFICES ASSUME TypeOK, StageInv, PrintIndexInv, [Next]_vars
             PROVE  PrintIndexInv'
    OBVIOUS
<1>1. CASE ReleaseBuffer
    <2>1. /\ spoolerPc = "release" /\ spoolerPc' = "wait" /\ printed' = printed
          /\ buffer_print_index' = NextIndex(buffer_print_index)
        BY <1>1 DEF ReleaseBuffer
    <2>2. printed - 1 \in Nat /\ buffer_print_index = ((printed - 1) % MAX_BUFFERS)
        BY <2>1 DEF TypeOK, PrintIndexInv
    <2>3. PICK a \in Nat : a = printed - 1
        BY <2>2
    <2>4. ((a + 1) % MAX_BUFFERS) = IF (a % MAX_BUFFERS) + 1 = MAX_BUFFERS THEN 0
                                    ELSE (a % MAX_BUFFERS) + 1
        BY SizeAssumption, ModSuccessor
    <2>5. a + 1 = printed
        BY <2>3 DEF TypeOK
    <2> QED
        BY <2>1, <2>2, <2>3, <2>4, <2>5 DEF PrintIndexInv, NextIndex
<1>2. CASE PrintString
    <2>1. /\ spoolerPc = "print" /\ spoolerPc' = "pause" /\ printed' = printed + 1
          /\ buffer_print_index' = buffer_print_index
        BY <1>2 DEF PrintString
    <2>2. printed' - 1 = printed /\ printed' >= 1
        BY <2>1 DEF TypeOK
    <2> QED
        BY <2>1, <2>2 DEF PrintIndexInv
<1>3. CASE WaitSignal \/ Pause \/ Cancelled
    BY <1>3 DEF PrintIndexInv, WaitSignal, Pause, Cancelled
<1>4. ASSUME NEW p \in Producers, ProducerStep(p)
      PROVE  PrintIndexInv'
    BY <1>4
    DEF PrintIndexInv, ProducerStep, WaitBuffer, LockIndex, ReadIndex, AdvanceIndex, UnlockIndex,
        BeginSprintf, EndSprintf, PostSignal
<1>5. CASE CreateSpooler
    BY <1>5 DEF StageInv, PrintIndexInv, CreateSpooler
<1>6. CASE (\E p \in Producers : CreateProducer(p)) \/ JoinProducers \/ Poll \/ CancelSpooler
           \/ DestroySemaphores \/ Exit \/ CreateFails \/ UNCHANGED vars
    BY <1>6
    DEF PrintIndexInv, CreateProducer, JoinProducers, Poll, CancelSpooler, DestroySemaphores, Exit,
        CreateFails, vars
<1> QED
    BY <1>1, <1>2, <1>3, <1>4, <1>5, <1>6 DEF Next, MainStep, SpoolerStep, Terminated

\* Alone, a producer finds the index and its slot as it left them.
LEMMA OnlyStep ==
    ASSUME TypeOK, OnlyInv, [Next]_vars, NEW p, Producers = {p}
    PROVE  OnlyInv'
<1> USE DEF TypeOK, OnlyInv, Claimers, One
<1>1. CASE WaitBuffer(p) \/ LockIndex(p) \/ UnlockIndex(p) \/ PostSignal(p) \/ CreateProducer(p)
    BY <1>1 DEF WaitBuffer, LockIndex, UnlockIndex, PostSignal, CreateProducer
<1>2. CASE ReadIndex(p)
    BY <1>2 DEF ReadIndex
<1>3. CASE AdvanceIndex(p)
    BY <1>3 DEF AdvanceIndex
<1>4. CASE BeginSprintf(p)
    <2>1. OtherWriters(p, j[p]) = {}
        BY DEF OtherWriters
    <2>2. buf'[j[p]] = Partial
        BY <1>4, <2>1 DEF BeginSprintf
    <2> QED
        BY <1>4, <2>2 DEF BeginSprintf
<1>5. CASE EndSprintf(p)
    <2>1. buf'[j[p]] = <<p, count[p]>>
        BY <1>5 DEF EndSprintf
    <2> QED
        BY <1>5, <2>1 DEF EndSprintf
<1>6. CASE SpoolerStep \/ CreateSpooler \/ JoinProducers \/ Poll \/ CancelSpooler
           \/ DestroySemaphores \/ Exit \/ CreateFails \/ UNCHANGED vars
    <2>1. UNCHANGED <<claimed, count, pc, ticket, j, buf>>
        BY <1>6
        DEF SpoolerStep, WaitSignal, PrintString, Pause, ReleaseBuffer, Cancelled, CreateSpooler,
            JoinProducers, Poll, CancelSpooler, DestroySemaphores, Exit, CreateFails, vars
    <2> QED
        BY <2>1
<1> QED
    BY <1>1, <1>2, <1>3, <1>4, <1>5, <1>6 DEF Next, MainStep, ProducerStep, Terminated

\* No more than a ring of strings is announced and not printed, and a claim leaves room.
LEMMA RoomInRing ==
    ASSUME SingleInv, NEW p, Producers = {p}, spoolerPc # "cancelled"
    PROVE  claimed <= printed + MAX_BUFFERS
    BY SizeAssumption, SetsFinite DEF SingleInv, TypeOK, Account, SlotBudget, ClaimAccount, One

\* The slot that the producer writes holds no string announced and not printed.
LEMMA SlotIsApart ==
    ASSUME SingleInv, NEW p, Producers = {p}, pc[p] \in {"sprintf", "sprintf_end"},
           NEW k \in 1 .. (Announced - printed)
    PROVE  ((printed + k - 1) % MAX_BUFFERS) # j[p]
<1>1. spoolerPc # "cancelled" /\ p \in Claimers
    BY DEF SingleInv, StageInv, Claimers
<1>2. claimed <= printed + MAX_BUFFERS
    BY <1>1, RoomInRing
<1>3. claimed \in Nat /\ printed \in Nat /\ Announced = claimed - 1
    BY AnnouncedIs DEF SingleInv, TypeOK, One
<1>4. ticket[p] = claimed - 1 /\ ticket[p] \in Nat /\ j[p] = (ticket[p] % MAX_BUFFERS)
    BY <1>1 DEF SingleInv, OnlyInv, DistinctClaims, TypeOK
<1>5. PICK a \in Nat : a = printed + k - 1
    BY <1>3
<1>6. a < ticket[p] /\ ~(ticket[p] >= a + MAX_BUFFERS)
    BY <1>2, <1>3, <1>4, <1>5, SizeAssumption
<1>7. (a % MAX_BUFFERS) # (ticket[p] % MAX_BUFFERS)
    BY <1>4, <1>6, ModApart, SizeAssumption
<1> QED
    BY <1>4, <1>5, <1>7

\* A function on an interval from 1 is a sequence.
LEMMA SequenceOf ==
    ASSUME NEW S, NEW d \in Nat, NEW s \in [1 .. d -> S]
    PROVE  s \in Seq(S) /\ Len(s) = d
<1>1. s \in Seq(S)
    BY SeqDef
<1> QED
    BY <1>1, LenProperties

\* The queue is a sequence of what the ring holds.
LEMMA QueueIs ==
    ASSUME SingleInv, NEW p, Producers = {p}, spoolerPc # "cancelled"
    PROVE  /\ Announced \in Nat /\ printed \in Nat /\ Announced - printed \in Nat
           /\ InFlight \in Seq(Content) /\ Len(InFlight) = Announced - printed
           /\ \A k \in 1 .. (Announced - printed) :
                  InFlight[k] = buf[(printed + k - 1) % MAX_BUFFERS]
<1>1. /\ Announced = claimed - Cardinality(Claimers) /\ claimed \in Nat /\ printed \in Nat
      /\ Cardinality(Claimers) \in Nat
      /\ claimed = printed + spool_signal_sem + One(spoolerPc = "print") + Cardinality(Claimers)
    BY SetsFinite DEF Announced, SingleInv, TypeOK, Account, ClaimAccount
<1>2. Announced - printed \in Nat /\ Announced \in Nat
    BY <1>1 DEF SingleInv, TypeOK, One
<1>3. PICK d \in Nat : d = Announced - printed
    BY <1>2
<1>4. \A k \in 1 .. d : buf[(printed + k - 1) % MAX_BUFFERS] \in Content
    <2> SUFFICES ASSUME NEW k \in 1 .. d
                 PROVE  buf[(printed + k - 1) % MAX_BUFFERS] \in Content
        OBVIOUS
    <2>1. printed + k - 1 \in Nat
        BY <1>1
    <2>2. ((printed + k - 1) % MAX_BUFFERS) \in Slots
        BY <2>1, ModRange, SizeAssumption DEF Slots
    <2> QED
        BY <2>2 DEF SingleInv, TypeOK
<1>5. InFlight \in [1 .. d -> Content]
    BY <1>3, <1>4 DEF InFlight
<1>6. InFlight \in Seq(Content) /\ Len(InFlight) = d
    BY <1>5, SequenceOf
<1> QED
    BY <1>1, <1>2, <1>3, <1>6 DEF InFlight

\* A step that leaves the counts and the announced slots alone is none of the buffer's.
LEMMA QueueStays ==
    ASSUME Announced' = Announced, printed' = printed, lastPrinted' = lastPrinted,
           \A k \in 1 .. (Announced - printed) :
               buf'[(printed + k - 1) % MAX_BUFFERS] = buf[(printed + k - 1) % MAX_BUFFERS]
    PROVE  UNCHANGED Fifo!vars
    BY DEF Fifo!vars, InFlight

\* A string is announced: it goes to the end of the queue.
LEMMA PostIsPut ==
    ASSUME SingleInv, SingleInv', NEW p, Producers = {p}, PostSignal(p)
    PROVE  Fifo!Put
<1>1. /\ pc[p] = "post_signal" /\ p \in Claimers /\ spoolerPc # "cancelled"
      /\ pc'[p] \in {"done", "wait_count"}
      /\ UNCHANGED <<claimed, printed, lastPrinted, buf, spoolerPc>>
    BY DEF PostSignal, SingleInv, TypeOK, StageInv, Claimers
<1>2. /\ Announced = claimed - 1 /\ Announced' = claimed
      /\ claimed \in Nat /\ printed \in Nat
    BY <1>1, AnnouncedIs, AnnouncedWillBe DEF SingleInv, TypeOK, One
<1>3. /\ Announced - printed \in Nat /\ Announced \in Nat
      /\ InFlight \in Seq(Content) /\ Len(InFlight) = Announced - printed
      /\ \A k \in 1 .. (Announced - printed) : InFlight[k] = buf[(printed + k - 1) % MAX_BUFFERS]
    BY <1>1, QueueIs
<1>4. /\ InFlight' \in Seq(Content) /\ Len(InFlight') = Announced + 1 - printed
      /\ \A k \in 1 .. (Announced + 1 - printed) :
             InFlight'[k] = buf[(printed + k - 1) % MAX_BUFFERS]
    <2>1. InFlight' = [k \in 1 .. (Announced + 1 - printed) |->
                         buf[(printed + k - 1) % MAX_BUFFERS]]
        BY <1>1, <1>2 DEF InFlight
    <2>2. Announced + 1 - printed \in Nat
        BY <1>2, <1>3
    <2>3. \A k \in 1 .. (Announced + 1 - printed) :
              buf[(printed + k - 1) % MAX_BUFFERS] \in Content
        <3> SUFFICES ASSUME NEW k \in 1 .. (Announced + 1 - printed)
                     PROVE  buf[(printed + k - 1) % MAX_BUFFERS] \in Content
            OBVIOUS
        <3>1. printed + k - 1 \in Nat
            BY <1>2
        <3>2. ((printed + k - 1) % MAX_BUFFERS) \in Slots
            BY <3>1, ModRange, SizeAssumption DEF Slots
        <3> QED
            BY <3>2 DEF SingleInv, TypeOK
    <2>4. PICK d \in Nat : d = Announced + 1 - printed
        BY <2>2
    <2>5. InFlight' \in [1 .. d -> Content]
        BY <2>1, <2>3, <2>4
    <2>6. InFlight' \in Seq(Content) /\ Len(InFlight') = d
        BY <2>5, SequenceOf
    <2> QED
        BY <2>1, <2>4, <2>6
<1>5. /\ TheStrings[Announced + 1] = <<p, count[p]>> /\ Announced < Len(TheStrings)
      /\ <<p, count[p]>> \in Content
    <2>1. count[p] = Announced + 1 /\ count[p] \in 1 .. STRINGS
        BY <1>1, <1>2, <1>3 DEF SingleInv, TypeOK, OnlyInv, One
    <2>2. (CHOOSE q \in Producers : TRUE) = p
        OBVIOUS
    <2>3. TheStrings = [n \in 1 .. STRINGS |-> <<p, n>>] /\ TheStrings[count[p]] = <<p, count[p]>>
        BY <2>1, <2>2 DEF TheStrings
    <2>4. Len(TheStrings) = STRINGS
        <3>1. TheStrings \in [1 .. STRINGS -> String] /\ STRINGS \in Nat
            BY <2>3, SizeAssumption DEF String
        <3> QED
            BY <3>1, SequenceOf
    <2>5. Announced + 1 = count[p] /\ Announced < STRINGS
        BY <1>2, <1>3, <2>1, SizeAssumption
    <2>6. <<p, count[p]>> \in Content
        BY <2>1 DEF Content, String
    <2> QED
        BY <2>3, <2>4, <2>5, <2>6
<1>6. buf[(printed + (Announced + 1 - printed) - 1) % MAX_BUFFERS] = <<p, count[p]>>
    <2>1. printed + (Announced + 1 - printed) - 1 = claimed - 1
        BY <1>2, <1>3
    <2>2. j[p] = ((claimed - 1) % MAX_BUFFERS)
        BY <1>1 DEF SingleInv, OnlyInv, DistinctClaims
    <2>3. buf[j[p]] = <<p, count[p]>>
        BY <1>1 DEF SingleInv, OnlyInv
    <2> QED
        BY <2>1, <2>2, <2>3
<1>7. InFlight' = Append(InFlight, TheStrings[Announced + 1])
    <2> DEFINE s == Append(InFlight, <<p, count[p]>>)
    <2>1. /\ s \in Seq(Content) /\ Len(s) = Announced + 1 - printed
          /\ \A k \in 1 .. (Announced - printed) : s[k] = InFlight[k]
          /\ s[Announced + 1 - printed] = <<p, count[p]>>
        BY <1>2, <1>3, <1>5
    <2> HIDE DEF s
    <2>2. \A k \in 1 .. (Announced + 1 - printed) : InFlight'[k] = s[k]
        <3> SUFFICES ASSUME NEW k \in 1 .. (Announced + 1 - printed)
                     PROVE  InFlight'[k] = s[k]
            OBVIOUS
        <3>1. CASE k = Announced + 1 - printed
            BY <1>4, <1>6, <2>1, <3>1
        <3>2. CASE k # Announced + 1 - printed
            <4>1. k \in 1 .. (Announced - printed)
                BY <1>2, <1>3, <3>2
            <4> QED
                BY <1>3, <1>4, <2>1, <4>1
        <3> QED
            BY <3>1, <3>2
    <2>3. InFlight' = s
        BY <1>4, <2>1, <2>2, SeqEqual
    <2> QED
        BY <1>5, <2>3 DEF s
<1>8. Len(InFlight) < MAX_BUFFERS
    <2>1. claimed <= printed + MAX_BUFFERS
        BY <1>1, RoomInRing
    <2> QED
        BY <1>2, <1>3, <2>1, SizeAssumption
<1> QED
    BY <1>1, <1>2, <1>5, <1>7, <1>8 DEF Fifo!Put

\* A string is printed: it comes from the front of the queue.
LEMMA PrintIsGet ==
    ASSUME SingleInv, SingleInv', NEW p, Producers = {p}, PrintString
    PROVE  Fifo!Get
<1>1. /\ spoolerPc = "print" /\ spoolerPc' = "pause" /\ printed' = printed + 1
      /\ lastPrinted' = buf[buffer_print_index]
      /\ UNCHANGED <<claimed, pc, buf>>
    BY DEF PrintString
<1>2. Announced' = Announced
    BY <1>1 DEF Announced, Claimers
<1>3. /\ Announced \in Nat /\ printed \in Nat /\ Announced - printed \in Nat
      /\ InFlight \in Seq(Content) /\ Len(InFlight) = Announced - printed
      /\ \A k \in 1 .. (Announced - printed) : InFlight[k] = buf[(printed + k - 1) % MAX_BUFFERS]
    BY <1>1, QueueIs
<1>4. Announced - printed >= 1
    <2>1. /\ claimed = printed + spool_signal_sem + 1 + Cardinality(Claimers)
          /\ Cardinality(Claimers) \in Nat /\ spool_signal_sem \in Nat /\ claimed \in Nat
        BY <1>1, SetsFinite DEF SingleInv, TypeOK, Account, ClaimAccount, One
    <2> QED
        BY <1>3, <2>1 DEF Announced
<1>5. InFlight # <<>> /\ Head(InFlight) = InFlight[1]
    BY <1>3, <1>4
<1>6. InFlight[1] = buf[buffer_print_index]
    <2>1. printed + 1 - 1 = printed /\ 1 \in 1 .. (Announced - printed)
        BY <1>3, <1>4
    <2>2. buffer_print_index = (printed % MAX_BUFFERS)
        BY <1>1 DEF SingleInv, PrintIndexInv
    <2> QED
        BY <1>3, <2>1, <2>2
<1>7. InFlight' = Tail(InFlight)
    <2>1. PICK t \in Seq(Content) : /\ t = Tail(InFlight) /\ Len(t) = Len(InFlight) - 1
                                    /\ \A k \in 1 .. Len(t) : t[k] = InFlight[k + 1]
        <3>1. PICK q \in Seq(Content) : q = InFlight /\ q # <<>>
            BY <1>3, <1>5
        <3>2. /\ Tail(q) \in Seq(Content) /\ Len(Tail(q)) = Len(q) - 1
              /\ \A k \in 1 .. Len(Tail(q)) : Tail(q)[k] = q[k + 1]
            BY <3>1, HeadTailProperties
        <3> QED
            BY <3>1, <3>2
    <2>2. PICK d \in Nat : d = Announced - printed - 1
        BY <1>3, <1>4
    <2>3. Announced' - printed' = d /\ Len(t) = d
        BY <1>1, <1>2, <1>3, <2>1, <2>2
    <2>4. InFlight' = [k \in 1 .. d |-> buf[(printed + 1 + k - 1) % MAX_BUFFERS]]
        BY <1>1, <2>3 DEF InFlight
    <2>5. \A k \in 1 .. d : t[k] = buf[(printed + 1 + k - 1) % MAX_BUFFERS]
        <3> SUFFICES ASSUME NEW k \in 1 .. d
                     PROVE  t[k] = buf[(printed + 1 + k - 1) % MAX_BUFFERS]
            OBVIOUS
        <3>1. k + 1 \in 1 .. (Announced - printed) /\ printed + (k + 1) - 1 = printed + 1 + k - 1
            BY <1>3, <2>2
        <3>2. InFlight[k + 1] = buf[(printed + (k + 1) - 1) % MAX_BUFFERS]
            BY <1>3, <3>1
        <3> QED
            BY <2>1, <2>3, <3>1, <3>2
    <2>6. t = [k \in 1 .. d |-> t[k]]
        BY <2>3, LenProperties
    <2>7. t = InFlight'
        BY <2>4, <2>5, <2>6
    <2> QED
        BY <2>1, <2>7
<1> QED
    BY <1>1, <1>2, <1>5, <1>6, <1>7 DEF Fifo!Get

\* Every step of the program is a Put, a Get or none of the buffer's.
LEMMA FifoStep ==
    ASSUME SingleInv, SingleInv', [Next]_vars, NEW p, Producers = {p}
    PROVE  [Fifo!Next]_(Fifo!vars)
<1>1. CASE PostSignal(p)
    BY <1>1, PostIsPut DEF Fifo!Next
<1>2. CASE PrintString
    BY <1>2, PrintIsGet DEF Fifo!Next
<1>3. CASE BeginSprintf(p) \/ EndSprintf(p)
    <2>1. /\ pc[p] \in {"sprintf", "sprintf_end"} /\ pc'[p] \in {"sprintf_end", "post_signal"}
          /\ UNCHANGED <<claimed, printed, lastPrinted>>
        BY <1>3 DEF BeginSprintf, EndSprintf, SingleInv, TypeOK
    <2>2. Announced' = Announced
        BY <2>1, AnnouncedIs, AnnouncedWillBe DEF SingleInv, One
    <2>3. \A k \in 1 .. (Announced - printed) :
              buf'[(printed + k - 1) % MAX_BUFFERS] = buf[(printed + k - 1) % MAX_BUFFERS]
        <3> SUFFICES ASSUME NEW k \in 1 .. (Announced - printed)
                     PROVE  buf'[(printed + k - 1) % MAX_BUFFERS]
                              = buf[(printed + k - 1) % MAX_BUFFERS]
            OBVIOUS
        <3>1. PICK s : s = ((printed + k - 1) % MAX_BUFFERS)
            OBVIOUS
        <3>2. s # j[p]
            BY <2>1, <3>1, SlotIsApart
        <3>3. s \in Slots
            <4>1. printed + k - 1 \in Nat
                BY DEF SingleInv, TypeOK
            <4> QED
                BY <3>1, <4>1, ModRange, SizeAssumption DEF Slots
        <3>4. buf'[s] = buf[s]
            BY <1>3, <3>2, <3>3 DEF BeginSprintf, EndSprintf, SingleInv, TypeOK
        <3> QED
            BY <3>1, <3>4
    <2> QED
        BY <2>1, <2>2, <2>3, QueueStays
<1>4. CASE AdvanceIndex(p)
    <2>1. /\ pc[p] = "advance_index" /\ pc'[p] = "post_mutex" /\ claimed' = claimed + 1
          /\ UNCHANGED <<printed, lastPrinted, buf>>
        BY <1>4 DEF AdvanceIndex, SingleInv, TypeOK
    <2>2. Announced' = Announced
        BY <2>1, AnnouncedIs, AnnouncedWillBe DEF SingleInv, TypeOK, One
    <2> QED
        BY <2>1, <2>2, QueueStays
<1>5. CASE WaitBuffer(p) \/ LockIndex(p) \/ ReadIndex(p) \/ UnlockIndex(p) \/ CreateProducer(p)
           \/ WaitSignal \/ Pause \/ ReleaseBuffer \/ Cancelled \/ CreateSpooler \/ JoinProducers
           \/ Poll \/ CancelSpooler \/ DestroySemaphores \/ Exit \/ CreateFails \/ UNCHANGED vars
    <2>1. Claimers' = Claimers
        BY <1>5
        DEF SingleInv, TypeOK, Claimers, WaitBuffer, LockIndex, ReadIndex, UnlockIndex,
            CreateProducer, WaitSignal, Pause, ReleaseBuffer, Cancelled, CreateSpooler,
            JoinProducers, Poll, CancelSpooler, DestroySemaphores, Exit, CreateFails, vars
    <2>2. UNCHANGED <<claimed, printed, lastPrinted, buf>>
        BY <1>5
        DEF WaitBuffer, LockIndex, ReadIndex, UnlockIndex, CreateProducer, WaitSignal, Pause,
            ReleaseBuffer, Cancelled, CreateSpooler, JoinProducers, Poll, CancelSpooler,
            DestroySemaphores, Exit, CreateFails, vars
    <2> QED
        BY <2>1, <2>2, QueueStays DEF Announced
<1> QED
    BY <1>1, <1>2, <1>3, <1>4, <1>5 DEF Next, MainStep, SpoolerStep, ProducerStep, Terminated

\* With one producer, whatever the size of the ring and the number of strings, producer and
\* spooler are a bounded buffer: printf gets the strings in order, none skipped, repeated or
\* torn, and at most MAX_BUFFERS wait in the ring.
THEOREM SingleIsFifo ==
    ASSUME NEW p, Producers = {p}
    PROVE  Spec => ImplementsFifo
<1>1. Init => Fifo!Init
    <2> SUFFICES ASSUME Init PROVE Fifo!Init
        OBVIOUS
    <2>1. Claimers = {} /\ Cardinality(Claimers) = 0
        BY FS_EmptySet DEF Init, Claimers
    <2>2. Announced = 0 /\ printed = 0 /\ lastPrinted = Empty
        BY <2>1 DEF Init, Announced
    <2>3. InFlight = <<>>
        BY <2>2 DEF InFlight
    <2> QED
        BY <2>2, <2>3 DEF Fifo!Init
<1>2. OnlyInv /\ TypeOK /\ [Next]_vars => OnlyInv'
    BY OnlyStep
<1>3. SingleInv /\ SingleInv' /\ [Next]_vars => [Fifo!Next]_(Fifo!vars)
    BY FifoStep
<1>4. SingleInv <=> TypeOK /\ StageInv /\ Account /\ DistinctClaims /\ PrintIndexInv /\ OnlyInv
    BY DEF SingleInv
<1> QED
    BY <1>1, <1>2, <1>3, <1>4, SingleInit, PrintIndexStep, TypeCorrect, StageAlways,
       ClaimsAreDistinct, PTL
    DEF Spec, ImplementsFifo, Fifo!Spec

\* What the buffer promises, in its own terms: the queue holds the strings that follow the
\* last one received, and nothing else.
OrderInv ==
    /\ Announced \in 0 .. STRINGS /\ printed \in Nat
    /\ InFlight \in Seq(String) /\ Len(InFlight) = Announced - printed
    /\ \A k \in 1 .. Len(InFlight) : InFlight[k] = TheStrings[printed + k]
    /\ printed > 0 => lastPrinted = TheStrings[printed]

\* The n-th printf prints the n-th string.
PrintedInOrder == printed > 0 => printed <= STRINGS /\ lastPrinted = TheStrings[printed]

\* The strings to send are a sequence of STRINGS strings.
LEMMA StringsAre == TheStrings \in Seq(String) /\ Len(TheStrings) = STRINGS
<1>1. (CHOOSE q \in Producers : TRUE) \in Producers
    BY ProducersAssumption
<1>2. TheStrings \in [1 .. STRINGS -> String] /\ STRINGS \in Nat
    BY <1>1, SizeAssumption DEF TheStrings, String
<1> QED
    BY <1>2, SequenceOf

\* The steps of a bounded buffer keep its promise.
LEMMA OrderStep == OrderInv /\ [Fifo!Next]_(Fifo!vars) => OrderInv'
<1> SUFFICES ASSUME OrderInv, [Fifo!Next]_(Fifo!vars) PROVE OrderInv'
    OBVIOUS
<1>1. PICK q \in Seq(String) :
          /\ q = InFlight /\ Len(q) = Announced - printed
          /\ \A k \in 1 .. Len(q) : q[k] = TheStrings[printed + k]
    BY DEF OrderInv
<1>2. Announced \in Nat /\ printed \in Nat /\ Len(q) \in Nat
    BY <1>1 DEF OrderInv
<1>3. PICK r : r = InFlight'
    OBVIOUS
<1>4. CASE Fifo!Put
    <2>1. PICK e \in String : e = TheStrings[Announced + 1]
        BY <1>2, <1>4, StringsAre DEF Fifo!Put
    <2>2. /\ Announced < STRINGS /\ Announced' = Announced + 1 /\ r = Append(q, e)
          /\ UNCHANGED <<printed, lastPrinted>>
        BY <1>1, <1>3, <1>4, <2>1, StringsAre DEF Fifo!Put
    <2>3. /\ r \in Seq(String) /\ Len(r) = Len(q) + 1
          /\ r[Len(q) + 1] = e /\ \A k \in 1 .. Len(q) : r[k] = q[k]
        BY <2>2
    <2>4. \A k \in 1 .. Len(r) : r[k] = TheStrings[printed + k]
        <3>1. printed + (Len(q) + 1) = Announced + 1
            BY <1>1, <1>2
        <3> SUFFICES ASSUME NEW k \in 1 .. Len(r) PROVE r[k] = TheStrings[printed + k]
            OBVIOUS
        <3>2. CASE k = Len(q) + 1
            BY <2>1, <2>3, <3>1, <3>2
        <3>3. CASE k # Len(q) + 1
            BY <1>1, <1>2, <2>3, <3>3
        <3> QED
            BY <3>2, <3>3
    <2>5. Announced' \in 0 .. STRINGS /\ Len(r) = Announced' - printed
        BY <1>1, <1>2, <2>2, <2>3, SizeAssumption
    <2> QED
        BY <1>2, <1>3, <2>2, <2>3, <2>4, <2>5 DEF OrderInv
<1>5. CASE Fifo!Get
    <2>1. /\ q # <<>> /\ lastPrinted' = Head(q) /\ r = Tail(q) /\ printed' = printed + 1
          /\ Announced' = Announced
        BY <1>1, <1>3, <1>5 DEF Fifo!Get
    <2>2. /\ r \in Seq(String) /\ Len(r) = Len(q) - 1
          /\ \A k \in 1 .. Len(r) : r[k] = q[k + 1]
        BY <2>1, HeadTailProperties
    <2>3. Head(q) = q[1] /\ Len(q) >= 1
        BY <2>1
    <2>4. \A k \in 1 .. Len(r) : r[k] = TheStrings[printed' + k]
        <3> SUFFICES ASSUME NEW k \in 1 .. Len(r) PROVE r[k] = TheStrings[printed' + k]
            OBVIOUS
        <3>1. k + 1 \in 1 .. Len(q) /\ printed + (k + 1) = printed' + k
            BY <1>2, <2>1, <2>2
        <3> QED
            BY <1>1, <2>2, <3>1
    <2>5. lastPrinted' = TheStrings[printed']
        BY <1>1, <1>2, <2>1, <2>3
    <2>6. Len(r) = Announced' - printed' /\ printed' \in Nat
        BY <1>1, <1>2, <2>1, <2>2
    <2> QED
        BY <1>3, <2>1, <2>2, <2>4, <2>5, <2>6 DEF OrderInv
<1>6. CASE UNCHANGED Fifo!vars
    BY <1>6 DEF Fifo!vars, OrderInv
<1> QED
    BY <1>4, <1>5, <1>6 DEF Fifo!Next

\* With one producer the n-th printf prints the n-th string: the strings that are not ready,
\* torn or out of order need a second producer.
THEOREM SinglePrintsInOrder ==
    ASSUME NEW p, Producers = {p}
    PROVE  Spec => []PrintedInOrder
<1>1. Fifo!Init => OrderInv
    <2> SUFFICES ASSUME Fifo!Init PROVE OrderInv
        OBVIOUS
    <2>1. InFlight = <<>> /\ Announced = 0 /\ printed = 0
        BY DEF Fifo!Init
    <2> QED
        BY <2>1, SizeAssumption DEF OrderInv
<1>2. OrderInv => PrintedInOrder
    <2> SUFFICES ASSUME OrderInv PROVE PrintedInOrder
        OBVIOUS
    <2>1. Len(InFlight) \in Nat
        BY DEF OrderInv
    <2> QED
        BY <2>1, SizeAssumption DEF OrderInv, PrintedInOrder
<1>3. Spec => ImplementsFifo
    BY SingleIsFifo
<1> QED
    BY <1>1, <1>2, <1>3, OrderStep, PTL DEF ImplementsFifo, Fifo!Spec

\* When main gives up on the spooler, all strings were printed but at most the last one.
LastStringAtMost ==
    mainPc \in {"cancel", "destroy", "exit", "exited"} =>
        /\ printed \in {STRINGS - 1, STRINGS}
        /\ printed > 0 => lastPrinted = TheStrings[printed]

\* A producer that is done has made all its strings.
DoneInv == \A p \in Producers : pc[p] = "done" => count[p] = STRINGS

\* It is done when it has made them, and makes no more.
LEMMA DoneStep == TypeOK /\ DoneInv /\ [Next]_vars => DoneInv'
<1> SUFFICES ASSUME TypeOK, DoneInv, [Next]_vars PROVE DoneInv'
    OBVIOUS
<1>1. ASSUME NEW p \in Producers, ProducerStep(p) \/ CreateProducer(p)
      PROVE  DoneInv'
    BY <1>1
    DEF TypeOK, DoneInv, ProducerStep, WaitBuffer, LockIndex, ReadIndex, AdvanceIndex,
        UnlockIndex, BeginSprintf, EndSprintf, PostSignal, CreateProducer
<1>2. CASE UNCHANGED <<pc, count>>
    BY <1>2 DEF DoneInv
<1>3. SpoolerStep \/ CreateSpooler \/ JoinProducers \/ Poll \/ CancelSpooler \/ DestroySemaphores
         \/ Exit \/ CreateFails \/ UNCHANGED vars => UNCHANGED <<pc, count>>
    BY DEF SpoolerStep, WaitSignal, PrintString, Pause, ReleaseBuffer, Cancelled, CreateSpooler,
           JoinProducers, Poll, CancelSpooler, DestroySemaphores, Exit, CreateFails, vars
<1> QED
    BY <1>1, <1>2, <1>3 DEF Next, MainStep, Terminated

\* With one producer the shutdown leaves at most one string unprinted, the last: what
\* ShutdownIsOrderly says of calls is then true of strings.
THEOREM SingleLeavesOneString ==
    ASSUME NEW p, Producers = {p}
    PROVE  Spec => []LastStringAtMost
<1>1. Init => DoneInv
    BY DEF Init, DoneInv
<1>2. OnlyInv /\ TypeOK /\ [Next]_vars => OnlyInv'
    BY OnlyStep
<1>3. ASSUME TypeOK, DoneInv, OnlyInv, OrderlyShutdown, PrintedInOrder
      PROVE  LastStringAtMost
    BY <1>3, SizeAssumption DEF DoneInv, OnlyInv, OrderlyShutdown, PrintedInOrder, One,
       LastStringAtMost
<1> QED
    BY <1>1, <1>2, <1>3, DoneStep, SingleInit, TypeCorrect, ShutdownIsOrderly,
       SinglePrintsInOrder, PTL
    DEF Spec

------------------------------------------------------------------------------
(* NamedSpooler: runs that inherit what the earlier ones left *)

\* Buffers and signals of a run, wherever they are.
Total ==
    buffer_count_sem + Cardinality(Holding) + spool_signal_sem
      + One(spoolerPc \in {"print", "pause", "release"})

\* The semaphores give out no more than there is.
Within == Total <= MAX_BUFFERS /\ mutex_sem + Cardinality(InCritical) <= 1

\* The values that a run started now would find or make.
LegacyOf(n, value, initial) == IF n \in named THEN value ELSE initial
Legacy ==
    /\ LegacyOf(mutex, mutex_sem, 1) <= 1
    /\ LegacyOf(buffer_count, buffer_count_sem, MAX_BUFFERS)
         + LegacyOf(spool_signal, spool_signal_sem, 0) <= MAX_BUFFERS

\* The names exist from sem_open to sem_unlink, and threads only in between.
OpeningInv ==
    /\ opened < 3 =>
          /\ mainPc \in {"create_spooler", "failed"} /\ spoolerPc = "new"
          /\ \A p \in Producers : pc[p] = "new"
    /\ Running /\ mainPc \notin {"destroy", "exit"} => 1 .. opened \subseteq named

NamedInv ==
    /\ NamedTypeOK /\ CountInv /\ (Running => StageInv)
    /\ OpeningInv /\ Legacy /\ (opened = 3 => Within)

------------------------------------------------------------------------------
(* Spooler gives out no more than it takes *)

\* The sets that are counted are finite.
LEMMA CriticalFinite == IsFiniteSet(InCritical) /\ Cardinality(InCritical) \in Nat
<1>1. InCritical \in SUBSET Producers
    BY DEF InCritical
<1> QED
    BY <1>1, ProducersAssumption, FS_Subset, FS_CardinalityType

\* A step of Spooler does not raise what the mutex and the critical section add up to.
LEMMA MutexWithin ==
    ASSUME TypeOK, mutex_sem + Cardinality(InCritical) <= 1, [Next]_vars
    PROVE  mutex_sem' + Cardinality(InCritical') <= 1
<1> USE CriticalFinite
<1>1. ASSUME NEW p \in Producers, LockIndex(p)
      PROVE  mutex_sem' + Cardinality(InCritical') <= 1
    <2>1. p \notin InCritical /\ InCritical' = InCritical \cup {p}
        BY <1>1 DEF TypeOK, InCritical, LockIndex
    <2>2. Cardinality(InCritical') = Cardinality(InCritical) + 1
        BY <2>1, CountAdd
    <2> QED
        BY <1>1, <2>2 DEF TypeOK, LockIndex
<1>2. ASSUME NEW p \in Producers, UnlockIndex(p)
      PROVE  mutex_sem' + Cardinality(InCritical') <= 1
    <2>1. p \in InCritical /\ InCritical' = InCritical \ {p}
        BY <1>2 DEF TypeOK, InCritical, UnlockIndex
    <2>2. Cardinality(InCritical') = Cardinality(InCritical) - 1
        BY <2>1, CountRemove
    <2> QED
        BY <1>2, <2>2 DEF TypeOK, UnlockIndex
<1>3. CASE UNCHANGED mutex_sem /\ InCritical' = InCritical
    BY <1>3
<1>4. ASSUME NEW p \in Producers,
             WaitBuffer(p) \/ ReadIndex(p) \/ AdvanceIndex(p) \/ BeginSprintf(p)
               \/ EndSprintf(p) \/ PostSignal(p) \/ CreateProducer(p)
      PROVE  UNCHANGED mutex_sem /\ InCritical' = InCritical
    BY <1>4
    DEF TypeOK, InCritical, WaitBuffer, ReadIndex, AdvanceIndex, BeginSprintf, EndSprintf,
        PostSignal, CreateProducer
<1>5. ASSUME SpoolerStep \/ CreateSpooler \/ JoinProducers \/ Poll \/ CancelSpooler
               \/ DestroySemaphores \/ Exit \/ CreateFails \/ UNCHANGED vars
      PROVE  UNCHANGED mutex_sem /\ InCritical' = InCritical
    BY <1>5
    DEF InCritical, SpoolerStep, WaitSignal, PrintString, Pause, ReleaseBuffer, Cancelled,
        CreateSpooler, JoinProducers, Poll, CancelSpooler, DestroySemaphores, Exit, CreateFails,
        vars
<1> QED
    BY <1>1, <1>2, <1>3, <1>4, <1>5 DEF Next, ProducerStep, MainStep, Terminated

\* A step of Spooler does not raise the number of buffers and signals.
LEMMA TotalWithin ==
    ASSUME TypeOK, Total <= MAX_BUFFERS, [Next]_vars
    PROVE  Total' <= MAX_BUFFERS
<1> USE SizeAssumption, SetsFinite
<1>1. ASSUME NEW p \in Producers, WaitBuffer(p)
      PROVE  Total' <= MAX_BUFFERS
    <2>1. p \notin Holding /\ Holding' = Holding \cup {p}
        BY <1>1 DEF TypeOK, Holding, WaitBuffer
    <2>2. Cardinality(Holding') = Cardinality(Holding) + 1
        BY <2>1, CountAdd
    <2> QED
        BY <1>1, <2>2 DEF TypeOK, Total, WaitBuffer, One
<1>2. ASSUME NEW p \in Producers, PostSignal(p)
      PROVE  Total' <= MAX_BUFFERS
    <2>1. p \in Holding /\ Holding' = Holding \ {p}
        BY <1>2 DEF TypeOK, Holding, PostSignal
    <2>2. Cardinality(Holding') = Cardinality(Holding) - 1
        BY <2>1, CountRemove
    <2> QED
        BY <1>2, <2>2 DEF TypeOK, Total, PostSignal, One
<1>3. ASSUME NEW p \in Producers,
             LockIndex(p) \/ ReadIndex(p) \/ AdvanceIndex(p) \/ UnlockIndex(p)
               \/ BeginSprintf(p) \/ EndSprintf(p) \/ CreateProducer(p)
      PROVE  Total' <= MAX_BUFFERS
    <2>1. Holding' = Holding
        BY <1>3
        DEF TypeOK, Holding, LockIndex, ReadIndex, AdvanceIndex, UnlockIndex, BeginSprintf,
            EndSprintf, CreateProducer
    <2>2. UNCHANGED <<buffer_count_sem, spool_signal_sem, spoolerPc>>
        BY <1>3
        DEF LockIndex, ReadIndex, AdvanceIndex, UnlockIndex, BeginSprintf, EndSprintf,
            CreateProducer
    <2> QED
        BY <2>1, <2>2 DEF Total
<1>4. CASE SpoolerStep
    <2>1. Holding' = Holding
        BY <1>4
        DEF Holding, SpoolerStep, WaitSignal, PrintString, Pause, ReleaseBuffer, Cancelled
    <2> QED
        BY <1>4, <2>1
        DEF TypeOK, Total, SpoolerStep, WaitSignal, PrintString, Pause, ReleaseBuffer,
            Cancelled, One
<1>5. CASE CreateSpooler \/ JoinProducers \/ Poll \/ CancelSpooler \/ DestroySemaphores \/ Exit
           \/ CreateFails \/ UNCHANGED vars
    <2>1. Holding' = Holding /\ UNCHANGED <<buffer_count_sem, spool_signal_sem>>
        BY <1>5
        DEF Holding, CreateSpooler, JoinProducers, Poll, CancelSpooler, DestroySemaphores,
            Exit, CreateFails, vars
    <2>2. spoolerPc' \in {spoolerPc, "wait"}
        BY <1>5
        DEF CreateSpooler, JoinProducers, Poll, CancelSpooler, DestroySemaphores, Exit,
            CreateFails, vars
    <2> QED
        BY <2>1, <2>2 DEF TypeOK, Total, One
<1> QED
    BY <1>1, <1>2, <1>3, <1>4, <1>5 DEF Next, ProducerStep, MainStep, Terminated

\* So a run gives out no more than it had, whatever it had.
LEMMA WithinStep == TypeOK /\ Within /\ [Next]_vars => Within'
    BY MutexWithin, TotalWithin DEF Within

------------------------------------------------------------------------------
(* Runs *)

\* The first run opens what nobody made.
LEMMA NamedInitInv == NamedInit => NamedInv
<1> SUFFICES ASSUME NamedInit PROVE NamedInv
    OBVIOUS
<1>1. TypeOK /\ CountInv /\ StageInv
    BY TypeInit, BudgetInit DEF NamedInit
<1>2. NamedTypeOK
    BY <1>1, MaxRunsAssumption DEF NamedInit, NamedTypeOK
<1>3. OpeningInv
    BY DEF NamedInit, Init, OpeningInv
<1>4. Legacy
    BY SizeAssumption DEF NamedInit, Legacy, LegacyOf
<1> QED
    BY <1>1, <1>2, <1>3, <1>4 DEF NamedInit, NamedInv

\* Adding nothing keeps a bound.
LEMMA AddNone == \A a, b, n \in Nat : a <= n /\ b = 0 => a + b <= n
    OBVIOUS

\* A part of a bounded sum has the bound.
LEMMA LeaveOut == \A a, b, c, d, n \in Nat : a + b + c + d <= n => a + c <= n
    OBVIOUS

\* So has either of two.
LEMMA LeaveOne == \A a, b, n \in Nat : a + b <= n => a <= n
    OBVIOUS

\* A bound as an interval.
LEMMA UpTo == \A a, n \in Nat : a <= n => a \in 0 .. n
    OBVIOUS

\* Without threads there is nothing to count but the semaphores.
LEMMA IdleCounts ==
    ASSUME \A p \in Producers : pc[p] = "new", spoolerPc = "new"
    PROVE  /\ Cardinality(Holding) = 0 /\ Cardinality(InCritical) = 0
           /\ One(spoolerPc \in {"print", "pause", "release"}) = 0
<1>1. Holding = {} /\ InCritical = {}
    BY DEF Holding, InCritical
<1> QED
    BY <1>1, FS_EmptySet DEF One

\* sem_open gives the legacy to the run.
LEMMA OpenStep == NamedInv /\ OpenSemaphore => NamedInv'
<1> SUFFICES ASSUME NamedInv, OpenSemaphore
             PROVE  NamedInv'
    OBVIOUS
<1> USE SizeAssumption
<1>1. /\ opened \in {0, 1, 2} /\ opened' = opened + 1 /\ named' = named \cup {opened + 1}
      /\ named \subseteq {1, 2, 3} /\ 1 .. opened \subseteq named
      /\ mainPc = "create_spooler" /\ spoolerPc = "new" /\ \A p \in Producers : pc[p] = "new"
      /\ UNCHANGED <<pc, spoolerPc, mainPc, cancelRequested, runs>>
    BY DEF NamedInv, NamedTypeOK, OpeningInv, OpenSemaphore, Running, Names, mutex, buffer_count,
           spool_signal
<1>2. 1 .. opened' \subseteq named'
    BY <1>1
<1>3. /\ mutex_sem' \in Nat /\ buffer_count_sem' \in Nat /\ spool_signal_sem' \in Nat
      /\ LegacyOf(mutex, mutex_sem, 1)' = LegacyOf(mutex, mutex_sem, 1)
      /\ LegacyOf(buffer_count, buffer_count_sem, MAX_BUFFERS)'
           = LegacyOf(buffer_count, buffer_count_sem, MAX_BUFFERS)
      /\ LegacyOf(spool_signal, spool_signal_sem, 0)' = LegacyOf(spool_signal, spool_signal_sem, 0)
    BY <1>1 DEF NamedInv, NamedTypeOK, TypeOK, OpenSemaphore, ValueOf, LegacyOf, mutex,
                buffer_count, spool_signal
<1>4. Legacy'
    BY <1>3 DEF NamedInv, Legacy
<1>5. NamedTypeOK' /\ CountInv'
    <2>1. TypeOK'
        BY <1>3 DEF NamedInv, NamedTypeOK, TypeOK, OpenSemaphore
    <2>2. named' \subseteq Names /\ opened' \in 0 .. 3 /\ runs' \in 1 .. MaxRuns
        BY <1>1 DEF NamedInv, NamedTypeOK, Names, mutex, buffer_count, spool_signal
    <2> QED
        BY <2>1, <2>2 DEF NamedInv, NamedTypeOK, CountInv, OpenSemaphore
<1>6. StageInv' /\ OpeningInv'
    BY <1>1, <1>2 DEF NamedInv, StageInv, OpeningInv, Running
<1>7. ASSUME opened' = 3 PROVE Within'
    <2>1. 1 \in named' /\ 2 \in named' /\ 3 \in named'
        <3>1. 1 \in 1 .. 3 /\ 2 \in 1 .. 3 /\ 3 \in 1 .. 3
            OBVIOUS
        <3> QED
            BY <1>2, <1>7, <3>1
    <2>2. mutex_sem' <= 1 /\ buffer_count_sem' + spool_signal_sem' <= MAX_BUFFERS
        BY <1>4, <2>1 DEF Legacy, LegacyOf, mutex, buffer_count, spool_signal
    <2>3. /\ Cardinality(Holding') = 0 /\ Cardinality(InCritical') = 0
        <3>1. Holding' = Holding /\ InCritical' = InCritical
            BY <1>1 DEF Holding, InCritical
        <3> QED
            BY <1>1, <3>1, IdleCounts
    <2>4. Total' = buffer_count_sem' + spool_signal_sem'
        BY <1>1, <1>3, <2>3 DEF Total, One
    <2>5. Total' <= MAX_BUFFERS
        BY <2>2, <2>4
    <2>6. mutex_sem' + Cardinality(InCritical') <= 1
        <3>1. mutex_sem' \in Nat /\ 0 \in Nat /\ 1 \in Nat
            BY <1>3
        <3>2. mutex_sem' <= 1 /\ Cardinality(InCritical') \in Nat
            BY <2>2, <2>3
        <3> QED
            BY <2>3, <3>1, <3>2, AddNone, Zenon
    <2> QED
        BY <2>5, <2>6 DEF Within
<1> QED
    BY <1>4, <1>5, <1>6, <1>7 DEF NamedInv

\* sem_unlink happens when no signal is left, so what is made anew is the whole ring.
LEMMA UnlinkStep == NamedInv /\ Unlink => NamedInv'
<1> SUFFICES ASSUME NamedInv, Unlink
             PROVE  NamedInv'
    OBVIOUS
<1> USE SizeAssumption
<1>1. /\ mainPc = "destroy" /\ Running /\ opened = 3 /\ spool_signal_sem = 0
      /\ mainPc' \in {"destroy", "exit"}
      /\ UNCHANGED <<sems, ringVars, pc, locals, printVars, spoolerPc, cancelRequested, opened,
                     runs>>
    BY DEF NamedInv, NamedTypeOK, OpeningInv, StageInv, Unlink, Running
<1>2. named' \subseteq named
    BY DEF Unlink
<1>3. NamedTypeOK' /\ CountInv'
    BY <1>1, <1>2 DEF NamedInv, NamedTypeOK, TypeOK, MainPc, CountInv
<1>4. StageInv' /\ OpeningInv'
    BY <1>1 DEF NamedInv, StageInv, OpeningInv, Running
<1>5. Legacy'
    <2>1. /\ buffer_count_sem \in Nat /\ UNCHANGED <<mutex_sem, buffer_count_sem, spool_signal_sem>>
        BY <1>1 DEF NamedInv, NamedTypeOK, TypeOK
    <2> QED
        BY <1>1, <1>2, <2>1 DEF NamedInv, Legacy, LegacyOf
<1>6. Within'
    <2>1. Holding' = Holding /\ InCritical' = InCritical
        BY <1>1 DEF Holding, InCritical
    <2> QED
        BY <1>1, <2>1 DEF NamedInv, Within, Total
<1> QED
    BY <1>3, <1>4, <1>5, <1>6 DEF NamedInv

\* A step of the threads or of main moves buffers within the run, and when a name is gone
\* no signal is left.
LEMMA ThreadsStep == NamedInv /\ opened = 3 /\ Running /\ Next /\ UNCHANGED namedVars => NamedInv'
<1> SUFFICES ASSUME NamedInv, opened = 3, Running, Next, UNCHANGED namedVars
             PROVE  NamedInv'
    OBVIOUS
<1> USE SizeAssumption
<1>1. TypeOK' /\ CountInv' /\ StageInv' /\ Within'
    BY TypeStep, StageStep, WithinStep DEF NamedInv, NamedTypeOK
<1>2. UNCHANGED <<named, opened, runs>>
    BY DEF namedVars
<1>3. NamedTypeOK'
    BY <1>1, <1>2 DEF NamedInv, NamedTypeOK
<1>4. mainPc \in {"destroy", "exit"} => mainPc' \in {"destroy", "exit", "exited"}
    BY DEF Next, ProducerStep, WaitBuffer, LockIndex, ReadIndex, AdvanceIndex, UnlockIndex,
           BeginSprintf, EndSprintf, PostSignal, SpoolerStep, WaitSignal, PrintString, Pause,
           ReleaseBuffer, Cancelled, MainStep, CreateProducer, CreateSpooler, JoinProducers,
           Poll, CancelSpooler, DestroySemaphores, Exit, CreateFails, Terminated, vars
<1>5. OpeningInv'
    BY <1>2, <1>4 DEF NamedInv, OpeningInv, Running
<1>6. Legacy'
    <2>1. /\ mutex_sem' \in Nat /\ buffer_count_sem' \in Nat /\ spool_signal_sem' \in Nat
          /\ Cardinality(Holding') \in Nat /\ Cardinality(InCritical') \in Nat
        <3>1. Holding' \in SUBSET Producers /\ InCritical' \in SUBSET Producers
            BY DEF Holding, InCritical
        <3> QED
            BY <1>1, <3>1, ProducersAssumption, FS_Subset, FS_CardinalityType DEF TypeOK
    <2>2. mutex_sem' <= 1 /\ buffer_count_sem' + spool_signal_sem' <= MAX_BUFFERS
        <3>1. mutex_sem' + Cardinality(InCritical') <= 1 /\ Total' <= MAX_BUFFERS
            BY <1>1 DEF Within
        <3>2. mutex_sem' <= 1
            BY <2>1, <3>1
        <3> DEFINE inPrint == One(spoolerPc' \in {"print", "pause", "release"})
        <3>3. inPrint \in Nat /\ MAX_BUFFERS \in Nat
            BY DEF One
        <3>4. buffer_count_sem' + Cardinality(Holding') + spool_signal_sem' + inPrint
                <= MAX_BUFFERS
            BY <3>1 DEF Total
        <3> HIDE DEF inPrint
        <3>5. buffer_count_sem' + spool_signal_sem' <= MAX_BUFFERS
            BY <2>1, <3>3, <3>4, LeaveOut, Zenon
        <3> QED
            BY <3>2, <3>5
    <2>3. CASE mainPc \notin {"destroy", "exit"}
        <3>1. 1 .. 3 \subseteq named'
            BY <1>2, <2>3 DEF NamedInv, OpeningInv
        <3>2. 1 \in 1 .. 3 /\ 2 \in 1 .. 3 /\ 3 \in 1 .. 3
            OBVIOUS
        <3> QED
            BY <2>2, <3>1, <3>2 DEF Legacy, LegacyOf, mutex, buffer_count, spool_signal
    <2>4. CASE mainPc \in {"destroy", "exit"}
        <3>1. spool_signal_sem' = 0
            BY <1>1, <1>4, <2>4 DEF StageInv
        <3>2. LegacyOf(mutex, mutex_sem, 1)' <= 1
            BY <2>2 DEF LegacyOf
        <3>3. LegacyOf(spool_signal, spool_signal_sem, 0)' = 0
            BY <3>1 DEF LegacyOf
        <3>4. LegacyOf(buffer_count, buffer_count_sem, MAX_BUFFERS)' \in 0 .. MAX_BUFFERS
            <4>1. MAX_BUFFERS \in Nat
                OBVIOUS
            <4>2. buffer_count_sem' \in 0 .. MAX_BUFFERS
                BY <2>1, <2>2, <4>1, LeaveOne, UpTo, Zenon
            <4>3. MAX_BUFFERS \in 0 .. MAX_BUFFERS
                OBVIOUS
            <4> QED
                BY <4>2, <4>3 DEF LegacyOf
        <3> QED
            BY <3>2, <3>3, <3>4 DEF Legacy
    <2> QED
        BY <2>3, <2>4
<1> QED
    BY <1>1, <1>3, <1>5, <1>6 DEF NamedInv

\* A death changes nothing that outlives the process.
LEMMA KillStep == NamedInv /\ Kill => NamedInv'
<1> SUFFICES ASSUME NamedInv, Kill
             PROVE  NamedInv'
    OBVIOUS
<1>1. /\ mainPc' = "failed" /\ ~Running'
      /\ UNCHANGED <<sems, ringVars, pc, locals, printVars, spoolerPc, cancelRequested, named,
                     opened, runs>>
    BY DEF Kill, Running, namedVars
<1>2. NamedTypeOK' /\ CountInv'
    BY <1>1 DEF NamedInv, NamedTypeOK, TypeOK, MainPc, CountInv
<1>3. OpeningInv' /\ Legacy'
    BY <1>1 DEF NamedInv, OpeningInv, Legacy, LegacyOf
<1>4. opened = 3 => Within'
    BY <1>1 DEF NamedInv, Within, Total, Holding, InCritical
<1> QED
    BY <1>1, <1>2, <1>3, <1>4 DEF NamedInv

\* A run starts with no thread and no semaphore open.
LEMMA RestartStep == NamedInv /\ Restart => NamedInv'
<1> SUFFICES ASSUME NamedInv, Restart
             PROVE  NamedInv'
    OBVIOUS
<1> USE SizeAssumption
<1>1. /\ opened' = 0 /\ runs' = runs + 1 /\ runs < MaxRuns /\ mainPc' = "create_spooler"
      /\ spoolerPc' = "new" /\ cancelRequested' = FALSE
      /\ pc' = [p \in Producers |-> "new"] /\ count' = [p \in Producers |-> 0]
      /\ UNCHANGED <<mutex_sem, buffer_count_sem, spool_signal_sem, named>>
    BY DEF Restart
<1>2. TypeOK'
    <2>1. Empty \in Content /\ 0 \in Slots /\ 0 \in 0 .. STRINGS
        BY DEF Content, Slots
    <2> QED
        BY <1>1, <2>1 DEF NamedInv, NamedTypeOK, TypeOK, Restart, ProducerPc, SpoolerPc, MainPc
<1>3. NamedTypeOK' /\ CountInv'
    BY <1>1, <1>2, MaxRunsAssumption DEF NamedInv, NamedTypeOK, CountInv
<1>4. StageInv' /\ OpeningInv'
    BY <1>1 DEF StageInv, OpeningInv
<1>5. Legacy'
    BY <1>1 DEF NamedInv, Legacy, LegacyOf
<1> QED
    BY <1>1, <1>3, <1>4, <1>5 DEF NamedInv

\* Every step keeps the invariant.
LEMMA NamedStep == NamedInv /\ [NamedNext]_allVars => NamedInv'
<1> SUFFICES ASSUME NamedInv, [NamedNext]_allVars
             PROVE  NamedInv'
    OBVIOUS
<1>1. ASSUME NEW p \in Producers, Threads(ProducerStep(p))
      PROVE  NamedInv'
    <2>1. Running /\ Next
        BY <1>1 DEF Threads, Next, ProducerStep, WaitBuffer, LockIndex, ReadIndex, AdvanceIndex,
                    UnlockIndex, BeginSprintf, EndSprintf, PostSignal
    <2> QED
        BY <1>1, <2>1, ThreadsStep DEF Threads
<1>2. CASE Threads(SpoolerStep)
    <2>1. Running /\ Next
        BY <1>2 DEF Threads, Next, SpoolerStep, WaitSignal, PrintString, Pause, ReleaseBuffer,
                    Cancelled
    <2> QED
        BY <1>2, <2>1, ThreadsStep DEF Threads
<1>3. CASE Threads(NamedMain)
    <2>1. Running /\ Next
        BY <1>3 DEF Threads, NamedMain, Next, MainStep, CreateProducer, CreateSpooler,
                    JoinProducers, Poll, CancelSpooler, Exit, Running
    <2> QED
        BY <1>3, <2>1, ThreadsStep DEF Threads
<1>4. CASE UNCHANGED allVars
    BY <1>4
    DEF allVars, vars, namedVars, NamedInv, NamedTypeOK, TypeOK, CountInv, StageInv, Running,
        OpeningInv, Legacy, LegacyOf, Within, Total, Holding, InCritical
<1> QED
    BY <1>1, <1>2, <1>3, <1>4, OpenStep, UnlinkStep, KillStep, RestartStep
    DEF NamedNext, MainProgress

------------------------------------------------------------------------------
(* Theorems *)

\* The invariant holds in every run.
LEMMA NamedAlways == NamedSpec => []NamedInv
<1>1. NamedInit => NamedInv
    BY NamedInitInv
<1>2. NamedInv /\ [NamedNext]_allVars => NamedInv'
    BY NamedStep
<1> QED
    BY <1>1, <1>2, PTL DEF NamedSpec

\* In every run, whatever the earlier ones left, every variable keeps its type and no index
\* leaves the ring.
THEOREM NamedTypeCorrect == NamedSpec => []NamedTypeOK
<1>1. NamedInv => NamedTypeOK
    BY DEF NamedInv
<1> QED
    BY <1>1, NamedAlways, PTL

\* However many runs are killed, and wherever, the next never has more buffers than the
\* ring nor more than one producer in the critical section.
THEOREM CrashesNeverAdd == NamedSpec => []CrashNeverAdds
<1>1. NamedInv => CrashNeverAdds
    BY DEF NamedInv, Within, Total, CrashNeverAdds
<1> QED
    BY <1>1, NamedAlways, PTL
==============================================================================
