--------------------------- MODULE ClientPoolProofs ---------------------------
(***************************************************************************)
(* Proofs about ClientPool for every pool size, every set of clients and   *)
(* every set of descriptors.                                               *)
(*                                                                         *)
(* The inductive invariant follows a connection through its stages: in the *)
(* backlog, in main's hands, in a thread's.  At each stage one party holds *)
(* the descriptor and, from the claim on, the entry of the pool.  That     *)
(* only main turns entries busy is what makes its non-atomic scan right.   *)
(***************************************************************************)
EXTENDS ClientPool, TLAPS

USE DEF poolVars, scanVars, threadVars, clientVars, MainGoto, WorkerGoto, ClientGoto,
        ServerDies, Alive

\* main holds the connection newfd.
Holding == mainPc \in {"scan", "claim", "discard", "create"}

\* Threads, running or not created, that hold an entry.
Holders == Serving \cup lost

\* A client before main has accepted it is nobody else's.
Fresh(c) == worker[c] = "none" /\ c \notin lost

WaitingInv ==
    /\ \A c \in Clients :
          c \in backlog \/ client[c] = "new" => Fresh(c) /\ \A f \in Fds : conn[f] # c
    /\ \A c \in backlog : client[c] # "new"

\* The connection in main's hands.
HandInv ==
    Holding => /\ newfd \in Fds /\ conn[newfd] \in Clients
               /\ Fresh(conn[newfd])

\* A connection has one descriptor.
ConnInv == \A f, g \in Fds : conn[f] = conn[g] /\ conn[f] # None => f = g

\* The entry in main's hands.
ClaimInv ==
    /\ mainPc = "claim" => free[i]
    /\ mainPc = "create" => /\ ~free[i] /\ fd[i] = newfd
                            /\ \A c \in Holders : entry[c] # i

UsingInv == \A c \in Using : fd[entry[c]] \in Fds /\ conn[fd[entry[c]]] = c

HolderInv ==
    /\ \A c \in lost : worker[c] = "none"
    /\ \A c, d \in Holders : c # d => entry[c] # entry[d]
    /\ \A c \in Holders : ~free[entry[c]]
    /\ \A k \in Index : Alive /\ ~free[k] =>
          (\E c \in Holders : entry[c] = k) \/ (mainPc = "create" /\ i = k)

\* What main has scanned was busy when it accepted, and what was free still is.
ScanInv ==
    /\ mainPc = "scan" => /\ \A k \in freeAtAccept : free[k] /\ k >= i
    /\ mainPc = "discard" => freeAtAccept = {}

IInv ==
    /\ TypeOK /\ WaitingInv /\ HandInv /\ ConnInv /\ ClaimInv /\ UsingInv /\ HolderInv
    /\ ScanInv

------------------------------------------------------------------------------
(* The steps, one lemma each: one step of the proof per part of the invariant *)

\* bind and listen: main has no connection yet.
LEMMA BindStep ==
    ASSUME IInv, Bind
    PROVE  IInv'
<1> USE LenAssumption, ClientsAssumption DEF IInv, TypeOK, Index, Bind
<1>1. TypeOK'
    OBVIOUS
<1>2. WaitingInv'
    BY DEF WaitingInv, Fresh
<1>3. HandInv'
    BY DEF HandInv, Holding, Fresh
<1>4. ConnInv'
    BY DEF ConnInv
<1>5. ClaimInv'
    BY DEF ClaimInv, Holders, Serving
<1>6. UsingInv'
    BY DEF UsingInv, Using
<1>7. HolderInv'
    <2>1. Holders' = Holders
        BY DEF Holders, Serving
    <2> QED
        BY <2>1 DEF HolderInv
<1>8. ScanInv'
    BY DEF ScanInv
<1> QED
    BY <1>1, <1>2, <1>3, <1>4, <1>5, <1>6, <1>7, <1>8 DEF IInv

\* accept: the connection and its descriptor go from the backlog to the hands of main.
LEMMA AcceptStep ==
    ASSUME IInv, NEW c \in Clients, Accept(c)
    PROVE  IInv'
<1> USE LenAssumption, ClientsAssumption DEF IInv, TypeOK, Index, Accept
<1>0. PICK f \in Fds : conn[f] = None /\ conn' = [conn EXCEPT ![f] = c] /\ newfd' = f
    OBVIOUS
<1>1. TypeOK'
    OBVIOUS
<1>2. WaitingInv'
    BY <1>0 DEF WaitingInv, Fresh
<1>3. HandInv'
    BY <1>0 DEF HandInv, Holding, Fresh, WaitingInv
<1>4. ConnInv'
    BY <1>0 DEF ConnInv, WaitingInv, Fresh
<1>5. ClaimInv'
    BY DEF ClaimInv, Holders, Serving
<1>6. UsingInv'
    BY <1>0 DEF UsingInv, Using
<1>7. HolderInv'
    <2>1. Holders' = Holders
        BY DEF Holders, Serving
    <2> QED
        BY <2>1 DEF HolderInv
<1>8. ScanInv'
    BY DEF ScanInv
<1> QED
    BY <1>1, <1>2, <1>3, <1>4, <1>5, <1>6, <1>7, <1>8 DEF IInv

\* The scan goes past an entry only if it is busy, so it was busy at accept too.
LEMMA ScanStep ==
    ASSUME IInv, Scan
    PROVE  IInv'
<1> USE LenAssumption, ClientsAssumption DEF IInv, TypeOK, Index, Scan
<1>1. TypeOK'
    OBVIOUS
<1>2. WaitingInv'
    BY DEF WaitingInv, Fresh
<1>3. HandInv'
    BY DEF HandInv, Holding, Fresh
<1>4. ConnInv'
    BY DEF ConnInv
<1>5. ClaimInv'
    BY DEF ClaimInv, Holders, Serving
<1>6. UsingInv'
    BY DEF UsingInv, Using
<1>7. HolderInv'
    <2>1. Holders' = Holders
        BY DEF Holders, Serving
    <2> QED
        BY <2>1 DEF HolderInv
<1>8. ScanInv'
    <2>1. CASE mainPc' = "scan"
        BY <2>1 DEF ScanInv
    <2>2. CASE mainPc' = "discard"
        <3>1. \A k \in freeAtAccept : k >= i /\ k # i /\ i + 1 = LEN /\ k <= LEN - 1 /\ k \in Int
            BY <2>2 DEF ScanInv
        <3> QED
            BY <2>2, <3>1 DEF ScanInv
    <2> QED
        BY <2>1, <2>2 DEF ScanInv
<1> QED
    BY <1>1, <1>2, <1>3, <1>4, <1>5, <1>6, <1>7, <1>8 DEF IInv

\* The pool is full: main closes the descriptor in its hands.
LEMMA DiscardStep ==
    ASSUME IInv, Discard
    PROVE  IInv'
<1> USE LenAssumption, ClientsAssumption DEF IInv, TypeOK, Index, Discard
<1>1. TypeOK'
    OBVIOUS
<1>2. WaitingInv'
    BY DEF WaitingInv, Fresh
<1>3. HandInv'
    BY DEF HandInv, Holding, Fresh
<1>4. ConnInv'
    BY DEF ConnInv
<1>5. ClaimInv'
    BY DEF ClaimInv, Holders, Serving
<1>6. UsingInv'
    BY DEF UsingInv, Using, HandInv, Holding, Fresh
<1>7. HolderInv'
    <2>1. Holders' = Holders
        BY DEF Holders, Serving
    <2> QED
        BY <2>1 DEF HolderInv
<1>8. ScanInv'
    BY DEF ScanInv
<1> QED
    BY <1>1, <1>2, <1>3, <1>4, <1>5, <1>6, <1>7, <1>8 DEF IInv

\* main marks the entry it found: it was free, so nobody holds it.
LEMMA ClaimStep ==
    ASSUME IInv, Claim
    PROVE  IInv'
<1> USE LenAssumption, ClientsAssumption DEF IInv, TypeOK, Index, Claim
<1>1. TypeOK'
    OBVIOUS
<1>2. WaitingInv'
    BY DEF WaitingInv, Fresh
<1>3. HandInv'
    BY DEF HandInv, Holding, Fresh
<1>4. ConnInv'
    BY DEF ConnInv
<1>5. ClaimInv'
    BY DEF ClaimInv, Holders, Serving, HolderInv
<1>6. UsingInv'
    BY DEF UsingInv, Using, ClaimInv, HolderInv, Holders, Serving
<1>7. HolderInv'
    <2>1. Holders' = Holders
        BY DEF Holders, Serving
    <2> QED
        BY <2>1 DEF HolderInv
<1>8. ScanInv'
    BY DEF ScanInv
<1> QED
    BY <1>1, <1>2, <1>3, <1>4, <1>5, <1>6, <1>7, <1>8 DEF IInv

\* The connection and its entry go from the hands of main to a new thread.
LEMMA CreateThreadStep ==
    ASSUME IInv, CreateThread
    PROVE  IInv'
<1> USE LenAssumption, ClientsAssumption DEF IInv, TypeOK, Index, CreateThread
<1>1. TypeOK'
    OBVIOUS
<1>2. WaitingInv'
    BY DEF WaitingInv, Fresh, HandInv, Holding
<1>3. HandInv'
    BY DEF HandInv, Holding, Fresh
<1>4. ConnInv'
    BY DEF ConnInv
<1>5. ClaimInv'
    BY DEF ClaimInv, Holders, Serving
<1>6. UsingInv'
    BY DEF UsingInv, Using, HandInv, Holding, Fresh, ClaimInv
<1>7. HolderInv'
    <2> DEFINE c == conn[newfd]
    <2>1. c \in Clients /\ worker[c] = "none" /\ c \notin lost
        BY DEF HandInv, Holding, Fresh
    <2>2. Holders' = Holders \cup {c} /\ c \notin Holders
        BY <2>1 DEF Holders, Serving
    <2>3. entry' = [entry EXCEPT ![c] = i] /\ free' = free
        OBVIOUS
    <2>4. /\ \A d \in Holders : entry'[d] = entry[d] /\ entry[d] # i
          /\ entry'[c] = i /\ ~free[i]
        BY <2>1, <2>2, <2>3 DEF ClaimInv, Holders, Serving
    <2>5. \A d \in lost' : worker'[d] = "none"
        BY <2>1 DEF HolderInv
    <2> HIDE DEF c
    <2>6. \A d, e \in Holders' : d # e => entry'[d] # entry'[e]
        BY <2>2, <2>4 DEF HolderInv
    <2>7. \A d \in Holders' : ~free'[entry'[d]]
        BY <2>2, <2>3, <2>4 DEF HolderInv
    <2>8. \A k \in Index : ~free'[k] => \E d \in Holders' : entry'[d] = k
        BY <2>2, <2>3, <2>4 DEF HolderInv
    <2> QED
        BY <2>5, <2>6, <2>7, <2>8 DEF HolderInv
<1>8. ScanInv'
    BY DEF ScanInv
<1> QED
    BY <1>1, <1>2, <1>3, <1>4, <1>5, <1>6, <1>7, <1>8 DEF IInv

\* No thread is created: the entry stays with the connection that was lost.
LEMMA CreateFailsStep ==
    ASSUME IInv, CreateFails
    PROVE  IInv'
<1> USE LenAssumption, ClientsAssumption DEF IInv, TypeOK, Index, CreateFails
<1>1. TypeOK'
    BY DEF HandInv, Holding
<1>2. WaitingInv'
    BY DEF WaitingInv, Fresh, HandInv, Holding
<1>3. HandInv'
    BY DEF HandInv, Holding, Fresh
<1>4. ConnInv'
    BY DEF ConnInv
<1>5. ClaimInv'
    BY DEF ClaimInv, Holders, Serving
<1>6. UsingInv'
    BY DEF UsingInv, Using, HandInv, Holding, Fresh
<1>7. HolderInv'
    <2> DEFINE c == conn[newfd]
    <2>1. c \in Clients /\ worker[c] = "none" /\ c \notin lost
        BY DEF HandInv, Holding, Fresh
    <2>2. Holders' = Holders \cup {c} /\ c \notin Holders
        BY <2>1 DEF Holders, Serving
    <2>3. entry' = [entry EXCEPT ![c] = i] /\ free' = free
        OBVIOUS
    <2>4. /\ \A d \in Holders : entry'[d] = entry[d] /\ entry[d] # i
          /\ entry'[c] = i /\ ~free[i]
        BY <2>1, <2>2, <2>3 DEF ClaimInv, Holders, Serving
    <2>5. \A d \in lost' : worker'[d] = "none"
        BY <2>1 DEF HolderInv
    <2> HIDE DEF c
    <2>6. \A d, e \in Holders' : d # e => entry'[d] # entry'[e]
        BY <2>2, <2>4 DEF HolderInv
    <2>7. \A d \in Holders' : ~free'[entry'[d]]
        BY <2>2, <2>3, <2>4 DEF HolderInv
    <2>8. \A k \in Index : ~free'[k] => \E d \in Holders' : entry'[d] = k
        BY <2>2, <2>3, <2>4 DEF HolderInv
    <2> QED
        BY <2>5, <2>6, <2>7, <2>8 DEF HolderInv
<1>8. ScanInv'
    BY DEF ScanInv
<1> QED
    BY <1>1, <1>2, <1>3, <1>4, <1>5, <1>6, <1>7, <1>8 DEF IInv

\* read of a thread: what it finds in its entry is its own connection.
LEMMA ReadStep ==
    ASSUME IInv, NEW c \in Clients, Read(c)
    PROVE  IInv'
<1> USE LenAssumption, ClientsAssumption DEF IInv, TypeOK, Index, Read
<1>1. TypeOK'
    OBVIOUS
<1>2. WaitingInv'
    BY DEF WaitingInv, Fresh
<1>3. HandInv'
    BY DEF HandInv, Holding, Fresh
<1>4. ConnInv'
    BY DEF ConnInv
<1>5. ClaimInv'
    BY DEF ClaimInv, Holders, Serving
<1>6. UsingInv'
    BY DEF UsingInv, Using
<1>7. HolderInv'
    <2>1. Holders' = Holders
        BY DEF Holders, Serving
    <2> QED
        BY <2>1 DEF HolderInv
<1>8. ScanInv'
    BY DEF ScanInv
<1> QED
    BY <1>1, <1>2, <1>3, <1>4, <1>5, <1>6, <1>7, <1>8 DEF IInv

\* write of a thread.
LEMMA WriteStep ==
    ASSUME IInv, NEW c \in Clients, Write(c)
    PROVE  IInv'
<1> USE LenAssumption, ClientsAssumption DEF IInv, TypeOK, Index, Write
<1>1. TypeOK'
    BY DEF UsingInv, Using, Peer
<1>2. WaitingInv'
    BY DEF WaitingInv, Fresh
<1>3. HandInv'
    BY DEF HandInv, Holding, Fresh
<1>4. ConnInv'
    BY DEF ConnInv
<1>5. ClaimInv'
    BY DEF ClaimInv, Holders, Serving
<1>6. UsingInv'
    BY DEF UsingInv, Using
<1>7. HolderInv'
    <2>1. Holders' = Holders
        BY DEF Holders, Serving
    <2> QED
        BY <2>1 DEF HolderInv
<1>8. ScanInv'
    BY DEF ScanInv
<1> QED
    BY <1>1, <1>2, <1>3, <1>4, <1>5, <1>6, <1>7, <1>8 DEF IInv

\* close of a thread: the descriptor is free, and the entry still busy.
LEMMA CloseStep ==
    ASSUME IInv, NEW c \in Clients, Close(c)
    PROVE  IInv'
<1> USE LenAssumption, ClientsAssumption DEF IInv, TypeOK, Index, Close
<1>1. TypeOK'
    OBVIOUS
<1>2. WaitingInv'
    BY DEF WaitingInv, Fresh
<1>3. HandInv'
    BY DEF HandInv, Holding, Fresh, UsingInv, Using
<1>4. ConnInv'
    BY DEF ConnInv
<1>5. ClaimInv'
    BY DEF ClaimInv, Holders, Serving
<1>6. UsingInv'
    BY DEF UsingInv, Using
<1>7. HolderInv'
    <2>1. Holders' = Holders
        BY DEF Holders, Serving
    <2> QED
        BY <2>1 DEF HolderInv
<1>8. ScanInv'
    BY DEF ScanInv
<1> QED
    BY <1>1, <1>2, <1>3, <1>4, <1>5, <1>6, <1>7, <1>8 DEF IInv

\* A thread ends: its entry is free and nobody else held it.
LEMMA ReleaseStep ==
    ASSUME IInv, NEW c \in Clients, Release(c)
    PROVE  IInv'
<1> USE LenAssumption, ClientsAssumption DEF IInv, TypeOK, Index, Release
<1>1. TypeOK'
    OBVIOUS
<1>2. WaitingInv'
    BY DEF WaitingInv, Fresh
<1>3. HandInv'
    BY DEF HandInv, Holding, Fresh
<1>4. ConnInv'
    BY DEF ConnInv
<1>5. ClaimInv'
    BY DEF ClaimInv, Holders, Serving
<1>6. UsingInv'
    BY DEF UsingInv, Using
<1>7. HolderInv'
    BY DEF HolderInv, Holders, Serving
<1>8. ScanInv'
    BY DEF ScanInv
<1> QED
    BY <1>1, <1>2, <1>3, <1>4, <1>5, <1>6, <1>7, <1>8 DEF IInv

\* A client connects, sends or leaves: the server holds what it held.
LEMMA ClientStepInv ==
    ASSUME IInv, NEW c \in Clients, ClientStep(c)
    PROVE  IInv'
<1>1. /\ client' \in [Clients -> {"new", "open", "sent", "closed"}]
      /\ \A d \in Clients : client'[d] = "new" => client[d] = "new"
      /\ \/ backlog' = backlog
         \/ client[c] = "new" /\ client'[c] # "new" /\ backlog' = backlog \cup {c}
      /\ UNCHANGED <<mainPc, scanVars, poolVars, conn, threadVars, replied>>
    BY DEF IInv, TypeOK, ClientStep, Connect, Refused, Send, Receive, Quit
<1>2. TypeOK' /\ WaitingInv'
    BY <1>1 DEF IInv, TypeOK, WaitingInv, Fresh
<1>3. HandInv' /\ ConnInv' /\ ClaimInv' /\ UsingInv'
    BY <1>1 DEF IInv, HandInv, Holding, Fresh, ConnInv, ClaimInv, Holders, Serving, UsingInv, Using
<1>4. HolderInv' /\ ScanInv'
    BY <1>1 DEF IInv, HolderInv, Holders, Serving, ScanInv
<1> QED
    BY <1>2, <1>3, <1>4 DEF IInv

\* The server ends; nothing else changes.
LEMMA DeathStep ==
    ASSUME IInv, ServerDies
    PROVE  IInv'
<1> USE LenAssumption, ClientsAssumption DEF IInv, TypeOK, Index, ServerDies
<1>1. TypeOK'
    OBVIOUS
<1>2. WaitingInv'
    BY DEF WaitingInv, Fresh
<1>3. HandInv'
    BY DEF HandInv, Holding, Fresh
<1>4. ConnInv'
    BY DEF ConnInv
<1>5. ClaimInv'
    BY DEF ClaimInv, Holders, Serving
<1>6. UsingInv'
    BY DEF UsingInv, Using
<1>7. HolderInv'
    BY DEF HolderInv, Holders, Serving
<1>8. ScanInv'
    BY DEF ScanInv
<1> QED
    BY <1>1, <1>2, <1>3, <1>4, <1>5, <1>6, <1>7, <1>8 DEF IInv

------------------------------------------------------------------------------
(* The invariant holds along every behaviour *)

\* At the start nobody holds anything.
LEMMA InvInit == Init => IInv
    BY LenAssumption, ClientsAssumption, FdsAssumption
    DEF Init, IInv, TypeOK, Index, WaitingInv, Fresh, HandInv, Holding, ConnInv, ClaimInv,
        Holders, Serving, UsingInv, Using, HolderInv, ScanInv

\* Every step keeps the invariant.
LEMMA InvStep == IInv /\ [Next]_vars => IInv'
<1> SUFFICES ASSUME IInv, [Next]_vars PROVE IInv'
    OBVIOUS
<1>1. CASE MainStep
    BY <1>1, BindStep, AcceptStep, ScanStep, DiscardStep, ClaimStep, CreateThreadStep
    DEF MainStep
<1>2. CASE CreateFails \/ MainCallFails
    BY <1>2, CreateFailsStep, DeathStep DEF MainCallFails
<1>3. ASSUME NEW c \in Clients, WorkerStep(c) \/ WorkerCallFails(c) \/ ClientStep(c)
      PROVE  IInv'
    BY <1>3, ReadStep, WriteStep, CloseStep, ReleaseStep, ClientStepInv, DeathStep
    DEF WorkerStep, WorkerCallFails
<1>4. CASE UNCHANGED vars
    BY <1>4
    DEF vars, IInv, TypeOK, WaitingInv, Fresh, HandInv, Holding, ConnInv, ClaimInv, Holders,
        Serving, UsingInv, Using, HolderInv, ScanInv
<1> QED
    BY <1>1, <1>2, <1>3, <1>4 DEF Next

\* The invariant holds in every reachable state.
LEMMA InvAlways == Spec => []IInv
    BY InvInit, InvStep, PTL DEF Spec

------------------------------------------------------------------------------
(* What follows from the invariant *)

\* Every variable keeps its type, for every size of the pool.
THEOREM TypeCorrect == Spec => []TypeOK
<1>1. IInv => TypeOK
    BY DEF IInv
<1> QED
    BY <1>1, InvAlways, PTL

\* The entries of the pool are accounted for: no two threads share one, none in use is
\* marked free, none is lost except by a pthread_create that fails.
THEOREM EntriesAccounted == Spec => []PoolAccounted
<1>1. IInv => PoolAccounted
    BY DEF IInv, HolderInv, ClaimInv, PoolAccounted, Holders
<1> QED
    BY <1>1, InvAlways, PTL

\* A thread reads, answers and closes the connection it was created for.
THEOREM ThreadsOwnConnections == Spec => []OwnConnection
<1>1. IInv => OwnConnection
    BY DEF IInv, UsingInv, OwnConnection, Peer
<1> QED
    BY <1>1, InvAlways, PTL

\* A connection is turned away only when every entry was taken as it was accepted:
\* the entries freed during the scan can only help.
THEOREM DiscardsJustified == Spec => []DiscardOnlyWhenFull
<1>1. IInv => DiscardOnlyWhenFull
    BY DEF IInv, ScanInv, DiscardOnlyWhenFull
<1> QED
    BY <1>1, InvAlways, PTL

\* Every step keeps a holder for every open descriptor.
LEMMA LeakStep == IInv /\ NoDescriptorLeak /\ [Next]_vars => NoDescriptorLeak'
<1> SUFFICES ASSUME IInv, NoDescriptorLeak, [Next]_vars PROVE NoDescriptorLeak'
    OBVIOUS
<1> USE ClientsAssumption DEF IInv, TypeOK, NoDescriptorLeak
<1>1. CASE ServerDies
    BY <1>1
<1>2. CASE Bind \/ Scan \/ Discard
    BY <1>2 DEF Bind, Scan, Discard, Using
<1>3. ASSUME NEW c \in Clients, Accept(c)
      PROVE  NoDescriptorLeak'
    BY <1>3 DEF Accept, Using
<1>4. CASE Claim
    <2>1. \A c \in Using : fd'[entry[c]] = fd[entry[c]]
        BY <1>4 DEF Claim, ClaimInv, HolderInv, Holders, Serving, Using
    <2> QED
        BY <1>4, <2>1 DEF Claim, Using
<1>5. CASE CreateThread
    <2>1. Fresh(conn[newfd]) /\ conn[newfd] \in Clients /\ newfd \in Fds /\ fd[i] = newfd
        BY <1>5 DEF CreateThread, HandInv, Holding, ClaimInv
    <2>2. conn[newfd] \in Using' /\ fd'[entry'[conn[newfd]]] = newfd
        BY <1>5, <2>1 DEF CreateThread, Using
    <2>3. \A c \in Using : c \in Using' /\ fd'[entry'[c]] = fd[entry[c]]
        BY <1>5, <2>1 DEF CreateThread, Using, Fresh
    <2> QED
        BY <1>5, <2>2, <2>3 DEF CreateThread
<1>6. CASE CreateFails
    <2>1. Fresh(conn[newfd]) /\ conn[newfd] \in Clients
        BY <1>6 DEF CreateFails, HandInv, Holding
    <2>2. \A c \in Using : c \in Using' /\ fd'[entry'[c]] = fd[entry[c]]
        BY <1>6, <2>1 DEF CreateFails, Using, Fresh
    <2> QED
        BY <1>6, <2>2 DEF CreateFails
<1>7. ASSUME NEW c \in Clients, Read(c) \/ Write(c) \/ Release(c)
      PROVE  NoDescriptorLeak'
    <2>1. Using' = Using /\ UNCHANGED <<conn, fd, entry, mainPc, newfd, lost>>
        BY <1>7 DEF Read, Write, Release, Using
    <2> QED
        BY <2>1
<1>8. ASSUME NEW c \in Clients, Close(c)
      PROVE  NoDescriptorLeak'
    <2>1. \A d \in Using : d # c => d \in Using'
        BY <1>8 DEF Close, Using
    <2>2. conn' = [conn EXCEPT ![fd[entry[c]]] = None]
          /\ UNCHANGED <<fd, entry, mainPc, newfd, lost>>
        BY <1>8 DEF Close
    <2> QED
        BY <2>1, <2>2
<1>9. ASSUME NEW c \in Clients, ClientStep(c)
      PROVE  NoDescriptorLeak'
    BY <1>9 DEF ClientStep, Connect, Refused, Send, Receive, Quit, Using
<1>10. CASE UNCHANGED vars
    BY <1>10 DEF vars, Using
<1> QED
    BY <1>1, <1>2, <1>3, <1>4, <1>5, <1>6, <1>7, <1>8, <1>9, <1>10
    DEF Next, MainStep, MainCallFails, WorkerStep, WorkerCallFails

\* Every open connection has somebody to close it, except after a pthread_create that
\* fails.
THEOREM NothingLeaks == Spec => []NoDescriptorLeak
<1>1. Init => NoDescriptorLeak
    BY DEF Init, NoDescriptorLeak
<1> QED
    BY <1>1, InvAlways, LeakStep, PTL DEF Spec

==============================================================================
