------------------------------ MODULE ClientPool ------------------------------
(***************************************************************************)
(* The TCP server of clase6/practica_resolviendo (server_tcp.c with        *)
(* clientdata.c) and its clients (cliente_tcp.c).  main accepts, looks for *)
(* a free entry of pool[] and starts a detached thread that reads one      *)
(* message, answers, closes and marks the entry free.  Nothing protects    *)
(* the pool: main scans it while threads free its entries.                 *)
(*                                                                         *)
(* An entry is given to the thread by address, and the thread reads fd     *)
(* from it in every call.  A file descriptor is a number that the kernel   *)
(* gives again once it is closed.                                          *)
(*                                                                         *)
(* Any call may fail where the code looks at its result, and               *)
(* pthread_create may fail where it does not.  The bytes exchanged are     *)
(* left out: every message fits one read.                                  *)
(***************************************************************************)
EXTENDS Integers, FiniteSets

CONSTANTS
    Clients,    \* the client processes, each of which connects once
    LEN,        \* entries of pool (100 in the code)
    Fds,        \* descriptors the process may have open besides the listening one
    None        \* no client

ASSUME ClientsAssumption == None \notin Clients
ASSUME LenAssumption == LEN \in Nat \ {0}

\* A descriptor for each entry and one for main: accept never runs out (the limit of the
\* system, 1024, is far from the 100 entries of the code).
ASSUME EnoughFds == IsFiniteSet(Fds) /\ Cardinality(Fds) > LEN
ASSUME FdsAssumption == Fds \subseteq Nat

Index == 0 .. (LEN - 1)

VARIABLES
    mainPc,
    newfd,          \* main's local: what accept returned
    i,              \* cd_getFreeIndex's local, then main's cd_index
    free, fd,       \* the fields of pool's entries
    conn,           \* kernel: the client at the other end of each open descriptor
    backlog,        \* kernel: the clients connected and not accepted
    worker,         \* where the thread that serves each client is
    entry,          \* arg of that thread: the entry of pool it got
    client,         \* where each client process is
    replied,        \* clients the answer was written to
    freeAtAccept,   \* history: the entries free when the scan began
    lost            \* history: clients accepted whose thread was not created

poolVars == <<free, fd>>
scanVars == <<newfd, i, freeAtAccept>>
threadVars == <<worker, entry, lost>>
clientVars == <<client, replied>>
vars == <<mainPc, scanVars, poolVars, conn, backlog, threadVars, clientVars>>

\* cd_init: every entry is free; the rest of pool is zeroed global storage
Init ==
    /\ mainPc = "bind"
    /\ newfd = 0 /\ i = 0 /\ freeAtAccept = {}
    /\ free = [k \in Index |-> TRUE] /\ fd = [k \in Index |-> 0]
    /\ conn = [f \in Fds |-> None] /\ backlog = {}
    /\ worker = [c \in Clients |-> "none"] /\ entry = [c \in Clients |-> 0]
    /\ client = [c \in Clients |-> "new"] /\ replied = {}
    /\ lost = {}

Alive == mainPc # "dead"

\* exit(1), return 1 or a signal: every thread ends with the process.
ServerDies ==
    /\ mainPc' = "dead"
    /\ UNCHANGED <<scanVars, poolVars, conn, backlog, threadVars, clientVars>>

------------------------------------------------------------------------------
(* main() and cd_getFreeIndex() *)

MainGoto(from, to) ==
    /\ mainPc = from
    /\ mainPc' = to
    /\ UNCHANGED clientVars

\* socket, inet_addr, bind and listen
Bind ==
    /\ MainGoto("bind", "accept")
    /\ UNCHANGED <<scanVars, poolVars, conn, backlog, threadVars>>

\* accept returns one of the clients that wait, on the lowest descriptor not in use
Accept(c) ==
    /\ MainGoto("accept", "scan")
    /\ c \in backlog
    /\ backlog' = backlog \ {c}
    /\ \E f \in Fds :
          /\ conn[f] = None /\ \A g \in Fds : conn[g] = None => f <= g
          /\ conn' = [conn EXCEPT ![f] = c]
          /\ newfd' = f
    /\ i' = 0
    /\ freeAtAccept' = {k \in Index : free[k]}
    /\ UNCHANGED <<poolVars, threadVars>>

\* Fault: the loop of cd_getFreeIndex stops one entry short.
ScanShort ==
    /\ \/ /\ free[i]
          /\ MainGoto("scan", "claim")
          /\ i' = i
       \/ /\ ~free[i] /\ i + 2 < LEN
          /\ MainGoto("scan", "scan")
          /\ i' = i + 1
       \/ /\ ~free[i] /\ i + 2 >= LEN
          /\ MainGoto("scan", "discard")
          /\ i' = i
    /\ UNCHANGED <<newfd, freeAtAccept, poolVars, conn, backlog, threadVars>>

\* Fault: the loop of cd_getFreeIndex runs one entry past the end.
ScanLong ==
    /\ \/ /\ free[i]
          /\ MainGoto("scan", "claim")
          /\ i' = i
       \/ /\ ~free[i] /\ i < LEN
          /\ MainGoto("scan", "scan")
          /\ i' = i + 1
    /\ UNCHANGED <<newfd, freeAtAccept, poolVars, conn, backlog, threadVars>>

\* One turn of the loop of cd_getFreeIndex; threads may free entries between turns
Scan ==
    /\ \/ /\ free[i]
          /\ MainGoto("scan", "claim")
          /\ i' = i
       \/ /\ ~free[i] /\ i + 1 < LEN
          /\ MainGoto("scan", "scan")
          /\ i' = i + 1
       \/ /\ ~free[i] /\ i + 1 = LEN
          /\ MainGoto("scan", "discard")
          /\ i' = i
    /\ UNCHANGED <<newfd, freeAtAccept, poolVars, conn, backlog, threadVars>>

\* Fault: the connection is left open.
DiscardNoClose ==
    /\ MainGoto("discard", "accept")
    /\ UNCHANGED <<scanVars, poolVars, conn, backlog, threadVars>>

\* "descartando conexion": close(newfd)
Discard ==
    /\ MainGoto("discard", "accept")
    /\ conn' = [conn EXCEPT ![newfd] = None]
    /\ UNCHANGED <<scanVars, poolVars, backlog, threadVars>>

\* Fault: the entry stays marked free.
ClaimKeepsFree ==
    /\ MainGoto("claim", "create")
    /\ fd' = [fd EXCEPT ![i] = newfd]
    /\ UNCHANGED <<free, scanVars, conn, backlog, threadVars>>

\* cd->free = false; cd->fd = newfd
Claim ==
    /\ MainGoto("claim", "create")
    /\ free' = [free EXCEPT ![i] = FALSE]
    /\ fd' = [fd EXCEPT ![i] = newfd]
    /\ UNCHANGED <<scanVars, conn, backlog, threadVars>>

\* pthread_create and pthread_detach
CreateThread ==
    /\ MainGoto("create", "accept")
    /\ worker' = [worker EXCEPT ![conn[newfd]] = "read"]
    /\ entry' = [entry EXCEPT ![conn[newfd]] = i]
    /\ UNCHANGED <<scanVars, poolVars, conn, backlog, lost>>

\* pthread_create fails, which nobody looks at: the entry and the connection are kept
\* for a thread that does not exist.  The pthread_detach that follows is given an
\* undefined thread: it does nothing, or it crashes the server.
CreateFails ==
    /\ \E to \in {"accept", "dead"} : MainGoto("create", to)
    /\ lost' = lost \cup {conn[newfd]}
    /\ entry' = [entry EXCEPT ![conn[newfd]] = i]
    /\ UNCHANGED <<scanVars, poolVars, conn, backlog, worker>>

\* A call of main whose result is looked at fails.
MainCallFails == mainPc \in {"bind", "accept"} /\ ServerDies

MainStep ==
    \/ Bind \/ (\E c \in Clients : Accept(c)) \/ Scan \/ Discard \/ Claim \/ CreateThread

------------------------------------------------------------------------------
(* procesar_cliente(), in the thread that serves client c *)

WorkerGoto(c, from, to) ==
    /\ Alive /\ worker[c] = from
    /\ worker' = [worker EXCEPT ![c] = to]
    /\ UNCHANGED <<mainPc, scanVars, fd, backlog, entry, lost, client>>

\* The client at the other end of data->fd.
Peer(c) == conn[fd[entry[c]]]

\* read(data->fd): waits for bytes or for the end of the client
Read(c) ==
    /\ WorkerGoto(c, "read", "write")
    /\ Peer(c) # None /\ client[Peer(c)] \in {"sent", "closed"}
    /\ UNCHANGED <<free, conn, replied>>

\* write(data->fd, "hola")
Write(c) ==
    /\ WorkerGoto(c, "write", "close")
    /\ Peer(c) # None
    /\ replied' = replied \cup {Peer(c)}
    /\ UNCHANGED <<free, conn>>

\* Fault: the entry is marked free first.
CloseAndRelease(c) ==
    /\ WorkerGoto(c, "close", "release")
    /\ conn' = [conn EXCEPT ![fd[entry[c]]] = None]
    /\ free' = [free EXCEPT ![entry[c]] = TRUE]
    /\ UNCHANGED replied

\* close(data->fd)
Close(c) ==
    /\ WorkerGoto(c, "close", "release")
    /\ conn' = [conn EXCEPT ![fd[entry[c]]] = None]
    /\ UNCHANGED <<free, replied>>

\* data->free = true, and the thread returns
Release(c) ==
    /\ WorkerGoto(c, "release", "done")
    /\ free' = [free EXCEPT ![entry[c]] = TRUE]
    /\ UNCHANGED <<conn, replied>>

\* read or write fails, or SIGPIPE: exit(1) of the whole server
WorkerCallFails(c) ==
    /\ Alive /\ worker[c] \in {"read", "write"}
    /\ ServerDies

WorkerStep(c) == Read(c) \/ Write(c) \/ Close(c) \/ Release(c)

------------------------------------------------------------------------------
(* cliente_tcp.c *)

ClientGoto(c, from, to) ==
    /\ client[c] = from
    /\ client' = [client EXCEPT ![c] = to]
    /\ UNCHANGED <<mainPc, scanVars, poolVars, conn, threadVars, replied>>

\* connect() to a server that listens
Connect(c) ==
    /\ ClientGoto(c, "new", "open")
    /\ Alive /\ mainPc # "bind"
    /\ backlog' = backlog \cup {c}

\* connect() is refused: exit(EXIT_FAILURE)
Refused(c) ==
    /\ ClientGoto(c, "new", "closed")
    /\ ~Alive \/ mainPc = "bind"
    /\ UNCHANGED backlog

\* fgets and write: the user types a line, sooner or later or never
Send(c) == ClientGoto(c, "open", "sent") /\ UNCHANGED backlog

\* The server's end of the connection is closed.
HungUp(c) == ~Alive \/ (c \notin backlog /\ \A f \in Fds : conn[f] # c)

\* read() returns the answer or the end of the connection; close and exit
Receive(c) ==
    /\ ClientGoto(c, "sent", "closed")
    /\ c \in replied \/ HungUp(c)
    /\ UNCHANGED backlog

\* The client is killed, or one of its calls fails.
Quit(c) ==
    /\ \E from \in {"open", "sent"} : ClientGoto(c, from, "closed")
    /\ UNCHANGED backlog

ClientStep(c) == Connect(c) \/ Refused(c) \/ Send(c) \/ Receive(c) \/ Quit(c)

Next ==
    \/ MainStep \/ CreateFails \/ MainCallFails
    \/ \E c \in Clients : WorkerStep(c) \/ WorkerCallFails(c) \/ ClientStep(c)

\* The kernel schedules every thread and process that can run; users type when they
\* please, and nobody owes a failure.
Fairness ==
    /\ WF_vars(MainStep)
    /\ \A c \in Clients : WF_vars(WorkerStep(c)) /\ WF_vars(Receive(c))

Spec == Init /\ [][Next]_vars
FairSpec == Spec /\ Fairness

------------------------------------------------------------------------------
(* Properties *)

\* Threads that have not given their entry back.
Serving == {c \in Clients : worker[c] \in {"read", "write", "close", "release"}}

\* Threads that still use data->fd.
Using == {c \in Clients : worker[c] \in {"read", "write", "close"}}

\* Every variable keeps its type.
TypeOK ==
    /\ mainPc \in {"bind", "accept", "scan", "claim", "discard", "create", "dead"}
    /\ newfd \in Fds \cup {0} /\ i \in Index /\ freeAtAccept \subseteq Index
    /\ free \in [Index -> BOOLEAN] /\ fd \in [Index -> Fds \cup {0}]
    /\ conn \in [Fds -> Clients \cup {None}] /\ backlog \subseteq Clients
    /\ worker \in [Clients -> {"none", "read", "write", "close", "release", "done"}]
    /\ entry \in [Clients -> Index]
    /\ client \in [Clients -> {"new", "open", "sent", "closed"}]
    /\ replied \subseteq Clients /\ lost \subseteq Clients

\* Whatever the threads free while main scans, no two of them hold one entry, an entry
\* in use is never marked free, and a busy one has a holder: a thread, main about to
\* create it, or the thread that could not be created.
PoolAccounted ==
    /\ \A c, d \in Serving \cup lost : c # d => entry[c] # entry[d]
    /\ \A k \in Index : Alive =>
          (~free[k] <=> \/ \E c \in Serving \cup lost : entry[c] = k
                        \/ mainPc = "create" /\ i = k)

\* A thread that is using data->fd finds in it the connection it was created for,
\* although entries and descriptor numbers are used again.
OwnConnection == \A c \in Using : Peer(c) = c

\* A connection is turned away only if the pool was full when it was accepted, although
\* the scan is not atomic.
DiscardOnlyWhenFull == mainPc = "discard" => freeAtAccept = {}

\* No descriptor stays open without somebody to close it, unless its thread could not
\* be created.
NoDescriptorLeak ==
    \A f \in Fds :
        conn[f] # None =>
            \/ \E c \in Using : fd[entry[c]] = f
            \/ mainPc \in {"scan", "claim", "discard", "create"} /\ newfd = f
            \/ conn[f] \in lost
            \/ ~Alive

\* A client that has sent its message gets the answer or the end of the connection,
\* unless its thread could not be created: then it can wait for ever.
SentIsEnded == \A c \in Clients : client[c] = "sent" ~> (client[c] = "closed" \/ c \in lost)

==============================================================================
