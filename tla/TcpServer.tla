------------------------------ MODULE TcpServer ------------------------------
(***************************************************************************)
(* The servers of clase5/tcp and clase5/getaddr, one connection at a time, *)
(* and their clients, which send a line and wait for an answer.  The       *)
(* server of tcp waits for its client to close before it closes; that of   *)
(* getaddr closes at once.                                                 *)
(*                                                                         *)
(* A message is a number of bytes; one write arrives as a whole, and read  *)
(* takes as much of it as fits.  The end of a process closes its sockets.  *)
(* A socket closed with bytes unread resets the connection: the other end  *)
(* finds an error where it would find the end of file, and may lose what   *)
(* it has not read.  Any process may be killed at any point, or fail in a  *)
(* call.                                                                   *)
(***************************************************************************)
EXTENDS Integers, Sequences, FiniteSetsExt

CONSTANTS
    Clients,
    BUF,        \* size of buffer and buf (128 in the code)
    Backlog,    \* the argument of listen (1 in tcp, 10 in getaddr)
    Garbage,    \* bound: bytes before a NUL in a buf that nobody wrote
    None        \* no connection

ASSUME ClientsAssumption == None \notin Clients
ASSUME SizesAssumption == BUF \in Nat \ {0, 1} /\ Backlog \in Nat /\ Garbage \in Nat

VARIABLES
    program,    \* the programs that run
    srv,        \* the server
    conn,       \* the client of newfd
    n,          \* what the first read returned
    backlog,    \* connections that wait for accept
    client,     \* the clients; how each ended
    line,       \* bytes that each client is to send
    toServer,   \* bytes sent to the server and not read
    answered,   \* clients whose socket has the answer
    unwritten,  \* history: clients whose buf was never written
    tardy       \* history: clients killed with an answer unread

serverVars == <<program, srv, conn, n>>
clientVars == <<client, line, unwritten, tardy>>
vars == <<serverVars, clientVars, backlog, toServer, answered>>

Init ==
    /\ program \in {"tcp", "getaddr"}
    /\ srv = "bind" /\ conn = None /\ n = 0 /\ backlog = <<>>
    /\ client = [c \in Clients |-> "new"] /\ line = [c \in Clients |-> 0]
    /\ toServer = [c \in Clients |-> 0]
    /\ answered = {} /\ unwritten = {} /\ tardy = {}

Here(c) == client[c] \in {"ask", "send", "recv", "close"}
Served(c) == conn = c \/ \E i \in DOMAIN backlog : backlog[i] = c
Listening == srv \notin {"bind", "listen", "error", "down"}

------------------------------------------------------------------------------
(* server_tcp.c *)

ServerGoto(from, to) ==
    /\ srv = from
    /\ srv' = to
    /\ UNCHANGED <<clientVars, program>>

Bind == ServerGoto("bind", "listen") /\ UNCHANGED <<conn, n, backlog, toServer, answered>>

Listen == ServerGoto("listen", "accept") /\ UNCHANGED <<conn, n, backlog, toServer, answered>>

Accept ==
    /\ ServerGoto("accept", "read")
    /\ backlog # <<>>
    /\ conn' = Head(backlog) /\ backlog' = Tail(backlog)
    /\ UNCHANGED <<n, toServer, answered>>

\* read takes what fits in size bytes.
Take(size) == toServer' = [toServer EXCEPT ![conn] = @ - Min({@, size})]

\* Fault: read is given two bytes less.
ReadShort ==
    /\ ServerGoto("read", "write")
    /\ toServer[conn] > 0
    /\ n' = Min({toServer[conn], BUF - 2})
    /\ Take(BUF - 2)
    /\ UNCHANGED <<conn, backlog, answered>>

\* The first read
Read ==
    /\ ServerGoto("read", "write")
    /\ toServer[conn] > 0
    /\ n' = Min({toServer[conn], BUF})
    /\ Take(BUF)
    /\ UNCHANGED <<conn, backlog, answered>>

\* Fault: the server reads until it has got something.
ReadEndIgnored == srv = "down" /\ UNCHANGED vars

\* The first read returns 0.  The server answers all the same.
ReadEnd ==
    /\ ServerGoto("read", "write")
    /\ toServer[conn] = 0 /\ ~Here(conn)
    /\ n' = 0
    /\ UNCHANGED <<conn, backlog, toServer, answered>>

\* write, which also succeeds when the client has just gone
Write ==
    /\ ServerGoto("write", IF program = "tcp" THEN "wait" ELSE "close")
    /\ answered' = IF Here(conn) THEN answered \cup {conn} ELSE answered
    /\ UNCHANGED <<conn, n, backlog, toServer>>

\* The second read of tcp: more bytes, or 0 because the client closed
ReadAgain ==
    /\ ServerGoto("wait", "close")
    /\ toServer[conn] > 0 \/ ~(Here(conn) \/ conn \in tardy)
    /\ Take(BUF)
    /\ UNCHANGED <<conn, n, backlog, answered>>

\* What a reset makes of the answers that were not read: they stay or are lost.
Reset(clients) == answered' \in {answered, answered \ {c \in clients : toServer[c] > 0}}

\* The second read fails, and the process ends: the client went with the answer unread.
ReadFails ==
    /\ ServerGoto("wait", "error")
    /\ toServer[conn] = 0 /\ conn \in tardy
    /\ backlog' = <<>>
    /\ UNCHANGED <<conn, n, toServer, answered>>

Close ==
    /\ ServerGoto("close", "accept")
    /\ Reset({conn}) /\ toServer' = [toServer EXCEPT ![conn] = 0]
    /\ conn' = None
    /\ UNCHANGED <<n, backlog>>

\* The server is killed, or another call fails.
ServerDies ==
    /\ srv \notin {"error", "down"} /\ ServerGoto(srv, "down")
    /\ Reset({conn} \ {None}) /\ conn' = None /\ backlog' = <<>>
    /\ UNCHANGED <<n, toServer>>

ServerStep ==
    Bind \/ Listen \/ Accept \/ Read \/ ReadEnd \/ Write \/ ReadAgain \/ ReadFails \/ Close

------------------------------------------------------------------------------
(* cliente_tcp.c *)

ClientGoto(c, from, to) ==
    /\ client[c] = from
    /\ client' = [client EXCEPT ![c] = to]
    /\ UNCHANGED <<serverVars, answered>>

\* connect, which waits for room in the backlog.  Linux lets one more in.
Connect(c) ==
    /\ ClientGoto(c, "new", "ask")
    /\ Listening /\ Len(backlog) <= Backlog
    /\ backlog' = Append(backlog, c)
    /\ UNCHANGED <<line, toServer, unwritten, tardy>>

\* connect fails: nobody listens, or there was no room for too long.
ConnectFails(c) ==
    /\ ClientGoto(c, "new", "failed")
    /\ ~Listening \/ Len(backlog) > Backlog
    /\ UNCHANGED <<line, backlog, toServer, unwritten, tardy>>

\* Fault: a line takes the whole buffer.
TypeLineLong(c) ==
    /\ ClientGoto(c, "ask", "send")
    /\ \E b \in 1 .. BUF : line' = [line EXCEPT ![c] = b]
    /\ UNCHANGED <<backlog, toServer, unwritten, tardy>>

\* fgets, which leaves room for the end of the text; strlen of a first NUL is 0.
TypeLine(c) ==
    /\ ClientGoto(c, "ask", "send")
    /\ \E b \in 0 .. BUF - 1 : line' = [line EXCEPT ![c] = b]
    /\ UNCHANGED <<backlog, toServer, unwritten, tardy>>

\* fgets meets the end of file: strlen counts what happens to be in buf.
EndOfInput(c) ==
    /\ ClientGoto(c, "ask", "send")
    /\ \E b \in 0 .. Garbage : line' = [line EXCEPT ![c] = b]
    /\ unwritten' = unwritten \cup {c}
    /\ UNCHANGED <<backlog, toServer, tardy>>

SendLine(c) ==
    /\ ClientGoto(c, "send", "recv")
    /\ line[c] > 0 /\ Served(c)
    /\ toServer' = [toServer EXCEPT ![c] = line[c]]
    /\ UNCHANGED <<line, backlog, unwritten, tardy>>

\* write sends nothing, fails or kills the process: buf is empty, or the server is gone.
SendFails(c) ==
    /\ ClientGoto(c, "send", "failed")
    /\ line[c] = 0 \/ ~Served(c)
    /\ UNCHANGED <<line, backlog, toServer, unwritten, tardy>>

\* Fault: the client does not wait for the answer.
CloseAtOnce(c) ==
    /\ ClientGoto(c, "recv", "done")
    /\ tardy' = IF c \in answered THEN tardy \cup {c} ELSE tardy
    /\ UNCHANGED <<line, backlog, toServer, unwritten>>

\* read gets the answer.
ReadAnswer(c) ==
    /\ ClientGoto(c, "recv", "close")
    /\ c \in answered
    /\ UNCHANGED <<line, backlog, toServer, unwritten, tardy>>

\* read returns 0 or fails: the server closed or is gone, with no answer left to read.
NoAnswer(c) ==
    /\ ClientGoto(c, "recv", "failed")
    /\ c \notin answered /\ ~Served(c)
    /\ UNCHANGED <<line, backlog, toServer, unwritten, tardy>>

CloseClient(c) ==
    /\ ClientGoto(c, "close", "done")
    /\ UNCHANGED <<line, backlog, toServer, unwritten, tardy>>

ClientDies(c) ==
    /\ client[c] = "new" \/ Here(c)
    /\ ClientGoto(c, client[c], "killed")
    /\ tardy' = IF client[c] = "recv" /\ c \in answered THEN tardy \cup {c} ELSE tardy
    /\ UNCHANGED <<line, backlog, toServer, unwritten>>

\* What a client does without the user.
ClientStep(c) ==
    \/ Connect(c) \/ ConnectFails(c) \/ SendLine(c) \/ SendFails(c)
    \/ ReadAnswer(c) \/ NoAnswer(c) \/ CloseClient(c)

Next ==
    \/ ServerStep \/ ServerDies
    \/ \E c \in Clients : ClientStep(c) \/ TypeLine(c) \/ EndOfInput(c) \/ ClientDies(c)

\* Processes that can run do.  Nobody owes a line or a death.
Fairness == WF_vars(ServerStep) /\ \A c \in Clients : WF_vars(ClientStep(c))

Spec == Init /\ [][Next]_vars
FairSpec == Spec /\ Fairness

------------------------------------------------------------------------------
(* Properties *)

\* Every variable keeps its type.  As long as no client has sent a buf that it never
\* wrote, what the first read gets leaves room for the end of the text, buffer[n].
TypeOK ==
    /\ program \in {"tcp", "getaddr"}
    /\ srv \in {"bind", "listen", "accept", "read", "write", "wait", "close", "error", "down"}
    /\ conn \in Clients \cup {None}
    /\ n \in 0 .. BUF /\ (unwritten = {} => n < BUF)
    /\ backlog \in Seq(Clients) /\ Len(backlog) <= Backlog + 1
    /\ client \in [Clients ->
          {"new", "ask", "send", "recv", "close", "done", "failed", "killed"}]
    /\ line \in [Clients -> Nat] /\ toServer \in [Clients -> Nat]
    /\ answered \subseteq Clients /\ unwritten \subseteq Clients /\ tardy \subseteq Clients

\* A line that a user typed is answered: its client fails only if the server has ended.
\* In particular a server that closes at once does not take its answer back.
LinesAnswered ==
    \A c \in Clients \ unwritten :
        client[c] = "failed" /\ line[c] > 0 => srv \in {"error", "down"}

\* Only a client that is killed can make the server end by itself, and only that of tcp,
\* in the read that waits for the client to close.
OnlyDeathEndsServer ==
    srv = "error" => program = "tcp" /\ client[conn] = "killed"

\* If no user stays for ever at the prompt, a client that waits for an answer, even behind
\* others in the backlog, gets it or ends.
AnswerComes ==
    (\A d \in Clients : []<>(client[d] # "ask")) =>
        \A c \in Clients : client[c] = "recv" ~> client[c] # "recv"

==============================================================================
