------------------------------ MODULE EchoServer ------------------------------
(***************************************************************************)
(* The echo server of clase5/unix (server.c) and its clients (client.c),   *)
(* over a UNIX stream socket named by a file.  The server accepts one      *)
(* connection at a time and sends back what it receives until the client   *)
(* leaves; the others wait in the backlog.  A client sends a line and      *)
(* waits for one answer before it reads the next.                          *)
(*                                                                         *)
(* A stream keeps no boundaries: recv takes what is there, as much as fits *)
(* its buffer.  A byte is known by the line it comes from.  The end of a   *)
(* process closes its sockets, which the other end sees as an end of file, *)
(* or as an error if bytes were left unread.                               *)
(*                                                                         *)
(* Any process may be killed at any point, or fail in a call.  A server    *)
(* removes the socket file that it finds, of a server that died or of one  *)
(* that runs: several may run at once, and the file names the last to bind.*)
(***************************************************************************)
EXTENDS Integers, Sequences, FiniteSets, SequencesExt

CONSTANTS
    Servers,    \* the processes of server.c, each started once
    Clients,
    BUF,        \* size of buf, send_buf and recv_buf (100 in the code)
    Backlog,    \* the argument of listen (10 in the code)
    None,       \* no connection, no file
    MaxLines    \* bound: lines typed to one client

ASSUME ProcessesAssumption == None \notin Clients \cup Servers
ASSUME SizesAssumption == BUF \in Nat \ {0, 1} /\ Backlog \in Nat /\ MaxLines \in Nat

VARIABLES
    srv,        \* the servers
    path,       \* the server whose socket the file SOCKET_PATH is
    conn,       \* the client whose connection each server has accepted
    buf,        \* what each server received last
    backlog,    \* connections that wait for accept
    client,     \* the clients
    send_buf,   \* the line each client is to send
    toServer,   \* bytes sent to the server and not received
    toClient,   \* bytes sent to the client and not received
    typed,      \* history: bytes each client sent
    got,        \* history: bytes each client received
    killed      \* history: clients that were killed

serverVars == <<srv, path, conn, buf>>
clientVars == <<client, send_buf, typed, got, killed>>
vars == <<serverVars, clientVars, backlog, toServer, toClient>>

Init ==
    /\ srv = [s \in Servers |-> "new"] /\ path = None
    /\ conn = [s \in Servers |-> None] /\ buf = [s \in Servers |-> <<>>]
    /\ backlog = [s \in Servers |-> <<>>]
    /\ client = [c \in Clients |-> "new"]
    /\ send_buf = [c \in Clients |-> <<>>]
    /\ toServer = [c \in Clients |-> <<>>] /\ toClient = [c \in Clients |-> <<>>]
    /\ killed = {}
    /\ typed = [c \in Clients |-> <<>>] /\ got = [c \in Clients |-> <<>>]

\* The two ends of the connection of c.
ClientEnd(c) == client[c] \in {"ask", "send", "recv"}
ServerEnd(c) == \E s \in Servers : conn[s] = c \/ c \in ToSet(backlog[s])

\* Somebody takes the connections made to the file.
Listening == path # None /\ srv[path] \in {"accept", "recv", "send", "close"}

\* What recv takes from a stream, given the size of the buffer.
Taken(stream, size) == SubSeq(stream, 1, IF Len(stream) < size THEN Len(stream) ELSE size)
Left(stream, size) == SubSeq(stream, Len(Taken(stream, size)) + 1, Len(stream))

------------------------------------------------------------------------------
(* server.c *)

ServerGoto(s, from, to) ==
    /\ srv[s] = from
    /\ srv' = [srv EXCEPT ![s] = to]
    /\ UNCHANGED clientVars

\* socket
ServerStart(s) ==
    /\ ServerGoto(s, "new", "unlink")
    /\ UNCHANGED <<path, conn, buf, backlog, toServer, toClient>>

\* Whoever left the file, or uses it
UnlinkPath(s) ==
    /\ ServerGoto(s, "unlink", "bind")
    /\ path' = None
    /\ UNCHANGED <<conn, buf, backlog, toServer, toClient>>

Bind(s) ==
    /\ ServerGoto(s, "bind", "listen")
    /\ path = None
    /\ path' = s
    /\ UNCHANGED <<conn, buf, backlog, toServer, toClient>>

\* bind fails: another server has made the file since unlink.
BindFails(s) ==
    /\ ServerGoto(s, "bind", "down")
    /\ path # None
    /\ UNCHANGED <<path, conn, buf, backlog, toServer, toClient>>

Listen(s) ==
    /\ ServerGoto(s, "listen", "accept")
    /\ UNCHANGED <<path, conn, buf, backlog, toServer, toClient>>

Accept(s) ==
    /\ ServerGoto(s, "accept", "recv")
    /\ backlog[s] # <<>>
    /\ conn' = [conn EXCEPT ![s] = Head(backlog[s])]
    /\ backlog' = [backlog EXCEPT ![s] = Tail(@)]
    /\ UNCHANGED <<path, buf, toServer, toClient>>

\* Fault: the end of the text in buf is not marked.
RecvUnmarked(s) ==
    /\ ServerGoto(s, "recv", "send")
    /\ toServer[conn[s]] # <<>>
    /\ LET new == Taken(toServer[conn[s]], BUF)
       IN  buf' = [buf EXCEPT ![s] = new \o SubSeq(@, Len(new) + 1, Len(@))]
    /\ toServer' = [toServer EXCEPT ![conn[s]] = Left(@, BUF)]
    /\ UNCHANGED <<path, conn, backlog, toClient>>

\* recv, and the end of the text in buf
Recv(s) ==
    /\ ServerGoto(s, "recv", "send")
    /\ toServer[conn[s]] # <<>>
    /\ buf' = [buf EXCEPT ![s] = Taken(toServer[conn[s]], BUF)]
    /\ toServer' = [toServer EXCEPT ![conn[s]] = Left(@, BUF)]
    /\ UNCHANGED <<path, conn, backlog, toClient>>

\* The client is gone with all that it sent received.
AllReceived(s) == ~ClientEnd(conn[s]) /\ toServer[conn[s]] = <<>>

\* Fault: the end of file does not end the loop.
RecvEndIgnored(s) ==
    /\ ServerGoto(s, "recv", "recv")
    /\ AllReceived(s) /\ toClient[conn[s]] = <<>>
    /\ UNCHANGED <<path, conn, buf, backlog, toServer, toClient>>

\* recv returns 0
RecvEnd(s) ==
    /\ ServerGoto(s, "recv", "close")
    /\ AllReceived(s) /\ toClient[conn[s]] = <<>>
    /\ UNCHANGED <<path, conn, buf, backlog, toServer, toClient>>

\* send to a client that is there
SendEcho(s) ==
    /\ ServerGoto(s, "send", "recv")
    /\ ClientEnd(conn[s])
    /\ toClient' = [toClient EXCEPT ![conn[s]] = @ \o buf[s]]
    /\ UNCHANGED <<path, conn, buf, backlog, toServer>>

Close(s) ==
    /\ ServerGoto(s, "close", "accept")
    /\ conn' = [conn EXCEPT ![s] = None]
    /\ UNCHANGED <<path, buf, backlog, toServer, toClient>>

\* The process ends: its sockets are closed, and the file stays.
ServerEnds(s) ==
    /\ ServerGoto(s, srv[s], "down")
    /\ conn' = [conn EXCEPT ![s] = None] /\ buf' = [buf EXCEPT ![s] = <<>>]
    /\ backlog' = [backlog EXCEPT ![s] = <<>>]
    /\ UNCHANGED <<path, toServer, toClient>>

\* SIGPIPE in send, or ECONNRESET in recv: the client went and left bytes unread.
PeerIsGone(s) ==
    /\ \/ srv[s] = "send" /\ ~ClientEnd(conn[s])
       \/ srv[s] = "recv" /\ AllReceived(s) /\ toClient[conn[s]] # <<>>
    /\ ServerEnds(s)

\* The server is killed, or another call fails.
ServerDies(s) == srv[s] \notin {"new", "down"} /\ ServerEnds(s)

ServerStep(s) ==
    \/ UnlinkPath(s) \/ Bind(s) \/ BindFails(s) \/ Listen(s) \/ Accept(s)
    \/ Recv(s) \/ RecvEnd(s) \/ SendEcho(s) \/ Close(s) \/ PeerIsGone(s)

------------------------------------------------------------------------------
(* client.c *)

ClientGoto(c, from, to) ==
    /\ client[c] = from
    /\ client' = [client EXCEPT ![c] = to]
    /\ UNCHANGED serverVars

\* connect, which waits for room in the backlog.  Linux lets one more in.
Connect(c) ==
    /\ ClientGoto(c, "new", "ask")
    /\ Listening /\ Len(backlog[path]) <= Backlog
    /\ backlog' = [backlog EXCEPT ![path] = Append(@, c)]
    /\ UNCHANGED <<send_buf, toServer, toClient, typed, got, killed>>

\* connect fails: there is no file, or nobody listens.
Refused(c) ==
    /\ ClientGoto(c, "new", "gone")
    /\ ~Listening
    /\ UNCHANGED <<send_buf, backlog, toServer, toClient, typed, got, killed>>

\* The next line of c, n bytes long.
Lines(c) == {typed[c][n] : n \in DOMAIN typed[c]}
Line(c, n) == [b \in 1 .. n |-> 1 + Cardinality(Lines(c))]

\* Fault: a line takes the whole buffer.
TypeLineLong(c) ==
    /\ ClientGoto(c, "ask", "send")
    /\ Cardinality(Lines(c)) < MaxLines
    /\ \E n \in 1 .. BUF : send_buf' = [send_buf EXCEPT ![c] = Line(c, n)]
    /\ UNCHANGED <<backlog, toServer, toClient, typed, got, killed>>

\* fgets, which leaves room for the end of the text
TypeLine(c) ==
    /\ ClientGoto(c, "ask", "send")
    /\ Cardinality(Lines(c)) < MaxLines
    /\ \E n \in 1 .. BUF - 1 : send_buf' = [send_buf EXCEPT ![c] = Line(c, n)]
    /\ UNCHANGED <<backlog, toServer, toClient, typed, got, killed>>

\* send
SendLine(c) ==
    /\ ClientGoto(c, "send", "recv")
    /\ ServerEnd(c)
    /\ toServer' = [toServer EXCEPT ![c] = @ \o send_buf[c]]
    /\ typed' = [typed EXCEPT ![c] = @ \o send_buf[c]]
    /\ UNCHANGED <<send_buf, backlog, toClient, got, killed>>

\* Fault: recv is given one byte less than a line may have.
RecvEchoShort(c) ==
    /\ ClientGoto(c, "recv", "ask")
    /\ toClient[c] # <<>>
    /\ got' = [got EXCEPT ![c] = @ \o Taken(toClient[c], BUF - 2)]
    /\ toClient' = [toClient EXCEPT ![c] = Left(@, BUF - 2)]
    /\ UNCHANGED <<send_buf, backlog, toServer, typed, killed>>

\* recv
RecvEcho(c) ==
    /\ ClientGoto(c, "recv", "ask")
    /\ toClient[c] # <<>>
    /\ got' = [got EXCEPT ![c] = @ \o Taken(toClient[c], BUF)]
    /\ toClient' = [toClient EXCEPT ![c] = Left(@, BUF)]
    /\ UNCHANGED <<send_buf, backlog, toServer, typed, killed>>

\* send and recv notice that the server is gone: SIGPIPE, an error or an end of file.
ServerIsGone(c) ==
    /\ \/ ClientGoto(c, "send", "gone")
       \/ toClient[c] = <<>> /\ ClientGoto(c, "recv", "gone")
    /\ ~ServerEnd(c)
    /\ UNCHANGED <<send_buf, backlog, toServer, toClient, typed, got, killed>>

\* Fault: the user may leave while the answer is on its way.
LeaveAtOnce(c) ==
    /\ ClientGoto(c, client[c], "gone") /\ ClientEnd(c)
    /\ UNCHANGED <<send_buf, backlog, toServer, toClient, typed, got, killed>>

\* End of file on stdin
Leave(c) ==
    /\ ClientGoto(c, "ask", "gone")
    /\ UNCHANGED <<send_buf, backlog, toServer, toClient, typed, got, killed>>

\* The client is killed, or another call fails.
ClientDies(c) ==
    /\ \E from \in {"new", "ask", "send", "recv"} : ClientGoto(c, from, "gone")
    /\ killed' = killed \cup {c}
    /\ UNCHANGED <<send_buf, backlog, toServer, toClient, typed, got>>

\* What a client does without the user.
ClientStep(c) == Connect(c) \/ Refused(c) \/ SendLine(c) \/ RecvEcho(c) \/ ServerIsGone(c)

Next ==
    \/ \E s \in Servers : ServerStart(s) \/ ServerStep(s) \/ ServerDies(s)
    \/ \E c \in Clients : ClientStep(c) \/ TypeLine(c) \/ Leave(c) \/ ClientDies(c)

\* Processes that can run do.  Nobody owes a start, a line, an end of file or a death.
Fairness ==
    /\ \A s \in Servers : WF_vars(ServerStep(s))
    /\ \A c \in Clients : WF_vars(ClientStep(c))

Spec == Init /\ [][Next]_vars
FairSpec == Spec /\ Fairness

------------------------------------------------------------------------------
(* Properties *)

Bytes == Seq(Nat)

\* Every variable keeps its type.  What the server receives leaves room in buf for the
\* end of the text (buf[n] is inside it), although recv is given the whole buffer.
TypeOK ==
    /\ srv \in [Servers ->
          {"new", "unlink", "bind", "listen", "accept", "recv", "send", "close", "down"}]
    /\ path \in Servers \cup {None} /\ conn \in [Servers -> Clients \cup {None}]
    /\ buf \in [Servers -> Bytes] /\ backlog \in [Servers -> Seq(Clients)]
    /\ \A s \in Servers : Len(buf[s]) < BUF /\ Len(backlog[s]) <= Backlog + 1
    /\ client \in [Clients -> {"new", "ask", "send", "recv", "gone"}]
    /\ \A f \in {send_buf, toServer, toClient, typed, got} : f \in [Clients -> Bytes]
    /\ killed \subseteq Clients

\* The servers that have received from c and not answered yet.
InHand(c) == {s \in Servers : conn[s] = c /\ srv[s] = "send"}
HeldFor(c) == IF InHand(c) = {} THEN <<>> ELSE buf[CHOOSE s \in InHand(c) : TRUE]

\* A byte sent by a client whose connection the server has is received by the server, in
\* its hands, on the way back or echoed: none is lost, doubled, reordered or sent to
\* another client.
EchoAccount ==
    \A c \in Clients :
        ServerEnd(c) => typed[c] = got[c] \o toClient[c] \o HeldFor(c) \o toServer[c]

\* A client is asked for the next line when it has been answered with all it sent, and
\* with nothing else: the answer to a line is never cut or joined with another.
PromptAfterEcho == \A c \in Clients : client[c] = "ask" => got[c] = typed[c]

\* A client that was not killed and ends while the server has its connection leaves nothing
\* behind: only a killed client can end the server (by SIGPIPE or ECONNRESET).
LeavesNothingBehind ==
    \A c \in Clients \ killed :
        client[c] = "gone" /\ ServerEnd(c) =>
            toServer[c] = <<>> /\ toClient[c] = <<>> /\ InHand(c) = {}

\* A client that waits for an answer, even behind others in the backlog or with a server
\* that lost the file to another, gets it or learns that its server is gone, if the users
\* of the other clients leave in the end.  A user who types for ever keeps the server:
\* those in the backlog then wait for ever.
WaitingServed ==
    \A c \in Clients :
        (\A d \in Clients \ {c} : <>[](client[d] # "ask"))
            => (client[c] = "recv" ~> client[c] # "recv")

==============================================================================
