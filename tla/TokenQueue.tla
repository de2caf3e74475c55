------------------------------ MODULE TokenQueue ------------------------------
(***************************************************************************)
(* The token server of clase7/ejemplo-msq (server.c) and its clients       *)
(* (client.c), over POSIX message queues.  A client makes a queue named    *)
(* after its pid, and for each ENTER sends that name to the queue of the   *)
(* server and waits for a token in its own.  The server numbers the        *)
(* answers from 1.                                                         *)
(*                                                                         *)
(* Queues belong to the system: they keep their messages when a process is *)
(* killed, and the queue of a killed client is found again by the process  *)
(* that later gets the same pid.  Server and clients may be killed at any  *)
(* point and started again, the server one at a time.                      *)
(*                                                                         *)
(* A message to the server is the name of a client; an answer is a token   *)
(* with, as history, the run of the server that gave it.                   *)
(***************************************************************************)
EXTENDS Integers, Sequences, FiniteSets

CONSTANTS
    Pids,           \* the pids the clients get
    MAX_MESSAGES,   \* messages a queue holds (10 in the code)
    None,           \* no client
    MaxRuns,        \* bound: times the server is started
    MaxLives,       \* bound: client processes that get one pid
    MaxRequests     \* bound: ENTER is not pressed once so many requests were sent

ASSUME PidsAssumption == IsFiniteSet(Pids) /\ None \notin Pids
\* With no more processes of one pid than messages in its queue, an unlinked queue that
\* the server still has open is never full (see OwedPerLife).
ASSUME BoundsAssumption ==
    /\ MAX_MESSAGES \in Nat \ {0} /\ MaxRuns \in Nat
    /\ MaxLives \in 0 .. MAX_MESSAGES /\ MaxRequests \in Nat

VARIABLES
    srv,            \* the server
    token_number,
    in_buffer,      \* the client that the message in hand names
    qd_client,      \* the client whose queue the server has open
    server_queue,   \* messages to the server
    served,         \* the queue of the server exists
    client,         \* where the client process of each pid is
    queues,         \* pids whose queue exists
    answers,        \* the messages in each queue
    run,            \* history: times the server was started
    lives,          \* history: processes each pid was given to
    abandoned,      \* history: processes of each pid that ended while they waited
    asked,          \* history: requests sent
    got,            \* history: answers received by the processes of each pid
    lost            \* history: pids whose request died with the server

serverVars == <<srv, token_number, in_buffer, qd_client, run>>
clientVars == <<client, lives, abandoned, asked, got>>
vars == <<serverVars, clientVars, server_queue, served, queues, answers, lost>>

Init ==
    /\ srv = "down" /\ token_number = 1 /\ in_buffer = None /\ qd_client = None
    /\ server_queue = <<>> /\ served = FALSE
    /\ client = [c \in Pids |-> "gone"] /\ queues = {}
    /\ answers = [c \in Pids |-> <<>>]
    /\ run = 0 /\ lives = [c \in Pids |-> 0] /\ asked = 0
    /\ abandoned = [c \in Pids |-> 0]
    /\ got = [c \in Pids |-> <<>>] /\ lost = {}

------------------------------------------------------------------------------
(* server.c *)

ServerGoto(from, to) ==
    /\ srv = from
    /\ srv' = to
    /\ UNCHANGED <<run, clientVars, served, queues>>

\* mq_open of the server's queue, which is made or found as it was left
ServerStart ==
    /\ srv = "down" /\ run < MaxRuns
    /\ srv' = "receive" /\ run' = run + 1
    /\ token_number' = 1 /\ in_buffer' = None /\ qd_client' = None
    /\ served' = TRUE
    /\ UNCHANGED <<clientVars, server_queue, queues, answers, lost>>

\* mq_receive
ServerReceive ==
    /\ ServerGoto("receive", "open")
    /\ server_queue # <<>>
    /\ in_buffer' = Head(server_queue)
    /\ server_queue' = Tail(server_queue)
    /\ UNCHANGED <<token_number, qd_client, answers, lost>>

\* Fault: the server waits for the queue of a client to be there.
OpenClientWaits ==
    /\ in_buffer \in queues
    /\ ServerGoto("open", "send")
    /\ qd_client' = in_buffer
    /\ UNCHANGED <<token_number, in_buffer, server_queue, answers, lost>>

\* mq_open of the client's queue.  Its failure is compared with 1 and goes unnoticed:
\* mq_send then fails on the invalid descriptor, and the loop continues.
OpenClient ==
    /\ IF in_buffer \in queues
       THEN ServerGoto("open", "send") /\ qd_client' = in_buffer
       ELSE ServerGoto("open", "receive") /\ qd_client' = None
    /\ UNCHANGED <<token_number, in_buffer, server_queue, answers, lost>>

\* mq_send of the token, which waits for room.  A queue that was unlinked since takes
\* the message with it (qd_client was reset by Leave).
SendToken ==
    /\ ServerGoto("send", "close")
    /\ \/ /\ qd_client # None
          /\ Len(answers[qd_client]) < MAX_MESSAGES
          /\ answers' = [answers EXCEPT ![qd_client] =
                            Append(@, [run |-> run, token |-> token_number])]
       \/ qd_client = None /\ UNCHANGED answers
    /\ UNCHANGED <<token_number, in_buffer, qd_client, server_queue, lost>>

\* Fault: the number is not advanced.
CloseClientSame ==
    /\ ServerGoto("close", "receive")
    /\ qd_client' = None
    /\ UNCHANGED <<token_number, in_buffer, server_queue, answers, lost>>

\* mq_close, and the next number
CloseClient ==
    /\ ServerGoto("close", "receive")
    /\ qd_client' = None
    /\ token_number' = token_number + 1
    /\ UNCHANGED <<in_buffer, server_queue, answers, lost>>

\* The server is killed, or a call fails: exit(1).  The request in hand is lost.
ServerDies ==
    /\ srv # "down"
    /\ ServerGoto(srv, "down")
    /\ lost' = IF srv \in {"open", "send"} THEN lost \cup {in_buffer} ELSE lost
    /\ UNCHANGED <<token_number, in_buffer, qd_client, server_queue, answers>>

ServerStep == ServerReceive \/ OpenClient \/ SendToken \/ CloseClient

------------------------------------------------------------------------------
(* client.c, the process with pid c *)

ClientGoto(c, from, to) ==
    /\ client[c] = from
    /\ client' = [client EXCEPT ![c] = to]
    /\ UNCHANGED <<srv, token_number, in_buffer, run, served>>

\* mq_open(O_CREAT) of its own queue, made or found as it was left
ClientStart(c) ==
    /\ ClientGoto(c, "gone", "open_server")
    /\ lives[c] < MaxLives
    /\ lives' = [lives EXCEPT ![c] = @ + 1]
    /\ queues' = queues \cup {c}
    /\ lost' = lost \ {c}
    /\ UNCHANGED <<qd_client, server_queue, answers, abandoned, asked, got>>

\* mq_open of the server's queue; exit(1) when there is none, and its own queue stays
OpenServer(c) ==
    /\ ClientGoto(c, "open_server", IF served THEN "ask" ELSE "gone")
    /\ UNCHANGED <<qd_client, server_queue, queues, answers, lives, abandoned, asked, got, lost>>

\* The user presses ENTER.
Ask(c) ==
    /\ ClientGoto(c, "ask", "send")
    /\ asked < MaxRequests
    /\ UNCHANGED <<qd_client, server_queue, queues, answers, lives, abandoned, asked, got, lost>>

\* mq_send to the server, which waits for room
SendRequest(c) ==
    /\ ClientGoto(c, "send", "wait")
    /\ Len(server_queue) < MAX_MESSAGES
    /\ server_queue' = Append(server_queue, c)
    /\ asked' = asked + 1
    /\ UNCHANGED <<qd_client, queues, answers, lives, abandoned, got, lost>>

\* Fault: the newest message is taken.
ReceiveNewest(c) ==
    /\ ClientGoto(c, "wait", "ask")
    /\ answers[c] # <<>>
    /\ got' = [got EXCEPT ![c] = Append(@, answers[c][Len(answers[c])])]
    /\ answers' = [answers EXCEPT ![c] = SubSeq(@, 1, Len(@) - 1)]
    /\ UNCHANGED <<qd_client, server_queue, queues, lives, abandoned, asked, lost>>

\* Fault: the answer is awaited for a while only, and asked for again.
ReceiveOrRetry(c) ==
    \/ /\ ClientGoto(c, "wait", "ask")
       /\ answers[c] # <<>>
       /\ got' = [got EXCEPT ![c] = Append(@, Head(answers[c]))]
       /\ answers' = [answers EXCEPT ![c] = Tail(@)]
       /\ UNCHANGED <<qd_client, server_queue, queues, lives, abandoned, asked, lost>>
    \/ /\ ClientGoto(c, "wait", "send")
       /\ asked < MaxRequests
       /\ UNCHANGED <<qd_client, server_queue, queues, answers, lives, abandoned, asked, got, lost>>

\* Fault: a failed mq_receive goes on with the next ENTER, as a failed mq_send does.
ReceiveOrSkip(c) ==
    /\ ClientGoto(c, "wait", "ask")
    /\ \/ /\ answers[c] # <<>>
          /\ got' = [got EXCEPT ![c] = Append(@, Head(answers[c]))]
          /\ answers' = [answers EXCEPT ![c] = Tail(@)]
       \/ UNCHANGED <<got, answers>>
    /\ UNCHANGED <<qd_client, server_queue, queues, lives, abandoned, asked, lost>>

\* mq_receive
Receive(c) ==
    /\ ClientGoto(c, "wait", "ask")
    /\ answers[c] # <<>>
    /\ got' = [got EXCEPT ![c] = Append(@, Head(answers[c]))]
    /\ answers' = [answers EXCEPT ![c] = Tail(@)]
    /\ UNCHANGED <<qd_client, server_queue, queues, lives, abandoned, asked, lost>>

\* End of file on stdin: mq_close and mq_unlink of its own queue, whose messages go
\* with it, those the server is about to send there too
Leave(c) ==
    /\ ClientGoto(c, "ask", "gone")
    /\ queues' = queues \ {c}
    /\ answers' = [answers EXCEPT ![c] = <<>>]
    /\ qd_client' = IF qd_client = c THEN None ELSE qd_client
    /\ UNCHANGED <<server_queue, lives, abandoned, asked, got, lost>>

\* The client is killed, or a call fails: the queue stays.
ClientDies(c) ==
    /\ \E from \in {"open_server", "ask", "send", "wait"} : ClientGoto(c, from, "gone")
    /\ abandoned' = IF client[c] = "wait" THEN [abandoned EXCEPT ![c] = @ + 1] ELSE abandoned
    /\ UNCHANGED <<qd_client, server_queue, queues, answers, lives, asked, got, lost>>

ClientStep(c) == OpenServer(c) \/ SendRequest(c) \/ Receive(c)

Next ==
    \/ ServerStart \/ ServerStep \/ ServerDies
    \/ \E c \in Pids :
          ClientStart(c) \/ ClientStep(c) \/ Ask(c) \/ Leave(c) \/ ClientDies(c)

\* Processes that can run do; nobody owes a start, a key press or a death.
Fairness == WF_vars(ServerStep) /\ \A c \in Pids : WF_vars(ClientStep(c))

Spec == Init /\ [][Next]_vars
FairSpec == Spec /\ Fairness

------------------------------------------------------------------------------
(* Properties *)

Answer == [run : Nat, token : Nat \ {0}]

\* Every variable keeps its type, and no queue holds more than it can.
TypeOK ==
    /\ srv \in {"down", "receive", "open", "send", "close"}
    /\ token_number \in Nat \ {0} /\ run \in Nat
    /\ in_buffer \in Pids \cup {None} /\ qd_client \in Pids \cup {None}
    /\ server_queue \in Seq(Pids) /\ Len(server_queue) <= MAX_MESSAGES
    /\ served \in BOOLEAN /\ queues \subseteq Pids /\ lost \subseteq Pids
    /\ client \in [Pids -> {"gone", "open_server", "ask", "send", "wait"}]
    /\ answers \in [Pids -> Seq(Answer)]
    /\ \A c \in Pids : Len(answers[c]) <= MAX_MESSAGES
    /\ lives \in [Pids -> Nat] /\ abandoned \in [Pids -> Nat]
    /\ asked \in Nat /\ got \in [Pids -> Seq(Answer)]

One(b) == IF b THEN 1 ELSE 0

\* Requests of pid c that wait for an answer or whose answer nobody has taken.
Owed(c) ==
    Cardinality({n \in DOMAIN server_queue : server_queue[n] = c})
      + One(srv \in {"open", "send"} /\ in_buffer = c)
      + Len(answers[c])

\* A process asks again only when it was answered: what is owed to a pid is at most one
\* answer for each process that had it.  While those are fewer than MAX_MESSAGES, the
\* only server never blocks on the queue of one client.
OwedPerLife == \A c \in Pids : Owed(c) <= lives[c]

\* A client may take an answer that another process asked for, but only of one that was
\* killed while it waited: what is owed to a pid is the answer that its process waits for
\* and one for each process of it that ended in its wait.  In particular the first process
\* of a pid always gets the answer to its own request.
OwnAnswer == \A c \in Pids : Owed(c) <= abandoned[c] + One(client[c] = "wait")

\* The answers given and not thrown away, each with the queue or process that has it.
Given == UNION {{<<c, "queue", n>> : n \in DOMAIN answers[c]} \cup
                {<<c, "got", n>> : n \in DOMAIN got[c]} : c \in Pids}
AnswerAt(g) == IF g[2] = "queue" THEN answers[g[1]][g[3]] ELSE got[g[1]][g[3]]

\* A run of the server never gives one token twice, to any client, whatever dies.
TokensOnce == \A g, h \in Given : AnswerAt(g) = AnswerAt(h) => g = h

Before(a, b) == a.run < b.run \/ (a.run = b.run /\ a.token < b.token)

\* The processes of one pid get their tokens in the order they were given, also when one
\* finds the answers left for another.
TokensInOrder ==
    \A c \in Pids : \A n, k \in DOMAIN got[c] : n < k => Before(got[c][n], got[c][k])

\* If the server stays up, a client that waits gets an answer (or dies), unless its request
\* was in the hands of a server that died.
RequestAnswered ==
    <>[](srv # "down") =>
        \A c \in Pids : client[c] = "wait" ~> (client[c] # "wait" \/ c \in lost)

==============================================================================
