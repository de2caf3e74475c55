-------------------------- MODULE TokenQueueProofs ---------------------------
(***************************************************************************)
(* For any number of clients, processes and runs of the server, and        *)
(* whatever is killed, no run gives a token twice and the processes of a   *)
(* pid get theirs in order.  Everything given is older than what the       *)
(* server would give next (Recent); from there the tokens of a pid can     *)
(* only grow and a new one is nobody else's.                               *)
(***************************************************************************)
EXTENDS TokenQueue, FiniteSetTheorems, FunctionTheorems, TLAPS

\* Every step expands the groups of variables and the common guards.
USE DEF serverVars, clientVars, ServerGoto, ClientGoto

\* A server that is about to answer has a client to answer.
InHand == srv \in {"open", "send"} => in_buffer \in Pids

\* Answers that the processes of pid c got or will find.
Tokens(c) ==
    {got[c][n] : n \in DOMAIN got[c]} \cup {answers[c][n] : n \in DOMAIN answers[c]}

\* What the server has sent of this run: the number is advanced after it is sent.
Sent(x) ==
    \/ x.run < run
    \/ x.run = run /\ x.token < token_number
    \/ x.run = run /\ x.token = token_number /\ srv \in {"close", "down"}

Recent == \A c \in Pids : \A x \in Tokens(c) : x \in Answer /\ Sent(x)

\* The answers that were taken come before those that wait.
Ordered ==
    \A c \in Pids :
        /\ \A n, k \in DOMAIN got[c] : n < k => Before(got[c][n], got[c][k])
        /\ \A n, k \in DOMAIN answers[c] : n < k => Before(answers[c][n], answers[c][k])
        /\ \A n \in DOMAIN got[c], k \in DOMAIN answers[c] : Before(got[c][n], answers[c][k])

\* No token is of two pids.
Apart == \A c, d \in Pids : c # d => Tokens(c) \cap Tokens(d) = {}

QueueInv == TypeOK /\ InHand /\ Recent /\ Ordered /\ Apart

------------------------------------------------------------------------------
(* Types *)

\* At the start there is nothing.
LEMMA QueueInit == Init => QueueInv
<1> SUFFICES ASSUME Init PROVE QueueInv
    OBVIOUS
<1>1. TypeOK
    <2>1. \A S : <<>> \in Seq(S)
        OBVIOUS
    <2>2. Len(<<>>) = 0 /\ 0 <= MAX_MESSAGES
        BY BoundsAssumption
    <2>3. /\ server_queue = <<>> /\ server_queue \in Seq(Pids)
          /\ answers \in [Pids -> Seq(Answer)] /\ got \in [Pids -> Seq(Answer)]
          /\ \A c \in Pids : answers[c] = <<>>
        BY <2>1 DEF Init
    <2>4. server_queue \in Seq(Pids) /\ Len(server_queue) <= MAX_MESSAGES
        BY <2>2, <2>3
    <2>5. \A c \in Pids : Len(answers[c]) <= MAX_MESSAGES
        BY <2>2, <2>3
    <2>6. /\ srv = "down" /\ token_number = 1 /\ in_buffer = None /\ qd_client = None
          /\ served = FALSE /\ queues = {} /\ run = 0 /\ asked = 0 /\ lost = {}
          /\ client = [c \in Pids |-> "gone"] /\ lives = [c \in Pids |-> 0]
          /\ abandoned = [c \in Pids |-> 0]
        BY DEF Init
    <2>7. token_number \in Nat \ {0} /\ run \in Nat /\ asked \in Nat
          /\ lives \in [Pids -> Nat] /\ abandoned \in [Pids -> Nat]
        BY <2>6
    <2>8. /\ srv \in {"down", "receive", "open", "send", "close"}
          /\ in_buffer \in Pids \cup {None} /\ qd_client \in Pids \cup {None}
          /\ served \in BOOLEAN /\ queues \subseteq Pids /\ lost \subseteq Pids
          /\ client \in [Pids -> {"gone", "open_server", "ask", "send", "wait"}]
        BY <2>6
    <2> QED
        BY <2>3, <2>4, <2>5, <2>7, <2>8 DEF TypeOK
<1>2. \A c \in Pids : DOMAIN got[c] = {} /\ DOMAIN answers[c] = {} /\ Tokens(c) = {}
    BY DEF Init, Tokens
<1> QED
    BY <1>1, <1>2 DEF Init, QueueInv, InHand, Recent, Ordered, Apart

\* What is appended to or taken from a queue keeps its type and its bound.
LEMMA QueueTypeStep == TypeOK /\ InHand /\ [Next]_vars => TypeOK'
<1> SUFFICES ASSUME TypeOK, InHand, [Next]_vars PROVE TypeOK'
    OBVIOUS
<1> USE BoundsAssumption DEF TypeOK
<1>1. CASE ServerStart
    BY <1>1 DEF ServerStart
<1>2. CASE ServerReceive
    <2>1. Head(server_queue) \in Pids /\ Tail(server_queue) \in Seq(Pids)
          /\ Len(Tail(server_queue)) <= MAX_MESSAGES
        BY <1>2 DEF ServerReceive
    <2>2. server_queue' \in Seq(Pids) /\ Len(server_queue') <= MAX_MESSAGES
        BY <1>2, <2>1 DEF ServerReceive
    <2> QED
        BY <1>2, <2>1, <2>2 DEF ServerReceive
<1>3. CASE OpenClient
    BY <1>3 DEF OpenClient
<1>4. CASE SendToken
    <2>1. [run |-> run, token |-> token_number] \in Answer
        BY DEF Answer
    <2>2. ASSUME NEW c \in Pids, Len(answers[c]) < MAX_MESSAGES
          PROVE  /\ Append(answers[c], [run |-> run, token |-> token_number]) \in Seq(Answer)
                 /\ Len(Append(answers[c], [run |-> run, token |-> token_number])) <= MAX_MESSAGES
        BY <2>1, <2>2
    <2>3. answers' \in [Pids -> Seq(Answer)] /\ \A c \in Pids : Len(answers'[c]) <= MAX_MESSAGES
        BY <1>4, <2>2 DEF SendToken
    <2>4. /\ srv' = "close"
          /\ UNCHANGED <<token_number, in_buffer, qd_client, server_queue, lost, run, clientVars,
                         served, queues>>
        BY <1>4 DEF SendToken
    <2>5. token_number' \in Nat \ {0} /\ run' \in Nat /\ asked' \in Nat /\ lives' \in [Pids -> Nat]
          /\ abandoned' \in [Pids -> Nat]
        BY <2>4
    <2>6. /\ srv' \in {"down", "receive", "open", "send", "close"}
          /\ in_buffer' \in Pids \cup {None} /\ qd_client' \in Pids \cup {None}
          /\ served' \in BOOLEAN /\ queues' \subseteq Pids /\ lost' \subseteq Pids
          /\ client' \in [Pids -> {"gone", "open_server", "ask", "send", "wait"}]
        BY <2>4
    <2>7. server_queue' \in Seq(Pids) /\ Len(server_queue') <= MAX_MESSAGES
          /\ got' \in [Pids -> Seq(Answer)]
        BY <2>4
    <2> QED
        BY <2>3, <2>5, <2>6, <2>7
<1>5. CASE CloseClient
    BY <1>5 DEF CloseClient
<1>6. CASE ServerDies
    BY <1>6 DEF ServerDies, InHand
<1>7. ASSUME NEW c \in Pids, ClientStart(c) PROVE TypeOK'
    BY <1>7 DEF ClientStart
<1>8. ASSUME NEW c \in Pids, OpenServer(c) \/ Ask(c) \/ ClientDies(c) PROVE TypeOK'
    <2>1. CASE OpenServer(c) \/ Ask(c)
        BY <2>1 DEF OpenServer, Ask
    <2>2. CASE ClientDies(c)
        <3>1. abandoned' \in [Pids -> Nat]
            BY <2>2 DEF ClientDies
        <3> QED
            BY <2>2, <3>1 DEF ClientDies
    <2> QED
        BY <1>8, <2>1, <2>2
<1>9. ASSUME NEW c \in Pids, SendRequest(c) PROVE TypeOK'
    <2>1. server_queue' \in Seq(Pids) /\ Len(server_queue') <= MAX_MESSAGES
        BY <1>9 DEF SendRequest
    <2> QED
        BY <1>9, <2>1 DEF SendRequest
<1>10. ASSUME NEW c \in Pids, Receive(c) PROVE TypeOK'
    <2>1. Head(answers[c]) \in Answer /\ Tail(answers[c]) \in Seq(Answer)
          /\ Len(Tail(answers[c])) <= MAX_MESSAGES
        BY <1>10 DEF Receive
    <2>2. Append(got[c], Head(answers[c])) \in Seq(Answer)
        BY <2>1
    <2>3. /\ got' \in [Pids -> Seq(Answer)] /\ answers' \in [Pids -> Seq(Answer)]
          /\ \A d \in Pids : Len(answers'[d]) <= MAX_MESSAGES
        BY <1>10, <2>1, <2>2 DEF Receive
    <2>4. /\ client' \in [Pids -> {"gone", "open_server", "ask", "send", "wait"}]
          /\ UNCHANGED <<srv, token_number, in_buffer, run, served, qd_client, server_queue,
                         queues, lives, abandoned, asked, lost>>
        BY <1>10 DEF Receive
    <2>5. token_number' \in Nat \ {0} /\ run' \in Nat /\ asked' \in Nat /\ lives' \in [Pids -> Nat]
          /\ abandoned' \in [Pids -> Nat]
        BY <2>4
    <2>6. /\ srv' \in {"down", "receive", "open", "send", "close"}
          /\ in_buffer' \in Pids \cup {None} /\ qd_client' \in Pids \cup {None}
          /\ served' \in BOOLEAN /\ queues' \subseteq Pids /\ lost' \subseteq Pids
        BY <2>4
    <2>7. server_queue' \in Seq(Pids) /\ Len(server_queue') <= MAX_MESSAGES
        BY <2>4
    <2> QED
        BY <2>3, <2>4, <2>5, <2>6, <2>7
<1>11. ASSUME NEW c \in Pids, Leave(c) PROVE TypeOK'
    BY <1>11 DEF Leave
<1>12. CASE UNCHANGED vars
    BY <1>12 DEF vars
<1> QED
    BY <1>1, <1>2, <1>3, <1>4, <1>5, <1>6, <1>7, <1>8, <1>9, <1>10, <1>11, <1>12
    DEF Next, ServerStep, ClientStep

\* A request is taken up with the client it names.
LEMMA InHandStep == TypeOK /\ InHand /\ [Next]_vars => InHand'
<1> SUFFICES ASSUME TypeOK, InHand, [Next]_vars PROVE InHand'
    OBVIOUS
<1> USE DEF InHand
<1>1. CASE ServerReceive
    <2>1. Head(server_queue) \in Pids
        BY <1>1 DEF TypeOK, ServerReceive
    <2> QED
        BY <1>1, <2>1 DEF ServerReceive
<1>2. CASE ServerStart \/ OpenClient \/ SendToken \/ CloseClient \/ ServerDies
    BY <1>2 DEF ServerStart, OpenClient, SendToken, CloseClient, ServerDies
<1>3. ASSUME NEW c \in Pids, ClientStart(c) \/ ClientStep(c) \/ Ask(c) \/ Leave(c) \/ ClientDies(c)
      PROVE  UNCHANGED <<srv, in_buffer>>
    BY <1>3 DEF ClientStart, ClientStep, OpenServer, SendRequest, Receive, Ask, Leave, ClientDies
<1>4. CASE UNCHANGED vars
    BY <1>4 DEF vars
<1> QED
    BY <1>1, <1>2, <1>3, <1>4 DEF Next, ServerStep

------------------------------------------------------------------------------
(* Tokens *)

\* The answer that SendToken gives.
NewToken == [run |-> run, token |-> token_number]

\* The only token that appears is the one that the server sends.
LEMMA TokensStep ==
    ASSUME TypeOK, [Next]_vars, NEW c \in Pids, NEW x \in Tokens(c)'
    PROVE  x \in Tokens(c) \/ (SendToken /\ c = qd_client /\ x = NewToken)
<1>1. CASE UNCHANGED <<got, answers>>
    BY <1>1 DEF Tokens
<1>2. CASE SendToken
    <2>1. got' = got
        BY <1>2 DEF SendToken
    <2>2. CASE c = qd_client /\ answers'[c] = Append(answers[c], NewToken)
        <3>1. answers[c] \in Seq(Answer)
            BY DEF TypeOK
        <3> QED
            BY <1>2, <2>1, <2>2, <3>1 DEF Tokens
    <2>3. CASE answers'[c] = answers[c]
        BY <2>1, <2>3 DEF Tokens
    <2> QED
        BY <1>2, <2>2, <2>3 DEF SendToken, TypeOK, NewToken
<1>3. ASSUME NEW d \in Pids, Receive(d)
      PROVE  x \in Tokens(c)
    <2>1. CASE c = d
        <3>1. /\ answers[c] \in Seq(Answer) /\ got[c] \in Seq(Answer) /\ answers[c] # <<>>
              /\ answers'[c] = Tail(answers[c]) /\ got'[c] = Append(got[c], Head(answers[c]))
            BY <1>3, <2>1 DEF TypeOK, Receive
        <3>2. \A n \in DOMAIN got'[c] : got'[c][n] \in Tokens(c)
            BY <3>1 DEF Tokens
        <3>3. \A n \in DOMAIN answers'[c] : answers'[c][n] \in Tokens(c)
            BY <3>1 DEF Tokens
        <3> QED
            BY <3>2, <3>3 DEF Tokens
    <2>2. CASE c # d
        <3>1. answers'[c] = answers[c] /\ got'[c] = got[c]
            BY <1>3, <2>2 DEF TypeOK, Receive
        <3> QED
            BY <3>1 DEF Tokens
    <2> QED
        BY <2>1, <2>2
<1>4. ASSUME NEW d \in Pids, Leave(d)
      PROVE  x \in Tokens(c)
    <2>1. got' = got /\ (answers'[c] = answers[c] \/ answers'[c] = <<>>)
        BY <1>4 DEF TypeOK, Leave
    <2> QED
        BY <2>1 DEF Tokens
<1>5. ServerStart \/ ServerReceive \/ OpenClient \/ CloseClient \/ ServerDies \/ UNCHANGED vars
        => UNCHANGED <<got, answers>>
    BY DEF ServerStart, ServerReceive, OpenClient, CloseClient, ServerDies, vars
<1>6. ASSUME NEW d \in Pids,
             ClientStart(d) \/ OpenServer(d) \/ SendRequest(d) \/ Ask(d) \/ ClientDies(d)
      PROVE  UNCHANGED <<got, answers>>
    BY <1>6 DEF ClientStart, OpenServer, SendRequest, Ask, ClientDies
<1> QED
    BY <1>1, <1>2, <1>3, <1>4, <1>5, <1>6 DEF Next, ServerStep, ClientStep

\* What was sent stays sent.
LEMMA SentStays ==
    ASSUME TypeOK, [Next]_vars, NEW x \in Answer, Sent(x)
    PROVE  Sent(x)'
<1> USE DEF TypeOK, Answer, Sent
<1>1. CASE ServerStart
    BY <1>1 DEF ServerStart
<1>2. CASE CloseClient
    BY <1>2 DEF CloseClient
<1>3. CASE ServerReceive \/ OpenClient \/ SendToken \/ ServerDies
    BY <1>3 DEF ServerReceive, OpenClient, SendToken, ServerDies
<1>4. CASE UNCHANGED <<srv, token_number, run>>
    BY <1>4
<1>5. ASSUME NEW c \in Pids, ClientStart(c) \/ ClientStep(c) \/ Ask(c) \/ Leave(c) \/ ClientDies(c)
      PROVE  UNCHANGED <<srv, token_number, run>>
    BY <1>5 DEF ClientStart, ClientStep, OpenServer, SendRequest, Receive, Ask, Leave, ClientDies
<1> QED
    BY <1>1, <1>2, <1>3, <1>4, <1>5 DEF Next, ServerStep, vars

\* So nothing given is newer than what the server gives next.
LEMMA RecentStep == TypeOK /\ Recent /\ [Next]_vars => Recent'
<1> SUFFICES ASSUME TypeOK, Recent, [Next]_vars, NEW c \in Pids, NEW x \in Tokens(c)'
             PROVE  x \in Answer /\ Sent(x)'
    BY DEF Recent
<1>1. CASE x \in Tokens(c)
    BY <1>1, SentStays DEF Recent
<1>2. CASE SendToken /\ x = NewToken
    BY <1>2 DEF TypeOK, SendToken, NewToken, Answer, Sent
<1> QED
    BY <1>1, <1>2, TokensStep

\* A token that is sent comes after all those given.
LEMMA NewIsLast ==
    ASSUME TypeOK, Recent, SendToken, NEW c \in Pids, NEW x \in Tokens(c)
    PROVE  Before(x, NewToken) /\ x # NewToken
    BY DEF TypeOK, Recent, SendToken, NewToken, Answer, Sent, Before

\* So it is nobody else's.
LEMMA ApartStep == TypeOK /\ Recent /\ Apart /\ [Next]_vars => Apart'
<1> SUFFICES ASSUME TypeOK, Recent, Apart, [Next]_vars,
                    NEW c \in Pids, NEW d \in Pids, c # d, NEW x, x \in Tokens(c)', x \in Tokens(d)'
             PROVE  FALSE
    BY DEF Apart
<1>1. x \in Tokens(c) \/ (SendToken /\ c = qd_client /\ x = NewToken)
    BY TokensStep
<1>2. x \in Tokens(d) \/ (SendToken /\ d = qd_client /\ x = NewToken)
    BY TokensStep
<1> QED
    BY <1>1, <1>2, NewIsLast DEF Apart

\* Taking the oldest answer, or dropping all, keeps the order.
LEMMA OrderedStep == TypeOK /\ Recent /\ Ordered /\ [Next]_vars => Ordered'
<1> SUFFICES ASSUME TypeOK, Recent, Ordered, [Next]_vars PROVE Ordered'
    OBVIOUS
<1> USE DEF Ordered
<1>1. CASE UNCHANGED <<got, answers>>
    BY <1>1
<1>2. CASE SendToken
    <2>1. got' = got
        BY <1>2 DEF SendToken
    <2>2. ASSUME NEW c \in Pids
          PROVE  answers'[c] \in {answers[c], Append(answers[c], NewToken)}
        BY <1>2 DEF SendToken, TypeOK, NewToken
    <2>3. ASSUME NEW c \in Pids
          PROVE  /\ answers[c] \in Seq(Answer)
                 /\ \A n \in DOMAIN got[c] : Before(got[c][n], NewToken)
                 /\ \A n \in DOMAIN answers[c] : Before(answers[c][n], NewToken)
        BY <1>2, NewIsLast DEF TypeOK, Tokens
    <2>4. ASSUME NEW c \in Pids
          PROVE  /\ \A n, k \in DOMAIN answers'[c] : n < k => Before(answers'[c][n], answers'[c][k])
                 /\ \A n \in DOMAIN got[c], k \in DOMAIN answers'[c] :
                       Before(got[c][n], answers'[c][k])
        <3> DEFINE q == answers[c]
                   longer == Append(q, NewToken)
        <3>1. CASE answers'[c] = q
            BY <3>1
        <3>2. CASE answers'[c] = longer
            <4>1. \A n \in DOMAIN longer : n \in DOMAIN q \/ n = Len(q) + 1
                BY <2>3
            <4>2. /\ \A n \in DOMAIN q : n < Len(q) + 1 /\ longer[n] = q[n]
                  /\ longer[Len(q) + 1] = NewToken
                BY <2>3
            <4>3. \A n, k \in DOMAIN longer : n < k => n \in DOMAIN q
                BY <2>3, <4>1
            <4>4. /\ \A n, k \in DOMAIN q : n < k => Before(q[n], q[k])
                  /\ \A n \in DOMAIN got[c], k \in DOMAIN q : Before(got[c][n], q[k])
                OBVIOUS
            <4> HIDE DEF q, longer
            <4>5. \A n, k \in DOMAIN longer : n < k => Before(longer[n], longer[k])
                BY <2>3, <4>1, <4>2, <4>3, <4>4 DEF q
            <4>6. \A n \in DOMAIN got[c], k \in DOMAIN longer : Before(got[c][n], longer[k])
                BY <2>3, <4>1, <4>2, <4>4 DEF q
            <4> QED
                BY <3>2, <4>5, <4>6
        <3> QED
            BY <2>2, <3>1, <3>2
    <2> QED
        BY <2>1, <2>4
<1>3. ASSUME NEW d \in Pids, Receive(d), NEW c \in Pids
      PROVE  /\ \A n, k \in DOMAIN got'[c] : n < k => Before(got'[c][n], got'[c][k])
             /\ \A n, k \in DOMAIN answers'[c] : n < k => Before(answers'[c][n], answers'[c][k])
             /\ \A n \in DOMAIN got'[c], k \in DOMAIN answers'[c] :
                   Before(got'[c][n], answers'[c][k])
    <2>1. CASE c = d
        <3> DEFINE g == got[c]
                   q == answers[c]
        <3>1. /\ q \in Seq(Answer) /\ g \in Seq(Answer) /\ q # <<>>
              /\ answers'[c] = Tail(q) /\ got'[c] = Append(g, Head(q))
            BY <1>3, <2>1 DEF TypeOK, Receive
        <3>2. /\ \A n, k \in DOMAIN g : n < k => Before(g[n], g[k])
              /\ \A n, k \in DOMAIN q : n < k => Before(q[n], q[k])
              /\ \A n \in DOMAIN g, k \in DOMAIN q : Before(g[n], q[k])
            OBVIOUS
        <3> HIDE DEF g, q
        <3>3. 1 \in DOMAIN q /\ Head(q) = q[1]
            BY <3>1
        <3>4. \A n, k \in DOMAIN Append(g, Head(q)) :
                 n < k => Before(Append(g, Head(q))[n], Append(g, Head(q))[k])
            BY <3>1, <3>2, <3>3
        <3>5. \A n \in DOMAIN Tail(q) : n + 1 \in DOMAIN q /\ n + 1 > 1 /\ Tail(q)[n] = q[n + 1]
            BY <3>1
        <3>6. \A n, k \in DOMAIN Tail(q) : n < k => Before(Tail(q)[n], Tail(q)[k])
            BY <3>1, <3>2, <3>5
        <3>7. \A n \in DOMAIN Append(g, Head(q)), k \in DOMAIN Tail(q) :
                 Before(Append(g, Head(q))[n], Tail(q)[k])
            BY <3>1, <3>2, <3>3, <3>5
        <3> QED
            BY <3>1, <3>4, <3>6, <3>7
    <2>2. CASE c # d
        BY <1>3, <2>2 DEF TypeOK, Receive
    <2> QED
        BY <2>1, <2>2
<1>4. ASSUME NEW d \in Pids, Leave(d)
      PROVE  Ordered'
    <2>1. got' = got /\ \A c \in Pids : answers'[c] \in {answers[c], <<>>}
        BY <1>4 DEF TypeOK, Leave
    <2> QED
        BY <2>1
<1>5. ServerStart \/ ServerReceive \/ OpenClient \/ CloseClient \/ ServerDies \/ UNCHANGED vars
        => UNCHANGED <<got, answers>>
    BY DEF ServerStart, ServerReceive, OpenClient, CloseClient, ServerDies, vars
<1>6. ASSUME NEW d \in Pids,
             ClientStart(d) \/ OpenServer(d) \/ SendRequest(d) \/ Ask(d) \/ ClientDies(d)
      PROVE  UNCHANGED <<got, answers>>
    BY <1>6 DEF ClientStart, OpenServer, SendRequest, Ask, ClientDies
<1> QED
    BY <1>1, <1>2, <1>3, <1>4, <1>5, <1>6 DEF Next, ServerStep, ClientStep

------------------------------------------------------------------------------
(* What is owed to a pid *)

\* The places of c in a sequence.
At(q, c) == {n \in DOMAIN q : q[n] = c}

\* The places where a request of c can be, and a process of c that has asked for nothing.
Queued(c) == Cardinality(At(server_queue, c))
Hand(c) == One(srv \in {"open", "send"} /\ in_buffer = c)
Free(c) == One(client[c] \in {"open_server", "ask", "send"})

\* What may be owed to a pid: an answer for its process that waits, and one for each that
\* ended in its wait.
Allowed(c) == abandoned[c] + One(client[c] = "wait")

\* The debts of a pid, bounded by its processes and by who awaits them.
NoMoreThanDue(c) ==
    /\ Queued(c) + Hand(c) + Len(answers[c]) + Free(c) <= lives[c]
    /\ Queued(c) + Hand(c) + Len(answers[c]) <= Allowed(c)

\* A process is free or has asked once, and what was asked is awaited or was abandoned;
\* what the server has open is the queue of the client in hand, unless that was unlinked.
OwedInv ==
    /\ srv = "send" => qd_client \in {in_buffer, None}
    /\ \A c \in Pids : NoMoreThanDue(c)

\* The places of a sequence are finite.
LEMMA PlacesFinite ==
    ASSUME NEW q \in Seq(Pids), NEW c
    PROVE  IsFiniteSet(At(q, c)) /\ Cardinality(At(q, c)) \in Nat
<1>1. At(q, c) \subseteq 1 .. Len(q) /\ IsFiniteSet(1 .. Len(q))
    BY FS_Interval DEF At
<1> QED
    BY <1>1, FS_Subset, FS_CardinalityType

\* A request that is sent takes one more place.
LEMMA CountAppend ==
    ASSUME NEW q \in Seq(Pids), NEW c, NEW d \in Pids
    PROVE  Cardinality(At(Append(q, d), c)) = Cardinality(At(q, c)) + One(c = d)
<1>1. DOMAIN Append(q, d) = 1 .. Len(q) + 1 /\ DOMAIN q = 1 .. Len(q)
    OBVIOUS
<1>2. Append(q, d)[Len(q) + 1] = d /\ \A n \in 1 .. Len(q) : Append(q, d)[n] = q[n]
    OBVIOUS
<1>3. CASE c = d
    <2>1. Len(q) + 1 \notin At(q, c) /\ At(Append(q, d), c) = At(q, c) \cup {Len(q) + 1}
        BY <1>1, <1>2, <1>3 DEF At
    <2> QED
        BY <1>3, <2>1, PlacesFinite, FS_AddElement DEF One
<1>4. CASE c # d
    <2>1. At(Append(q, d), c) = At(q, c)
        BY <1>1, <1>2, <1>4 DEF At
    <2> QED
        BY <1>4, <2>1, PlacesFinite DEF One
<1> QED
    BY <1>3, <1>4

\* A request that is received leaves one place; the others move up.
LEMMA CountTail ==
    ASSUME NEW q \in Seq(Pids), q # <<>>, NEW c, NEW d, d = Head(q)
    PROVE  Cardinality(At(Tail(q), c)) = Cardinality(At(q, c)) - One(d = c)
<1> DEFINE Later == At(q, c) \ {1}
           F == [n \in At(Tail(q), c) |-> n + 1]
<1>1. /\ Tail(q) \in Seq(Pids) /\ DOMAIN Tail(q) = 1 .. Len(q) - 1 /\ DOMAIN q = 1 .. Len(q)
      /\ Len(q) \in Nat \ {0} /\ d = q[1]
      /\ \A n \in 1 .. Len(q) - 1 : Tail(q)[n] = q[n + 1]
    OBVIOUS
<1>2. F \in [At(Tail(q), c) -> Later] /\ \A m, n \in At(Tail(q), c) : F[m] = F[n] => m = n
    BY <1>1 DEF At
<1>3. \A k \in Later : \E n \in At(Tail(q), c) : F[n] = k
    <2> SUFFICES ASSUME NEW k \in Later
                 PROVE  \E n \in At(Tail(q), c) : F[n] = k
        OBVIOUS
    <2>1. k - 1 \in At(Tail(q), c) /\ (k - 1) + 1 = k
        BY <1>1 DEF At
    <2>2. F[k - 1] = k
        BY <2>1
    <2> QED
        BY <2>1, <2>2
<1>4. F \in Bijection(At(Tail(q), c), Later)
    BY <1>2, <1>3, Fun_IsBij
<1>5. Cardinality(Later) = Cardinality(At(Tail(q), c))
    <2>1. IsFiniteSet(At(Tail(q), c))
        BY <1>1, PlacesFinite
    <2>2. ExistsBijection(At(Tail(q), c), Later)
        BY <1>4 DEF ExistsBijection
    <2> HIDE DEF Later
    <2> QED
        BY <2>1, <2>2, FS_Bijection
<1>6. CASE d = c
    <2>1. 1 \in At(q, c)
        BY <1>1, <1>6 DEF At
    <2>2. IsFiniteSet(At(q, c)) /\ Cardinality(At(q, c)) \in Nat
        BY PlacesFinite
    <2>3. Cardinality(Later) = Cardinality(At(q, c)) - 1
        BY <2>1, <2>2, FS_RemoveElement
    <2> QED
        BY <1>5, <1>6, <2>3 DEF One
<1>7. CASE d # c
    <2>1. Later = At(q, c)
        BY <1>1, <1>7 DEF At
    <2>2. Cardinality(At(Tail(q), c)) = Cardinality(At(q, c))
        BY <1>5, <2>1, Zenon
    <2>3. Cardinality(At(q, c)) \in Nat
        BY PlacesFinite
    <2> QED
        BY <1>7, <2>2, <2>3 DEF One
<1> QED
    BY <1>6, <1>7

\* The parts of what is owed are numbers.
LEMMA OwedNumbers ==
    ASSUME TypeOK, NEW c \in Pids
    PROVE  /\ Queued(c) \in Nat /\ Hand(c) \in {0, 1} /\ Len(answers[c]) \in Nat
           /\ Free(c) \in {0, 1} /\ lives[c] \in Nat /\ Allowed(c) \in Nat
<1>1. /\ server_queue \in Seq(Pids) /\ answers[c] \in Seq(Answer) /\ lives[c] \in Nat
      /\ abandoned[c] \in Nat
    BY DEF TypeOK
<1> QED
    BY <1>1, PlacesFinite DEF Queued, Hand, Free, Allowed, One

\* Nothing is owed at the start.
LEMMA OwedInit == Init => OwedInv
<1> SUFFICES ASSUME Init, NEW c \in Pids
             PROVE  NoMoreThanDue(c)
    BY DEF OwedInv, Init
<1>1. At(server_queue, c) = {} /\ Len(answers[c]) = 0 /\ lives[c] = 0 /\ abandoned[c] = 0
    BY DEF Init, At
<1>2. Queued(c) = 0
    BY <1>1, FS_EmptySet DEF Queued
<1>3. Hand(c) = 0 /\ Free(c) = 0 /\ Allowed(c) = 0
    BY <1>1 DEF Init, Hand, Free, Allowed, One
<1> QED
    BY <1>1, <1>2, <1>3 DEF NoMoreThanDue

\* A pid whose debts do not grow owes no more than it may.
LEMMA LessIsDue ==
    ASSUME TypeOK, NEW c \in Pids, NoMoreThanDue(c),
           UNCHANGED <<Queued(c), Hand(c), lives[c], Allowed(c)>>,
           Len(answers[c])' \in {0, Len(answers[c])}, Free(c)' \in {0, Free(c)}
    PROVE  NoMoreThanDue(c)'
<1>1. /\ Queued(c) \in Nat /\ Hand(c) \in Nat /\ Len(answers[c]) \in Nat
      /\ Free(c) \in Nat /\ lives[c] \in Nat /\ Allowed(c) \in Nat
    BY OwedNumbers
<1>2. Len(answers[c])' \in Nat /\ Len(answers[c])' <= Len(answers[c])
    BY <1>1
<1>3. Free(c)' \in Nat /\ Free(c)' <= Free(c)
    BY <1>1
<1>4. /\ Queued(c) + Hand(c) + Len(answers[c]) + Free(c) <= lives[c]
      /\ Queued(c) + Hand(c) + Len(answers[c]) <= Allowed(c)
    BY DEF NoMoreThanDue
<1>5. Queued(c) + Hand(c) + Len(answers[c])' <= Queued(c) + Hand(c) + Len(answers[c])
    BY <1>1, <1>2
<1>6. Queued(c) + Hand(c) + Len(answers[c])' <= Allowed(c)
    BY <1>1, <1>2, <1>4, <1>5
<1>7. Queued(c) + Hand(c) + Len(answers[c])' + Free(c)' <= lives[c]
    <2>1. CASE Free(c)' = 0
        <3>1. Queued(c) + Hand(c) + Len(answers[c]) <= lives[c]
            BY <1>1, <1>4
        <3> QED
            BY <1>1, <1>2, <1>5, <2>1, <3>1
    <2>2. CASE Free(c)' = Free(c)
        <3>1. CASE Len(answers[c])' = Len(answers[c])
            BY <1>4, <2>2, <3>1
        <3>2. CASE Len(answers[c])' = 0
            <4>1. Queued(c) + Hand(c) + 0 + Free(c) <= lives[c]
                BY <1>1, <1>4
            <4> QED
                BY <2>2, <3>2, <4>1
        <3> QED
            BY <3>1, <3>2
    <2> QED
        BY <2>1, <2>2
<1> QED
    BY <1>6, <1>7 DEF NoMoreThanDue

\* The debt of a pid moves from its process to the queue of the server, to its hand, to
\* the queue of the pid and back; only a new process adds to it.
LEMMA DebtStep ==
    ASSUME QueueInv, OwedInv, [Next]_vars, NEW c \in Pids
    PROVE  NoMoreThanDue(c)'
<1> USE OwedNumbers DEF OwedInv, QueueInv, NoMoreThanDue
<1>1. CASE ServerReceive
    <2>1. server_queue \in Seq(Pids) /\ server_queue # <<>> /\ server_queue' = Tail(server_queue)
        BY <1>1 DEF TypeOK, ServerReceive
    <2>2. Queued(c)' = Queued(c) - One(in_buffer' = c)
        BY <1>1, <2>1, CountTail DEF Queued, ServerReceive
    <2>3. Hand(c) = 0 /\ Hand(c)' = One(in_buffer' = c)
        BY <1>1 DEF Hand, ServerReceive, One
    <2>4. UNCHANGED <<answers, lives, abandoned, client>>
        BY <1>1 DEF ServerReceive
    <2> QED
        BY <2>2, <2>3, <2>4 DEF Free, Allowed, One
<1>2. CASE SendToken
    <2>1. /\ UNCHANGED <<server_queue, lives, abandoned, client>>
          /\ Hand(c) = One(in_buffer = c) /\ Hand(c)' = 0
        BY <1>2 DEF SendToken, Hand, One
    <2>2. Len(answers[c])' \in {Len(answers[c]), Len(answers[c]) + One(in_buffer = c)}
        <3>1. answers[c] \in Seq(Answer) /\ NewToken \in Answer
            BY DEF TypeOK, NewToken, Answer
        <3>2. \/ answers'[c] = answers[c]
              \/ in_buffer = c /\ answers'[c] = Append(answers[c], NewToken)
            BY <1>2 DEF TypeOK, SendToken, NewToken
        <3>3. Len(Append(answers[c], NewToken)) = Len(answers[c]) + 1
            BY <3>1
        <3>4. in_buffer = c => One(in_buffer = c) = 1
            BY DEF One
        <3> QED
            BY <3>2, <3>3, <3>4, Zenon
    <2>3. /\ One(in_buffer = c) \in {0, 1} /\ Queued(c)' = Queued(c) /\ Free(c)' = Free(c)
          /\ Allowed(c)' = Allowed(c)
        BY <2>1 DEF One, Queued, Free, Allowed
    <2>4. CASE Len(answers[c])' = Len(answers[c])
        BY <2>1, <2>3, <2>4
    <2>5. CASE Len(answers[c])' = Len(answers[c]) + One(in_buffer = c)
        BY <2>1, <2>3, <2>5
    <2> QED
        BY <2>2, <2>4, <2>5
<1>3. CASE ServerStart \/ OpenClient \/ CloseClient \/ ServerDies
    <2>1. /\ UNCHANGED <<server_queue, answers, lives, abandoned, client>>
          /\ Hand(c)' \in {0, Hand(c)}
        BY <1>3 DEF ServerStart, OpenClient, CloseClient, ServerDies, Hand, One
    <2> QED
        BY <2>1 DEF Queued, Free, Allowed
<1>4. ASSUME NEW d \in Pids, ClientStart(d)
      PROVE  NoMoreThanDue(c)'
    <2>1. UNCHANGED <<server_queue, answers, srv, in_buffer>>
        BY <1>4 DEF ClientStart
    <2>2. Free(c)' = Free(c) + One(c = d) /\ lives'[c] = lives[c] + One(c = d)
        BY <1>4 DEF TypeOK, ClientStart, Free, One
    <2>3. Allowed(c)' = Allowed(c)
        BY <1>4 DEF TypeOK, ClientStart, Allowed, One
    <2> QED
        BY <2>1, <2>2, <2>3 DEF Queued, Hand, One
<1>5. ASSUME NEW d \in Pids, SendRequest(d)
      PROVE  NoMoreThanDue(c)'
    <2>1. UNCHANGED <<answers, srv, in_buffer, lives>>
        BY <1>5 DEF SendRequest
    <2>2. Queued(c)' = Queued(c) + One(c = d)
        BY <1>5, CountAppend DEF TypeOK, SendRequest, Queued
    <2>3. Free(c)' = Free(c) - One(c = d)
        BY <1>5 DEF TypeOK, SendRequest, Free, One
    <2>4. Allowed(c)' = Allowed(c) + One(c = d)
        BY <1>5 DEF TypeOK, SendRequest, Allowed, One
    <2> QED
        BY <2>1, <2>2, <2>3, <2>4 DEF Hand, One
<1>6. ASSUME NEW d \in Pids, Receive(d)
      PROVE  NoMoreThanDue(c)'
    <2>1. UNCHANGED <<server_queue, srv, in_buffer, lives>>
        BY <1>6 DEF Receive
    <2>2. Len(answers[c])' = Len(answers[c]) - One(c = d)
        <3>1. answers[c] \in Seq(Answer)
            BY DEF TypeOK
        <3>2. \/ c = d /\ answers[c] # <<>> /\ answers'[c] = Tail(answers[c])
              \/ c # d /\ answers'[c] = answers[c]
            BY <1>6 DEF TypeOK, Receive
        <3>3. answers[c] # <<>> => Len(Tail(answers[c])) = Len(answers[c]) - 1
            BY <3>1
        <3>4. CASE c = d
            BY <3>2, <3>3, <3>4 DEF One
        <3>5. CASE c # d
            BY <3>1, <3>2, <3>5 DEF One
        <3> QED
            BY <3>4, <3>5
    <2>3. Free(c)' = Free(c) + One(c = d)
        BY <1>6 DEF TypeOK, Receive, Free, One
    <2>4. Allowed(c)' = Allowed(c) - One(c = d)
        BY <1>6 DEF TypeOK, Receive, Allowed, One
    <2>5. /\ One(c = d) \in {0, 1} /\ Queued(c)' = Queued(c) /\ Hand(c)' = Hand(c)
          /\ lives'[c] = lives[c]
        BY <2>1 DEF One, Queued, Hand
    <2>6. /\ Queued(c)' + Hand(c)' + Len(answers[c])' + Free(c)' <= lives'[c]
          /\ Queued(c)' + Hand(c)' + Len(answers[c])' <= Allowed(c)'
        <3> HIDE DEF QueueInv
        <3>1. NoMoreThanDue(c) /\ Queued(c) \in Nat /\ Hand(c) \in Nat /\ Len(answers[c]) \in Nat
              /\ Free(c) \in Nat /\ lives[c] \in Nat /\ Allowed(c) \in Nat
            BY OwedNumbers DEF QueueInv
        <3>2. CASE One(c = d) = 0
            BY <2>2, <2>3, <2>4, <2>5, <3>1, <3>2
        <3>3. CASE One(c = d) = 1
            <4>1. /\ Len(answers[c])' = Len(answers[c]) - 1 /\ Free(c)' = Free(c) + 1
                  /\ Allowed(c)' = Allowed(c) - 1
                BY <2>2, <2>3, <2>4, <3>3
            <4>2. /\ Queued(c) + Hand(c) + (Len(answers[c]) - 1) + (Free(c) + 1) <= lives[c]
                  /\ Queued(c) + Hand(c) + (Len(answers[c]) - 1) <= Allowed(c) - 1
                BY <3>1
            <4> QED
                BY <2>5, <4>1, <4>2
        <3> QED
            BY <2>5, <3>2, <3>3
    <2> QED
        BY <2>6
<1>7. ASSUME NEW d \in Pids, Leave(d)
      PROVE  NoMoreThanDue(c)'
    <2>1. UNCHANGED <<server_queue, srv, in_buffer, lives>>
        BY <1>7 DEF Leave
    <2>2. Len(answers[c])' \in {0, Len(answers[c])}
        BY <1>7 DEF TypeOK, Leave
    <2>3. Free(c)' \in {0, Free(c)}
        BY <1>7 DEF TypeOK, Leave, Free, One
    <2>4. /\ Queued(c)' = Queued(c) /\ Hand(c)' = Hand(c) /\ lives'[c] = lives[c]
          /\ Allowed(c)' = Allowed(c)
        BY <1>7, <2>1 DEF TypeOK, Leave, Queued, Hand, Allowed, One
    <2> QED
        BY <2>2, <2>3, <2>4, LessIsDue
<1>8. ASSUME NEW d \in Pids, OpenServer(d) \/ Ask(d) \/ ClientDies(d)
      PROVE  NoMoreThanDue(c)'
    <2>1. UNCHANGED <<server_queue, answers, srv, in_buffer, lives>>
        BY <1>8 DEF OpenServer, Ask, ClientDies
    <2>2. Free(c)' \in {0, Free(c)}
        BY <1>8 DEF TypeOK, OpenServer, Ask, ClientDies, Free, One
    <2>3. Allowed(c)' = Allowed(c)
        <3>1. CASE OpenServer(d) \/ Ask(d) \/ c # d
            BY <1>8, <3>1 DEF TypeOK, OpenServer, Ask, ClientDies, Allowed, One
        <3>2. CASE ClientDies(d) /\ c = d
            <4>1. abandoned'[c] = abandoned[c] + One(client[c] = "wait") /\ client'[c] = "gone"
                BY <3>2 DEF TypeOK, ClientDies, One
            <4> QED
                BY <4>1 DEF TypeOK, Allowed, One
        <3> QED
            BY <1>8, <3>1, <3>2
    <2>4. UNCHANGED <<Queued(c), Hand(c)>>
        BY <2>1 DEF Queued, Hand
    <2> QED
        BY <2>1, <2>2, <2>3, <2>4, LessIsDue
<1>9. CASE UNCHANGED vars
    BY <1>9 DEF vars, Queued, Hand, Free, Allowed
<1> QED
    BY <1>1, <1>2, <1>3, <1>4, <1>5, <1>6, <1>7, <1>8, <1>9 DEF Next, ServerStep, ClientStep

\* The server sends to the client in hand.
LEMMA OwedStep == QueueInv /\ OwedInv /\ [Next]_vars => OwedInv'
<1> SUFFICES ASSUME QueueInv, OwedInv, [Next]_vars PROVE OwedInv'
    OBVIOUS
<1>1. \A c \in Pids : NoMoreThanDue(c)'
    BY DebtStep
<1>2. srv' = "send" => qd_client' \in {in_buffer', None}
    <2>1. CASE ServerStart \/ ServerStep \/ ServerDies
        BY <2>1
        DEF OwedInv, ServerStart, ServerStep, ServerReceive, OpenClient, SendToken, CloseClient,
            ServerDies
    <2>2. ASSUME NEW c \in Pids,
                 ClientStart(c) \/ ClientStep(c) \/ Ask(c) \/ Leave(c) \/ ClientDies(c)
          PROVE  UNCHANGED <<srv, in_buffer>> /\ qd_client' \in {qd_client, None}
        BY <2>2
        DEF ClientStart, ClientStep, OpenServer, SendRequest, Receive, Ask, Leave, ClientDies
    <2>3. CASE UNCHANGED vars
        BY <2>3 DEF OwedInv, vars
    <2> QED
        BY <2>1, <2>2, <2>3 DEF OwedInv, Next
<1> QED
    BY <1>1, <1>2 DEF OwedInv

\* The invariant holds for ever.
LEMMA QueueAlways == Spec => []QueueInv
<1>1. Init => QueueInv
    BY QueueInit
<1>2. QueueInv /\ [Next]_vars => QueueInv'
    BY QueueTypeStep, InHandStep, RecentStep, OrderedStep, ApartStep DEF QueueInv
<1> QED
    BY <1>1, <1>2, PTL DEF Spec

\* So do the bounds on what is owed.
LEMMA OwedAlways == Spec => []OwedInv
<1>1. QueueInv /\ OwedInv /\ [Next]_vars => OwedInv'
    BY OwedStep
<1> QED
    BY <1>1, OwedInit, QueueAlways, PTL DEF Spec

------------------------------------------------------------------------------
(* Theorems *)

\* Whatever is killed, every variable keeps its type and no queue holds more than it can.
THEOREM QueueTypeCorrect == Spec => []TypeOK
<1>1. QueueInv => TypeOK
    BY DEF QueueInv
<1> QED
    BY <1>1, QueueAlways, PTL

\* The processes of a pid get their tokens in the order in which they were given, also
\* those left for an earlier process and those of an earlier server.
THEOREM PidsInOrder == Spec => []TokensInOrder
<1>1. QueueInv => TokensInOrder
    BY DEF QueueInv, Ordered, TokensInOrder
<1> QED
    BY <1>1, QueueAlways, PTL

\* A pid is owed at most one answer for each process that had it.  Since no pid has more
\* processes than a queue has messages, mq_send to a client always finds room.
THEOREM OneDebtPerProcess == Spec => []OwedPerLife
<1>1. QueueInv /\ OwedInv => OwedPerLife
    <2> SUFFICES ASSUME QueueInv, OwedInv, NEW c \in Pids
                 PROVE  Owed(c) <= lives[c]
        BY DEF OwedPerLife
    <2>1. Owed(c) = Queued(c) + Hand(c) + Len(answers[c])
        BY DEF Owed, Queued, At, Hand
    <2> QED
        BY <2>1, OwedNumbers DEF OwedInv, NoMoreThanDue, QueueInv
<1> QED
    BY <1>1, OwedAlways, QueueAlways, PTL

\* A client takes the answer to a request of another process only if one with its pid ended
\* while it waited.
THEOREM OthersAnswersWereAbandoned == Spec => []OwnAnswer
<1>1. QueueInv /\ OwedInv => OwnAnswer
    <2> SUFFICES ASSUME QueueInv, OwedInv, NEW c \in Pids
                 PROVE  Owed(c) <= abandoned[c] + One(client[c] = "wait")
        BY DEF OwnAnswer
    <2>1. Owed(c) = Queued(c) + Hand(c) + Len(answers[c])
        BY DEF Owed, Queued, At, Hand
    <2> QED
        BY <2>1 DEF OwedInv, NoMoreThanDue, Allowed
<1> QED
    BY <1>1, OwedAlways, QueueAlways, PTL

\* Of two answers of one pid that are not the same answer, one came before.
LEMMA OneOfPid ==
    ASSUME QueueInv, NEW c \in Pids, NEW g, NEW h,
           g \in {<<c, "queue", n>> : n \in DOMAIN answers[c]}
                   \cup {<<c, "got", n>> : n \in DOMAIN got[c]},
           h \in {<<c, "queue", n>> : n \in DOMAIN answers[c]}
                   \cup {<<c, "got", n>> : n \in DOMAIN got[c]},
           AnswerAt(g) = AnswerAt(h)
    PROVE  g = h
<1> USE DEF AnswerAt
<1>1. \A x \in Tokens(c) : ~Before(x, x)
    BY DEF QueueInv, Recent, Answer, Before
<1>2. /\ \A n \in DOMAIN answers[c] : answers[c][n] \in Tokens(c)
      /\ \A n \in DOMAIN got[c] : got[c][n] \in Tokens(c)
    BY DEF Tokens
<1>3. /\ \A n, k \in DOMAIN answers[c] : answers[c][n] = answers[c][k] => n = k
      /\ \A n, k \in DOMAIN got[c] : got[c][n] = got[c][k] => n = k
      /\ \A n \in DOMAIN got[c], k \in DOMAIN answers[c] : got[c][n] # answers[c][k]
    <2>1. /\ answers[c] \in Seq(Answer) /\ got[c] \in Seq(Answer)
          /\ \A n, k \in DOMAIN got[c] : n < k => Before(got[c][n], got[c][k])
          /\ \A n, k \in DOMAIN answers[c] : n < k => Before(answers[c][n], answers[c][k])
          /\ \A n \in DOMAIN got[c], k \in DOMAIN answers[c] : Before(got[c][n], answers[c][k])
        BY DEF QueueInv, TypeOK, Ordered
    <2>2. /\ \A n, k \in DOMAIN answers[c] : n < k \/ n = k \/ k < n
          /\ \A n, k \in DOMAIN got[c] : n < k \/ n = k \/ k < n
        BY <2>1
    <2> QED
        BY <1>1, <1>2, <2>1, <2>2
<1>4. CASE \E n \in DOMAIN answers[c] : g = <<c, "queue", n>>
    <2>1. PICK n \in DOMAIN answers[c] : g = <<c, "queue", n>>
        BY <1>4
    <2>2. CASE \E k \in DOMAIN answers[c] : h = <<c, "queue", k>>
        BY <1>3, <2>1, <2>2
    <2>3. CASE \E k \in DOMAIN got[c] : h = <<c, "got", k>>
        BY <1>3, <2>1, <2>3
    <2> QED
        BY <2>2, <2>3
<1>5. CASE \E n \in DOMAIN got[c] : g = <<c, "got", n>>
    <2>1. PICK n \in DOMAIN got[c] : g = <<c, "got", n>>
        BY <1>5
    <2>2. CASE \E k \in DOMAIN answers[c] : h = <<c, "queue", k>>
        BY <1>3, <2>1, <2>2
    <2>3. CASE \E k \in DOMAIN got[c] : h = <<c, "got", k>>
        BY <1>3, <2>1, <2>3
    <2> QED
        BY <2>2, <2>3
<1> QED
    BY <1>4, <1>5

\* No token of a run is given twice, to any pid, whatever is killed.
THEOREM TokensAreUnique == Spec => []TokensOnce
<1>1. ASSUME QueueInv PROVE TokensOnce
    <2> SUFFICES ASSUME NEW g \in Given, NEW h \in Given, AnswerAt(g) = AnswerAt(h)
                 PROVE  g = h
        BY DEF TokensOnce
    <2> DEFINE Of(c) == {<<c, "queue", n>> : n \in DOMAIN answers[c]}
                          \cup {<<c, "got", n>> : n \in DOMAIN got[c]}
    <2>1. PICK c \in Pids, d \in Pids : g \in Of(c) /\ h \in Of(d)
        BY DEF Given
    <2>2. \A e \in Pids : \A f \in Of(e) : AnswerAt(f) \in Tokens(e)
        BY DEF AnswerAt, Tokens
    <2>3. c = d
        BY <1>1, <2>1, <2>2 DEF QueueInv, Apart
    <2> QED
        BY <1>1, <2>1, <2>3, OneOfPid
<1> QED
    BY <1>1, QueueAlways, PTL

==============================================================================
