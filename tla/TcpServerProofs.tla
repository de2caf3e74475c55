--------------------------- MODULE TcpServerProofs ---------------------------
(***************************************************************************)
(* For any number of clients, any backlog and any size of buffer: a line   *)
(* that a user typed is answered as long as the server lives, and only a   *)
(* killed client makes the server of tcp end by itself.  It rests on the   *)
(* place of a connection, the backlog or the server's hands (PlaceInv),    *)
(* and on what has become of a client's line at each of its steps          *)
(* (LineOK): a line leaves no byte unread, so no close of the server       *)
(* resets the connection and takes its answer back.                        *)
(***************************************************************************)
EXTENDS TcpServer, SequenceTheorems, TLAPS

\* Every step expands the groups of variables and the common guards.
USE DEF serverVars, clientVars, ServerGoto, ClientGoto

\* The server has a connection from accept to close.
ConnInv == conn # None <=> srv \in {"read", "write", "wait", "close", "error"}

\* A connection has one place.
PlaceInv ==
    /\ \A i, j \in DOMAIN backlog : backlog[i] = backlog[j] => i = j
    /\ \A i \in DOMAIN backlog : backlog[i] # conn
    /\ \A c \in Clients : client[c] = "new" => ~Served(c)

\* What a user typed leaves room in a buffer.
SizeInv == \A c \in Clients \ unwritten : line[c] < BUF /\ toServer[c] < BUF

\* A connection whose line the server has not read yet.
Queued(c) == (\E i \in DOMAIN backlog : backlog[i] = c) \/ (conn = c /\ srv = "read")

LineOK(c) ==
    /\ client[c] \in {"new", "ask"} => line[c] = 0
    /\ client[c] \in {"new", "ask", "send"} => toServer[c] = 0
    /\ client[c] \in {"ask", "send"} => Queued(c)
    /\ client[c] = "recv" =>
          \/ toServer[c] > 0 /\ Queued(c)
          \/ toServer[c] = 0 /\ ((conn = c /\ srv = "write") \/ c \in answered)
    /\ client[c] = "failed" => line[c] = 0

Up == srv \notin {"error", "down"}

LinesInv == Up => \A c \in Clients \ unwritten : LineOK(c)

\* Only the server of tcp reads twice, and an answer is left unread by a killed client.
DeathInv ==
    /\ srv \in {"wait", "error"} => program = "tcp"
    /\ \A c \in tardy : client[c] = "killed"
    /\ srv = "error" => conn \in tardy

TcpInv == TypeOK /\ ConnInv /\ PlaceInv /\ SizeInv /\ LinesInv /\ DeathInv

------------------------------------------------------------------------------
(* Operators *)

\* The least of two numbers.
LEMMA MinOfTwo ==
    ASSUME NEW a \in Nat, NEW b \in Nat
    PROVE  Min({a, b}) = IF a <= b THEN a ELSE b
    BY DEF Min

\* What is left of a client's bytes after a read.
LEMMA TakeLeaves ==
    ASSUME TypeOK, conn \in Clients, NEW size \in Nat, Take(size)
    PROVE  /\ toServer' \in [Clients -> Nat]
           /\ \A c \in Clients : toServer'[c] <= toServer[c]
           /\ \A c \in Clients : c # conn => toServer'[c] = toServer[c]
           /\ toServer[conn] <= size => toServer'[conn] = 0
<1>1. toServer[conn] \in Nat
    BY DEF TypeOK
<1>2. PICK m : m = Min({toServer[conn], size})
    OBVIOUS
<1>3. m = IF toServer[conn] <= size THEN toServer[conn] ELSE size
    BY <1>1, <1>2, MinOfTwo
<1>4. toServer' = [toServer EXCEPT ![conn] = toServer[conn] - m]
    BY <1>2 DEF Take
<1> QED
    BY <1>1, <1>3, <1>4 DEF TypeOK

\* A reset loses no answer of a client whose bytes were all read.
LEMMA ResetKeeps ==
    ASSUME TypeOK, NEW S, Reset(S)
    PROVE  /\ answered' \subseteq answered
           /\ \A c \in answered : c \notin S \/ toServer[c] = 0 => c \in answered'
    BY DEF Reset, TypeOK

\* The first of a queue and the rest of it.
LEMMA TailPlaces ==
    ASSUME NEW S, NEW q \in Seq(S), q # <<>>
    PROVE  /\ Tail(q) \in Seq(S) /\ Len(Tail(q)) = Len(q) - 1 /\ Len(q) \in Nat \ {0}
           /\ Head(q) = q[1] /\ 1 \in DOMAIN q /\ q[1] \in S
           /\ \A i \in DOMAIN Tail(q) :
                 i \in Nat \ {0} /\ i + 1 \in DOMAIN q /\ Tail(q)[i] = q[i + 1]
           /\ \A i \in DOMAIN q :
                 i # 1 => /\ i - 1 \in DOMAIN Tail(q) /\ Tail(q)[i - 1] = q[i]
<1>1. Len(q) \in Nat \ {0} /\ DOMAIN q = 1 .. Len(q)
    BY EmptySeq, LenProperties
<1>2. /\ Tail(q) \in Seq(S) /\ Len(Tail(q)) = Len(q) - 1
      /\ \A i \in 1 .. Len(Tail(q)) : Tail(q)[i] = q[i + 1]
    BY HeadTailProperties
<1>3. DOMAIN Tail(q) = 1 .. Len(q) - 1
    BY <1>2, LenProperties
<1>4. Head(q) = q[1] /\ q[1] \in S
    BY <1>1
<1> QED
    BY <1>1, <1>2, <1>3, <1>4

\* One more at the end of a queue.
LEMMA AppendPlaces ==
    ASSUME NEW S, NEW q \in Seq(S), NEW e \in S, NEW r, r = Append(q, e)
    PROVE  /\ r \in Seq(S) /\ Len(r) = Len(q) + 1 /\ Len(q) \in Nat
           /\ DOMAIN q = 1 .. Len(q) /\ DOMAIN r = 1 .. Len(q) + 1
           /\ r[Len(q) + 1] = e /\ \A i \in DOMAIN q : r[i] = q[i]
    OBVIOUS

------------------------------------------------------------------------------
(* The steps, one part of the invariant at a time *)

\* At the start nobody is connected.
LEMMA TcpInit == Init => TcpInv
<1> SUFFICES ASSUME Init PROVE TcpInv
    OBVIOUS
<1>1. backlog = <<>> /\ DOMAIN backlog = {} /\ backlog \in Seq(Clients) /\ Len(backlog) = 0
    BY DEF Init
<1>2. TypeOK
    BY <1>1, SizesAssumption DEF Init, TypeOK
<1>3. ConnInv /\ PlaceInv /\ SizeInv /\ DeathInv
    BY <1>1, ClientsAssumption, SizesAssumption
    DEF Init, ConnInv, PlaceInv, SizeInv, DeathInv, Served
<1>4. LinesInv
    BY DEF Init, LinesInv, LineOK
<1> QED
    BY <1>2, <1>3, <1>4 DEF TcpInv

\* With a connection in hand it is a client's.
LEMMA InHand ==
    ASSUME TypeOK, ConnInv
    PROVE  srv \in {"read", "write", "wait", "close", "error"} => conn \in Clients
    BY DEF TypeOK, ConnInv

\* The server's steps keep types, and its connection and pc in step.
LEMMA ServerType ==
    ASSUME TcpInv, ServerStep \/ ServerDies
    PROVE  TypeOK' /\ ConnInv' /\ SizeInv'
<1> USE DEF TcpInv
<1>1. CASE Bind \/ Listen
    BY <1>1 DEF TypeOK, ConnInv, SizeInv, Bind, Listen
<1>2. CASE Accept
    <2>1. PICK q \in Seq(Clients) : q = backlog /\ q # <<>>
        BY <1>2 DEF TypeOK, Accept
    <2>2. /\ Tail(q) \in Seq(Clients) /\ Len(Tail(q)) = Len(q) - 1 /\ Len(q) \in Nat
          /\ Head(q) \in Clients
        BY <2>1, TailPlaces
    <2>3. /\ conn' = Head(q) /\ backlog' = Tail(q) /\ srv' = "read"
          /\ UNCHANGED <<program, n, client, line, toServer, answered, unwritten, tardy>>
        BY <1>2, <2>1 DEF Accept
    <2>4. backlog' \in Seq(Clients) /\ Len(backlog') <= Backlog + 1
        BY <2>1, <2>2, <2>3, SizesAssumption DEF TypeOK
    <2>5. conn' \in Clients /\ conn' # None
        BY <2>2, <2>3, ClientsAssumption
    <2> QED
        BY <2>3, <2>4, <2>5 DEF TypeOK, ConnInv, SizeInv
<1>3. CASE Read
    <2>1. conn \in Clients /\ toServer[conn] \in Nat
        BY <1>3, InHand DEF TypeOK, Read
    <2>2. PICK m : m = Min({toServer[conn], BUF})
        OBVIOUS
    <2>3. m = IF toServer[conn] <= BUF THEN toServer[conn] ELSE BUF
        BY <2>1, <2>2, MinOfTwo, SizesAssumption
    <2>4. /\ n' = m /\ srv' = "write"
          /\ UNCHANGED <<program, conn, backlog, client, line, answered, unwritten, tardy>>
          /\ Take(BUF) /\ srv = "read"
        BY <1>3, <2>2 DEF Read
    <2>5. n' \in 0 .. BUF
        BY <2>1, <2>3, <2>4, SizesAssumption
    <2>6. unwritten = {} => n' < BUF
        BY <2>1, <2>3, <2>4, SizesAssumption DEF SizeInv
    <2>7. /\ toServer' \in [Clients -> Nat]
          /\ \A c \in Clients : toServer'[c] <= toServer[c]
        BY <2>1, <2>4, TakeLeaves, SizesAssumption
    <2>8. SizeInv'
        BY <2>4, <2>7, SizesAssumption DEF TypeOK, SizeInv
    <2> QED
        BY <2>4, <2>5, <2>6, <2>7, <2>8 DEF TypeOK, ConnInv
<1>4. CASE ReadEnd
    BY <1>4, SizesAssumption DEF TypeOK, ConnInv, SizeInv, ReadEnd
<1>5. CASE Write
    BY <1>5, InHand DEF TypeOK, ConnInv, SizeInv, Write
<1>6. CASE ReadAgain
    <2>1. conn \in Clients
        BY <1>6, InHand DEF ReadAgain
    <2>2. /\ srv = "wait" /\ srv' = "close" /\ Take(BUF)
          /\ UNCHANGED <<program, conn, n, backlog, client, line, answered, unwritten, tardy>>
        BY <1>6 DEF ReadAgain
    <2>3. /\ toServer' \in [Clients -> Nat]
          /\ \A c \in Clients : toServer'[c] <= toServer[c]
        BY <2>1, <2>2, TakeLeaves, SizesAssumption
    <2>4. SizeInv'
        BY <2>2, <2>3, SizesAssumption DEF TypeOK, SizeInv
    <2> QED
        BY <2>2, <2>3, <2>4 DEF TypeOK, ConnInv
<1>7. CASE ReadFails
    BY <1>7, SizesAssumption DEF TypeOK, ConnInv, SizeInv, ReadFails
<1>8. CASE Close
    <2>1. answered' \subseteq answered
        BY <1>8, ResetKeeps DEF Close
    <2> QED
        BY <1>8, <2>1, SizesAssumption DEF TypeOK, ConnInv, SizeInv, Close
<1>9. CASE ServerDies
    <2>1. answered' \subseteq answered
        BY <1>9, ResetKeeps DEF ServerDies
    <2> QED
        BY <1>9, <2>1, SizesAssumption DEF TypeOK, ConnInv, SizeInv, ServerDies
<1> QED
    BY <1>1, <1>2, <1>3, <1>4, <1>5, <1>6, <1>7, <1>8, <1>9 DEF ServerStep

\* What a client can do next.
ClientNext(c) == ClientStep(c) \/ TypeLine(c) \/ EndOfInput(c) \/ ClientDies(c)

\* So do the clients' steps.
LEMMA ClientType ==
    ASSUME TcpInv, NEW c \in Clients, ClientNext(c)
    PROVE  TypeOK' /\ ConnInv' /\ SizeInv'
<1> USE DEF TcpInv
<1>1. CASE Connect(c)
    <2>1. backlog' \in Seq(Clients) /\ Len(backlog') = Len(backlog) + 1 /\ Len(backlog) <= Backlog
        BY <1>1, AppendPlaces DEF Connect, TypeOK
    <2> QED
        BY <1>1, <2>1, SizesAssumption DEF TypeOK, ConnInv, SizeInv, Connect
<1>2. CASE ConnectFails(c) \/ SendFails(c) \/ ReadAnswer(c) \/ NoAnswer(c) \/ CloseClient(c)
           \/ ClientDies(c)
    <2>1. /\ UNCHANGED <<program, srv, conn, n, backlog, line, toServer, answered, unwritten>>
          /\ tardy' \subseteq Clients
        BY <1>2
        DEF TypeOK, ConnectFails, SendFails, ReadAnswer, NoAnswer, CloseClient, ClientDies
    <2>2. client' \in [Clients ->
              {"new", "ask", "send", "recv", "close", "done", "failed", "killed"}]
        BY <1>2
        DEF TypeOK, ConnectFails, SendFails, ReadAnswer, NoAnswer, CloseClient, ClientDies
    <2> QED
        BY <2>1, <2>2 DEF TypeOK, ConnInv, SizeInv
<1>3. CASE TypeLine(c)
    BY <1>3, SizesAssumption DEF TypeOK, ConnInv, SizeInv, TypeLine
<1>4. CASE EndOfInput(c)
    BY <1>4, SizesAssumption DEF TypeOK, ConnInv, SizeInv, EndOfInput
<1>5. CASE SendLine(c)
    BY <1>5 DEF TypeOK, ConnInv, SizeInv, SendLine
<1> QED
    BY <1>1, <1>2, <1>3, <1>4, <1>5 DEF ClientNext, ClientStep

\* No step puts a connection in two places, or in any before connect.
LEMMA PlaceStep ==
    ASSUME TcpInv, ServerStep \/ ServerDies \/ \E c \in Clients : ClientNext(c)
    PROVE  PlaceInv'
<1> USE DEF TcpInv
<1>1. CASE Accept
    <2>1. PICK q \in Seq(Clients) : q = backlog /\ q # <<>>
        BY <1>1 DEF TypeOK, Accept
    <2>2. /\ Head(q) = q[1] /\ 1 \in DOMAIN q
          /\ \A i \in DOMAIN Tail(q) :
                i \in Nat \ {0} /\ i + 1 \in DOMAIN q /\ Tail(q)[i] = q[i + 1]
        BY <2>1, TailPlaces
    <2>3. conn' = q[1] /\ backlog' = Tail(q) /\ client' = client
        BY <1>1, <2>1, <2>2 DEF Accept
    <2>4. \A i, j \in DOMAIN q : q[i] = q[j] => i = j
        BY <2>1 DEF PlaceInv
    <2>5. \A i, j \in DOMAIN backlog' : backlog'[i] = backlog'[j] => i = j
        BY <2>2, <2>3, <2>4
    <2>6. \A i \in DOMAIN backlog' : backlog'[i] # conn'
        BY <2>2, <2>3, <2>4
    <2>7. ASSUME NEW c \in Clients, client'[c] = "new"
          PROVE  ~Served(c)'
        BY <2>1, <2>2, <2>3, <2>7 DEF PlaceInv, Served
    <2> QED
        BY <2>5, <2>6, <2>7 DEF PlaceInv
<1>2. CASE Bind \/ Listen \/ Read \/ ReadEnd \/ Write \/ ReadAgain
    BY <1>2 DEF PlaceInv, Served, Bind, Listen, Read, ReadEnd, Write, ReadAgain
<1>3. CASE ReadFails
    <2>1. backlog' = <<>> /\ DOMAIN backlog' = {} /\ conn' = conn /\ client' = client
        BY <1>3 DEF ReadFails
    <2> QED
        BY <2>1 DEF PlaceInv, Served
<1>4. CASE Close
    <2>1. backlog' = backlog /\ conn' = None /\ client' = client
        BY <1>4 DEF Close
    <2>2. \A i \in DOMAIN backlog : backlog[i] \in Clients
        BY DEF TypeOK
    <2> QED
        BY <2>1, <2>2, ClientsAssumption DEF PlaceInv, Served
<1>5. CASE ServerDies
    <2>1. backlog' = <<>> /\ DOMAIN backlog' = {} /\ conn' = None /\ client' = client
        BY <1>5 DEF ServerDies
    <2> QED
        BY <2>1, ClientsAssumption DEF PlaceInv, Served
<1>6. ASSUME NEW c \in Clients, Connect(c)
      PROVE  PlaceInv'
    <2>1. /\ client[c] = "new" /\ client' = [client EXCEPT ![c] = "ask"] /\ conn' = conn
          /\ backlog' = Append(backlog, c) /\ backlog \in Seq(Clients)
        BY <1>6 DEF Connect, TypeOK
    <2>2. /\ Len(backlog) \in Nat /\ DOMAIN backlog = 1 .. Len(backlog)
          /\ DOMAIN backlog' = 1 .. Len(backlog) + 1
          /\ backlog'[Len(backlog) + 1] = c /\ \A i \in DOMAIN backlog : backlog'[i] = backlog[i]
        BY <2>1, AppendPlaces
    <2>3. conn # c /\ \A i \in DOMAIN backlog : backlog[i] # c
        BY <2>1 DEF PlaceInv, Served
    <2>4. \A i, j \in DOMAIN backlog' : backlog'[i] = backlog'[j] => i = j
        BY <2>2, <2>3 DEF PlaceInv
    <2>5. \A i \in DOMAIN backlog' : backlog'[i] # conn'
        BY <2>1, <2>2, <2>3 DEF PlaceInv
    <2>6. ASSUME NEW d \in Clients, client'[d] = "new"
          PROVE  ~Served(d)'
        <3>1. d # c /\ client[d] = "new"
            BY <2>1, <2>6 DEF TypeOK
        <3> QED
            BY <2>1, <2>2, <3>1 DEF PlaceInv, Served
    <2> QED
        BY <2>4, <2>5, <2>6 DEF PlaceInv
<1>7. ASSUME NEW c \in Clients, ClientNext(c), ~Connect(c)
      PROVE  PlaceInv'
    <2>1. UNCHANGED <<conn, backlog>>
        BY <1>7
        DEF ClientNext, ClientStep, ConnectFails, SendLine, SendFails, ReadAnswer, NoAnswer,
            CloseClient, TypeLine, EndOfInput, ClientDies
    <2>2. \A d \in Clients : client'[d] = "new" => client[d] = "new"
        BY <1>7
        DEF TypeOK, ClientNext, ClientStep, ConnectFails, SendLine, SendFails, ReadAnswer,
            NoAnswer, CloseClient, TypeLine, EndOfInput, ClientDies
    <2> QED
        BY <2>1, <2>2 DEF PlaceInv, Served
<1> QED
    BY <1>1, <1>2, <1>3, <1>4, <1>5, <1>6, <1>7 DEF ServerStep

\* Only a death leaves an answer unread, and only the read of tcp fails of it.
LEMMA DeathStep ==
    ASSUME TcpInv, ServerStep \/ ServerDies \/ \E c \in Clients : ClientNext(c)
    PROVE  DeathInv'
<1> USE DEF TcpInv, DeathInv
<1>1. CASE ServerStep \/ ServerDies
    BY <1>1
    DEF ServerStep, Bind, Listen, Accept, Read, ReadEnd, Write, ReadAgain, ReadFails, Close,
        ServerDies
<1>2. ASSUME NEW c \in Clients, ClientDies(c)
      PROVE  DeathInv'
    BY <1>2 DEF TypeOK, ClientDies
<1>3. ASSUME NEW c \in Clients, ClientNext(c), ~ClientDies(c)
      PROVE  DeathInv'
    <2>1. /\ UNCHANGED <<srv, program, conn, tardy>> /\ client[c] # "killed"
          /\ \A d \in Clients : d # c => client'[d] = client[d]
        BY <1>3
        DEF TypeOK, ClientNext, ClientStep, Connect, ConnectFails, SendLine, SendFails,
            ReadAnswer, NoAnswer, CloseClient, TypeLine, EndOfInput
    <2> QED
        BY <2>1 DEF TypeOK
<1> QED
    BY <1>1, <1>2, <1>3

\* What the server does to the line of a client.
LEMMA ServerLines ==
    ASSUME TcpInv, ServerStep \/ ServerDies, Up', NEW c \in Clients \ unwritten
    PROVE  LineOK(c)'
<1> USE DEF TcpInv
<1>1. /\ Up /\ LineOK(c) /\ toServer[c] \in Nat /\ toServer[c] < BUF
      /\ client' = client /\ line' = line
    BY DEF LinesInv, SizeInv, TypeOK, Up, ServerStep, Bind, Listen, Accept, Read, ReadEnd, Write,
           ReadAgain, ReadFails, Close, ServerDies
<1>2. conn = c => \A i \in DOMAIN backlog : backlog[i] # c
    BY DEF PlaceInv
<1>3. CASE Bind \/ Listen
    BY <1>1, <1>3 DEF LineOK, Queued, Bind, Listen
<1>4. CASE Accept
    <2>1. PICK q \in Seq(Clients) : q = backlog /\ q # <<>>
        BY <1>4 DEF TypeOK, Accept
    <2>2. /\ Head(q) = q[1]
          /\ \A i \in DOMAIN q : i # 1 => i - 1 \in DOMAIN Tail(q) /\ Tail(q)[i - 1] = q[i]
        BY <2>1, TailPlaces
    <2>3. /\ srv = "accept" /\ srv' = "read" /\ conn' = q[1] /\ backlog' = Tail(q)
          /\ UNCHANGED <<toServer, answered>>
        BY <1>4, <2>1, <2>2 DEF Accept
    <2>4. Queued(c) => Queued(c)'
        BY <2>1, <2>2, <2>3 DEF Queued
    <2> QED
        BY <1>1, <2>3, <2>4 DEF LineOK
<1>5. CASE Read
    <2>1. conn \in Clients /\ srv = "read" /\ srv' = "write" /\ toServer[conn] > 0 /\ Take(BUF)
          /\ UNCHANGED <<conn, backlog, answered>>
        BY <1>5, InHand DEF Read
    <2>2. /\ c # conn => toServer'[c] = toServer[c]
          /\ c = conn => toServer'[c] = 0
        BY <1>1, <2>1, TakeLeaves, SizesAssumption
    <2> QED
        BY <1>1, <1>2, <2>1, <2>2 DEF LineOK, Queued
<1>6. CASE ReadEnd
    BY <1>1, <1>2, <1>6 DEF LineOK, Queued, ReadEnd, Here
<1>7. CASE Write
    BY <1>1, <1>2, <1>7 DEF LineOK, Queued, Write, Here
<1>8. CASE ReadAgain
    <2>1. conn \in Clients /\ srv = "wait" /\ srv' = "close" /\ Take(BUF)
          /\ UNCHANGED <<conn, backlog, answered>>
        BY <1>8, InHand DEF ReadAgain
    <2>2. /\ c # conn => toServer'[c] = toServer[c]
          /\ c = conn => toServer'[c] = 0
        BY <1>1, <2>1, TakeLeaves, SizesAssumption
    <2> QED
        BY <1>1, <1>2, <2>1, <2>2 DEF LineOK, Queued
<1>9. CASE Close
    <2>1. /\ conn \in Clients /\ srv = "close" /\ srv' = "accept" /\ backlog' = backlog
          /\ toServer' = [toServer EXCEPT ![conn] = 0] /\ Reset({conn})
        BY <1>9, InHand DEF Close
    <2>2. c \in answered /\ (c # conn \/ toServer[c] = 0) => c \in answered'
        BY <2>1, ResetKeeps
    <2>3. toServer'[c] = IF c = conn THEN 0 ELSE toServer[c]
        BY <2>1 DEF TypeOK
    <2> QED
        BY <1>1, <1>2, <2>1, <2>2, <2>3 DEF LineOK, Queued
<1> QED
    BY <1>3, <1>4, <1>5, <1>6, <1>7, <1>8, <1>9 DEF ServerStep, ReadFails, ServerDies, Up

\* What a client's own step does to its line, and to nobody else's.
LEMMA ClientLines ==
    ASSUME TcpInv, NEW d \in Clients, ClientNext(d), Up', NEW c \in Clients \ unwritten'
    PROVE  LineOK(c)'
<1> USE DEF TcpInv
<1>1. /\ UNCHANGED <<srv, conn, answered>> /\ unwritten \subseteq unwritten'
    BY DEF ClientNext, ClientStep, Connect, ConnectFails, SendLine, SendFails, ReadAnswer, NoAnswer,
           CloseClient, TypeLine, EndOfInput, ClientDies
<1>2. LineOK(c)
    BY <1>1 DEF LinesInv, Up
<1>3. Queued(c) => Queued(c)' /\ Served(c)
    <2>1. CASE Connect(d)
        <3>1. backlog \in Seq(Clients) /\ backlog' = Append(backlog, d)
            BY <2>1 DEF Connect, TypeOK
        <3>2. \A i \in DOMAIN backlog : i \in DOMAIN backlog' /\ backlog'[i] = backlog[i]
            BY <3>1, AppendPlaces
        <3> QED
            BY <1>1, <3>2 DEF Queued, Served
    <2>2. CASE ~Connect(d)
        BY <1>1, <2>2
        DEF Queued, Served, ClientNext, ClientStep, ConnectFails, SendLine, SendFails, ReadAnswer,
            NoAnswer, CloseClient, TypeLine, EndOfInput, ClientDies
    <2> QED
        BY <2>1, <2>2
<1>4. CASE c # d
    <2>1. client'[c] = client[c] /\ line'[c] = line[c] /\ toServer'[c] = toServer[c]
        BY <1>4
        DEF TypeOK, ClientNext, ClientStep, Connect, ConnectFails, SendLine, SendFails, ReadAnswer,
            NoAnswer, CloseClient, TypeLine, EndOfInput, ClientDies
    <2> QED
        BY <1>1, <1>2, <1>3, <2>1 DEF LineOK
<1>5. CASE c = d /\ Connect(d)
    <2>1. backlog \in Seq(Clients) /\ backlog' = Append(backlog, c)
        BY <1>5 DEF Connect, TypeOK
    <2>2. Len(backlog) + 1 \in DOMAIN backlog' /\ backlog'[Len(backlog) + 1] = c
        BY <2>1, AppendPlaces
    <2>3. Queued(c)'
        BY <2>2 DEF Queued
    <2> QED
        BY <1>2, <1>5, <2>3 DEF LineOK, Connect, TypeOK
<1>6. CASE c = d /\ TypeLine(d)
    BY <1>2, <1>3, <1>6 DEF LineOK, TypeLine, TypeOK
<1>7. CASE c = d /\ SendLine(d)
    BY <1>2, <1>3, <1>7 DEF LineOK, SendLine, TypeOK
<1>8. CASE c = d /\ (ConnectFails(d) \/ SendFails(d))
    BY <1>2, <1>3, <1>8 DEF LineOK, ConnectFails, SendFails, TypeOK
<1>9. CASE c = d /\ NoAnswer(d)
    BY <1>2, <1>3, <1>9 DEF LineOK, NoAnswer, Served
<1>10. CASE c = d /\ (ReadAnswer(d) \/ CloseClient(d) \/ ClientDies(d))
    BY <1>10 DEF LineOK, ReadAnswer, CloseClient, ClientDies, TypeOK
<1>11. CASE c = d /\ EndOfInput(d)
    BY <1>11 DEF EndOfInput
<1> QED
    BY <1>4, <1>5, <1>6, <1>7, <1>8, <1>9, <1>10, <1>11 DEF ClientNext, ClientStep

\* Every step keeps the invariant.
LEMMA TcpStep == TcpInv /\ [Next]_vars => TcpInv'
<1> SUFFICES ASSUME TcpInv, [Next]_vars PROVE TcpInv'
    OBVIOUS
<1>1. CASE ServerStep \/ ServerDies
    <2>1. unwritten' = unwritten
        BY <1>1
        DEF ServerStep, Bind, Listen, Accept, Read, ReadEnd, Write, ReadAgain, ReadFails, Close,
            ServerDies
    <2>2. LinesInv'
        BY <1>1, <2>1, ServerLines DEF LinesInv
    <2> QED
        BY <1>1, <2>2, ServerType, PlaceStep, DeathStep DEF TcpInv
<1>2. ASSUME NEW c \in Clients, ClientNext(c)
      PROVE  TcpInv'
    <2>1. LinesInv'
        BY <1>2, ClientLines DEF LinesInv
    <2> QED
        BY <1>2, <2>1, ClientType, PlaceStep, DeathStep DEF TcpInv
<1>3. CASE UNCHANGED vars
    BY <1>3
    DEF vars, TcpInv, TypeOK, ConnInv, PlaceInv, SizeInv, LinesInv, DeathInv, Served, LineOK,
        Queued, Up
<1> QED
    BY <1>1, <1>2, <1>3 DEF Next, ClientNext

\* The invariant holds for ever.
LEMMA TcpAlways == Spec => []TcpInv
    BY TcpInit, TcpStep, PTL DEF Spec

------------------------------------------------------------------------------
(* Theorems *)

\* Every variable keeps its type, the backlog has at most one more than listen asked for,
\* and buffer[n] is inside the buffer unless a client sent a buf that it never wrote.
THEOREM TcpTypeCorrect == Spec => []TypeOK
<1>1. TcpInv => TypeOK
    BY DEF TcpInv
<1> QED
    BY <1>1, TcpAlways, PTL

\* A client that sent a line that its user typed fails only if the server has ended.
THEOREM TypedIsAnswered == Spec => []LinesAnswered
<1>1. TcpInv => LinesAnswered
    BY DEF TcpInv, LinesInv, LineOK, Up, LinesAnswered
<1> QED
    BY <1>1, TcpAlways, PTL

\* The server ends by itself only in the second read of tcp, and only of a killed client.
THEOREM OnlyDeathEnds == Spec => []OnlyDeathEndsServer
<1>1. TcpInv => OnlyDeathEndsServer
    BY DEF TcpInv, DeathInv, OnlyDeathEndsServer
<1> QED
    BY <1>1, TcpAlways, PTL

==============================================================================
