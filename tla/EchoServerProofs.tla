--------------------------- MODULE EchoServerProofs ---------------------------
(***************************************************************************)
(* For any number of servers, clients and lines, whatever dies and whoever *)
(* takes the socket file: no byte is lost, doubled or sent to another      *)
(* client while a connection lasts, and a prompt follows a whole answer.   *)
(* It rests on two facts: a connection is in one place (PlaceInv), and of  *)
(* what its client sent only the last line is on the way, in one of the    *)
(* four places where it can be (LineOK).                                   *)
(***************************************************************************)
EXTENDS EchoServer, FiniteSetTheorems, FunctionTheorems, SequenceTheorems, TLAPS

\* Every step expands the groups of variables and the common guards.
USE DEF serverVars, clientVars, ServerGoto, ClientGoto

\* A line and its echo leave room in a buffer for the end of the text.
SizeInv ==
    \A c \in Clients :
        Len(send_buf[c]) < BUF /\ Len(toServer[c]) < BUF /\ Len(toClient[c]) < BUF

\* A server has a connection while it serves it.
ConnInv == \A s \in Servers : conn[s] = None <=> srv[s] \notin {"recv", "send", "close"}

\* A connection has one place: the hands of one server, or one place of one backlog.
PlaceInv ==
    /\ \A s, t \in Servers :
          /\ conn[s] # None /\ conn[s] = conn[t] => s = t
          /\ \A i \in DOMAIN backlog[t] : backlog[t][i] # conn[s]
          /\ \A i \in DOMAIN backlog[s], j \in DOMAIN backlog[t] :
                backlog[s][i] = backlog[t][j] => s = t /\ i = j
    /\ \A c \in Clients : client[c] = "new" => ~ServerEnd(c)

\* Where the last line of a client is: echoed and read, sent, received, or echoed.
Nothing(c) ==
    toServer[c] = <<>> /\ toClient[c] = <<>> /\ InHand(c) = {} /\ got[c] = typed[c]
OnTheWay(c) ==
    toClient[c] = <<>> /\ InHand(c) = {} /\ typed[c] = got[c] \o toServer[c]
Received(c) ==
    /\ toServer[c] = <<>> /\ toClient[c] = <<>>
    /\ \E s \in Servers : InHand(c) = {s} /\ typed[c] = got[c] \o buf[s]
Echoed(c) ==
    toServer[c] = <<>> /\ InHand(c) = {} /\ typed[c] = got[c] \o toClient[c]

\* The server went before it answered.
Lost(c) == ~ServerEnd(c) /\ toClient[c] = <<>>

LineOK(c) ==
    \/ Nothing(c)
    \/ /\ client[c] \in {"recv", "gone"}
       /\ OnTheWay(c) \/ Received(c) \/ Echoed(c) \/ Lost(c)

LineInv == \A c \in Clients : LineOK(c)

EchoInv == TypeOK /\ SizeInv /\ ConnInv /\ PlaceInv /\ LineInv /\ LeavesNothingBehind

------------------------------------------------------------------------------
(* Sequences *)

\* recv takes all of a stream that fits its buffer.
LEMMA TakenAll ==
    ASSUME NEW q \in Bytes, Len(q) < BUF
    PROVE  Taken(q, BUF) = q /\ Left(q, BUF) = <<>>
<1>1. Taken(q, BUF) = q
    BY SubSeqFull DEF Taken, Bytes
<1>2. Len(q) \in Int /\ Len(q) < Len(q) + 1
    BY LenProperties DEF Bytes
<1>3. Left(q, BUF) = <<>>
    BY <1>1, <1>2, SubSeqEmpty DEF Left
<1> QED
    BY <1>1, <1>3

\* The first of a queue and the rest of it.
LEMMA TailPlaces ==
    ASSUME NEW S, NEW q \in Seq(S), q # <<>>
    PROVE  /\ Tail(q) \in Seq(S) /\ Len(Tail(q)) = Len(q) - 1
           /\ Head(q) = q[1] /\ 1 \in DOMAIN q /\ q[1] \in S
           /\ \A i \in DOMAIN Tail(q) :
                 i + 1 \in DOMAIN q /\ Tail(q)[i] = q[i + 1] /\ i \in Nat \ {0}
           /\ \A i \in DOMAIN q : i \in Nat /\ i > 0 /\ q[i] \in S
<1>1. Len(q) \in Nat \ {0} /\ DOMAIN q = 1 .. Len(q)
    BY EmptySeq, LenProperties
<1>2. /\ Tail(q) \in Seq(S) /\ Len(Tail(q)) = Len(q) - 1
      /\ \A i \in 1 .. Len(Tail(q)) : Tail(q)[i] = q[i + 1]
    BY HeadTailProperties
<1>3. DOMAIN Tail(q) = 1 .. Len(q) - 1
    BY <1>2, LenProperties
<1>4. \A i \in DOMAIN q : q[i] \in S
    BY <1>1, ElementOfSeq
<1>5. Head(q) = q[1]
    OBVIOUS
<1> QED
    BY <1>1, <1>2, <1>3, <1>4, <1>5

\* A queue with one more at its end.
LEMMA AppendPlaces ==
    ASSUME NEW S, NEW q \in Seq(S), NEW e \in S
    PROVE  /\ Append(q, e) \in Seq(S) /\ Len(Append(q, e)) = Len(q) + 1
           /\ Len(q) \in Nat
           /\ DOMAIN Append(q, e) = DOMAIN q \cup {Len(q) + 1}
           /\ Len(q) + 1 \notin DOMAIN q
           /\ \A i \in DOMAIN q : Append(q, e)[i] = q[i]
           /\ Append(q, e)[Len(q) + 1] = e
<1>1. Len(q) \in Nat /\ DOMAIN q = 1 .. Len(q)
    BY LenProperties
<1>2. /\ Append(q, e) \in Seq(S) /\ Len(Append(q, e)) = Len(q) + 1
      /\ \A i \in 1 .. Len(q) : Append(q, e)[i] = q[i]
      /\ Append(q, e)[Len(q) + 1] = e
    BY AppendProperties
<1>3. DOMAIN Append(q, e) = 1 .. Len(q) + 1
    BY <1>2, LenProperties
<1> QED
    BY <1>1, <1>2, <1>3

\* Empty streams add nothing.
LEMMA ConcatEmpty ==
    ASSUME NEW q \in Bytes
    PROVE  q \o <<>> = q /\ <<>> \o q = q /\ <<>> \in Bytes /\ Len(<<>>) = 0
BY ConcatEmptySeq, EmptySeq DEF Bytes

\* Joined streams are a stream.
LEMMA ConcatBytes ==
    ASSUME NEW q \in Bytes, NEW r \in Bytes
    PROVE  q \o r \in Bytes
BY ConcatProperties DEF Bytes

\* A server has the connection of c in its hands or in a place of its backlog, before a
\* step and after it.
LEMMA EndPlaces ==
    \A c :
        /\ ServerEnd(c) <=>
              \E s \in Servers : conn[s] = c \/ \E i \in DOMAIN backlog[s] : backlog[s][i] = c
        /\ ServerEnd(c)' <=>
              \E s \in Servers :
                  conn'[s] = c \/ \E i \in DOMAIN backlog'[s] : backlog'[s][i] = c
BY DEF ServerEnd, ToSet

\* A server that answers has a connection.
LEMMA HandEnds == \A c : InHand(c) # {} => ServerEnd(c)
BY DEF InHand, ServerEnd

------------------------------------------------------------------------------
(* Types and sizes *)

\* The steps of a server that touch neither a connection nor a buffer.
Quiet(s) ==
    \/ ServerStart(s) \/ UnlinkPath(s) \/ Bind(s) \/ BindFails(s) \/ Listen(s) \/ RecvEnd(s)

\* The steps of a client that touch no connection and no stream.
Silent(c) ==
    \/ Refused(c) \/ TypeLine(c) \/ ServerIsGone(c) \/ Leave(c) \/ ClientDies(c)

\* A step is of one of these kinds.
LEMMA StepKinds ==
    ASSUME [Next]_vars
    PROVE  \/ \E s \in Servers :
                 Quiet(s) \/ Accept(s) \/ Recv(s) \/ SendEcho(s) \/ Close(s) \/ ServerEnds(s)
           \/ \E c \in Clients : Silent(c) \/ Connect(c) \/ SendLine(c) \/ RecvEcho(c)
           \/ UNCHANGED vars
BY DEF Next, ServerStep, PeerIsGone, ServerDies, ClientStep, Quiet, Silent

\* Every stream is made of bytes.
Streams ==
    /\ send_buf \in [Clients -> Bytes] /\ toServer \in [Clients -> Bytes]
    /\ toClient \in [Clients -> Bytes] /\ typed \in [Clients -> Bytes]
    /\ got \in [Clients -> Bytes]

\* What the processes have besides.
Processes ==
    /\ srv \in [Servers ->
          {"new", "unlink", "bind", "listen", "accept", "recv", "send", "close", "down"}]
    /\ path \in Servers \cup {None} /\ conn \in [Servers -> Clients \cup {None}]
    /\ buf \in [Servers -> Bytes] /\ backlog \in [Servers -> Seq(Clients)]
    /\ \A s \in Servers : Len(buf[s]) < BUF /\ Len(backlog[s]) <= Backlog + 1
    /\ client \in [Clients -> {"new", "ask", "send", "recv", "gone"}]
    /\ killed \subseteq Clients

\* The two parts of the types, before a step and after it.
LEMMA TypeParts == (TypeOK <=> Processes /\ Streams) /\ (TypeOK' <=> Processes' /\ Streams')
BY DEF TypeOK, Processes, Streams

\* A stream that is short stays so when it takes a short value.
LEMMA ShortUpdate ==
    ASSUME NEW f \in [Clients -> Bytes], \A d \in Clients : Len(f[d]) < BUF,
           NEW c \in Clients, NEW v \in Bytes, Len(v) < BUF
    PROVE  /\ [f EXCEPT ![c] = v] \in [Clients -> Bytes]
           /\ \A d \in Clients : Len([f EXCEPT ![c] = v][d]) < BUF
OBVIOUS

\* What the server of a connection has is a client.
LEMMA Peer ==
    ASSUME TypeOK, ConnInv, NEW s \in Servers, srv[s] \in {"recv", "send", "close"}
    PROVE  conn[s] \in Clients
BY DEF TypeOK, ConnInv

\* The next line is shorter than the buffer.
LEMMA LineShort ==
    ASSUME TypeOK, NEW c \in Clients, NEW n \in 1 .. BUF - 1
    PROVE  Line(c, n) \in Bytes /\ Len(Line(c, n)) < BUF
<1>1. typed[c] \in Seq(Nat) /\ DOMAIN typed[c] = 1 .. Len(typed[c]) /\ Len(typed[c]) \in Nat
    BY LenProperties DEF TypeOK, Bytes
<1>2. IsFiniteSet(DOMAIN typed[c])
    BY <1>1, FS_Interval
<1>3. IsFiniteSet(Lines(c))
    <2>1. typed[c] \in Surjection(DOMAIN typed[c], Lines(c))
        BY <1>1 DEF Surjection, Lines
    <2> QED
        BY <1>2, <2>1, FS_Surjection
<1>4. Cardinality(Lines(c)) \in Nat
    BY <1>3, FS_CardinalityType
<1>5. n \in Nat
    BY SizesAssumption
<1>6. Line(c, n) = [b \in 1 .. n |-> 1 + Cardinality(Lines(c))]
    BY DEF Line
<1>7. Line(c, n) \in [1 .. n -> Nat]
    BY <1>4, <1>6
<1> QED
    BY <1>5, <1>7, SizesAssumption DEF Bytes

\* Steps keep the types and the sizes.
LEMMA TypeStep ==
    ASSUME TypeOK, SizeInv, ConnInv, LineInv, [Next]_vars
    PROVE  TypeOK' /\ SizeInv'
<1> USE ProcessesAssumption
<1>1. ASSUME NEW s \in Servers, Quiet(s)
      PROVE  TypeOK' /\ SizeInv'
    <2>1. Streams' /\ SizeInv'
        BY <1>1, TypeParts
        DEF Quiet, ServerStart, UnlinkPath, Bind, BindFails, Listen, RecvEnd, Streams, SizeInv
    <2>2. Processes'
        BY <1>1, TypeParts
        DEF Quiet, ServerStart, UnlinkPath, Bind, BindFails, Listen, RecvEnd, Processes
    <2> QED
        BY <2>1, <2>2, TypeParts
<1>2. ASSUME NEW s \in Servers, Accept(s)
      PROVE  TypeOK' /\ SizeInv'
    <2>1. /\ Head(backlog[s]) \in Clients /\ Tail(backlog[s]) \in Seq(Clients)
          /\ Len(Tail(backlog[s])) <= Backlog + 1
        <3>1. backlog[s] \in Seq(Clients) /\ backlog[s] # <<>> /\ Len(backlog[s]) <= Backlog + 1
            BY <1>2 DEF Accept, TypeOK
        <3> QED
            BY <3>1, TailPlaces, LenProperties, SizesAssumption
    <2> QED
        BY <1>2, <2>1 DEF Accept, TypeOK, SizeInv
<1>3. ASSUME NEW s \in Servers, Recv(s)
      PROVE  TypeOK' /\ SizeInv'
    <2>1. conn[s] \in Clients
        BY <1>3, Peer DEF Recv
    <2>2. toServer[conn[s]] \in Bytes /\ Len(toServer[conn[s]]) < BUF
        BY <2>1 DEF TypeOK, SizeInv
    <2>3. /\ buf' = [buf EXCEPT ![s] = toServer[conn[s]]]
          /\ toServer' = [toServer EXCEPT ![conn[s]] = <<>>]
        BY <1>3, <2>2, TakenAll DEF Recv
    <2>4. <<>> \in Bytes /\ Len(<<>>) < BUF
        BY <2>2, ConcatEmpty, SizesAssumption
    <2>5. Streams' /\ SizeInv'
        BY <1>3, <2>1, <2>3, <2>4, ShortUpdate, TypeParts DEF Recv, Streams, SizeInv
    <2>6. Processes'
        BY <1>3, <2>2, <2>3, TypeParts DEF Recv, Processes
    <2> QED
        BY <2>5, <2>6, TypeParts
<1>4. ASSUME NEW s \in Servers, SendEcho(s)
      PROVE  TypeOK' /\ SizeInv'
    <2>1. conn[s] \in Clients /\ s \in InHand(conn[s])
        BY <1>4, Peer DEF SendEcho, InHand
    <2>2. toClient[conn[s]] = <<>>
        BY <2>1, HandEnds DEF LineInv, LineOK, Nothing, OnTheWay, Received, Echoed, Lost
    <2>3. buf[s] \in Bytes /\ Len(buf[s]) < BUF
        BY DEF TypeOK
    <2>4. toClient' = [toClient EXCEPT ![conn[s]] = buf[s]]
        BY <1>4, <2>2, <2>3, ConcatEmpty DEF SendEcho
    <2>5. Streams' /\ SizeInv'
        BY <1>4, <2>1, <2>3, <2>4, ShortUpdate, TypeParts DEF SendEcho, Streams, SizeInv
    <2>6. Processes'
        BY <1>4, TypeParts DEF SendEcho, Processes
    <2> QED
        BY <2>5, <2>6, TypeParts
<1>5. ASSUME NEW s \in Servers, Close(s)
      PROVE  TypeOK' /\ SizeInv'
    BY <1>5 DEF Close, TypeOK, SizeInv
<1>6. ASSUME NEW s \in Servers, ServerEnds(s)
      PROVE  TypeOK' /\ SizeInv'
    <2>1. <<>> \in Bytes /\ <<>> \in Seq(Clients) /\ Len(<<>>) < BUF /\ Len(<<>>) <= Backlog + 1
        BY EmptySeq, SizesAssumption DEF Bytes
    <2> QED
        BY <1>6, <2>1 DEF ServerEnds, TypeOK, SizeInv
<1>7. ASSUME NEW c \in Clients, Silent(c)
      PROVE  TypeOK' /\ SizeInv'
    <2>1. CASE TypeLine(c)
        <3>1. PICK n \in 1 .. BUF - 1 : send_buf' = [send_buf EXCEPT ![c] = Line(c, n)]
            BY <2>1 DEF TypeLine
        <3>2. Line(c, n) \in Bytes /\ Len(Line(c, n)) < BUF
            BY LineShort
        <3>3. Streams' /\ SizeInv'
            BY <2>1, <3>1, <3>2, ShortUpdate, TypeParts DEF TypeLine, Streams, SizeInv
        <3>4. Processes'
            BY <2>1, TypeParts DEF TypeLine, Processes
        <3> QED
            BY <3>3, <3>4, TypeParts
    <2>2. CASE Refused(c) \/ ServerIsGone(c) \/ Leave(c) \/ ClientDies(c)
        <3>1. Streams' /\ SizeInv'
            BY <2>2, TypeParts
            DEF Refused, ServerIsGone, Leave, ClientDies, Streams, SizeInv
        <3>2. Processes'
            BY <2>2, TypeParts DEF Refused, ServerIsGone, Leave, ClientDies, Processes
        <3> QED
            BY <3>1, <3>2, TypeParts
    <2> QED
        BY <1>7, <2>1, <2>2 DEF Silent
<1>8. ASSUME NEW c \in Clients, Connect(c)
      PROVE  TypeOK' /\ SizeInv'
    <2>1. path \in Servers /\ backlog[path] \in Seq(Clients) /\ Len(backlog[path]) <= Backlog
        BY <1>8 DEF Connect, Listening, TypeOK
    <2>2. Append(backlog[path], c) \in Seq(Clients) /\ Len(Append(backlog[path], c)) <= Backlog + 1
        BY <2>1, AppendPlaces, SizesAssumption
    <2> QED
        BY <1>8, <2>1, <2>2 DEF Connect, TypeOK, SizeInv
<1>9. ASSUME NEW c \in Clients, SendLine(c)
      PROVE  TypeOK' /\ SizeInv'
    <2>1. toServer[c] = <<>>
        BY <1>9 DEF SendLine, LineInv, LineOK, Nothing
    <2>2. send_buf[c] \in Bytes /\ typed[c] \in Bytes /\ Len(send_buf[c]) < BUF
        BY DEF TypeOK, SizeInv
    <2>3. toServer' = [toServer EXCEPT ![c] = send_buf[c]]
        BY <1>9, <2>1, <2>2, ConcatEmpty DEF SendLine
    <2>4. typed[c] \o send_buf[c] \in Bytes
        BY <2>2, ConcatBytes
    <2>5. Streams' /\ SizeInv'
        BY <1>9, <2>2, <2>3, <2>4, ShortUpdate, TypeParts DEF SendLine, Streams, SizeInv
    <2>6. Processes'
        BY <1>9, TypeParts DEF SendLine, Processes
    <2> QED
        BY <2>5, <2>6, TypeParts
<1>10. ASSUME NEW c \in Clients, RecvEcho(c)
       PROVE  TypeOK' /\ SizeInv'
    <2>1. toClient[c] \in Bytes /\ got[c] \in Bytes /\ Len(toClient[c]) < BUF
        BY DEF TypeOK, SizeInv
    <2>2. /\ got' = [got EXCEPT ![c] = @ \o toClient[c]]
          /\ toClient' = [toClient EXCEPT ![c] = <<>>]
        BY <1>10, <2>1, TakenAll DEF RecvEcho
    <2>3. got[c] \o toClient[c] \in Bytes /\ <<>> \in Bytes /\ Len(<<>>) < BUF
        BY <2>1, ConcatBytes, ConcatEmpty, SizesAssumption
    <2>4. Streams' /\ SizeInv'
        <3>1. got' \in [Clients -> Bytes]
            BY <2>2, <2>3, TypeParts DEF Streams
        <3>2. /\ toClient' \in [Clients -> Bytes]
              /\ \A d \in Clients : Len(toClient'[d]) < BUF
            BY <2>2, <2>3, ShortUpdate, TypeParts DEF Streams, SizeInv
        <3> QED
            BY <1>10, <3>1, <3>2, TypeParts DEF RecvEcho, Streams, SizeInv
    <2>5. Processes'
        BY <1>10, TypeParts DEF RecvEcho, Processes
    <2> QED
        BY <2>4, <2>5, TypeParts
<1>11. CASE UNCHANGED vars
    BY <1>11 DEF vars, TypeOK, SizeInv
<1> QED
    BY <1>1, <1>2, <1>3, <1>4, <1>5, <1>6, <1>7, <1>8, <1>9, <1>10, <1>11, StepKinds

------------------------------------------------------------------------------
(* Places *)

\* The places of connections in hands and backlogs, as a relation of two servers.
Distinct(s, t) ==
    /\ conn[s] # None /\ conn[s] = conn[t] => s = t
    /\ \A i \in DOMAIN backlog[t] : backlog[t][i] # conn[s]
    /\ \A i \in DOMAIN backlog[s], j \in DOMAIN backlog[t] :
          backlog[s][i] = backlog[t][j] => s = t /\ i = j

\* Steps keep a connection in one place, in the hands of a server that serves it.
LEMMA PlaceStep ==
    ASSUME TypeOK, ConnInv, PlaceInv, [Next]_vars
    PROVE  ConnInv' /\ PlaceInv'
<1> USE ProcessesAssumption
<1>0. \A s, t \in Servers : Distinct(s, t)
    BY DEF PlaceInv, Distinct
<1>1. ASSUME NEW s \in Servers, Quiet(s)
      PROVE  ConnInv' /\ PlaceInv'
    <2>1. UNCHANGED <<conn, backlog, client>>
        BY <1>1
        DEF Quiet, ServerStart, UnlinkPath, Bind, BindFails, Listen, RecvEnd
    <2>2. PlaceInv'
        BY <2>1, EndPlaces DEF PlaceInv
    <2>3. ConnInv'
        BY <1>1
        DEF Quiet, ServerStart, UnlinkPath, Bind, BindFails, Listen, RecvEnd, ConnInv, TypeOK
    <2> QED
        BY <2>2, <2>3
<1>2. ASSUME NEW s \in Servers, Accept(s)
      PROVE  ConnInv' /\ PlaceInv'
    <2> DEFINE q == backlog[s]
    <2>1. q \in Seq(Clients) /\ q # <<>>
        BY <1>2 DEF Accept, TypeOK
    <2>0. PICK r : r = Tail(q)
        OBVIOUS
    <2>2. /\ Head(q) = q[1] /\ 1 \in DOMAIN q /\ q[1] \in Clients
          /\ \A i \in DOMAIN r : i + 1 \in DOMAIN q /\ r[i] = q[i + 1] /\ i \in Nat \ {0}
        BY <2>0, <2>1, TailPlaces
    <2>3. /\ conn' = [conn EXCEPT ![s] = q[1]] /\ backlog' = [backlog EXCEPT ![s] = r]
          /\ srv' = [srv EXCEPT ![s] = "recv"] /\ srv[s] = "accept" /\ UNCHANGED client
        BY <1>2, <2>0, <2>2 DEF Accept
    <2>4. ConnInv'
        BY <2>2, <2>3 DEF ConnInv, TypeOK
    <2>5. conn[s] = None
        BY <2>3 DEF ConnInv
    <2>6. /\ conn'[s] = q[1] /\ backlog'[s] = r
          /\ \A t \in Servers \ {s} : conn'[t] = conn[t] /\ backlog'[t] = backlog[t]
        BY <2>3 DEF TypeOK
    <2>7. \A t, u \in Servers : Distinct(t, u)'
        <3>1. ASSUME NEW t \in Servers \ {s}, NEW u \in Servers \ {s}
              PROVE  Distinct(t, u)'
            BY <1>0, <2>6 DEF Distinct
        <3>2. Distinct(s, s)'
            <4>1. \A i, j \in DOMAIN q : q[i] = q[j] => i = j
                BY <1>0 DEF Distinct
            <4>2. \A i \in DOMAIN r : r[i] # q[1]
                BY <2>2, <4>1
            <4>3. \A i, j \in DOMAIN r : r[i] = r[j] => i = j
                BY <2>2, <4>1
            <4> QED
                BY <2>6, <4>2, <4>3 DEF Distinct
        <3>3. ASSUME NEW t \in Servers \ {s}
              PROVE  Distinct(s, t)' /\ Distinct(t, s)'
            BY <1>0, <2>2, <2>6 DEF Distinct
        <3> QED
            BY <3>1, <3>2, <3>3
    <2>8. ASSUME NEW c \in Clients, ServerEnd(c)'
          PROVE  ServerEnd(c)
        <3>1. PICK t \in Servers :
                  conn'[t] = c \/ \E i \in DOMAIN backlog'[t] : backlog'[t][i] = c
            BY <2>8, EndPlaces
        <3>2. CASE t # s
            BY <2>6, <3>1, <3>2, EndPlaces
        <3>3. CASE t = s
            <4>1. \E i \in DOMAIN q : q[i] = c
                BY <2>2, <2>6, <3>1, <3>3
            <4> QED
                BY <4>1, EndPlaces
        <3> QED
            BY <3>2, <3>3
    <2> QED
        BY <2>3, <2>4, <2>7, <2>8 DEF PlaceInv, Distinct
<1>3. ASSUME NEW s \in Servers, Recv(s) \/ SendEcho(s)
      PROVE  ConnInv' /\ PlaceInv'
    <2>1. UNCHANGED <<conn, backlog, client>>
        BY <1>3 DEF Recv, SendEcho
    <2>2. PlaceInv'
        BY <2>1, EndPlaces DEF PlaceInv
    <2>3. ConnInv'
        BY <1>3 DEF Recv, SendEcho, ConnInv, TypeOK
    <2> QED
        BY <2>2, <2>3
<1>4. ASSUME NEW s \in Servers, Close(s) \/ ServerEnds(s)
      PROVE  ConnInv' /\ PlaceInv'
    <2>1. /\ conn' = [conn EXCEPT ![s] = None]
          /\ srv'[s] \in {"accept", "down"}
          /\ \A t \in Servers \ {s} : srv'[t] = srv[t]
          /\ UNCHANGED client
        BY <1>4 DEF Close, ServerEnds, TypeOK
    <2>2. /\ conn'[s] = None /\ backlog'[s] \in {backlog[s], <<>>}
          /\ \A t \in Servers \ {s} : conn'[t] = conn[t] /\ backlog'[t] = backlog[t]
        BY <1>4, <2>1 DEF Close, ServerEnds, TypeOK
    <2>3. ConnInv'
        BY <2>1, <2>2 DEF ConnInv
    <2>4. \A t \in Servers :
              /\ DOMAIN backlog'[t] \subseteq DOMAIN backlog[t]
              /\ \A i \in DOMAIN backlog'[t] : backlog'[t][i] = backlog[t][i]
        BY <2>2
    <2>5. \A t \in Servers : \A i \in DOMAIN backlog[t] : backlog[t][i] # None
        BY TailPlaces DEF TypeOK
    <2>6. \A t, u \in Servers : Distinct(t, u)'
        BY <1>0, <2>2, <2>4, <2>5 DEF Distinct
    <2>7. \A c \in Clients : ServerEnd(c)' => ServerEnd(c)
        BY <2>2, <2>4, EndPlaces
    <2> QED
        BY <2>1, <2>3, <2>6, <2>7 DEF PlaceInv, Distinct
<1>5. ASSUME NEW c \in Clients, Silent(c) \/ SendLine(c) \/ RecvEcho(c)
      PROVE  ConnInv' /\ PlaceInv'
    <2>1. UNCHANGED <<conn, backlog, srv>> /\ \E to \in {"ask", "send", "recv", "gone"} :
              client' = [client EXCEPT ![c] = to]
        BY <1>5
        DEF Silent, Refused, TypeLine, ServerIsGone, Leave, ClientDies, SendLine, RecvEcho
    <2>2. \A d \in Clients : client'[d] = "new" => client[d] = "new"
        BY <2>1 DEF TypeOK
    <2> QED
        BY <2>1, <2>2, EndPlaces DEF ConnInv, PlaceInv
<1>6. ASSUME NEW c \in Clients, Connect(c)
      PROVE  ConnInv' /\ PlaceInv'
    <2>0. PICK p \in Servers : p = path
        BY <1>6 DEF Connect, Listening, TypeOK
    <2> DEFINE q == backlog[p]
    <2>1. q \in Seq(Clients)
        BY DEF TypeOK
    <2>2. /\ DOMAIN Append(q, c) = DOMAIN q \cup {Len(q) + 1} /\ Len(q) + 1 \notin DOMAIN q
          /\ \A i \in DOMAIN q : Append(q, c)[i] = q[i]
          /\ Append(q, c)[Len(q) + 1] = c
        BY <2>1, AppendPlaces
    <2>3. /\ backlog' = [backlog EXCEPT ![p] = Append(q, c)] /\ UNCHANGED <<conn, srv>>
          /\ client[c] = "new" /\ client' = [client EXCEPT ![c] = "ask"]
        BY <1>6, <2>0 DEF Connect
    <2>4. /\ backlog'[p] = Append(q, c)
          /\ \A t \in Servers \ {p} : backlog'[t] = backlog[t]
        BY <2>1, <2>3 DEF TypeOK
    <2>5. \A t \in Servers : conn[t] # c /\ \A i \in DOMAIN backlog[t] : backlog[t][i] # c
        BY <2>3, EndPlaces DEF PlaceInv
    <2>6. \A t, u \in Servers : Distinct(t, u)'
        <3>1. ASSUME NEW t \in Servers \ {p}, NEW u \in Servers \ {p}
              PROVE  Distinct(t, u)'
            BY <1>0, <2>3, <2>4 DEF Distinct
        <3>2. Distinct(p, p)'
            BY <1>0, <2>1, <2>2, <2>3, <2>4, <2>5 DEF Distinct
        <3>3. ASSUME NEW t \in Servers \ {p}
              PROVE  Distinct(p, t)' /\ Distinct(t, p)'
            BY <1>0, <2>1, <2>2, <2>3, <2>4, <2>5 DEF Distinct
        <3> QED
            BY <3>1, <3>2, <3>3
    <2>7. \A d \in Clients : client'[d] = "new" => ~ServerEnd(d)'
        <3>1. \A d \in Clients : client'[d] = "new" => d # c /\ client[d] = "new"
            BY <2>3 DEF TypeOK
        <3> QED
            BY <2>1, <2>2, <2>3, <2>4, <3>1, EndPlaces DEF PlaceInv
    <2>8. ConnInv'
        BY <2>3 DEF ConnInv
    <2> QED
        BY <2>6, <2>7, <2>8 DEF PlaceInv, Distinct
<1>7. CASE UNCHANGED vars
    BY <1>7, EndPlaces DEF vars, ConnInv, PlaceInv
<1> QED
    BY <1>1, <1>2, <1>3, <1>4, <1>5, <1>6, <1>7, StepKinds

------------------------------------------------------------------------------
(* The line on the way *)

\* What LeavesNothingBehind says of one client.
CleanOK(c) ==
    client[c] = "gone" /\ ServerEnd(c) /\ c \notin killed =>
        toServer[c] = <<>> /\ toClient[c] = <<>> /\ InHand(c) = {}

\* A step that touches nothing of a client leaves its line where it is.
LEMMA LineFrame ==
    ASSUME NEW c \in Clients, LineOK(c), CleanOK(c),
           toServer'[c] = toServer[c], toClient'[c] = toClient[c],
           typed'[c] = typed[c], got'[c] = got[c], UNCHANGED <<client, killed>>,
           InHand(c)' = InHand(c), \A s \in InHand(c) : buf'[s] = buf[s],
           ServerEnd(c)' => ServerEnd(c)
    PROVE  LineOK(c)' /\ CleanOK(c)'
<1>1. Nothing(c) => Nothing(c)'
    BY DEF Nothing
<1>2. OnTheWay(c) => OnTheWay(c)'
    BY DEF OnTheWay
<1>3. Received(c) => Received(c)'
    BY DEF Received
<1>4. Echoed(c) => Echoed(c)'
    BY DEF Echoed
<1>5. Lost(c) => Lost(c)'
    BY DEF Lost
<1>6. CleanOK(c)'
    BY DEF CleanOK
<1> QED
    BY <1>1, <1>2, <1>3, <1>4, <1>5, <1>6 DEF LineOK

\* Steps of the server.
LEMMA LineServerStep ==
    ASSUME TypeOK, SizeInv, ConnInv, PlaceInv, PlaceInv',
           NEW s \in Servers,
           Quiet(s) \/ Accept(s) \/ Recv(s) \/ SendEcho(s) \/ Close(s) \/ ServerEnds(s),
           NEW c \in Clients, LineOK(c), CleanOK(c)
    PROVE  LineOK(c)' /\ CleanOK(c)'
<1> USE ProcessesAssumption
<1>0. UNCHANGED <<client, send_buf, typed, got, killed>>
    BY DEF Quiet, ServerStart, UnlinkPath, Bind, BindFails, Listen, RecvEnd, Accept, Recv,
           SendEcho, Close, ServerEnds
<1>1. CASE Quiet(s) \/ Accept(s) \/ Close(s)
    <2>1. UNCHANGED <<toServer, toClient, buf>>
        BY <1>1 DEF Quiet, ServerStart, UnlinkPath, Bind, BindFails, Listen, RecvEnd,
                    Accept, Close
    <2>2. /\ srv[s] # "send" /\ srv'[s] # "send"
          /\ \A t \in Servers \ {s} : srv'[t] = srv[t] /\ conn'[t] = conn[t]
        BY <1>1 DEF Quiet, ServerStart, UnlinkPath, Bind, BindFails, Listen, RecvEnd,
                    Accept, Close, TypeOK
    <2>3. InHand(c)' = InHand(c)
        BY <2>2 DEF InHand
    <2>4. ServerEnd(c)' => ServerEnd(c)
        <3>1. CASE Quiet(s) \/ Close(s)
            <4>1. backlog' = backlog /\ conn' \in {conn, [conn EXCEPT ![s] = None]}
                BY <3>1 DEF Quiet, ServerStart, UnlinkPath, Bind, BindFails, Listen, RecvEnd,
                            Close
            <4> QED
                BY <4>1 DEF ServerEnd, TypeOK
        <3>2. CASE Accept(s)
            <4>1. /\ backlog[s] \in Seq(Clients) /\ backlog[s] # <<>>
                  /\ conn' = [conn EXCEPT ![s] = Head(backlog[s])]
                  /\ backlog' = [backlog EXCEPT ![s] = Tail(backlog[s])]
                BY <3>2 DEF Accept, TypeOK
            <4>2. /\ Head(backlog[s]) \in ToSet(backlog[s])
                  /\ ToSet(Tail(backlog[s])) \subseteq ToSet(backlog[s])
                BY <4>1, TailPlaces DEF ToSet
            <4>3. /\ conn'[s] \in ToSet(backlog[s])
                  /\ ToSet(backlog'[s]) \subseteq ToSet(backlog[s])
                  /\ \A t \in Servers \ {s} : conn'[t] = conn[t] /\ backlog'[t] = backlog[t]
                BY <4>1, <4>2 DEF TypeOK
            <4> QED
                BY <4>3 DEF ServerEnd
        <3> QED
            BY <1>1, <3>1, <3>2
    <2> QED
        BY <1>0, <2>1, <2>3, <2>4, LineFrame
<1>2. CASE Recv(s)
    <2>1. conn[s] \in Clients /\ srv[s] = "recv" /\ toServer[conn[s]] # <<>>
        BY <1>2, Peer DEF Recv
    <2>2. toServer[conn[s]] \in Bytes /\ Len(toServer[conn[s]]) < BUF
        BY <2>1 DEF TypeOK, SizeInv
    <2>3. /\ buf' = [buf EXCEPT ![s] = toServer[conn[s]]]
          /\ toServer' = [toServer EXCEPT ![conn[s]] = <<>>]
          /\ srv' = [srv EXCEPT ![s] = "send"]
          /\ UNCHANGED <<conn, backlog, toClient>>
        BY <1>2, <2>2, TakenAll DEF Recv
    <2>4. ServerEnd(c)' <=> ServerEnd(c)
        BY <2>3 DEF ServerEnd
    <2>5. CASE conn[s] = c
        <3>1. ServerEnd(c)
            BY <2>5 DEF ServerEnd
        <3>2. OnTheWay(c) /\ client[c] \in {"recv", "gone"}
            BY <2>1, <2>5, <3>1 DEF LineOK, Nothing, Received, Echoed, Lost
        <3>3. InHand(c)' = {s}
            BY <2>3, <2>5, <3>2 DEF InHand, OnTheWay, TypeOK
        <3>4. Received(c)'
            BY <1>0, <2>3, <2>5, <3>2, <3>3 DEF Received, OnTheWay, TypeOK
        <3>5. CleanOK(c)'
            BY <1>0, <2>1, <2>4, <2>5 DEF CleanOK
        <3> QED
            BY <1>0, <3>2, <3>4, <3>5 DEF LineOK
    <2>6. CASE conn[s] # c
        <3>1. InHand(c)' = InHand(c) /\ s \notin InHand(c)
            BY <2>3, <2>6 DEF InHand, TypeOK
        <3>2. /\ toServer'[c] = toServer[c]
              /\ \A t \in InHand(c) : buf'[t] = buf[t]
            BY <2>3, <2>6, <3>1 DEF TypeOK, InHand
        <3> QED
            BY <1>0, <2>3, <2>4, <3>1, <3>2, LineFrame
    <2> QED
        BY <2>5, <2>6
<1>3. CASE SendEcho(s)
    <2>1. conn[s] \in Clients /\ srv[s] = "send" /\ ClientEnd(conn[s])
        BY <1>3, Peer DEF SendEcho
    <2>2. /\ srv' = [srv EXCEPT ![s] = "recv"] /\ UNCHANGED <<conn, backlog, toServer, buf>>
          /\ toClient' = [toClient EXCEPT ![conn[s]] = @ \o buf[s]]
        BY <1>3 DEF SendEcho
    <2>3. ServerEnd(c)' <=> ServerEnd(c)
        BY <2>2 DEF ServerEnd
    <2>4. CASE conn[s] = c
        <3>1. s \in InHand(c) /\ ServerEnd(c)
            BY <2>1, <2>4 DEF InHand, ServerEnd
        <3>2. Received(c) /\ client[c] \in {"recv", "gone"}
            BY <3>1 DEF LineOK, Nothing, OnTheWay, Echoed, Lost
        <3>3. /\ InHand(c) = {s} /\ toClient[c] = <<>> /\ toServer[c] = <<>>
              /\ typed[c] = got[c] \o buf[s]
            BY <3>1, <3>2 DEF Received
        <3>4. InHand(c)' = {}
            BY <2>2, <3>3 DEF InHand, TypeOK
        <3>5. toClient'[c] = buf[s]
            <4>1. buf[s] \in Bytes
                BY DEF TypeOK
            <4> QED
                BY <2>2, <2>4, <3>3, <4>1, ConcatEmpty DEF TypeOK
        <3>6. Echoed(c)'
            BY <1>0, <2>2, <3>3, <3>4, <3>5 DEF Echoed
        <3>7. CleanOK(c)'
            BY <1>0, <2>1, <2>4 DEF CleanOK, ClientEnd
        <3> QED
            BY <1>0, <3>2, <3>6, <3>7 DEF LineOK
    <2>5. CASE conn[s] # c
        <3>1. InHand(c)' = InHand(c)
            BY <2>2, <2>5 DEF InHand, TypeOK
        <3>2. toClient'[c] = toClient[c]
            BY <2>2, <2>5 DEF TypeOK
        <3> QED
            BY <1>0, <2>2, <2>3, <3>1, <3>2, LineFrame
    <2> QED
        BY <2>4, <2>5
<1>4. CASE ServerEnds(s)
    <2>1. UNCHANGED <<toServer, toClient>>
        BY <1>4 DEF ServerEnds
    <2>2. /\ srv'[s] = "down" /\ conn'[s] = None /\ backlog'[s] = <<>>
          /\ \A t \in Servers \ {s} :
                /\ srv'[t] = srv[t] /\ conn'[t] = conn[t]
                /\ buf'[t] = buf[t] /\ backlog'[t] = backlog[t]
        BY <1>4 DEF ServerEnds, TypeOK
    <2>3. InHand(c)' = InHand(c) \ {s}
        BY <2>2 DEF InHand
    <2>4. ServerEnd(c)' => ServerEnd(c)
        BY <2>2, EndPlaces
    <2>5. CASE s \notin InHand(c)
        <3>1. InHand(c)' = InHand(c)
            BY <2>3, <2>5
        <3>2. \A t \in InHand(c) : buf'[t] = buf[t]
            BY <2>2, <2>5 DEF InHand
        <3> QED
            BY <1>0, <2>1, <2>4, <3>1, <3>2, LineFrame
    <2>6. CASE s \in InHand(c)
        <3>1. conn[s] = c /\ ServerEnd(c)
            BY <2>6 DEF InHand, ServerEnd
        <3>2. Received(c) /\ client[c] \in {"recv", "gone"}
            BY <2>6, <3>1 DEF LineOK, Nothing, OnTheWay, Echoed, Lost
        <3>3. ~ServerEnd(c)'
            <4>1. \A t \in Servers \ {s} :
                      conn[t] # c /\ \A i \in DOMAIN backlog[t] : backlog[t][i] # c
                BY <3>1 DEF PlaceInv
            <4>2. conn'[s] # c /\ DOMAIN backlog'[s] = {}
                BY <2>2
            <4> QED
                BY <2>2, <4>1, <4>2, EndPlaces
        <3>4. Lost(c)' /\ CleanOK(c)'
            BY <2>1, <3>2, <3>3 DEF Lost, Received, CleanOK
        <3> QED
            BY <1>0, <3>2, <3>4 DEF LineOK
    <2> QED
        BY <2>5, <2>6
<1> QED
    BY <1>1, <1>2, <1>3, <1>4

\* Steps of a client.
LEMMA LineClientStep ==
    ASSUME TypeOK, SizeInv, PlaceInv, PlaceInv',
           NEW d \in Clients, Silent(d) \/ Connect(d) \/ SendLine(d) \/ RecvEcho(d),
           NEW c \in Clients, LineOK(c), CleanOK(c)
    PROVE  LineOK(c)' /\ CleanOK(c)'
<1>0. /\ UNCHANGED <<srv, conn, buf>> /\ InHand(c)' = InHand(c)
      /\ \E to \in {"ask", "send", "recv", "gone"} : client' = [client EXCEPT ![d] = to]
    BY DEF Silent, Refused, TypeLine, ServerIsGone, Leave, ClientDies, Connect, SendLine,
           RecvEcho, InHand
<1>1. CASE Silent(d)
    <2>1. /\ UNCHANGED <<backlog, toServer, toClient, typed, got>>
          /\ killed' \in {killed, killed \cup {d}}
        BY <1>1 DEF Silent, Refused, TypeLine, ServerIsGone, Leave, ClientDies
    <2>2. ServerEnd(c)' <=> ServerEnd(c)
        BY <1>0, <2>1 DEF ServerEnd
    <2>3. c # d => client'[c] = client[c] /\ (c \in killed <=> c \in killed')
        BY <1>0, <2>1 DEF TypeOK
    <2>4. LineOK(c) => LineOK(c)'
        <3>1. \/ c # d
              \/ client[c] = "ask" /\ TypeLine(c)
              \/ client'[c] = "gone"
            BY <1>1 DEF Silent, Refused, TypeLine, ServerIsGone, Leave, ClientDies, TypeOK
        <3>2. CASE client[c] = "ask" /\ TypeLine(c)
            <4>1. Nothing(c)
                BY <3>2 DEF LineOK
            <4> QED
                BY <1>0, <2>1, <4>1 DEF LineOK, Nothing
        <3>3. CASE c # d \/ client'[c] = "gone"
            BY <1>0, <2>1, <2>2, <2>3, <3>3
            DEF LineOK, Nothing, OnTheWay, Received, Echoed, Lost
        <3> QED
            BY <3>1, <3>2, <3>3
    <2>5. CleanOK(c)'
        <3>1. CASE c # d
            BY <1>0, <2>1, <2>2, <2>3, <3>1 DEF CleanOK
        <3>2. CASE c = d /\ Leave(d)
            <4>1. Nothing(c)
                BY <3>2 DEF Leave, LineOK
            <4> QED
                BY <1>0, <2>1, <4>1 DEF CleanOK, Nothing
        <3>3. CASE c = d /\ ClientDies(d)
            BY <3>3 DEF ClientDies, CleanOK
        <3>4. CASE c = d /\ ServerIsGone(d)
            BY <2>2, <3>4 DEF ServerIsGone, CleanOK
        <3>5. CASE c = d /\ Refused(d)
            <4>1. ~ServerEnd(c)
                BY <3>5 DEF Refused, PlaceInv
            <4> QED
                BY <2>2, <4>1 DEF CleanOK
        <3>6. CASE c = d /\ TypeLine(d)
            BY <3>6 DEF TypeLine, CleanOK, TypeOK
        <3> QED
            BY <1>1, <3>1, <3>2, <3>3, <3>4, <3>5, <3>6 DEF Silent
    <2> QED
        BY <2>4, <2>5
<1>2. CASE Connect(d)
    <2>1. /\ UNCHANGED <<toServer, toClient, typed, got, killed>>
          /\ client[d] = "new" /\ client'[d] = "ask"
          /\ c # d => client'[c] = client[c]
        BY <1>2 DEF Connect, TypeOK
    <2>2. CASE c = d
        <3>1. Nothing(c)
            BY <2>1, <2>2 DEF LineOK
        <3>2. Nothing(c)' /\ CleanOK(c)'
            BY <1>0, <2>1, <2>2, <3>1 DEF Nothing, CleanOK
        <3> QED
            BY <3>2 DEF LineOK
    <2>3. CASE c # d
        <3>1. PICK p \in Servers : p = path
            BY <1>2 DEF Connect, Listening, TypeOK
        <3>2. /\ backlog[p] \in Seq(Clients)
              /\ backlog' = [backlog EXCEPT ![p] = Append(backlog[p], d)]
            BY <1>2, <3>1 DEF Connect, TypeOK
        <3>3. /\ backlog'[p] = Append(backlog[p], d)
              /\ \A t \in Servers \ {p} : backlog'[t] = backlog[t]
            BY <3>2 DEF TypeOK
        <3>4. \A i \in DOMAIN backlog'[p] :
                  backlog'[p][i] = c => \E j \in DOMAIN backlog[p] : backlog[p][j] = c
            BY <2>3, <3>2, <3>3, AppendPlaces
        <3>5. ServerEnd(c)' => ServerEnd(c)
            BY <1>0, <3>3, <3>4, EndPlaces
        <3> QED
            BY <1>0, <2>1, <2>3, <3>5
            DEF LineOK, CleanOK, Nothing, OnTheWay, Received, Echoed, Lost
    <2> QED
        BY <2>2, <2>3
<1>3. CASE SendLine(d) \/ RecvEcho(d)
    <2>1. UNCHANGED <<backlog, killed>>
        BY <1>3 DEF SendLine, RecvEcho
    <2>2. ServerEnd(c)' <=> ServerEnd(c)
        BY <1>0, <2>1 DEF ServerEnd
    <2>3. CASE c # d
        <3>1. /\ toServer'[c] = toServer[c] /\ toClient'[c] = toClient[c]
              /\ typed'[c] = typed[c] /\ got'[c] = got[c] /\ client'[c] = client[c]
            BY <1>3, <2>3 DEF SendLine, RecvEcho, TypeOK
        <3> QED
            BY <1>0, <2>1, <2>2, <3>1
            DEF LineOK, CleanOK, Nothing, OnTheWay, Received, Echoed, Lost
    <2>4. CASE c = d /\ SendLine(d)
        <3>1. Nothing(c)
            BY <2>4 DEF SendLine, LineOK
        <3>2. /\ send_buf[c] \in Bytes /\ toServer' = [toServer EXCEPT ![c] = @ \o send_buf[c]]
              /\ typed' = [typed EXCEPT ![c] = @ \o send_buf[c]]
              /\ client' = [client EXCEPT ![c] = "recv"] /\ UNCHANGED <<toClient, got>>
            BY <2>4 DEF SendLine, TypeOK
        <3>3. <<>> \o send_buf[c] = send_buf[c]
            BY <3>2, ConcatEmpty
        <3>4. /\ toServer'[c] = send_buf[c] /\ typed'[c] = typed[c] \o send_buf[c]
              /\ client'[c] = "recv"
            BY <3>1, <3>2, <3>3 DEF Nothing, TypeOK
        <3>5. OnTheWay(c)'
            BY <1>0, <3>1, <3>2, <3>4 DEF OnTheWay, Nothing
        <3> QED
            BY <3>4, <3>5 DEF LineOK, CleanOK
    <2>5. CASE c = d /\ RecvEcho(d)
        <3>1. Echoed(c)
            BY <2>5 DEF RecvEcho, LineOK, Nothing, OnTheWay, Received, Lost
        <3>2. toClient[c] \in Bytes /\ Len(toClient[c]) < BUF
            BY DEF TypeOK, SizeInv
        <3>3. /\ got' = [got EXCEPT ![c] = @ \o toClient[c]]
              /\ toClient' = [toClient EXCEPT ![c] = <<>>]
              /\ client' = [client EXCEPT ![c] = "ask"] /\ UNCHANGED <<toServer, typed>>
            BY <2>5, <3>2, TakenAll DEF RecvEcho
        <3>4. Nothing(c)'
            BY <1>0, <3>1, <3>3 DEF Nothing, Echoed, TypeOK
        <3>5. client'[c] = "ask"
            BY <3>3 DEF TypeOK
        <3> QED
            BY <3>4, <3>5 DEF LineOK, CleanOK
    <2> QED
        BY <1>3, <2>3, <2>4, <2>5
<1> QED
    BY <1>1, <1>2, <1>3

------------------------------------------------------------------------------
(* The invariant, and what follows from it *)

\* At the start no process has done anything.
LEMMA EchoInit == Init => EchoInv
<1> SUFFICES ASSUME Init PROVE EchoInv
    OBVIOUS
<1>0. /\ \A S : <<>> \in Seq(S)
      /\ Len(<<>>) = 0 /\ 0 < BUF /\ 0 <= Backlog + 1 /\ DOMAIN <<>> = {}
    BY SizesAssumption
<1>1. Processes
    BY <1>0 DEF Init, Processes, Bytes
<1>2. Streams
    BY <1>0 DEF Init, Streams, Bytes
<1>3. SizeInv
    BY <1>0 DEF Init, SizeInv
<1>4. ConnInv
    BY DEF Init, ConnInv
<1>5. PlaceInv
    BY <1>0, ProcessesAssumption, EndPlaces DEF Init, PlaceInv
<1>6. LineInv
    BY ProcessesAssumption DEF Init, LineInv, LineOK, Nothing, InHand
<1>7. LeavesNothingBehind
    BY DEF Init, LeavesNothingBehind
<1> QED
    BY <1>1, <1>2, <1>3, <1>4, <1>5, <1>6, <1>7, TypeParts DEF EchoInv

\* Every step keeps the invariant.
LEMMA EchoStep == EchoInv /\ [Next]_vars => EchoInv'
<1> SUFFICES ASSUME EchoInv, [Next]_vars PROVE EchoInv'
    OBVIOUS
<1> USE DEF EchoInv
<1>1. TypeOK' /\ SizeInv'
    BY TypeStep
<1>2. ConnInv' /\ PlaceInv'
    BY PlaceStep
<1>3. \A c \in Clients : LineOK(c) /\ CleanOK(c)
    BY DEF LineInv, LeavesNothingBehind, CleanOK
<1>4. \A c \in Clients : LineOK(c)' /\ CleanOK(c)'
    <2> SUFFICES ASSUME NEW c \in Clients PROVE LineOK(c)' /\ CleanOK(c)'
        OBVIOUS
    <2>1. ASSUME NEW s \in Servers,
                 Quiet(s) \/ Accept(s) \/ Recv(s) \/ SendEcho(s) \/ Close(s) \/ ServerEnds(s)
          PROVE  LineOK(c)' /\ CleanOK(c)'
        BY <1>2, <1>3, <2>1, LineServerStep
    <2>2. ASSUME NEW d \in Clients, Silent(d) \/ Connect(d) \/ SendLine(d) \/ RecvEcho(d)
          PROVE  LineOK(c)' /\ CleanOK(c)'
        BY <1>2, <1>3, <2>2, LineClientStep
    <2>3. CASE UNCHANGED vars
        <3>1. InHand(c)' = InHand(c) /\ (ServerEnd(c)' <=> ServerEnd(c))
            BY <2>3 DEF vars, InHand, ServerEnd
        <3> QED
            BY <1>3, <2>3, <3>1, LineFrame DEF vars
    <2> QED
        BY <2>1, <2>2, <2>3, StepKinds
<1> QED
    BY <1>1, <1>2, <1>4 DEF LineInv, LeavesNothingBehind, CleanOK

\* The invariant holds in every reachable state.
LEMMA EchoAlways == Spec => []EchoInv
    BY EchoInit, EchoStep, PTL DEF Spec

\* Every variable keeps its type, and what is received leaves room for the end of the
\* text, for buffers and backlogs of any size.
THEOREM EchoTypeCorrect == Spec => []TypeOK
<1>1. EchoInv => TypeOK
    BY DEF EchoInv
<1> QED
    BY <1>1, EchoAlways, PTL

\* What a client sent is echoed or in the one place where its last line is, as long as a
\* server has the connection.
THEOREM BytesAreEchoed == Spec => []EchoAccount
<1>1. EchoInv => EchoAccount
    <2> SUFFICES ASSUME EchoInv, NEW c \in Clients, ServerEnd(c)
                 PROVE  typed[c] = got[c] \o toClient[c] \o HeldFor(c) \o toServer[c]
        BY DEF EchoAccount
    <2>1. /\ got[c] \in Bytes /\ toServer[c] \in Bytes /\ toClient[c] \in Bytes
          /\ \A s \in Servers : buf[s] \in Bytes
        BY DEF EchoInv, TypeOK
    <2>2. LineOK(c)
        BY DEF EchoInv, LineInv
    <2>3. CASE Nothing(c) \/ OnTheWay(c) \/ Echoed(c)
        <3>1. HeldFor(c) = <<>>
            BY <2>3 DEF HeldFor, Nothing, OnTheWay, Echoed
        <3>2. \A q \in Bytes : q \o <<>> = q /\ <<>> \o q = q
            BY ConcatEmpty
        <3>3. got[c] \o toClient[c] \in Bytes
            BY <2>1, ConcatBytes
        <3> QED
            BY <2>1, <2>3, <3>1, <3>2, <3>3 DEF Nothing, OnTheWay, Echoed
    <2>4. CASE Received(c)
        <3>1. PICK s \in Servers : InHand(c) = {s} /\ typed[c] = got[c] \o buf[s]
            BY <2>4 DEF Received
        <3>2. HeldFor(c) = buf[s]
            BY <3>1 DEF HeldFor
        <3>3. got[c] \o buf[s] \in Bytes
            BY <2>1, ConcatBytes
        <3>4. \A q \in Bytes : q \o <<>> = q
            BY ConcatEmpty
        <3> QED
            BY <2>1, <2>4, <3>1, <3>2, <3>3, <3>4 DEF Received
    <2> QED
        BY <2>2, <2>3, <2>4 DEF LineOK, Lost
<1> QED
    BY <1>1, EchoAlways, PTL

\* A client is at the prompt only with a whole answer to all it sent.
THEOREM PromptIsAnswered == Spec => []PromptAfterEcho
<1>1. EchoInv => PromptAfterEcho
    BY DEF EchoInv, LineInv, LineOK, Nothing, PromptAfterEcho
<1> QED
    BY <1>1, EchoAlways, PTL

\* A client that leaves of its own leaves no byte that could end the server.
THEOREM LeavingIsClean == Spec => []LeavesNothingBehind
<1>1. EchoInv => LeavesNothingBehind
    BY DEF EchoInv
<1> QED
    BY <1>1, EchoAlways, PTL

==============================================================================
