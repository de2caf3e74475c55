---------------------------- MODULE TpFifoProofs -----------------------------
(***************************************************************************)
(* Proofs about TpFifo for every size of header, text and FIFO, every set  *)
(* of line lengths and any number of lines and signals.  StageInv ties     *)
(* each process's program counter to its end of the FIFO and to its        *)
(* handlers; the rest of each argument is local to its section.            *)
(***************************************************************************)
EXTENDS TpFifo, TLAPS, FiniteSetTheorems, SequenceTheorems

\* Every step expands the groups of variables and the common guards.
USE DEF writerOwn, writerVars, inputVars, signalVars, readerOwn, readerVars, streamVars,
        MainAt, MainGoto, ReaderAt, ReaderGoto

\* The pc of each process decides the state of its end of the FIFO, and of the
\* writer's handlers.
StageInv ==
    /\ wstatus = "running" <=> wpc # "end"
    /\ wpc \in {"mknod", "open"} => wopen = "no"
    /\ wpc = "opening" => wopen \in {"waiting", "released"}
    /\ wpc \in {"setup", "read", "write"} => wopen = "open"
    /\ wpc \in {"closed", "end"} => wopen = "closed"
    /\ wpc \in {"mknod", "open", "opening"} => installed = 0
    /\ wpc = "setup" => installed < Len(SetupOrder)
    /\ rstatus = "running" <=> rpc # "end"
    /\ rpc \in {"mknod", "open"} => ropen = "no"
    /\ rpc = "opening" => ropen \in {"waiting", "released"}
    /\ rpc \in {"files", "sigint", "read", "parse"} => ropen = "open"
    /\ rpc = "end" => ropen = "closed"
    /\ ropen \in {"released", "open"} => wopen # "no"
    /\ taken <= put

------------------------------------------------------------------------------
(* Type correctness *)

\* What one read of the terminal leaves in msg fits it.
LEMMA KeptFits ==
    ASSUME NEW n \in Nat \ {0}
    PROVE  /\ Kept(Taken(n)) \in 0 .. DataMax /\ Taken(n) \in 1 .. n
           /\ \/ Kept(Taken(n)) = Taken(n)
              \/ Taken(n) = n /\ Kept(Taken(n)) = n - 1
    BY SizesAssumption DEF Kept, Taken

\* There are four handlers to set.
LEMMA LenSetup == Len(SetupOrder) = 4
    BY DEF SetupOrder

\* The placeholders have the types of what they stand for.
LEMMA Placeholders ==
    NoMessage \in Message /\ NoChunk \in Chunk /\ NoLine \in [left : Nat, nl : BOOLEAN]
    BY SizesAssumption DEF NoMessage, Message, NoChunk, Chunk, NoLine, ReadMax

\* At the start both processes are before their mknod.
LEMMA TypeInit == Init => TypeOK /\ StageInv
<1> SUFFICES ASSUME Init PROVE TypeOK /\ StageInv
    OBVIOUS
<1>1. WriterTypes
    BY LenSetup, Placeholders DEF Init, WriterTypes, End
<1>2. InputTypes
    <2>1. lines = <<>> /\ lines \in Seq(Nat)
        BY DEF Init
    <2> QED
        BY <2>1 DEF Init, InputTypes
<1>3. ReaderTypes
    BY Placeholders DEF Init, ReaderTypes, End
<1>4. StreamTypes
    BY DEF Init, StreamTypes
<1>5. StageInv
    BY DEF Init, StageInv
<1> QED
    BY <1>1, <1>2, <1>3, <1>4, <1>5 DEF TypeOK

\* What WriteFifo appends is a message, and it moves put forward.
LEMMA WriteFifoType ==
    ASSUME StreamTypes, NEW m \in Message, WriteFifo(m)
    PROVE  StreamTypes' /\ put' >= put /\ wopen = "open"
<1>1. [m EXCEPT !.at = put] \in Message
    BY DEF StreamTypes, Message
<1>2. Length(m) \in Nat
    BY SizesAssumption DEF Message, Length
<1>3. sent' \in Seq(Message)
    BY <1>1 DEF StreamTypes, WriteFifo
<1> QED
    BY <1>2, <1>3 DEF StreamTypes, WriteFifo

\* The steps of the writer that are not the end of it.
LEMMA WriterMainType ==
    ASSUME TypeOK, StageInv,
           WriterMknod \/ WriterOpen \/ WriterOpened \/ SetupSignal \/ ReadEof \/ ReadLine
             \/ WriteData \/ HandlerWrite
    PROVE  TypeOK' /\ StageInv'
<1> USE DEF TypeOK
<1>1. CASE WriterMknod \/ WriterOpened \/ SetupSignal \/ ReadEof
    <2>1. WriterTypes'
        BY <1>1, LenSetup
        DEF WriterTypes, StageInv, WriterMknod, WriterOpened, SetupSignal, ReadEof, End
    <2>2. InputTypes' /\ ReaderTypes' /\ StreamTypes'
        BY <1>1
        DEF InputTypes, ReaderTypes, StreamTypes, WriterMknod, WriterOpened, SetupSignal, ReadEof
    <2>3. StageInv'
        <3>1. CASE WriterMknod
            BY <3>1 DEF StageInv, WriterMknod
        <3>2. CASE WriterOpened
            BY <3>2, LenSetup DEF StageInv, WriterOpened
        <3>3. CASE SetupSignal
            BY <3>3, LenSetup DEF WriterTypes, StageInv, SetupSignal
        <3>4. CASE ReadEof
            BY <3>4 DEF StageInv, ReadEof
        <3> QED
            BY <1>1, <3>1, <3>2, <3>3, <3>4
    <2> QED
        BY <2>1, <2>2, <2>3
<1>2. CASE WriterOpen
    <2>1. WriterTypes' /\ InputTypes' /\ ReaderTypes' /\ StreamTypes'
        BY <1>2
        DEF WriterTypes, InputTypes, ReaderTypes, StreamTypes, WriterOpen, End, Joined, LetGo
    <2>2. StageInv'
        BY <1>2, LenSetup
        DEF WriterTypes, ReaderTypes, StageInv, WriterOpen, Joined, LetGo, Present, End
    <2> QED
        BY <2>1, <2>2
<1>3. CASE ReadLine
    <2> DEFINE k == Taken(line.left)
               n == Kept(k)
    <2>1. line.left \in Nat \ {0} /\ line.nl \in BOOLEAN
        BY <1>3 DEF WriterTypes, ReadLine
    <2>2. n \in 0 .. DataMax /\ k \in 1 .. line.left
        BY <2>1, KeptFits
    <2>3. outMsg' \in Message
        <3>1. outMsg' = [kind |-> "DATA", at |-> 0, len |-> n,
                         nl |-> line.nl /\ k = line.left /\ n = k,
                         of |-> Len(lines), left |-> line.left, rest |-> line.left - k]
            BY <1>3 DEF ReadLine
        <3>2. Len(lines) \in Nat /\ line.left - k \in Nat
            BY <2>1, <2>2 DEF InputTypes
        <3> HIDE DEF k, n
        <3> QED
            BY <2>1, <2>2, <3>1, <3>2 DEF Message
    <2>4. line' \in [left : Nat, nl : BOOLEAN]
        <3>1. line' = [line EXCEPT !.left = line.left - k] /\ line.left - k \in Nat
            BY <1>3, <2>1, <2>2 DEF ReadLine
        <3> HIDE DEF k
        <3> QED
            BY <3>1 DEF WriterTypes
    <2> QED
        BY <1>3, <2>3, <2>4
        DEF WriterTypes, InputTypes, ReaderTypes, StreamTypes, StageInv, ReadLine
<1>4. CASE WriteData
    <2>1. StreamTypes' /\ put' >= put
        BY <1>4, WriteFifoType DEF WriterTypes, WriteData
    <2>2. WriterTypes' /\ InputTypes' /\ ReaderTypes'
        BY <1>4, Placeholders DEF WriterTypes, InputTypes, ReaderTypes, WriteData
    <2>3. StageInv'
        BY <1>4, <2>1 DEF StreamTypes, ReaderTypes, StageInv, WriteData
    <2> QED
        BY <2>1, <2>2, <2>3
<1>5. CASE HandlerWrite
    <2>1. frames' \in Seq(UserSignals)
        BY <1>5 DEF WriterTypes, HandlerWrite
    <2>2. SignMessage(frames[Len(frames)]) \in Message
        BY SizesAssumption DEF SignMessage, Message
    <2>3. StreamTypes' /\ put' >= put
        BY <1>5, <2>2, WriteFifoType DEF HandlerWrite
    <2>4. WriterTypes' /\ InputTypes' /\ ReaderTypes'
        BY <1>5, <2>1 DEF WriterTypes, InputTypes, ReaderTypes, HandlerWrite
    <2>5. StageInv'
        BY <1>5, <2>3 DEF StreamTypes, ReaderTypes, StageInv, HandlerWrite
    <2> QED
        BY <2>3, <2>4, <2>5
<1> QED
    BY <1>1, <1>2, <1>3, <1>4, <1>5

\* The end of the writer.
LEMMA WriterEndsType ==
    ASSUME TypeOK, StageInv,
           NEW s \in {"success", "failure", "PIPE"} \cup Signals, WriterEnds(s)
    PROVE  TypeOK' /\ StageInv'
<1>1. WriterTypes'
    BY Placeholders DEF TypeOK, WriterTypes, WriterEnds, End
<1>2. InputTypes' /\ ReaderTypes' /\ StreamTypes'
    BY DEF TypeOK, InputTypes, ReaderTypes, StreamTypes, WriterEnds
<1>3. s # "running"
    BY DEF Signals, UserSignals
<1>4. StageInv'
    BY <1>3 DEF StageInv, WriterEnds
<1> QED
    BY <1>1, <1>2, <1>4 DEF TypeOK

\* A signal whose handler runs.
LEMMA HandledType ==
    ASSUME TypeOK, StageInv, NEW s \in UserSignals, Deliver(s), HasHandler(s)
    PROVE  TypeOK' /\ StageInv'
<1>1. CASE WriterEnds("failure") \/ WriterEnds(s)
    BY <1>1, WriterEndsType DEF Signals
<1>2. CASE /\ pending' = pending \ {s} /\ frames' = Append(frames, s)
           /\ handled' = handled + 1
           /\ UNCHANGED <<wpc, wstatus, installed, outMsg, line, wopen, inputVars, kills,
                          readerVars, streamVars>>
    <2>1. WriterTypes' /\ InputTypes' /\ ReaderTypes' /\ StreamTypes'
        BY <1>2 DEF TypeOK, WriterTypes, InputTypes, ReaderTypes, StreamTypes
    <2>2. StageInv'
        BY <1>2 DEF StageInv
    <2> QED
        BY <2>1, <2>2 DEF TypeOK
<1> QED
    BY <1>1, <1>2 DEF Deliver

\* The reader's steps.
LEMMA ReaderType ==
    ASSUME TypeOK, StageInv,
           ReaderMain \/ \E s \in {"failure", "INT"} : ReaderEnds(s)
    PROVE  TypeOK' /\ StageInv'
<1> USE DEF TypeOK
<1>1. CASE ReaderMknod \/ ReaderOpened \/ OpenFiles \/ ReaderSetup
    <2>1. WriterTypes' /\ InputTypes' /\ StreamTypes'
        BY <1>1
        DEF WriterTypes, InputTypes, StreamTypes, ReaderMknod, ReaderOpened, OpenFiles,
            ReaderSetup
    <2>2. ReaderTypes'
        BY <1>1 DEF ReaderTypes, ReaderMknod, ReaderOpened, OpenFiles, ReaderSetup, End
    <2>3. StageInv'
        BY <1>1 DEF StageInv, ReaderMknod, ReaderOpened, OpenFiles, ReaderSetup
    <2> QED
        BY <2>1, <2>2, <2>3
<1>2. CASE ReaderOpen
    <2>1. WriterTypes' /\ InputTypes' /\ ReaderTypes' /\ StreamTypes'
        BY <1>2
        DEF WriterTypes, InputTypes, ReaderTypes, StreamTypes, ReaderOpen, End, Joined, LetGo
    <2>2. StageInv'
        BY <1>2 DEF WriterTypes, ReaderTypes, StageInv, ReaderOpen, Joined, LetGo, Present, End
    <2> QED
        BY <2>1, <2>2
<1>3. CASE ReadFifo
    <2>1. chunk' \in Chunk /\ taken' \in Nat /\ taken' <= put
        BY <1>3, SizesAssumption
        DEF ReaderTypes, StreamTypes, StageInv, ReadFifo, Chunk, InFlight, ReadMax
    <2>2. WriterTypes' /\ InputTypes' /\ ReaderTypes' /\ StreamTypes'
        BY <1>3, <2>1 DEF WriterTypes, InputTypes, ReaderTypes, StreamTypes, ReadFifo
    <2>3. StageInv'
        BY <1>3, <2>1 DEF StageInv, ReadFifo
    <2> QED
        BY <2>2, <2>3
<1>4. CASE CheckAndWrite
    <2>1. WriterTypes' /\ InputTypes' /\ ReaderTypes' /\ StreamTypes'
        BY <1>4, Placeholders
        DEF WriterTypes, InputTypes, ReaderTypes, StreamTypes, CheckAndWrite
    <2>2. StageInv'
        BY <1>4 DEF StageInv, CheckAndWrite
    <2> QED
        BY <2>1, <2>2
<1>5. ASSUME NEW s \in {"success", "failure", "INT"}, ReaderEnds(s)
      PROVE  TypeOK' /\ StageInv'
    <2>1. WriterTypes' /\ InputTypes' /\ ReaderTypes' /\ StreamTypes'
        BY <1>5, Placeholders
        DEF WriterTypes, InputTypes, ReaderTypes, StreamTypes, ReaderEnds, End
    <2>2. StageInv'
        BY <1>5 DEF StageInv, ReaderEnds
    <2> QED
        BY <2>1, <2>2
<1> QED
    BY <1>1, <1>2, <1>3, <1>4, <1>5 DEF ReaderMain, FifoEof

\* Typing and killing.
LEMMA InputType ==
    ASSUME TypeOK, StageInv,
           \/ \E n \in LineLengths, nl \in BOOLEAN : TypeLine(n, nl)
           \/ TypeEof
           \/ \E s \in Signals : Kill(s)
    PROVE  TypeOK' /\ StageInv'
<1> USE DEF TypeOK
<1>1. ASSUME NEW n \in LineLengths, NEW nl \in BOOLEAN, TypeLine(n, nl)
      PROVE  TypeOK' /\ StageInv'
    <2>1. line' \in [left : Nat, nl : BOOLEAN] /\ lines' \in Seq(Nat)
        BY <1>1, SizesAssumption DEF InputTypes, TypeLine
    <2>2. WriterTypes' /\ InputTypes' /\ ReaderTypes' /\ StreamTypes'
        BY <1>1, <2>1 DEF WriterTypes, InputTypes, ReaderTypes, StreamTypes, TypeLine
    <2>3. StageInv'
        BY <1>1 DEF StageInv, TypeLine
    <2> QED
        BY <2>2, <2>3
<1>2. CASE TypeEof
    <2>1. WriterTypes' /\ InputTypes' /\ ReaderTypes' /\ StreamTypes'
        BY <1>2 DEF WriterTypes, InputTypes, ReaderTypes, StreamTypes, TypeEof
    <2>2. StageInv'
        BY <1>2 DEF StageInv, TypeEof
    <2> QED
        BY <2>1, <2>2
<1>3. ASSUME NEW s \in Signals, Kill(s)
      PROVE  TypeOK' /\ StageInv'
    <2>1. WriterTypes' /\ InputTypes' /\ ReaderTypes' /\ StreamTypes'
        BY <1>3 DEF WriterTypes, InputTypes, ReaderTypes, StreamTypes, Kill
    <2>2. StageInv'
        BY <1>3 DEF StageInv, Kill
    <2> QED
        BY <2>1, <2>2
<1> QED
    BY <1>1, <1>2, <1>3

\* Every step keeps types and stages.
LEMMA TypeStep == TypeOK /\ StageInv /\ [Next]_vars => TypeOK' /\ StageInv'
<1> SUFFICES ASSUME TypeOK, StageInv, [Next]_vars
             PROVE  TypeOK' /\ StageInv'
    OBVIOUS
<1>1. ASSUME NEW s \in {"success", "failure", "PIPE"} \cup Signals, WriterEnds(s)
      PROVE  TypeOK' /\ StageInv'
    BY <1>1, WriterEndsType
<1>2. CASE WriterMain
    BY <1>1, <1>2, WriterMainType DEF WriterMain, ExitSuccess, WriteBroken
<1>3. ASSUME NEW s \in Signals, Deliver(s)
      PROVE  TypeOK' /\ StageInv'
    <2>1. CASE s \in UserSignals /\ HasHandler(s)
        BY <2>1, <1>3, HandledType
    <2>2. CASE ~(s \in UserSignals /\ HasHandler(s))
        BY <2>2, <1>1, <1>3 DEF Deliver
    <2> QED
        BY <2>1, <2>2
<1>4. CASE ReaderMain
    BY <1>4, ReaderType
<1>5. CASE Environment
    BY <1>1, <1>5, InputType, ReaderType
    DEF Environment, WriterCallFails, ReaderCallFails, ReaderInterrupted
<1>6. CASE UNCHANGED vars
    <2>1. WriterTypes' /\ InputTypes' /\ ReaderTypes' /\ StreamTypes'
        BY <1>6 DEF TypeOK, WriterTypes, InputTypes, ReaderTypes, StreamTypes, vars
    <2>2. StageInv'
        BY <1>6 DEF StageInv, vars
    <2> QED
        BY <2>1, <2>2 DEF TypeOK
<1> QED
    BY <1>2, <1>3, <1>4, <1>5, <1>6 DEF Next

\* Every variable keeps its type for every size of the buffers: in particular no
\* message is longer than the buffer it is built in.
THEOREM TypeCorrect == Spec => []TypeOK
<1>1. TypeOK /\ StageInv /\ [Next]_vars => (TypeOK /\ StageInv)'
    BY TypeStep
<1> QED
    BY <1>1, TypeInit, PTL DEF Spec

\* StageInv holds along every behaviour too.
LEMMA StageAlways == Spec => []StageInv
<1>1. TypeOK /\ StageInv /\ [Next]_vars => (TypeOK /\ StageInv)'
    BY TypeStep
<1> QED
    BY <1>1, TypeInit, PTL DEF Spec

------------------------------------------------------------------------------
(* The reader drains the FIFO *)

\* A reader that ended with success took every byte of a writer that hung up.
DrainedAtSuccess == rstatus = "success" => wopen = "closed" /\ taken = put

\* Once the writer's end is closed nothing more is put, and it stays closed.
LEMMA ClosedStays ==
    ASSUME TypeOK, StageInv, [Next]_vars, wopen = "closed"
    PROVE  wopen' = "closed" /\ put' = put
<1> USE DEF StageInv
<1>1. CASE WriterMain
    BY <1>1
    DEF WriterMain, WriterMknod, WriterOpen, WriterOpened, SetupSignal, ReadLine, ReadEof,
        ExitSuccess, WriteData, WriteFifo, HandlerWrite, WriteBroken, WriterEnds
<1>2. ASSUME NEW s \in Signals, Deliver(s)
      PROVE  wopen' = "closed" /\ put' = put
    BY <1>2 DEF Deliver, WriterEnds
<1>3. CASE ReaderMain
    BY <1>3
    DEF ReaderMain, ReaderMknod, ReaderOpen, ReaderOpened, OpenFiles, ReaderSetup, ReadFifo,
        FifoEof, CheckAndWrite, ReaderEnds, LetGo
<1>4. CASE Environment
    BY <1>4
    DEF Environment, TypeLine, TypeEof, Kill, WriterCallFails, ReaderCallFails,
        ReaderInterrupted, WriterEnds, ReaderEnds
<1> QED
    BY <1>1, <1>2, <1>3, <1>4 DEF Next, vars

\* A reader that is gone takes nothing more, and becomes a success only at an end of
\* file: an empty FIFO whose writer came and went.
LEMMA SuccessStep ==
    ASSUME TypeOK, StageInv, [Next]_vars, rstatus' = "success"
    PROVE  \/ rstatus = "success" /\ taken' = taken
           \/ wopen = "closed" /\ taken = put /\ taken' = taken
<1>1. CASE WriterMain
    BY <1>1
    DEF WriterMain, WriterMknod, WriterOpen, WriterOpened, SetupSignal, ReadLine, ReadEof,
        ExitSuccess, WriteData, HandlerWrite, WriteBroken, WriterEnds
<1>2. ASSUME NEW s \in Signals, Deliver(s)
      PROVE  rstatus' = rstatus /\ taken' = taken
    BY <1>2 DEF Deliver, WriterEnds
<1>3. CASE FifoEof
    BY <1>3
    DEF FifoEof, ReaderEnds, InFlight, Present, StageInv, TypeOK, WriterTypes, ReaderTypes,
        StreamTypes, End
<1>4. CASE ReaderMain /\ ~FifoEof
    BY <1>4
    DEF ReaderMain, ReaderMknod, ReaderOpen, ReaderOpened, OpenFiles, ReaderSetup, ReadFifo,
        CheckAndWrite
<1>5. CASE Environment
    BY <1>5
    DEF Environment, TypeLine, TypeEof, Kill, WriterCallFails, ReaderCallFails,
        ReaderInterrupted, WriterEnds, ReaderEnds
<1> QED
    BY <1>1, <1>2, <1>3, <1>4, <1>5 DEF Next, vars

\* The reader ends with success only when the writer has closed its end and every byte
\* it wrote has been read.
LEMMA ReaderDrains == Spec => []DrainedAtSuccess
<1>1. Init => DrainedAtSuccess
    BY DEF Init, DrainedAtSuccess
<1>2. TypeOK /\ StageInv /\ DrainedAtSuccess /\ [Next]_vars => DrainedAtSuccess'
    BY ClosedStays, SuccessStep DEF DrainedAtSuccess
<1> QED
    BY <1>1, <1>2, TypeCorrect, StageAlways, PTL DEF Spec

------------------------------------------------------------------------------
(* The writer sends what it was given *)

\* What was typed is in the FIFO, in hand or still to be read.
LinesInv ==
    \A l \in DOMAIN lines : \A i \in 1 .. lines[l] :
        \/ \E n \in DOMAIN sent : Carries(sent[n], l, i)
        \/ wpc = "write" /\ Carries(outMsg, l, i)
        \/ l = Len(lines) /\ i <= line.left

\* Handlers come before lines, what was typed is accounted for, and an end of file finds
\* nothing in hand.
AccountInv ==
    /\ wpc \in {"read", "write", "closed"} => installed = Len(SetupOrder)
    /\ wstatus = "running" /\ SentKind("DATA") # {} => installed = Len(SetupOrder)
    /\ outMsg.kind = "DATA"
    /\ wstatus = "running" => LinesInv
    /\ wpc = "closed" => eof /\ line.left = 0

\* The messages of a kind can be counted.
LEMMA KindFinite ==
    ASSUME StreamTypes, NEW kind
    PROVE  IsFiniteSet(SentKind(kind)) /\ Cardinality(SentKind(kind)) \in Nat
<1>1. SentKind(kind) \subseteq 1 .. Len(sent) /\ IsFiniteSet(1 .. Len(sent))
    BY FS_Interval DEF StreamTypes, SentKind
<1> QED
    BY <1>1, FS_Subset, FS_CardinalityType

\* A write adds a message of its kind and of no other.
LEMMA KindCount ==
    ASSUME StreamTypes, NEW m \in Message, WriteFifo(m), NEW kind
    PROVE  /\ m.kind = kind => Cardinality(SentKind(kind)') = Cardinality(SentKind(kind)) + 1
           /\ m.kind # kind => SentKind(kind)' = SentKind(kind)
<1> DEFINE new == [m EXCEPT !.at = put]
<1>1. new \in Message /\ new.kind = m.kind
    BY DEF StreamTypes, Message
<1>2. sent' = Append(sent, new) /\ sent \in Seq(Message)
    BY DEF StreamTypes, WriteFifo
<1> HIDE DEF new
<1>3. /\ DOMAIN sent' = 1 .. Len(sent) + 1 /\ DOMAIN sent = 1 .. Len(sent) /\ Len(sent) \in Nat
      /\ sent'[Len(sent) + 1] = new /\ \A n \in 1 .. Len(sent) : sent'[n] = sent[n]
    BY <1>1, <1>2
<1>4. CASE m.kind = kind
    <2>1. /\ Len(sent) + 1 \notin SentKind(kind)
          /\ SentKind(kind)' = SentKind(kind) \cup {Len(sent) + 1}
        BY <1>1, <1>3, <1>4 DEF SentKind
    <2> QED
        BY <1>4, <2>1, KindFinite, FS_AddElement
<1>5. CASE m.kind # kind
    BY <1>1, <1>3, <1>5 DEF SentKind
<1> QED
    BY <1>4, <1>5

\* A write adds the part of its message and keeps the others.
LEMMA WriteKeepsParts ==
    ASSUME StreamTypes, NEW m \in Message, WriteFifo(m), NEW l, NEW i
    PROVE  (\E n \in DOMAIN sent' : Carries(sent'[n], l, i))
             <=> Carries(m, l, i) \/ \E n \in DOMAIN sent : Carries(sent[n], l, i)
<1> DEFINE new == [m EXCEPT !.at = put]
<1>1. new \in Message /\ (Carries(new, l, i) <=> Carries(m, l, i))
    BY DEF StreamTypes, Message, Carries
<1>2. sent' = Append(sent, new) /\ sent \in Seq(Message)
    BY DEF StreamTypes, WriteFifo
<1> HIDE DEF new
<1>3. /\ DOMAIN sent' = 1 .. Len(sent) + 1 /\ DOMAIN sent = 1 .. Len(sent) /\ Len(sent) \in Nat
      /\ sent'[Len(sent) + 1] = new /\ \A n \in 1 .. Len(sent) : sent'[n] = sent[n]
    BY <1>1, <1>2
<1> QED
    BY <1>1, <1>3

\* The accounts of the writer, with the two properties that rest on them.
Accounts == AccountInv /\ HandlersWrite /\ SuccessMeansAllSent

\* At the start there is nothing to account for.
LEMMA AccountsInit == Init => Accounts
<1> SUFFICES ASSUME Init PROVE Accounts
    OBVIOUS
<1>1. SentKind("DATA") = {} /\ SentKind("SIGN") = {}
    BY DEF Init, SentKind
<1>2. Cardinality(SentKind("DATA")) = 0 /\ Cardinality(SentKind("SIGN")) = 0
    BY <1>1, FS_EmptySet
<1>3. HandlersWrite
    <2>1. frames = <<>> /\ Len(frames) = 0 /\ DOMAIN frames = {} /\ handled = 0
        BY DEF Init
    <2> QED
        BY <1>1, <1>2, <2>1 DEF Init, HandlersWrite
<1>4. AccountInv
    <2>1. LinesInv
        BY DEF Init, LinesInv
    <2> QED
        BY <1>1, <2>1 DEF Init, AccountInv, NoMessage
<1> QED
    BY <1>3, <1>4 DEF Init, Accounts, SuccessMeansAllSent

\* A read puts in hand the part of the line that it takes.
LEMMA ReadLines ==
    ASSUME TypeOK, LinesInv, ReadLine
    PROVE  LinesInv'
<1> DEFINE k == Taken(line.left)
<1>1. line.left \in Nat \ {0} /\ k \in 1 .. line.left
    BY KeptFits DEF TypeOK, WriterTypes, ReadLine
<1>2. /\ wpc = "read" /\ wpc' = "write" /\ UNCHANGED <<lines, sent>>
      /\ line'.left = line.left - k
      /\ outMsg'.of = Len(lines) /\ outMsg'.left = line.left /\ outMsg'.rest = line.left - k
      /\ outMsg'.len = Kept(k)
    BY DEF ReadLine, TypeOK, WriterTypes
<1>4. Kept(k) = k \/ (k = line.left /\ Kept(k) = line.left - 1)
    BY <1>1, KeptFits
<1> HIDE DEF k
<1> SUFFICES ASSUME NEW l \in DOMAIN lines, NEW i \in 1 .. lines[l]
             PROVE  \/ \E n \in DOMAIN sent : Carries(sent[n], l, i)
                    \/ Carries(outMsg', l, i)
                    \/ l = Len(lines) /\ i <= line'.left
    BY <1>2 DEF LinesInv, Carries
<1>3. lines[l] \in Nat
    BY DEF TypeOK, InputTypes
<1> QED
    BY <1>1, <1>2, <1>3, <1>4 DEF LinesInv, Carries

\* main, while it neither writes nor ends.
LEMMA MainAccounts ==
    ASSUME TypeOK, StageInv, Accounts,
           WriterMknod \/ WriterOpen \/ WriterOpened \/ SetupSignal \/ ReadLine \/ ReadEof
    PROVE  Accounts'
<1>1. /\ SentKind("DATA")' = SentKind("DATA") /\ SentKind("SIGN")' = SentKind("SIGN")
      /\ UNCHANGED <<wstatus, frames, handled, lines, eof, sent>> /\ wstatus = "running"
    BY DEF WriterMknod, WriterOpen, WriterOpened, SetupSignal, ReadLine, ReadEof, SentKind
<1>2. HandlersWrite' /\ SuccessMeansAllSent'
    BY <1>1 DEF Accounts, HandlersWrite, SuccessMeansAllSent, UserSignals
<1>3. AccountInv'
    <2>1. CASE WriterMknod \/ WriterOpen \/ WriterOpened
        BY <1>1, <2>1, LenSetup
        DEF Accounts, AccountInv, LinesInv, Carries, WriterMknod, WriterOpen, WriterOpened
    <2>2. CASE SetupSignal
        BY <1>1, <2>2, LenSetup
        DEF Accounts, AccountInv, LinesInv, Carries, SetupSignal, TypeOK, WriterTypes, StageInv
    <2>3. CASE ReadLine
        <3>1. LinesInv'
            BY <1>1, <2>3, ReadLines DEF Accounts, AccountInv
        <3> QED
            BY <1>1, <2>3, <3>1 DEF Accounts, AccountInv, ReadLine
    <2>4. CASE ReadEof
        BY <1>1, <2>4 DEF Accounts, AccountInv, LinesInv, Carries, ReadEof
    <2> QED
        BY <2>1, <2>2, <2>3, <2>4
<1> QED
    BY <1>2, <1>3 DEF Accounts

\* The write of a line in hand.
LEMMA DataAccounts ==
    ASSUME TypeOK, StageInv, Accounts, WriteData
    PROVE  Accounts'
<1>1. /\ outMsg \in Message /\ WriteFifo(outMsg) /\ outMsg.kind = "DATA"
      /\ wpc = "write" /\ wpc' = "read" /\ wstatus = "running" /\ outMsg' = NoMessage
      /\ UNCHANGED <<wstatus, frames, handled, lines, eof, installed, line>>
    BY DEF TypeOK, WriterTypes, Accounts, AccountInv, WriteData
<1>2. /\ Cardinality(SentKind("DATA")') = Cardinality(SentKind("DATA")) + 1
      /\ SentKind("SIGN")' = SentKind("SIGN")
    BY <1>1, KindCount DEF TypeOK
<1>3. HandlersWrite' /\ SuccessMeansAllSent'
    BY <1>1, <1>2 DEF Accounts, HandlersWrite, SuccessMeansAllSent, UserSignals
<1>4. LinesInv'
    BY <1>1, WriteKeepsParts DEF Accounts, AccountInv, LinesInv, TypeOK
<1>5. AccountInv'
    BY <1>1, <1>4 DEF Accounts, AccountInv, NoMessage
<1> QED
    BY <1>3, <1>5 DEF Accounts

\* A stack without its top.
LEMMA Popped ==
    ASSUME NEW S, NEW q \in Seq(S), q # <<>>, NEW r, r = SubSeq(q, 1, Len(q) - 1)
    PROVE  /\ Len(q) \in Nat /\ Len(r) = Len(q) - 1 /\ DOMAIN r \subseteq DOMAIN q
           /\ \A i \in DOMAIN r : r[i] = q[i]
<1>1. Len(q) \in Nat /\ Len(q) > 0 /\ DOMAIN q = 1 .. Len(q)
    OBVIOUS
<1>2. /\ r \in Seq(S) /\ Len(r) = Len(q) - 1
      /\ \A i \in 1 .. Len(q) - 1 : r[i] = q[i]
    BY <1>1, SubSeqProperties
<1>3. DOMAIN r = 1 .. Len(q) - 1
    BY <1>1, <1>2
<1> QED
    BY <1>1, <1>2, <1>3

\* The write of a handler.
LEMMA SignAccounts ==
    ASSUME TypeOK, StageInv, Accounts, HandlerWrite
    PROVE  Accounts'
<1> DEFINE m == SignMessage(frames[Len(frames)])
<1>1. m \in Message /\ m.kind = "SIGN"
    BY SizesAssumption DEF SignMessage, Message
<1>2. /\ WriteFifo(m) /\ frames # <<>> /\ wstatus = "running"
      /\ frames' = SubSeq(frames, 1, Len(frames) - 1)
      /\ UNCHANGED <<wpc, wstatus, installed, outMsg, line, handled, lines, eof>>
    BY DEF HandlerWrite
<1> HIDE DEF m
<1>3. /\ Cardinality(SentKind("SIGN")') = Cardinality(SentKind("SIGN")) + 1
      /\ SentKind("DATA")' = SentKind("DATA")
    BY <1>1, <1>2, KindCount DEF TypeOK
<1>4. /\ Len(frames') = Len(frames) - 1 /\ Len(frames) \in Nat
      /\ DOMAIN frames' \subseteq DOMAIN frames /\ \A i \in DOMAIN frames' : frames'[i] = frames[i]
    <2>1. frames \in Seq(UserSignals)
        BY DEF TypeOK, WriterTypes
    <2> QED
        BY <1>2, <2>1, Popped, Zenon
<1>5. HandlersWrite'
    <2>1. Cardinality(SentKind("SIGN")) \in Nat
        BY KindFinite DEF TypeOK
    <2> QED
        BY <1>2, <1>3, <1>4, <2>1 DEF Accounts, HandlersWrite, UserSignals
<1>6. AccountInv' /\ SuccessMeansAllSent'
    <2>1. LinesInv'
        <3>1. \A l, i : (\E n \in DOMAIN sent : Carries(sent[n], l, i))
                           => \E n \in DOMAIN sent' : Carries(sent'[n], l, i)
            BY <1>1, <1>2, WriteKeepsParts DEF TypeOK
        <3>2. LinesInv /\ outMsg' = outMsg /\ lines' = lines /\ wpc' = wpc /\ line' = line
            BY <1>2 DEF Accounts, AccountInv
        <3> QED
            BY <3>1, <3>2 DEF LinesInv
    <2> QED
        BY <1>2, <1>3, <2>1 DEF Accounts, AccountInv, SuccessMeansAllSent
<1> QED
    BY <1>5, <1>6 DEF Accounts

\* A handler starts unless it is on the stack.
LEMMA HandledAccounts ==
    ASSUME TypeOK, StageInv, Accounts, NEW s \in UserSignals, Deliver(s), HasHandler(s)
    PROVE  Accounts'
<1>1. /\ frames' = Append(frames, s) /\ handled' = handled + 1 /\ frames \in Seq(UserSignals)
      /\ \A i \in DOMAIN frames : frames[i] # s
      /\ wstatus = "running" /\ handled \in Nat
      /\ UNCHANGED <<wpc, wstatus, installed, outMsg, line, lines, eof, sent>>
    BY DEF TypeOK, WriterTypes, Deliver, UserSignals
<1>2. SentKind("DATA")' = SentKind("DATA") /\ SentKind("SIGN")' = SentKind("SIGN")
    BY <1>1 DEF SentKind
<1>3. /\ Len(frames') = Len(frames) + 1 /\ DOMAIN frames' = DOMAIN frames \cup {Len(frames) + 1}
      /\ frames'[Len(frames) + 1] = s /\ \A i \in DOMAIN frames : frames'[i] = frames[i]
    BY <1>1
<1>4. HandlersWrite'
    <2>1. Cardinality(SentKind("SIGN")) \in Nat /\ Len(frames) \in Nat
        BY <1>1, KindFinite DEF TypeOK
    <2>2. Cardinality(SentKind("SIGN")') + Len(frames') = handled'
        BY <1>1, <1>2, <1>3, <2>1 DEF Accounts, HandlersWrite
    <2>3. \A i, k \in DOMAIN frames' : frames'[i] = frames'[k] => i = k
        BY <1>1, <1>3 DEF Accounts, HandlersWrite
    <2> QED
        BY <1>1, <2>2, <2>3 DEF HandlersWrite, UserSignals
<1>5. AccountInv' /\ SuccessMeansAllSent'
    BY <1>1, <1>2 DEF Accounts, AccountInv, SuccessMeansAllSent, LinesInv, Carries
<1> QED
    BY <1>4, <1>5 DEF Accounts

\* SIGUSR1 and SIGUSR2 kill only before the handlers are set, an exit with success only
\* happens after the end of file.
LEMMA EndAccounts ==
    ASSUME TypeOK, StageInv, Accounts, wstatus = "running",
           NEW s \in {"success", "failure", "PIPE"} \cup Signals, WriterEnds(s),
           s \in UserSignals => ~HasHandler(s),
           s = "success" => wpc = "closed" /\ frames = <<>>
    PROVE  Accounts'
<1>1. /\ SentKind("DATA")' = SentKind("DATA") /\ SentKind("SIGN")' = SentKind("SIGN")
      /\ wstatus' = s /\ wpc' = "end" /\ frames' = <<>> /\ line' = NoLine /\ outMsg' = NoMessage
      /\ UNCHANGED <<installed, handled, lines, eof, sent>>
    BY DEF WriterEnds, SentKind
<1>2. s # "running"
    BY DEF Signals, UserSignals
<1>3. AccountInv'
    BY <1>1, <1>2 DEF AccountInv, NoMessage
<1>4. HandlersWrite'
    <2>1. s \in UserSignals => SentKind("DATA") = {}
        <3> SUFFICES ASSUME s \in UserSignals, SentKind("DATA") # {}
                     PROVE  HasHandler(s)
            OBVIOUS
        <3>1. installed = 4
            BY LenSetup DEF Accounts, AccountInv
        <3> QED
            BY <3>1 DEF HasHandler, SetupOrder, UserSignals
    <2> QED
        BY <1>1, <1>2, <2>1 DEF HandlersWrite
<1>5. SuccessMeansAllSent'
    <2> SUFFICES ASSUME s = "success"
                 PROVE  /\ eof /\ Cardinality(SentKind("SIGN")) = handled
                        /\ \A l \in DOMAIN lines : \A i \in 1 .. lines[l] :
                              \E n \in DOMAIN sent : Carries(sent[n], l, i)
        BY <1>1 DEF SuccessMeansAllSent, Carries
    <2>1. eof /\ Cardinality(SentKind("SIGN")) = handled
        <3>1. Cardinality(SentKind("SIGN")) \in Nat /\ handled \in Nat
            BY KindFinite DEF TypeOK, WriterTypes
        <3> QED
            BY <3>1 DEF Accounts, AccountInv, HandlersWrite
    <2>2. \A l \in DOMAIN lines : lines[l] \in Nat
        BY DEF TypeOK, InputTypes
    <2> QED
        BY <2>1, <2>2 DEF Accounts, AccountInv, LinesInv
<1> QED
    BY <1>3, <1>4, <1>5 DEF Accounts

\* What the user, the signals and the reader do.
LEMMA OtherAccounts ==
    ASSUME TypeOK, StageInv, Accounts,
           \/ \E n \in LineLengths, nl \in BOOLEAN : TypeLine(n, nl)
           \/ TypeEof \/ (\E s \in Signals : Kill(s)) \/ ReaderMain
           \/ (\E s \in {"failure", "INT"} : ReaderEnds(s)) \/ UNCHANGED vars
    PROVE  Accounts'
<1>1. SentKind("DATA")' = SentKind("DATA") /\ SentKind("SIGN")' = SentKind("SIGN")
    BY DEF TypeLine, TypeEof, Kill, ReaderMain, ReaderMknod, ReaderOpen, ReaderOpened, OpenFiles,
           ReaderSetup, ReadFifo, FifoEof, CheckAndWrite, ReaderEnds, vars, SentKind
<1>2. UNCHANGED <<wpc, wstatus, installed, outMsg, frames, handled, sent>>
    BY DEF TypeLine, TypeEof, Kill, ReaderMain, ReaderMknod, ReaderOpen, ReaderOpened, OpenFiles,
           ReaderSetup, ReadFifo, FifoEof, CheckAndWrite, ReaderEnds, vars
<1>3. HandlersWrite'
    BY <1>1, <1>2 DEF Accounts, HandlersWrite, UserSignals
<1>4. CASE UNCHANGED <<line, lines, eof>>
    BY <1>1, <1>2, <1>3, <1>4
    DEF Accounts, AccountInv, SuccessMeansAllSent, LinesInv, Carries
<1>5. CASE TypeEof
    BY <1>1, <1>2, <1>3, <1>5
    DEF TypeEof, Accounts, AccountInv, SuccessMeansAllSent, LinesInv, Carries
<1>6. ASSUME NEW n \in LineLengths, NEW nl \in BOOLEAN, TypeLine(n, nl)
      PROVE  Accounts'
    <2>1. /\ wpc = "read" /\ wstatus = "running" /\ line.left = 0 /\ eof' = eof
          /\ line' = [left |-> IF nl THEN n + 1 ELSE n, nl |-> nl]
          /\ lines' = Append(lines, line'.left)
        BY <1>6 DEF TypeLine
    <2>2. n \in Nat /\ line'.left \in Nat /\ lines \in Seq(Nat)
        BY <2>1, SizesAssumption DEF TypeOK, InputTypes
    <2>3. /\ DOMAIN lines' = 1 .. Len(lines) + 1 /\ DOMAIN lines = 1 .. Len(lines)
          /\ Len(lines) \in Nat /\ Len(lines') = Len(lines) + 1
          /\ lines'[Len(lines) + 1] = line'.left
          /\ \A l \in 1 .. Len(lines) : lines'[l] = lines[l] /\ lines[l] \in Nat
        BY <2>1, <2>2
    <2>4. LinesInv'
        <3> SUFFICES ASSUME NEW l \in DOMAIN lines', NEW i \in 1 .. lines'[l], l # Len(lines')
                     PROVE  \E n_1 \in DOMAIN sent : Carries(sent[n_1], l, i)
            BY <1>2, <2>2, <2>3 DEF LinesInv, Carries
        <3>1. l \in DOMAIN lines /\ i \in 1 .. lines[l] /\ lines[l] \in Nat
            BY <2>3
        <3> QED
            BY <2>1, <3>1 DEF Accounts, AccountInv, LinesInv
    <2> QED
        BY <1>1, <1>2, <1>3, <2>1, <2>4 DEF Accounts, AccountInv, SuccessMeansAllSent
<1>7. TypeEof \/ UNCHANGED <<line, lines, eof>>
        \/ \E n \in LineLengths, nl \in BOOLEAN : TypeLine(n, nl)
    BY DEF Kill, ReaderMain, ReaderMknod, ReaderOpen, ReaderOpened, OpenFiles,
           ReaderSetup, ReadFifo, FifoEof, CheckAndWrite, ReaderEnds, vars
<1> QED
    BY <1>4, <1>5, <1>6, <1>7

\* The accounts hold for ever.
LEMMA AccountsAlways == Spec => []Accounts
<1>1. ASSUME TypeOK, StageInv, Accounts, [Next]_vars
      PROVE  Accounts'
    <2>1. CASE WriterMain
        BY <1>1, <2>1, MainAccounts, DataAccounts, SignAccounts, EndAccounts
        DEF WriterMain, ExitSuccess, WriteBroken, Signals, UserSignals
    <2>2. ASSUME NEW s \in Signals, Deliver(s)
          PROVE  Accounts'
        <3>1. CASE s \in UserSignals /\ HasHandler(s)
            BY <1>1, <2>2, <3>1, HandledAccounts
        <3>2. CASE s = "INT" /\ HasHandler(s)
            <4>1. WriterEnds("failure") /\ wstatus = "running" /\ "failure" \notin UserSignals
                BY <2>2, <3>2 DEF Deliver, UserSignals
            <4> QED
                BY <1>1, <4>1, EndAccounts
        <3>3. CASE ~HasHandler(s)
            <4>1. WriterEnds(s) /\ wstatus = "running" /\ s # "success"
                BY <2>2, <3>3 DEF Deliver, Signals, UserSignals
            <4> QED
                BY <1>1, <3>3, <4>1, EndAccounts
        <3> QED
            BY <3>1, <3>2, <3>3 DEF Signals
    <2>3. CASE ReaderMain \/ UNCHANGED vars
        BY <1>1, <2>3, OtherAccounts
    <2>4. CASE WriterCallFails
        <3>1. WriterEnds("failure") /\ wstatus = "running" /\ "failure" \notin UserSignals
            BY <2>4 DEF WriterCallFails, UserSignals
        <3> QED
            BY <1>1, <3>1, EndAccounts
    <2>5. CASE Environment /\ ~WriterCallFails
        BY <1>1, <2>5, OtherAccounts DEF Environment, ReaderCallFails, ReaderInterrupted
    <2> QED
        BY <1>1, <2>1, <2>2, <2>3, <2>4, <2>5 DEF Next
<1> QED
    BY <1>1, AccountsInit, TypeCorrect, StageAlways, PTL DEF Spec

\* Every signal that reached sigusr_handler is in the FIFO or its handler on the stack, no
\* handler interrupts itself, and SIGUSR1 and SIGUSR2 only kill a writer that sent no line.
THEOREM SignalsAreSent == Spec => []HandlersWrite
<1>1. Accounts => HandlersWrite
    BY DEF Accounts
<1> QED
    BY <1>1, AccountsAlways, PTL

\* A writer that ends with success was told the end of its input, and has written every part
\* of every line and every signal.
THEOREM SuccessIsComplete == Spec => []SuccessMeansAllSent
<1>1. Accounts => SuccessMeansAllSent
    BY DEF Accounts
<1> QED
    BY <1>1, AccountsAlways, PTL

------------------------------------------------------------------------------
(* The reader routes what it reads alone *)

\* The messages lie end to end in the stream.
StreamInv ==
    /\ \A n \in DOMAIN sent : sent[n].at + Length(sent[n]) <= put
    /\ \A n, m \in DOMAIN sent : n < m => sent[n].at + Length(sent[n]) <= sent[m].at

\* So do the chunks read, and the last of them is the one to parse.
ReadsInv ==
    /\ InStreamOrder(reads)
    /\ \A i \in DOMAIN reads : reads[i].from + reads[i].len <= taken
    /\ rpc = "parse" =>
          /\ reads # <<>> /\ reads[Len(reads)] = chunk
          /\ chunk.from + chunk.len = taken

\* Where the part of the stream ends that has been parsed.
Parsed == IF rpc = "parse" THEN chunk.from ELSE taken

\* A file holds chunks already parsed, in the order of the stream.
FileOK(file) == InStreamOrder(file) /\ \A i \in DOMAIN file : file[i].from + file[i].len <= Parsed

Routing == StreamInv /\ ReadsInv /\ FileOK(log) /\ FileOK(signals) /\ RoutedWhenAlone

\* Lengths are positive numbers, and offsets numbers.
LEMMA Offsets ==
    /\ \A m \in Message : m.at \in Nat /\ Length(m) \in Nat \ {0} /\ Length(m) >= HeaderLen
    /\ \A c \in Chunk : c.from \in Nat /\ c.len \in Nat \ {0}
    BY SizesAssumption DEF Message, Length, Chunk, ReadMax

\* The elements of the sequences are messages and chunks.
LEMMA Elements ==
    ASSUME TypeOK
    PROVE  /\ \A n \in DOMAIN sent : sent[n] \in Message
           /\ \A i \in DOMAIN reads : reads[i] \in Chunk
           /\ \A i \in DOMAIN log : log[i] \in Chunk
           /\ \A i \in DOMAIN signals : signals[i] \in Chunk
           /\ chunk \in Chunk /\ taken \in Nat /\ put \in Nat
    BY DEF TypeOK, ReaderTypes, StreamTypes

\* What appending does to a sequence, element by element.
LEMMA Appended ==
    ASSUME NEW S, NEW q \in Seq(S), NEW e \in S, NEW r, r = Append(q, e)
    PROVE  /\ Len(q) \in Nat /\ DOMAIN q = 1 .. Len(q)
           /\ Len(r) = Len(q) + 1 /\ DOMAIN r = 1 .. Len(q) + 1
           /\ r[Len(q) + 1] = e /\ \A i \in DOMAIN q : r[i] = q[i]
    OBVIOUS

\* A chunk that starts where all others end keeps a sequence in stream order.
LEMMA OrderAppended ==
    ASSUME NEW q \in Seq(Chunk), NEW e \in Chunk, NEW r, r = Append(q, e),
           InStreamOrder(q), \A i \in DOMAIN q : q[i].from + q[i].len <= e.from
    PROVE  /\ InStreamOrder(r)
           /\ \A i \in DOMAIN r : r[i].from + r[i].len <= e.from + e.len
<1>1. /\ Len(q) \in Nat /\ DOMAIN q = 1 .. Len(q) /\ DOMAIN r = 1 .. Len(q) + 1
      /\ r[Len(q) + 1] = e /\ \A i \in DOMAIN q : r[i] = q[i]
    BY Appended
<1>2. \A i \in DOMAIN q : q[i].from \in Nat /\ q[i].len \in Nat
    BY Offsets
<1>3. e.from \in Nat /\ e.len \in Nat
    BY Offsets
<1>4. InStreamOrder(r)
    BY <1>1 DEF InStreamOrder
<1> QED
    BY <1>1, <1>2, <1>3, <1>4

\* Only one message starts at an offset.
LEMMA OneStart ==
    ASSUME TypeOK, StreamInv, NEW n \in DOMAIN sent, NEW m \in DOMAIN sent,
           sent[n].at = sent[m].at
    PROVE  n = m
<1>1. n \in Nat /\ m \in Nat
    BY DEF TypeOK, StreamTypes
<1>2. /\ sent[n].at \in Nat /\ Length(sent[n]) \in Nat \ {0}
      /\ sent[m].at \in Nat /\ Length(sent[m]) \in Nat \ {0}
    BY Elements, Offsets
<1>3. ~(n < m) /\ ~(m < n)
    BY <1>2 DEF StreamInv
<1> QED
    BY <1>1, <1>3

\* A message that the chunk equals is the one its header names.
LEMMA WholeStarts ==
    ASSUME TypeOK, StreamInv, NEW n \in DOMAIN sent, NEW c \in Chunk, Whole(c, sent[n]), NEW kind
    PROVE  StartsWith(c, kind) <=> sent[n].kind = kind
<1>1. c.len >= HeaderLen /\ c.from = sent[n].at
    BY Elements, Offsets DEF Whole
<1> QED
    BY <1>1, OneStart DEF StartsWith

\* Nothing is read or routed at the start.
LEMMA RoutingInit == Init => Routing
    BY DEF Init, Routing, StreamInv, ReadsInv, FileOK, InStreamOrder, RoutedWhenAlone

\* A message written starts past everything read.
LEMMA WriteRoutes ==
    ASSUME TypeOK, StageInv, Routing, NEW m \in Message, WriteFifo(m), UNCHANGED readerOwn
    PROVE  Routing'
<1> DEFINE new == [m EXCEPT !.at = put]
<1>1. new \in Message /\ new.at = put /\ Length(new) = Length(m)
    BY Elements DEF Message, Length
<1>2. sent' = Append(sent, new) /\ put' = put + Length(m) /\ sent \in Seq(Message)
    BY DEF WriteFifo, TypeOK, StreamTypes
<1> HIDE DEF new
<1>3. /\ Len(sent) \in Nat /\ DOMAIN sent = 1 .. Len(sent) /\ DOMAIN sent' = 1 .. Len(sent) + 1
      /\ sent'[Len(sent) + 1] = new /\ \A n \in DOMAIN sent : sent'[n] = sent[n]
    BY <1>1, <1>2, Appended
<1>4. /\ put \in Nat /\ Length(m) \in Nat
      /\ \A n \in DOMAIN sent : sent[n].at \in Nat /\ Length(sent[n]) \in Nat
    BY Elements, Offsets
<1>5. StreamInv'
    <2>1. \A n \in DOMAIN sent' : sent'[n].at + Length(sent'[n]) <= put'
        BY <1>1, <1>2, <1>3, <1>4 DEF Routing, StreamInv
    <2>2. \A n, k \in DOMAIN sent' : n < k => sent'[n].at + Length(sent'[n]) <= sent'[k].at
        BY <1>1, <1>3 DEF Routing, StreamInv
    <2> QED
        BY <2>1, <2>2 DEF StreamInv, Length
<1>6. ReadsInv' /\ FileOK(log)' /\ FileOK(signals)'
    BY DEF Routing, ReadsInv, FileOK, InStreamOrder, Parsed
<1>7. \A i \in DOMAIN reads : ~Whole(reads[i], new)
    <2> SUFFICES ASSUME NEW i \in DOMAIN reads, Whole(reads[i], new)
                 PROVE  FALSE
        OBVIOUS
    <2>1. reads[i].from \in Nat /\ reads[i].len \in Nat \ {0} /\ taken \in Nat
        BY Elements, Offsets
    <2>2. reads[i].from + reads[i].len <= taken /\ taken <= put /\ reads[i].from = put
        BY <1>1 DEF Routing, ReadsInv, StageInv, Whole
    <2> QED
        BY <1>4, <2>1, <2>2
<1>8. RoutedWhenAlone'
    BY <1>3, <1>7 DEF Routing, RoutedWhenAlone, InStreamOrder, Holds, Whole, Length
<1> QED
    BY <1>5, <1>6, <1>8 DEF Routing

\* Steps that touch neither the stream nor the files.
LEMMA KeepRoutes ==
    ASSUME Routing, UNCHANGED <<sent, put, taken, log, signals, reads>>,
           \/ UNCHANGED <<rpc, rstatus, chunk>>
           \/ rpc # "parse" /\ rpc' # "parse" /\ rstatus = "running"
    PROVE  Routing'
<1>1. StreamInv' /\ ReadsInv' /\ FileOK(log)' /\ FileOK(signals)'
    BY DEF Routing, StreamInv, ReadsInv, FileOK, InStreamOrder, Parsed, Length
<1>2. RoutedWhenAlone'
    BY DEF Routing, RoutedWhenAlone, InStreamOrder, Holds, Whole, Length
<1> QED
    BY <1>1, <1>2 DEF Routing

\* A reader cut short leaves at most its last chunk unrouted.
LEMMA EndRoutes ==
    ASSUME TypeOK, StageInv, Routing, rpc = "parse", rstatus = "running",
           NEW s \in {"failure", "INT"}, ReaderEnds(s)
    PROVE  Routing'
<1>1. /\ UNCHANGED <<sent, put, taken, log, signals, reads>>
      /\ rpc' = "end" /\ rstatus' \in {"failure", "INT"}
    BY DEF ReaderEnds
<1>2. chunk.from \in Nat /\ chunk.len \in Nat /\ chunk.from + chunk.len = taken
    BY Elements, Offsets DEF Routing, ReadsInv
<1>3. StreamInv' /\ ReadsInv'
    BY <1>1 DEF Routing, StreamInv, ReadsInv, InStreamOrder, Length
<1>4. FileOK(log)' /\ FileOK(signals)'
    <2>1. /\ \A i \in DOMAIN log : log[i].from \in Nat /\ log[i].len \in Nat
          /\ \A i \in DOMAIN signals : signals[i].from \in Nat /\ signals[i].len \in Nat
        BY Elements, Offsets
    <2> QED
        BY <1>1, <1>2, <2>1 DEF Routing, FileOK, InStreamOrder, Parsed
<1>5. RoutedWhenAlone'
    BY <1>1 DEF Routing, RoutedWhenAlone, InStreamOrder, Holds, Whole, Length
<1> QED
    BY <1>3, <1>4, <1>5 DEF Routing

\* A read starts where the last one ended.
LEMMA ReadRoutes ==
    ASSUME TypeOK, StageInv, Routing, ReadFifo, chunk' \in Chunk
    PROVE  Routing'
<1>1. /\ UNCHANGED <<sent, put, log, signals, rstatus>> /\ rpc = "read" /\ rpc' = "parse"
      /\ rstatus = "running"
      /\ chunk'.from = taken /\ taken' = taken + chunk'.len /\ reads' = Append(reads, chunk')
      /\ reads \in Seq(Chunk)
    BY DEF ReadFifo, TypeOK, ReaderTypes
<1>2. /\ Len(reads) \in Nat /\ DOMAIN reads = 1 .. Len(reads) /\ DOMAIN reads' = 1 .. Len(reads) + 1
      /\ Len(reads') = Len(reads) + 1
      /\ reads'[Len(reads) + 1] = chunk' /\ \A i \in DOMAIN reads : reads'[i] = reads[i]
    BY <1>1, Appended
<1>3. StreamInv'
    BY <1>1 DEF Routing, StreamInv, Length
<1>4. ReadsInv'
    <2>1. /\ InStreamOrder(reads)
          /\ \A i \in DOMAIN reads : reads[i].from + reads[i].len <= chunk'.from
        BY <1>1 DEF Routing, ReadsInv
    <2>2. InStreamOrder(reads') /\ \A i \in DOMAIN reads' : reads'[i].from + reads'[i].len <= taken'
        BY <1>1, <2>1, OrderAppended
    <2> QED
        BY <1>1, <1>2, <2>2 DEF ReadsInv, InStreamOrder
<1>5. FileOK(log)' /\ FileOK(signals)'
    BY <1>1 DEF Routing, FileOK, InStreamOrder, Parsed
<1>6. RoutedWhenAlone'
    <2> SUFFICES ASSUME NEW i \in DOMAIN reads', NEW n \in DOMAIN sent, Whole(reads'[i], sent[n]),
                        i # Len(reads')
                 PROVE  /\ Holds(log, reads'[i]) <=> sent[n].kind = "DATA"
                        /\ Holds(signals, reads'[i]) <=> sent[n].kind = "SIGN"
        BY <1>1 DEF Routing, RoutedWhenAlone, InStreamOrder, Holds, Whole, Length
    <2>1. i \in DOMAIN reads /\ reads'[i] = reads[i]
        BY <1>2
    <2> QED
        BY <1>1, <2>1 DEF Routing, RoutedWhenAlone
<1> QED
    BY <1>3, <1>4, <1>5, <1>6 DEF Routing

\* What check_and_write_msg does to one of the files.
LEMMA FileStep ==
    ASSUME TypeOK, Routing, rpc = "parse",
           NEW f \in Seq(Chunk), FileOK(f), NEW g, NEW b \in BOOLEAN,
           g = IF b THEN Append(f, chunk) ELSE f
    PROVE  /\ InStreamOrder(g) /\ \A i \in DOMAIN g : g[i].from + g[i].len <= taken
           /\ Holds(g, chunk) <=> b
           /\ \A c : c # chunk => (Holds(g, c) <=> Holds(f, c))
<1>1. chunk \in Chunk /\ chunk.from \in Nat /\ chunk.len \in Nat \ {0} /\ taken \in Nat
    BY Elements, Offsets
<1>2. chunk.from + chunk.len = taken
    BY DEF Routing, ReadsInv
<1>3. \A i \in DOMAIN f : /\ f[i].from \in Nat /\ f[i].len \in Nat
                          /\ f[i].from + f[i].len <= chunk.from /\ f[i] # chunk
    <2>1. \A i \in DOMAIN f : f[i].from \in Nat /\ f[i].len \in Nat
        BY Offsets
    <2>2. \A i \in DOMAIN f : f[i].from + f[i].len <= chunk.from
        BY DEF FileOK, Parsed
    <2> QED
        BY <1>1, <2>1, <2>2
<1>4. CASE ~b
    <2>1. g = f
        BY <1>4
    <2> QED
        BY <1>1, <1>2, <1>3, <1>4, <2>1 DEF FileOK, Holds
<1>5. CASE b
    <2>1. g = Append(f, chunk) /\ InStreamOrder(f)
        BY <1>5 DEF FileOK
    <2>2. InStreamOrder(g) /\ \A i \in DOMAIN g : g[i].from + g[i].len <= taken
        BY <1>1, <1>2, <1>3, <2>1, OrderAppended
    <2>3. /\ Len(f) \in Nat /\ DOMAIN f = 1 .. Len(f) /\ DOMAIN g = 1 .. Len(f) + 1
          /\ g[Len(f) + 1] = chunk /\ \A i \in DOMAIN f : g[i] = f[i]
        BY <1>1, <2>1, Appended
    <2> QED
        BY <1>5, <2>2, <2>3 DEF Holds
<1> QED
    BY <1>4, <1>5

\* check_and_write_msg routes the chunk by its header.
LEMMA ParseRoutes ==
    ASSUME TypeOK, StageInv, Routing, CheckAndWrite
    PROVE  Routing'
<1> DEFINE data == StartsWith(chunk, "DATA")
           sign == StartsWith(chunk, "SIGN")
<1>1. /\ UNCHANGED <<sent, put, taken, reads, rstatus>> /\ rpc = "parse" /\ rpc' = "read"
      /\ log' = IF data THEN Append(log, chunk) ELSE log
      /\ signals' = IF sign THEN Append(signals, chunk) ELSE signals
      /\ log \in Seq(Chunk) /\ signals \in Seq(Chunk)
    BY DEF CheckAndWrite, TypeOK, ReaderTypes
<1>2. data \in BOOLEAN /\ sign \in BOOLEAN
    BY DEF StartsWith
<1> HIDE DEF data, sign
<1>3. /\ InStreamOrder(log') /\ \A i \in DOMAIN log' : log'[i].from + log'[i].len <= taken
      /\ Holds(log', chunk) <=> data
      /\ \A c : c # chunk => (Holds(log', c) <=> Holds(log, c))
    BY <1>1, <1>2, FileStep DEF Routing
<1>4. /\ InStreamOrder(signals')
      /\ \A i \in DOMAIN signals' : signals'[i].from + signals'[i].len <= taken
      /\ Holds(signals', chunk) <=> sign
      /\ \A c : c # chunk => (Holds(signals', c) <=> Holds(signals, c))
    BY <1>1, <1>2, FileStep DEF Routing
<1>5. StreamInv' /\ ReadsInv'
    BY <1>1 DEF Routing, StreamInv, ReadsInv, InStreamOrder, Length
<1>6. FileOK(log)' /\ FileOK(signals)'
    BY <1>1, <1>3, <1>4 DEF FileOK, InStreamOrder, Parsed
<1>7. RoutedWhenAlone'
    <2> SUFFICES ASSUME NEW i \in DOMAIN reads, NEW n \in DOMAIN sent, Whole(reads[i], sent[n])
                 PROVE  /\ Holds(log', reads[i]) <=> sent[n].kind = "DATA"
                        /\ Holds(signals', reads[i]) <=> sent[n].kind = "SIGN"
        BY <1>1, <1>3, <1>4 DEF RoutedWhenAlone, InStreamOrder, Holds, Whole, Length
    <2>1. reads[Len(reads)] = chunk /\ Len(reads) \in Nat /\ DOMAIN reads = 1 .. Len(reads)
        BY <1>1 DEF Routing, ReadsInv, TypeOK, ReaderTypes
    <2>2. CASE i = Len(reads)
        <3>1. (data <=> sent[n].kind = "DATA") /\ (sign <=> sent[n].kind = "SIGN")
            BY <2>1, <2>2, Elements, WholeStarts DEF Routing, data, sign
        <3> QED
            BY <1>3, <1>4, <2>1, <2>2, <3>1
    <2>3. CASE i # Len(reads)
        <3>1. reads[i] # chunk
            <4>1. /\ reads[i].from \in Nat /\ reads[i].len \in Nat \ {0}
                  /\ reads[i].from + reads[i].len <= chunk.from
                BY <2>1, <2>3, Elements, Offsets DEF Routing, ReadsInv, InStreamOrder
            <4> QED
                BY <4>1
        <3>2. /\ Holds(log, reads[i]) <=> sent[n].kind = "DATA"
              /\ Holds(signals, reads[i]) <=> sent[n].kind = "SIGN"
            BY <2>3 DEF Routing, RoutedWhenAlone
        <3> QED
            BY <1>3, <1>4, <3>1, <3>2
    <2> QED
        BY <2>2, <2>3
<1> QED
    BY <1>5, <1>6, <1>7 DEF Routing

\* A step of the reader.
LEMMA ReaderRoutes ==
    ASSUME TypeOK, StageInv, Routing, TypeOK',
           \/ ReaderMain
           \/ rstatus = "running" /\ \E s \in {"failure", "INT"} : ReaderEnds(s)
    PROVE  Routing'
<1>1. CASE ReaderMknod \/ ReaderOpen \/ ReaderOpened \/ OpenFiles \/ ReaderSetup \/ FifoEof
    <2>1. /\ UNCHANGED <<sent, put, taken, log, signals, reads>>
          /\ rpc # "parse" /\ rpc' # "parse" /\ rstatus = "running"
        BY <1>1
        DEF ReaderMknod, ReaderOpen, ReaderOpened, OpenFiles, ReaderSetup, FifoEof, ReaderEnds
    <2> QED
        BY <2>1, KeepRoutes
<1>2. CASE ReadFifo
    BY <1>2, ReadRoutes DEF TypeOK, ReaderTypes
<1>3. CASE CheckAndWrite
    BY <1>3, ParseRoutes
<1>4. ASSUME NEW s \in {"failure", "INT"}, ReaderEnds(s), rstatus = "running"
      PROVE  Routing'
    <2>1. CASE rpc = "parse"
        BY <1>4, <2>1, EndRoutes
    <2>2. CASE rpc # "parse"
        BY <1>4, <2>2, KeepRoutes DEF ReaderEnds
    <2> QED
        BY <2>1, <2>2
<1> QED
    BY <1>1, <1>2, <1>3, <1>4 DEF ReaderMain

\* A step of the writer, the user or a killer.
LEMMA WriterRoutes ==
    ASSUME TypeOK, StageInv, Routing,
           \/ WriterMain
           \/ \E s \in Signals : Deliver(s) \/ Kill(s)
           \/ \E n \in LineLengths, nl \in BOOLEAN : TypeLine(n, nl)
           \/ TypeEof \/ WriterCallFails \/ UNCHANGED vars
    PROVE  Routing'
<1>1. CASE WriteData
    BY <1>1, WriteRoutes DEF WriteData, TypeOK, WriterTypes
<1>2. CASE HandlerWrite
    <2>1. SignMessage(frames[Len(frames)]) \in Message
        BY SizesAssumption DEF SignMessage, Message
    <2> QED
        BY <1>2, <2>1, WriteRoutes DEF HandlerWrite
<1>3. CASE ~(WriteData \/ HandlerWrite)
    <2>1. UNCHANGED <<sent, put, taken, log, signals, reads, rpc, rstatus, chunk>>
        BY <1>3
        DEF WriterMain, WriterMknod, WriterOpen, WriterOpened, SetupSignal, ReadLine, ReadEof,
            ExitSuccess, WriteBroken, Deliver, Kill, TypeLine, TypeEof, WriterCallFails, WriterEnds,
            vars
    <2> QED
        BY <2>1, KeepRoutes
<1> QED
    BY <1>1, <1>2, <1>3

\* The stream and the files keep their order for ever.
LEMMA RoutingAlways == Spec => []Routing
<1>1. ASSUME TypeOK, StageInv, Routing, [Next]_vars
      PROVE  Routing'
    <2>1. TypeOK'
        BY <1>1, TypeStep
    <2> QED
        BY <1>1, <2>1, ReaderRoutes, WriterRoutes
        DEF Next, Environment, ReaderCallFails, ReaderInterrupted
<1> QED
    BY <1>1, RoutingInit, TypeCorrect, StageAlways, PTL DEF Spec

\* A message that a read returns alone becomes a line of the file of its header and of no
\* other, and both files follow the stream, whatever the sizes and however the writer's
\* loop and its handlers interleave with the reader.
THEOREM AloneIsRouted == Spec => []RoutedWhenAlone
<1>1. Routing => RoutedWhenAlone
    BY DEF Routing
<1> QED
    BY <1>1, RoutingAlways, PTL

------------------------------------------------------------------------------
(* What both processes promise when they succeed *)

\* The reads leave no byte out.
ReadsCover ==
    \A b \in 0 .. taken - 1 :
        \E i \in DOMAIN reads : reads[i].from <= b /\ b < reads[i].from + reads[i].len

\* Only ReadFifo takes bytes, and it takes them up in a chunk of their own.
LEMMA CoverStep ==
    ASSUME TypeOK, ReadsCover, [Next]_vars
    PROVE  ReadsCover'
<1>1. CASE ReadFifo
    <2>1. /\ chunk'.from = taken /\ taken' = taken + chunk'.len
          /\ reads' = Append(reads, chunk') /\ reads \in Seq(Chunk)
          /\ taken \in Nat
        BY <1>1 DEF ReadFifo, TypeOK, ReaderTypes
    <2>2. chunk'.len \in Nat
        BY <1>1, SizesAssumption
        DEF ReadFifo, TypeOK, ReaderTypes, StreamTypes, InFlight, ReadMax
    <2>3. /\ DOMAIN reads' = 1 .. Len(reads) + 1 /\ DOMAIN reads = 1 .. Len(reads)
          /\ Len(reads) \in Nat /\ reads'[Len(reads) + 1] = chunk'
          /\ \A i \in 1 .. Len(reads) : reads'[i] = reads[i]
        BY <2>1
    <2> SUFFICES ASSUME NEW b \in 0 .. taken' - 1
                 PROVE  \E i \in DOMAIN reads' :
                            reads'[i].from <= b /\ b < reads'[i].from + reads'[i].len
        BY DEF ReadsCover
    <2>4. CASE b < taken
        <3>1. PICK i \in DOMAIN reads : reads[i].from <= b /\ b < reads[i].from + reads[i].len
            BY <2>1, <2>2, <2>4 DEF ReadsCover
        <3> QED
            BY <2>3, <3>1
    <2>5. CASE ~(b < taken)
        BY <2>1, <2>2, <2>3, <2>5
    <2> QED
        BY <2>4, <2>5
<1>2. CASE ~ReadFifo
    <2>1. UNCHANGED <<taken, reads>>
        BY <1>2
        DEF Next, WriterMain, WriterMknod, WriterOpen, WriterOpened, SetupSignal, ReadLine,
            ReadEof, ExitSuccess, WriteData, HandlerWrite, WriteBroken, Deliver, Environment,
            TypeLine, TypeEof, Kill, WriterCallFails, ReaderCallFails, ReaderInterrupted,
            WriterEnds, ReaderMain, ReaderMknod, ReaderOpen, ReaderOpened, OpenFiles,
            ReaderSetup, FifoEof, CheckAndWrite, ReaderEnds, vars
    <2> QED
        BY <2>1 DEF ReadsCover
<1> QED
    BY <1>1, <1>2

\* When both processes end with success, every line typed and every signal handled has come
\* to the reader in full, whatever the sizes, the order in which they end and the joints of
\* the messages in the reads.
THEOREM InputIsDelivered == Spec => []DeliveredWhenBothSucceed
<1>1. Init => ReadsCover
    BY DEF Init, ReadsCover
<1>2. Spec => []ReadsCover
    BY <1>1, CoverStep, TypeCorrect, PTL DEF Spec
<1>3. ASSUME TypeOK, ReadsCover, Routing, DrainedAtSuccess, SuccessMeansAllSent
      PROVE  DeliveredWhenBothSucceed
    <2> SUFFICES ASSUME wstatus = "success", rstatus = "success"
                 PROVE  /\ Cardinality({n \in SentKind("SIGN") : WhollyRead(sent[n])}) = handled
                        /\ \A l \in DOMAIN lines : \A i \in 1 .. lines[l] :
                              \E n \in DOMAIN sent :
                                  Carries(sent[n], l, i) /\ WhollyRead(sent[n])
        BY DEF DeliveredWhenBothSucceed
    <2>1. ASSUME NEW n \in DOMAIN sent
          PROVE  WhollyRead(sent[n])
        <3>1. /\ sent[n].at \in Nat /\ Length(sent[n]) \in Nat
              /\ sent[n].at + Length(sent[n]) <= put /\ put \in Nat /\ taken = put
            BY <1>3, Elements, Offsets DEF Routing, StreamInv, DrainedAtSuccess
        <3> QED
            BY <1>3, <3>1 DEF WhollyRead, ReadsCover
    <2>2. {n \in SentKind("SIGN") : WhollyRead(sent[n])} = SentKind("SIGN")
        BY <2>1 DEF SentKind
    <2> QED
        BY <1>3, <2>1, <2>2 DEF SuccessMeansAllSent
<1> QED
    BY <1>2, <1>3, TypeCorrect, RoutingAlways, ReaderDrains, SuccessIsComplete, PTL

==============================================================================
