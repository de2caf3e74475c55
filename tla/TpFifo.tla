------------------------------- MODULE TpFifo --------------------------------
(***************************************************************************)
(* The course project: TP_Corregido/writer.c and reader.c, two processes   *)
(* and a named FIFO.  The writer sends each line typed on its terminal as  *)
(* "DATA: <text>" and, from a signal handler, each SIGUSR1 or SIGUSR2 as   *)
(* "SIGN: 1" or "SIGN: 2".  The reader takes up to ReadMax bytes at a time *)
(* and writes what follows the header in log.txt or in signals.txt.        *)
(*                                                                         *)
(* The FIFO is a stream of bytes, known by the messages written (each with *)
(* the stream offset it starts at) and the number of bytes taken: what a   *)
(* read returns is an interval of offsets.  The text typed is known by its *)
(* length, and a character of it by how many are left of its line; a line  *)
(* whose text itself looks like a header is left out.                      *)
(*                                                                         *)
(* FIFO writes are shorter than PIPE_BUF, hence atomic.  The handlers use  *)
(* SA_RESTART, so no call returns EINTR.  Every other failure of a call is *)
(* an alternative of the process that makes it.                            *)
(***************************************************************************)
EXTENDS Integers, Sequences, FiniteSets

CONSTANTS
    HeaderLen,      \* strlen("DATA: ") = strlen("SIGN: ") = 6
    DataMax,        \* FIFO_MSG_SIZE - 1 of writer.c: characters of one read of stdin
    SendSize,       \* FIFO_MSG_TO_SEND_SIZE of both programs: size of a message buffer
    FifoCapacity,   \* bytes the kernel holds in the FIFO
    LineLengths,    \* bound: lengths of the lines the user types
    MaxLines,       \* bound: lines the user types
    MaxSignals      \* bound: signals sent to the writer

ASSUME SizesAssumption ==
    /\ HeaderLen \in Nat \ {0} /\ DataMax \in Nat \ {0}
    /\ SendSize = HeaderLen + DataMax + 1
    /\ FifoCapacity \in Nat /\ FifoCapacity >= SendSize
    /\ LineLengths \subseteq Nat /\ MaxLines \in Nat /\ MaxSignals \in Nat

ReadMax == SendSize - 1

UserSignals == {"USR1", "USR2"}
Signals == UserSignals \cup {"INT"}

\* The order of the setup_signal calls of the writer.
SetupOrder == <<"USR1", "USR2", "INT", "PIPE">>

\* What a message is (its text has len characters, the last one a newline if nl), and
\* which part of which line it was made from: what was left of line number "of" before and
\* after the read.
Message == [kind : {"DATA", "SIGN"}, at : Nat, len : 0 .. DataMax, nl : BOOLEAN,
            of : Nat, left : Nat, rest : Nat]
Chunk == [from : Nat, len : 1 .. ReadMax]
NoMessage ==
    [kind |-> "DATA", at |-> 0, len |-> 0, nl |-> FALSE, of |-> 0, left |-> 0, rest |-> 0]
NoChunk == [from |-> 0, len |-> 1]

VARIABLES
    wpc, wstatus,       \* the writer's main loop; its exit status or killing signal
    installed,          \* how many of SetupOrder have their handler
    frames,             \* the SIGUSR handlers running, the innermost last
    pending,            \* signals sent to the writer and not delivered
    outMsg,             \* the text in aux, ready to be written
    line,               \* what is left to read of the line typed
    eof,                \* the user typed Ctrl-D on an empty line
    rpc, rstatus,       \* the reader
    chunk,              \* the bytes in the reader's msg
    wopen, ropen,       \* each process's end of the FIFO
    sent,               \* messages written to the FIFO, oldest first
    put, taken,         \* bytes written to and read from the FIFO
    log, signals,       \* lines of log.txt and signals.txt, as the chunks they hold
    reads,              \* history: every chunk read
    handled,            \* history: signals that reached sigusr_handler
    lines,              \* history: characters of each line typed
    kills               \* bound: signals sent

writerOwn == <<wpc, wstatus, installed, frames, outMsg, line, handled>>
writerVars == <<writerOwn, wopen>>
inputVars == <<eof, lines>>
signalVars == <<pending, kills>>
readerOwn == <<rpc, rstatus, chunk, taken, log, signals, reads>>
readerVars == <<readerOwn, ropen>>
streamVars == <<sent, put>>
vars == <<writerVars, inputVars, signalVars, readerVars, streamVars>>

NoLine == [left |-> 0, nl |-> FALSE]

Init ==
    /\ wpc = "mknod" /\ wstatus = "running" /\ installed = 0
    /\ frames = <<>> /\ pending = {} /\ outMsg = NoMessage
    /\ line = NoLine /\ eof = FALSE
    /\ rpc = "mknod" /\ rstatus = "running" /\ chunk = NoChunk
    /\ wopen = "no" /\ ropen = "no"
    /\ sent = <<>> /\ put = 0 /\ taken = 0
    /\ log = <<>> /\ signals = <<>>
    /\ reads = <<>> /\ handled = 0 /\ lines = <<>> /\ kills = 0

------------------------------------------------------------------------------
(* The FIFO (kernel) *)

\* An end counts from the start of its open(), blocked or not, to its close.
Present(end) == end \in {"waiting", "released", "open"}

\* What open() makes of the caller's end and of the other end: the second to come
\* never blocks and lets the first one go.
Joined(other) == IF Present(other) THEN "open" ELSE "waiting"
LetGo(other) == IF other = "waiting" THEN "released" ELSE other

Length(m) == HeaderLen + m.len
InFlight == put - taken

------------------------------------------------------------------------------
(* writer.c *)

\* The process ends and the kernel closes its end of the FIFO.
WriterEnds(status) ==
    /\ wstatus' = status
    /\ wpc' = "end"
    /\ wopen' = "closed"
    /\ frames' = <<>> /\ pending' = {} /\ outMsg' = NoMessage /\ line' = NoLine
    /\ UNCHANGED <<installed, handled, inputVars, kills, readerVars, streamVars>>

\* main runs: no handler is on the stack.
MainAt(at) == wstatus = "running" /\ frames = <<>> /\ wpc = at

\* main goes on, and what is the user's, the signals' or the reader's own stays.
MainGoto(from, to) ==
    /\ MainAt(from)
    /\ wpc' = to
    /\ UNCHANGED <<wstatus, frames, handled, inputVars, signalVars, readerOwn>>

WriterMknod ==
    /\ MainGoto("mknod", "open")
    /\ UNCHANGED <<installed, outMsg, line, wopen, ropen, streamVars>>

WriterOpen ==
    /\ MainGoto("open", IF Joined(ropen) = "open" THEN "setup" ELSE "opening")
    /\ wopen' = Joined(ropen)
    /\ ropen' = LetGo(ropen)
    /\ UNCHANGED <<installed, outMsg, line, streamVars>>

WriterOpened ==
    /\ MainGoto("opening", "setup")
    /\ wopen = "released"
    /\ wopen' = "open"
    /\ UNCHANGED <<installed, outMsg, line, ropen, streamVars>>

\* setup_signal for the next signal of SetupOrder
SetupSignal ==
    /\ MainGoto("setup", IF installed + 1 = Len(SetupOrder) THEN "read" ELSE "setup")
    /\ installed' = installed + 1
    /\ UNCHANGED <<outMsg, line, wopen, ropen, streamVars>>

\* Fault: the read fills the byte kept for the terminator.
TakenWhole(n) == IF n < DataMax + 1 THEN n ELSE DataMax + 1

\* The characters of one read(STDIN_FILENO) on a terminal line with n left.
Taken(n) == IF n < DataMax THEN n ELSE DataMax

\* msg[ret] = '\0' after the ret-- of a read shorter than the buffer
Kept(k) == IF k < DataMax THEN k - 1 ELSE k

\* read(STDIN_FILENO), the newline's removal, and strcat of header and text in aux
ReadLine ==
    /\ MainGoto("read", "write")
    /\ line.left > 0
    /\ LET k == Taken(line.left)
           n == Kept(k)
       IN  /\ outMsg' = [kind |-> "DATA", at |-> 0, len |-> n,
                         nl |-> line.nl /\ k = line.left /\ n = k,
                         of |-> Len(lines), left |-> line.left, rest |-> line.left - k]
           /\ line' = [line EXCEPT !.left = @ - k]
    /\ UNCHANGED <<installed, wopen, ropen, streamVars>>

\* read returned 0: close(fifo_fd), and exit(EXIT_SUCCESS) follows
ReadEof ==
    /\ MainGoto("read", "closed")
    /\ line.left = 0 /\ eof
    /\ wopen' = "closed"
    /\ UNCHANGED <<installed, outMsg, line, ropen, streamVars>>

ExitSuccess == MainAt("closed") /\ WriterEnds("success")

\* write(fifo_fd, m): atomic, waits for room while there is a reader.
WriteFifo(m) ==
    /\ wopen = "open" /\ Present(ropen)
    /\ InFlight + Length(m) <= FifoCapacity
    /\ sent' = Append(sent, [m EXCEPT !.at = put])
    /\ put' = put + Length(m)

WriteData ==
    /\ MainGoto("write", "read")
    /\ WriteFifo(outMsg)
    /\ outMsg' = NoMessage
    /\ UNCHANGED <<installed, line, wopen, ropen>>

SignMessage(s) ==
    [kind |-> "SIGN", at |-> 0, len |-> 1, nl |-> FALSE, of |-> 0, left |-> 0, rest |-> 0]

\* Fault: a full FIFO loses the message (a write that does not block).
HandlerWriteLossy ==
    /\ wstatus = "running" /\ frames # <<>>
    /\ WriteFifo(SignMessage(frames[Len(frames)])) \/ UNCHANGED streamVars
    /\ frames' = SubSeq(frames, 1, Len(frames) - 1)
    /\ UNCHANGED <<wpc, wstatus, installed, outMsg, line, handled, wopen, inputVars,
                   signalVars, readerVars>>

\* sigusr_handler: one write, and the handler returns.
HandlerWrite ==
    /\ wstatus = "running" /\ frames # <<>>
    /\ WriteFifo(SignMessage(frames[Len(frames)]))
    /\ frames' = SubSeq(frames, 1, Len(frames) - 1)
    /\ UNCHANGED <<wpc, wstatus, installed, outMsg, line, handled, wopen, inputVars,
                   signalVars, readerVars>>

HasHandler(s) == \E i \in 1 .. installed : SetupOrder[i] = s

\* Fault: a failed write ends the writer with EXIT_SUCCESS.
WriteBrokenSuccess ==
    /\ wstatus = "running"
    /\ frames # <<>> \/ wpc = "write"
    /\ \/ wopen = "open" /\ ~Present(ropen)
       \/ wopen = "closed"
    /\ WriterEnds("success")

\* write with no reader raises SIGPIPE: its handler exits with a failure; before
\* that handler is there, SIGPIPE kills.  On the closed descriptor (a handler that
\* runs after the close) write fails and the handler exits with a failure.
WriteBroken ==
    /\ wstatus = "running"
    /\ frames # <<>> \/ wpc = "write"
    /\ \/ wopen = "open" /\ ~Present(ropen)
       \/ wopen = "closed"
    /\ WriterEnds(IF wopen = "open" /\ ~HasHandler("PIPE") THEN "PIPE" ELSE "failure")

\* A pending signal is delivered: to its handler, unless that very handler is
\* already running, or to the default action, which kills.
Deliver(s) ==
    /\ wstatus = "running" /\ s \in pending
    /\ ~ \E i \in DOMAIN frames : frames[i] = s
    /\ \/ /\ HasHandler(s) /\ s \in UserSignals
          /\ pending' = pending \ {s}
          /\ frames' = Append(frames, s)
          /\ handled' = handled + 1
          /\ UNCHANGED <<wpc, wstatus, installed, outMsg, line, wopen, inputVars, kills,
                         readerVars, streamVars>>
       \/ HasHandler(s) /\ s = "INT" /\ WriterEnds("failure")
       \/ ~HasHandler(s) /\ WriterEnds(s)

\* A call of the writer, in main or in a handler, returns -1.
WriterCallFails ==
    /\ wstatus = "running"
    /\ WriterEnds("failure")

WriterMain ==
    \/ WriterMknod \/ WriterOpen \/ WriterOpened \/ SetupSignal \/ ReadLine
    \/ ReadEof \/ ExitSuccess \/ WriteData \/ HandlerWrite \/ WriteBroken

------------------------------------------------------------------------------
(* reader.c *)

ReaderEnds(status) ==
    /\ rstatus' = status
    /\ rpc' = "end"
    /\ ropen' = "closed"
    /\ chunk' = NoChunk
    /\ UNCHANGED <<taken, log, signals, reads, writerVars, inputVars, signalVars, streamVars>>

ReaderAt(at) == rstatus = "running" /\ rpc = at

\* The reader goes on, and what is the writer's own stays.
ReaderGoto(from, to) ==
    /\ ReaderAt(from)
    /\ rpc' = to
    /\ UNCHANGED <<rstatus, writerOwn, inputVars, signalVars, streamVars>>

ReaderMknod ==
    /\ ReaderGoto("mknod", "open")
    /\ UNCHANGED <<chunk, taken, log, signals, reads, ropen, wopen>>

ReaderOpen ==
    /\ ReaderGoto("open", IF Joined(wopen) = "open" THEN "files" ELSE "opening")
    /\ ropen' = Joined(wopen)
    /\ wopen' = LetGo(wopen)
    /\ UNCHANGED <<chunk, taken, log, signals, reads>>

ReaderOpened ==
    /\ ReaderGoto("opening", "files")
    /\ ropen = "released"
    /\ ropen' = "open"
    /\ UNCHANGED <<chunk, taken, log, signals, reads, wopen>>

\* mknod and open of log.txt and of signals.txt
OpenFiles ==
    /\ ReaderGoto("files", "sigint")
    /\ UNCHANGED <<chunk, taken, log, signals, reads, ropen, wopen>>

ReaderSetup ==
    /\ ReaderGoto("sigint", "read")
    /\ UNCHANGED <<chunk, taken, log, signals, reads, ropen, wopen>>

\* Fault: the reader waits for a full buffer.
ReadFifoFull ==
    /\ ReaderGoto("read", "parse")
    /\ InFlight >= ReadMax
    /\ chunk' = [from |-> taken, len |-> ReadMax]
    /\ taken' = taken + ReadMax
    /\ reads' = Append(reads, chunk')
    /\ UNCHANGED <<log, signals, ropen, wopen>>

\* read(fifo_fd, msg, ReadMax): all there is, up to ReadMax, with no regard for where
\* messages begin or end
ReadFifo ==
    /\ ReaderGoto("read", "parse")
    /\ InFlight > 0
    /\ chunk' = [from |-> taken, len |-> IF InFlight < ReadMax THEN InFlight ELSE ReadMax]
    /\ taken' = taken + chunk'.len
    /\ reads' = Append(reads, chunk')
    /\ UNCHANGED <<log, signals, ropen, wopen>>

\* Fault: a writer that hung up is taken for the end, with bytes left in the FIFO.
FifoEofHangup ==
    /\ ReaderAt("read")
    /\ ~Present(wopen)
    /\ ReaderEnds("success")

\* Fault: the reader loops on the end of file.
FifoEofIgnored ==
    /\ ReaderAt("read")
    /\ InFlight = 0 /\ ~Present(wopen)
    /\ UNCHANGED vars

\* read returned 0: empty and no writer; close and exit(EXIT_SUCCESS)
FifoEof ==
    /\ ReaderAt("read")
    /\ InFlight = 0 /\ ~Present(wopen)
    /\ ReaderEnds("success")

\* strncmp(msg, header): the chunk begins with the whole header of a message.
StartsWith(c, kind) ==
    /\ c.len >= HeaderLen
    /\ \E n \in DOMAIN sent : sent[n].at = c.from /\ sent[n].kind = kind

\* Fault: a signal is written in both files.
CheckAndWriteBoth ==
    /\ ReaderGoto("parse", "read")
    /\ log' = IF StartsWith(chunk, "DATA") \/ StartsWith(chunk, "SIGN")
              THEN Append(log, chunk) ELSE log
    /\ signals' = IF StartsWith(chunk, "SIGN") THEN Append(signals, chunk) ELSE signals
    /\ chunk' = NoChunk
    /\ UNCHANGED <<taken, reads, ropen, wopen>>

\* check_and_write_msg: the rest of the chunk is a line of the file of its header; a
\* chunk with no header in front is dropped
CheckAndWrite ==
    /\ ReaderGoto("parse", "read")
    /\ log' = IF StartsWith(chunk, "DATA") THEN Append(log, chunk) ELSE log
    /\ signals' = IF StartsWith(chunk, "SIGN") THEN Append(signals, chunk) ELSE signals
    /\ chunk' = NoChunk
    /\ UNCHANGED <<taken, reads, ropen, wopen>>

\* A call of the reader returns -1.
ReaderCallFails ==
    /\ rstatus = "running"
    /\ ReaderEnds("failure")

\* SIGINT: the handler exits with a failure, the default action kills.
ReaderInterrupted ==
    /\ rstatus = "running"
    /\ ReaderEnds(IF rpc \in {"read", "parse"} THEN "failure" ELSE "INT")

ReaderMain ==
    \/ ReaderMknod \/ ReaderOpen \/ ReaderOpened \/ OpenFiles \/ ReaderSetup
    \/ ReadFifo \/ FifoEof \/ CheckAndWrite

------------------------------------------------------------------------------
(* The user and the other processes *)

\* ENTER ends a line; Ctrl-D hands over an unfinished one.  What is typed ahead
\* changes nothing, so typing waits for the writer to read.
TypeLine(n, nl) ==
    /\ MainAt("read") /\ line.left = 0 /\ ~eof
    /\ Len(lines) < MaxLines
    /\ nl \/ n > 0
    /\ line' = [left |-> IF nl THEN n + 1 ELSE n, nl |-> nl]
    /\ lines' = Append(lines, line'.left)
    /\ UNCHANGED <<wpc, wstatus, installed, frames, outMsg, handled, wopen, eof, signalVars,
                   readerVars, streamVars>>

\* Ctrl-D on an empty line
TypeEof ==
    /\ MainAt("read") /\ line.left = 0 /\ ~eof
    /\ eof' = TRUE
    /\ UNCHANGED <<lines, writerVars, signalVars, readerVars, streamVars>>

\* kill(writer, s); a signal already pending is not queued twice
Kill(s) ==
    /\ wstatus = "running" /\ kills < MaxSignals
    /\ kills' = kills + 1
    /\ pending' = pending \cup {s}
    /\ UNCHANGED <<writerVars, inputVars, readerVars, streamVars>>

Environment ==
    \/ \E n \in LineLengths, nl \in BOOLEAN : TypeLine(n, nl)
    \/ TypeEof
    \/ \E s \in Signals : Kill(s)
    \/ WriterCallFails \/ ReaderCallFails \/ ReaderInterrupted

Next ==
    \/ WriterMain
    \/ \E s \in Signals : Deliver(s)
    \/ ReaderMain
    \/ Environment

\* The kernel runs both processes and delivers signals; nobody owes them input.
Fairness ==
    /\ WF_vars(WriterMain)
    /\ \A s \in Signals : WF_vars(Deliver(s))
    /\ WF_vars(ReaderMain)

Spec == Init /\ [][Next]_vars
FairSpec == Spec /\ Fairness

------------------------------------------------------------------------------
(* Properties *)

End == {"no", "waiting", "released", "open", "closed"}

WriterTypes ==
    /\ wpc \in {"mknod", "open", "opening", "setup", "read", "write", "closed", "end"}
    /\ wstatus \in {"running", "success", "failure", "PIPE"} \cup Signals
    /\ installed \in 0 .. Len(SetupOrder)
    /\ frames \in Seq(UserSignals)
    /\ outMsg \in Message
    /\ line \in [left : Nat, nl : BOOLEAN]
    /\ handled \in Nat
    /\ wopen \in End

InputTypes ==
    /\ pending \subseteq Signals
    /\ eof \in BOOLEAN
    /\ lines \in Seq(Nat) /\ kills \in Nat

ReaderTypes ==
    /\ rpc \in {"mknod", "open", "opening", "files", "sigint", "read", "parse", "end"}
    /\ rstatus \in {"running", "success", "failure", "INT"}
    /\ chunk \in Chunk
    /\ taken \in Nat
    /\ log \in Seq(Chunk) /\ signals \in Seq(Chunk) /\ reads \in Seq(Chunk)
    /\ ropen \in End

StreamTypes == sent \in Seq(Message) /\ put \in Nat

\* Every variable keeps its type; a message never outgrows its buffer.
TypeOK == WriterTypes /\ InputTypes /\ ReaderTypes /\ StreamTypes

\* The messages of one kind written so far.
SentKind(kind) == {n \in DOMAIN sent : sent[n].kind = kind}

\* The chunk is exactly message m, no byte more or less.
Whole(c, m) == c.from = m.at /\ c.len = Length(m)

Holds(file, c) == \E i \in DOMAIN file : file[i] = c

\* Chunks of a file are in stream order, without overlap.
InStreamOrder(file) ==
    \A i, k \in DOMAIN file : i < k => file[i].from + file[i].len <= file[k].from

\* A message the reader gets in a read of its own ends up as a line of the file of
\* its header and of no other, and both files are in the order of the stream.
RoutedWhenAlone ==
    /\ InStreamOrder(log) /\ InStreamOrder(signals)
    /\ \A i \in DOMAIN reads, n \in DOMAIN sent :
          Whole(reads[i], sent[n]) =>
              \/ i = Len(reads) /\ rstatus = "running" /\ rpc = "parse"
              \/ i = Len(reads) /\ rstatus \notin {"running", "success"}
              \/ /\ Holds(log, reads[i]) <=> sent[n].kind = "DATA"
                 /\ Holds(signals, reads[i]) <=> sent[n].kind = "SIGN"

\* Every signal that reached sigusr_handler has its message in the FIFO, or its
\* handler is still on the stack (or the writer died of something else); the two
\* handlers nest at most once each.  SIGUSR1 and SIGUSR2 can only kill a writer that has
\* not sent a line yet.
HandlersWrite ==
    /\ wstatus = "running" =>
          Cardinality(SentKind("SIGN")) + Len(frames) = handled
    /\ \A i, k \in DOMAIN frames : frames[i] = frames[k] => i = k
    /\ wstatus \in UserSignals => SentKind("DATA") = {}

\* Message m was made from the read of the character of line l that has i left, itself and
\* those after it; and has it in its text, unless it is the last of its line (the newline,
\* or what the writer drops in its place when Ctrl-D ends the line).
Carries(m, l, i) ==
    /\ m.of = l /\ m.rest < i /\ i <= m.left
    /\ i > 1 => m.left - m.len < i

\* The writer succeeds only after an end of file, with every line typed (see Carries) and
\* every signal handled written to the FIFO: a dead reader, a failed write or a handler cut
\* short makes it fail.
SuccessMeansAllSent ==
    wstatus = "success" =>
        /\ eof
        /\ Cardinality(SentKind("SIGN")) = handled
        /\ \A l \in DOMAIN lines : \A i \in 1 .. lines[l] :
              \E n \in DOMAIN sent : Carries(sent[n], l, i)

\* Every byte of the message is in a chunk read.
WhollyRead(m) ==
    \A b \in m.at .. m.at + Length(m) - 1 :
        \E i \in DOMAIN reads : reads[i].from <= b /\ b < reads[i].from + reads[i].len

\* When both processes end with success, whatever the order in which they end, every line
\* typed (see Carries) and every signal handled has come to the reader, in full.
DeliveredWhenBothSucceed ==
    wstatus = "success" /\ rstatus = "success" =>
        /\ Cardinality({n \in SentKind("SIGN") : WhollyRead(sent[n])}) = handled
        /\ \A l \in DOMAIN lines : \A i \in 1 .. lines[l] :
              \E n \in DOMAIN sent : Carries(sent[n], l, i) /\ WhollyRead(sent[n])

\* What is written to the FIFO does not stay there, unless the reader is stopped.
SentIsRead == (InFlight > 0) ~> (InFlight = 0 \/ rstatus # "running")

\* Once both have met in the FIFO, the reader ends after the writer does.
ReaderFollowsWriter ==
    (wstatus # "running" /\ ropen \in {"released", "open"}) ~> (rstatus # "running")

\* tp.md: the reader "segun el encabezado DATA o SIGN los escribira en el archivo
\* log.txt o signals.txt": when both end with success, every message is a line of
\* its own in the file of its header.
RoutedByHeader ==
    rstatus = "success" /\ wstatus = "success" =>
        \A n \in DOMAIN sent :
            \E c \in {reads[i] : i \in DOMAIN reads} :
                /\ Whole(c, sent[n])
                /\ Holds(IF sent[n].kind = "DATA" THEN log ELSE signals, c)

==============================================================================
