# Verification of the course programs of cese-sopg

The repository is the site of the course *Sistemas Operativos de Propósito General*
(CESE, FIUBA) with the C programs of its classes under `src/material-clases`: small
multi-process and multi-thread programs over POSIX signals, FIFOs, sockets, threads,
semaphores and message queues, and the course project in two deliveries. Nothing links
them together: every program is a system of its own, a few processes or threads and the
kernel object they share. There are no tests. What each program is meant to do is said in
its comments, in `src/tp.md`, in `src/material-clases/TP_Corregido/README.md` and in
`src/clases/*.md`.

## Inventory

Programs with logic of their own, the most demanding first.

| Program | Actors | State they share | Hard part | What makes it correct |
|---|---|---|---|---|
| `clase7/ejemplo-sem2/unnamed.c` | main, 10 producers, 1 spooler (threads) | ring `buf[10]`, two indexes, three semaphores | all interleavings; the shutdown by polling and cancel | slots claimed once, buffers neither lost nor overrun, finished strings printed once and in order, the program ends |
| `TP_Corregido/writer.c`, `reader.c` | two processes, signal handlers, the user | a named FIFO, `log.txt`, `signals.txt` | handlers at any point, blocking `open`, reads with no message boundary, the death of a peer | each message goes to its file, success means all was sent and read, each process notices the end of the other |
| `clase6/practica_resolviendo` | main, one detached thread per client, client processes | `pool[100]`, descriptors | the pool has no lock; failed calls | an entry and a descriptor have one user, none is lost, every client is answered or hung up on |
| `clase7/ejemplo-msq` | one server, any number of clients | one queue per process, named by pid | queues outlive processes, restarts, full queues | every request gets one token, who takes another's was left it by a dead process, tokens are not repeated |
| `clase7/ejemplo-sem2/named.c` | as unnamed.c | the same ring; semaphores that outlive the process | a run that dies leaves its counts to the next | as unnamed.c, in every run |
| `clase5/unix` | servers, clients | a socket file; one connection at a time each | partial reads, peers that die, a second server that takes the name | what is echoed is what was sent, and who waits is served when the others leave |
| `clase5/tcp`, `clase5/getaddr` | one server, clients | one connection at a time | peers that die or close with bytes unread, buffers that were not written | a client that can be answered is, and only a failure ends the server |
| `clase3/practica2.c` and the other pipes | a parent and its children | pipes, SIGCHLD | handler against main, ends of the pipe left open | the end of every child is noticed |
| `clase6/ejemplo-mutex`, `ejemplo_en_clase` | two threads and main | two counters | lost updates, a torn copy | with the mutex the pair changes and is copied as one; without it no more is lost than what is under way |
| `clase7/ejemplo-sem` | main, the handler of SIGALRM, the clock | a semaphore | the alarm against the deadline, EINTR | it succeeds only if the alarm came, gives up only after the deadline, and ends |

`PROJECT.json` lists every program as a component, those left aside too: see
[Not modelled](#not-modelled).

## Modules

| Module | What it is |
|---|---|
| `Spooler` | `unnamed.c`, one action per call or statement that another thread can see |
| `BoundedFifo` | what a bounded buffer promises: the abstract specification |
| `SpoolerFifo` | the mapping of the ring of `Spooler` to `BoundedFifo` for one producer |
| `TpFifo` | `writer.c`, `reader.c`, the FIFO, the signals and the user |
| `ClientPool` | `server_tcp.c`, `clientdata.c` and `cliente_tcp.c` |
| `NamedSpooler` | `named.c`: `Spooler` with semaphores that outlive the process |
| `TokenQueue` | `server.c` and `client.c` of the message queues |
| `EchoServer` | `server.c` and `client.c` of the UNIX socket, several servers |
| `TcpServer` | `server_tcp.c` and `cliente_tcp.c` of `clase5/tcp` and of `clase5/getaddr` |
| `SharedCounter` | `main_ok.c`, `main_incorrecto.c` and `Concurrencia.c`: the two counters |
| `AtomicPair` | what the counters promise, with the mutex and without: the abstract specification |
| `SemTimeout` | `sem.c`: a wait with a deadline, and an alarm |
| `TimedWait` | what a wait with a deadline promises: the abstract specification |
| `SpoolerProofs` | theorems about `Spooler`, `SpoolerFifo` and `NamedSpooler`, and the facts about `%` they need |
| `TpFifoProofs`, `ClientPoolProofs`, `TokenQueueProofs`, `SharedCounterProofs`, `SemTimeoutProofs`, `EchoServerProofs`, `TcpServerProofs` | theorems about the system each is named after |
| `MC*` | instances for TLC |

Definitions keep the names of the source where TLA+ allows. An operator whose comment
begins with "Fault:" is not part of a specification: it is the operator that follows it
with a mistake put in, kept to show that the properties notice the mistake.

### Spooler

Each thread has a program counter (`pc[p]`, `spoolerPc`, `mainPc`) and a step per call:
`WaitBuffer`, `LockIndex`, `ReadIndex`, `AdvanceIndex`, `UnlockIndex`, `BeginSprintf`,
`EndSprintf`, `PostSignal` for a producer; `WaitSignal`, `PrintString`, `Pause`,
`ReleaseBuffer` for the spooler; creation, joins, poll, cancel, destroy and exit for
main. `sprintf` has a beginning and an end because it runs outside the mutex: two that
overlap on one slot are a data race, whose outcome is either string or `Torn`. The
content of a slot is a pair (producer, count), or `Empty`, `Partial`, `Torn`. The
cancellation of the spooler is deferred to `sem_wait`, `printf` or `usleep`, as POSIX
has it. `claimed`, `ticket`, `printed` and `lastPrinted` are history. The error branches of
`sem_*` are left out (private semaphores, no signal handler); that of `pthread_create` is
kept (`CreateFails`).

### TpFifo

The FIFO is a stream of bytes, known by the messages written (`sent`, with the offset of
each) and two counters `put` and `taken`, so that a read returns an interval that need not
respect messages. Lines are known by their length, and a character of a line by how many are
left of it; a message says, as history, which characters of which line (`lines`) it was made
from. `open` blocks until the other end comes
(`"waiting"`, `"released"`, `"open"`). Signals are pending as a set, handlers nest on
`frames` and interrupt main between any two steps; `WriterCallFails`, `ReaderCallFails`
and `ReaderInterrupted` end a process at any point. The copy of a chunk to the reader's
`aux` is left out, and so are lines whose text looks like a header.

### ClientPool

`main` accepts, looks at one entry per step (`Scan`), claims, creates the thread. A thread
reads `fd` from its entry in each call, as the code does through `data->fd`, so an entry
reused too early would make it use the connection of somebody else; a closed descriptor
number is given again to the next connection. `CreateFails` is the `pthread_create` whose
result is not looked at; the `pthread_detach` that follows has undefined behaviour and
either does nothing or ends the server. Every checked call may fail, which ends the server
as in the code. The bytes exchanged and the limit of the listen backlog are left out.

### NamedSpooler

It extends `Spooler` and takes its threads as they are (`Threads(A)`): `named.c` differs in
`main`, which opens three named semaphores (`OpenSemaphore`, one per step) and unlinks them
(`Unlink`). `named` is the set of names that exist. `Kill` ends the process at any step and
`Restart` begins a new one: the ring, the indexes and the threads start again, the
semaphores stay. `sem_open` gives the initial value only to a name that is not there
(`ValueOf`), so the comments of `named.c` on initial values (lines 43, 50 and 58) hold
in a first run only. Runs follow one another; two at once are not modelled.

### TokenQueue

`srv` and `client[c]` are where the server and the process of pid `c` are; a step is a
`mq_*` call. `server_queue` holds names of clients, `answers[c]` the tokens in the queue of
`c`, and `queues` the pids whose queue exists. `ServerDies` and `ClientDies` end a
process anywhere and leave its queue; only `Leave` (end of file on stdin) unlinks it, with
the messages in it. A pid is given again by `ClientStart`, and the new process finds the
queue of the old one. `OpenClient` has the test of the code as it is: the failure of
`mq_open` is compared with 1, and it is the failing `mq_send` that makes the server go on.
A token carries, as history, the run of the server that gave it; `abandoned[c]` counts the
processes of pid `c` that ended while they waited for a token.

### EchoServer

A step is a call of `server.c` (`srv[s]`) or `client.c` (`client[c]`). `Servers` are the
processes of `server.c`: each is started once, after another died or while it runs.
`path` is the socket file, named by the server that made it: a dead server leaves it, the
next one unlinks whatever file it finds, and a client connects to the server that the file
names then. A connection is named by its client; its end at the server is open while it is
in `backlog` or is `conn[s]`. The streams `toServer` and `toClient` are sequences of bytes, a
byte known by its line, and `recv` takes what is there and fits. `PeerIsGone` is what the
kernel does to a server whose client died: SIGPIPE in `send`, ECONNRESET in `recv` if an
answer was left unread. `killed` tells the clients that died from those that left. Empty
sends (a line that begins with a NUL byte) are left out.

### TcpServer

`program` chooses the pair of programs: the server of `clase5/tcp` reads again before it
closes, that of `clase5/getaddr` closes at once. No length or position inside a message
matters to these programs, only how much is left unread, so a message is a number of bytes.
A socket closed with bytes unread sends a reset, and the peer finds an error where the end of
file would be, and may lose an answer it has not read. A client whose `fgets` finds the end of
file sends a `buf` that nobody wrote: up to `Garbage` bytes, which may exceed what one `read`
takes. The kernel completes connections before `accept`, as many as the backlog and one more.

### SharedCounter

`program` chooses between `main_ok.c` and `main_incorrecto.c`. `a++` is a load (`reg`) and a
store, and the copy that main makes takes two loads; other threads run in between, and only
the mutex of `main_ok.c` prevents it. `count` and `seen` are history. `AtomicPair` says what
is promised: in `main_ok` both counters go up together, in one step, and what main prints is
the number of increments made so far, twice; in `main_incorrecto` the two numbers that main
prints are only known not to exceed the increments begun.

### SemTimeout

The steps of main are its calls; `Handler` is the handler of SIGALRM, which posts the
semaphore between two of them or while main is blocked, in which case `sem_timedwait` returns
EINTR and main calls it again with the same deadline. `Tick` is the clock: main may be slow in any
step, the alarm may come before main reads the clock, at the deadline or after it, and the
semaphore may be posted when the deadline is past and the wait has not returned. `TimedWait`
has a deadline, a post that comes or not, and one answer.

## Runs

| Run | Instance | Distinct states | What it shows |
|---|---|---|---|
| `spooler_threads` | 3 producers, 2 strings each, ring of 2 | 105,866 | exclusion, claims, buffers, nobody waiting for ever, shutdown and termination |
| `spooler_single` | 1 producer, 7 strings, ring of 3 | 479 | the ring implements `BoundedFifo`: strings are printed whole, once and in order |
| `spooler_unwritten` | 2 producers | violation | the spooler prints a slot that is not written |
| `tp_fifo` | 2 lines of 3 or 22 characters, 2 signals, FIFO of 40 bytes | 293,927 | routing of messages read alone, all sent when the writer succeeds, all delivered when both succeed, handlers, liveness |
| `tp_coalesce` | lines of 3 or 19 characters | violation | two messages in one read |
| `pool` | 3 clients, pool of 2, 3 descriptors | 148,695 | entries, descriptors, refusals and answers |
| `named_restart` | 2 producers, 2 strings each, ring of 2, 3 runs | 53,120 | what a killed run leaves to the next |
| `echo` | 2 servers, 2 clients, 2 lines each, buffers of 3 bytes | 362,501 | bytes echoed, one line and one answer at a time, clients that leave or die, who waits is served if the others leave |
| `tcp` | 2 clients, buffers of 3 bytes, both pairs of programs | 62,326 | who is answered, what ends the server, resets, everybody answered or told |
| `token` | 2 pids of 2 processes each, queues of 2, 2 runs of the server | 306,191 | tokens, their order, answers owed, whose answer a process takes, every request answered |
| `alarm` | alarm and deadline of 0 to 3 seconds | 2,398 | the wait implements `TimedWait`: right answer, and an answer |
| `counter` | 2 workers of 3 rounds, main, both programs | 276,673 | the counters implement `AtomicPair` |

Why the bounds are enough. A ring of 2 with three producers fills, empties, wraps around
three times and has a producer waiting at each semaphore; two producers can meet in one
slot. With one producer the ring of 3 wraps twice. In `tp_fifo` the buffers have the
sizes of the code (20, 26, 27); 22 characters and the newline take two reads, 40 bytes
hold one long message and a short one, so writes block and reads join and cut messages;
the two signals may be equal (merged) or different (nested). In `pool` three clients on
two entries fill the pool, are refused, and reuse an entry and a descriptor just freed; the
fairness property needs no more. In `named_restart` a run that died,
in any step, is followed by one that dies and one that may finish, or finish and start
afresh. In `token` two lives of a pid are enough for an answer left for another process
and a request that outlives its sender; the queue of the server fills, and so does that
of a client. `MaxLives` may not exceed `MAX_MESSAGES` (an ASSUME), the case in which the
server never blocks on a client; `MaxRuns` and `MaxRequests` bound restarts and key
presses. In `echo` the second client waits in the backlog or for
room in it, lines have different lengths, and a line fills the buffer but for its end; two
servers are enough for one that finds the file of a dead one and for one that takes the name of
one that runs, with a client at each. In `tcp` a backlog of 0 admits one connection and makes
the other wait, and 4 bytes are read in two calls. In `alarm` the alarm comes before, at and
after the deadline, or never, and main may read the clock up to `MaxDelay` later. In `counter`
three rounds are enough for a store that undoes two rounds of the other worker.
`MaxLines`, `MaxSignals`, `MaxLoops`, `MaxSecs`, `MaxDelay`, `Garbage`, `LineLengths`,
`STRINGS` and the size of `Clients` bound what the environment does.
The runs of `Spooler` and `SharedCounter` check deadlock. The others set `CHECK_DEADLOCK FALSE`:
their processes end for good, or wait for a peer, a user or a semaphore that need not come.

Every property of a passing run has a mutant in `PROJECT.json`: a definition replaced by
its "Fault:" variant, under which the run reports the property violated.

### Fairness

Weak fairness of each thread or process, as the kernel's scheduler gives it. Nothing else:
no fairness of the user (`TypeLine`, `Send`, `Ask`, `Leave`), of starts and
deaths, of failures, or of signals sent. A pending signal is delivered (`Deliver`, `Handler`)
and the clock goes on (`Tick`). `SharedCounter` assumes none: its threads never end and nothing
is promised about when they run. Weak fairness is enough for the semaphores of `Spooler`
because each producer waits for finitely many strings of the others.

## Proofs

TLAPS proves, for every value of the constants under the assumptions named in the modules
(positive sizes, finite sets of producers and of workers, more descriptors than entries):

* `SpoolerProofs`, any number of producers: `TypeCorrect`, `MutualExclusion`,
  `ClaimsAreDistinct`, `BuffersAccounted`, `SharingNeedsEarlyPrint`, `ShutdownIsOrderly`,
  `SomebodyGoesOn`. The properties are not inductive as they stand. The
  invariant adds: the critical section is where `mutex_sem` is taken, and inside it what was
  read of the index is still the index (`ReadInv`); the semaphores counted with the producers
  at each step, so that `claimed`, the signals and `printed` are tied (`CountInv`,
  `ClaimAccount`); and what main's stage says of the threads (`StageInv`).
  `SharingNeedsEarlyPrint` is then arithmetic on tickets modulo the size of the ring
  (`ModApart`). `ShutdownIsOrderly` is about calls of `printf`, not about strings: it was called
  once for every claim, but for at most one call that the spooler had in hand when main gave up
  (`CallsAccounted`). `SomebodyGoesOn` (`NoDeadlock`) breaks the circle of waits: if everybody
  waited, the mutex would be free and nobody would wait for it; so no producer would hold a
  buffer and no string would be announced; so all buffers would be free and nobody would wait for
  one; so all producers would be done, and main would not wait.
* `SpoolerProofs`, one producer: `SingleIsFifo` is the whole refinement
  `Spec => ImplementsFifo`: `PostSignal` is the `Put` of `BoundedFifo` (`PostIsPut`),
  `PrintString` its `Get` (`PrintIsGet`), and any other step a stutter that leaves the
  strings in the ring as they are (`QueueStays`). Beyond the invariants above it needs where the
  producer's string, ticket and slot are at each step (`OnlyInv`), that the print index counts
  what was printed (`PrintIndexInv`), and that the slot being written is none of those that
  wait (`SlotIsApart`). `SinglePrintsInOrder` carries what `BoundedFifo` promises back to the
  program: the n-th `printf` prints the n-th string. So strings that are torn, unfinished or out
  of order need a second producer, and `spooler_unwritten` shows that two are enough.
  `SingleLeavesOneString` is `ShutdownIsOrderly` said of strings, which takes one producer: at
  most the last string has not been printed when main gives up.
* `SpoolerProofs`, `named.c`: `NamedTypeCorrect`, `CrashesNeverAdd`. Within one run the counts
  obey inequalities, not the equalities of `unnamed.c`, because the run begins with what the
  last one left. `Legacy` is the step from one run to the next: whatever the point at which a
  run is killed, what it leaves is again within the bounds that a run may begin with. The other
  conjuncts of `NamedInv` say which names exist while main opens and unlinks them.
* `TpFifoProofs`: `TypeCorrect` (no message outgrows the buffer it is built in, for every
  size), `SignalsAreSent` (`HandlersWrite`), `SuccessIsComplete` (`SuccessMeansAllSent`),
  `InputIsDelivered` (`DeliveredWhenBothSucceed`) and `AloneIsRouted` (`RoutedWhenAlone`).
  `StageInv` ties the program counters to the ends of the FIFO: without it the end of file seen
  by the reader would not mean that the writer has come and gone. `AccountInv` is the account of
  the input: each character of each line typed is in a message of the FIFO, in the one in hand,
  or still to be read from the terminal, and none is sent before the handlers are set. For
  `AloneIsRouted`, `StreamInv` says that the messages follow each other in the stream with no
  gap, `ReadsInv` that the reads come in its order and the last one ends at `taken`, and
  `FileOK` that a file holds only what was parsed, in the order of the stream; so a new line of a
  file is after all its lines, and the message that a read returned alone is known by its place.
  `InputIsDelivered` joins three facts: a writer that succeeds has sent all; a reader that
  succeeds has taken all that was sent (`ReaderDrains`); and the reads cover the stream from its
  beginning to `taken`, so that none of it is skipped (`ReadsCover`).
* `ClientPoolProofs`: `TypeCorrect`, `EntriesAccounted`, `ThreadsOwnConnections`,
  `DiscardsJustified`, `NothingLeaks`. `IInv` follows a connection from the backlog to
  main's hands and to a thread: at each stage one party holds its descriptor and its
  entry. `ScanInv` is why the scan may be non-atomic: only main turns entries busy, so an
  entry found busy was busy when the connection was accepted, and one free then still is.
* `TokenQueueProofs`: `QueueTypeCorrect`, `TokensAreUnique`, `PidsInOrder`,
  `OneDebtPerProcess`, `OthersAnswersWereAbandoned` (`OwnAnswer`). `QueueInv` follows the
  tokens: `Recent` (every one that was sent is older than what the server sends next, over its
  runs), `Ordered` (those of a pid grow, the ones taken before the ones that wait), `Apart` (no
  token is of two pids) and `InHand` (a server about to answer has a client to answer). `OwedInv`
  counts the request of a process in the one place where it is: its own hands, the queue, the
  server's hands or the answers. The same count gives `OwnAnswer`: what is owed to a pid is the
  request of the process that has it now and one for each that ended in its wait (`Allowed`,
  `NoMoreThanDue`), so if none did, the token that a process finds is its own.
* `EchoServerProofs`: `EchoTypeCorrect`, `BytesAreEchoed` (`EchoAccount`),
  `PromptIsAnswered` (`PromptAfterEcho`), `LeavingIsClean` (`LeavesNothingBehind`).
  `PlaceInv` gives a connection one place, the hands of one server or one place of one
  backlog, also when a server dies or another takes the socket file. `LineOK` says of what a
  client typed that all but its last line has come back, and that the last line is in one of
  four places: read by the client, sent, received by the server, or echoed. A line fits every
  buffer with its end (`SizeInv`), so each `recv` takes the whole of it, and the client is back at
  its prompt only in the first. In a fifth case, `Lost`, the server went before it answered.
* `TcpServerProofs`: `TcpTypeCorrect`, `TypedIsAnswered` (`LinesAnswered`), `OnlyDeathEnds`
  (`OnlyDeathEndsServer`). `LineOK` follows the line of a client that sent what its user
  typed: until the server reads it the connection is in the backlog or about to be read, and
  one read takes all of it (`SizeInv`); so no byte is unread when the server closes, no
  reset is sent, and the answer stays. `DeathInv` says that only the server of `clase5/tcp`
  reads twice, and that a reset it may meet there is from a client killed with the answer unread.
* `SharedCounterProofs`: `CounterTypeCorrect`, `CounterIsPair` (the whole refinement
  `Spec => Pair!Spec`). `CounterInv` has for `main_ok` that the holder of the mutex is the only
  thread between its lock and unlock (`Held`) and how far that thread has come with the two
  counters (`Exact`); for `main_incorrecto`, that neither a counter nor a value that is still
  to be stored counts an increment nobody began, and that `b` does not count either those whose
  store of `b` is to come (`Bounded`, `InFlight`).
* `SemTimeoutProofs`: `SemTypeCorrect`, `WaitIsSafe` (`Spec => Wait!Spec`, the safety half of
  `ImplementsTimedWait`). `ClockInv` says when there is a deadline, and that the semaphore is
  posted only once the alarm has come; `WaitInv` ties what `sem_timedwait` returned to where
  main is, so that main exits with success or ETIMEDOUT and blocks only on a semaphore at 0.

The assumptions are those named in the modules that declare the constants, which TLC evaluates
in the runs. The three theorems about one producer add `Producers = {p}`.

Only model-checked: the liveness properties (`Termination`, `SentIsRead`,
`ReaderFollowsWriter`, `SentIsEnded`, `EndsWithWhatIsLeft`, `RequestAnswered`,
`WaitingServed`, `AnswerComes`, and the fairness half of `ImplementsTimedWait`), which TLAPS
cannot do. Every safety property of the passing runs is proved.

## Findings

The violation runs show where a program and what is written about it disagree; the
lines are quoted in `PROJECT.json`:

* `spooler_unwritten`: `spool_signal_sem` counts strings, not slots that are ready, so the
  spooler may print a slot that its producer has not written yet;
* `tp_coalesce`: the reader of the project takes several messages for one.

Noticed while modelling, with no run of their own:

* `reader.c`: `src/tp.md` (lines 61 to 68) asks for an error message and an error code when "Reader
  lee del pipe pero el writer está muerto", and the reader takes every end of file for a good end
  (lines 113 to 120): it exits with EXIT_SUCCESS also after a writer that was killed, or that failed
  with a line in hand. An end of file does not say how the writer ended, so the success of the
  reader alone promises nothing: `DeliveredWhenBothSucceed` asks for that of both;
* `writer.c`: a line of exactly 19 characters fills one read with its newline, which is then sent
  although line 98 and `TP_Corregido/README.md` say that it is removed (the newline is dropped
  only after a read shorter than the buffer);
* `unnamed.c`: main's poll finds `spool_signal_sem` at 0 before the last call of `printf`, and
  its cancellation may come first. With one producer the last string can be left unprinted, and no
  more (`SingleLeavesOneString`); with several, each slot printed before it was written leaves
  one string more (`OrderlyShutdown` counts calls of `printf`, not strings);
* `writer.c`: SIGUSR1 or SIGUSR2 before the handlers are set, which is until a reader comes,
  kills the writer (`HandlersWrite` says that it kills only a writer that has sent no line);
* `practica_resolviendo/server_tcp.c`: a thread that cannot be created keeps its entry of the
  pool for ever (the threads in `lost` of `PoolAccounted`);
* each `cliente_tcp.c` (`clase5/tcp`, `clase5/getaddr`, `clase6`) ignores what `fgets` returns and,
  at the end of file, sends a `buf` that nobody wrote;
* `clase6.md` asks the pool server to answer "lo mismo que recibió", and the threads
  answer "hola";
* a line handed to `writer.c` with Ctrl-D and not ENTER loses its last character, dropped in the
  place of the newline (`Carries` says which characters a message has);
* a token can be taken by a process that did not ask for it: the one that finds, in the queue of
  its pid, the answer to a process that ended while it waited (`OwnAnswer` says that
  nothing else leads to it);
* a run of `named.c` killed inside the critical section leaves `mutex_sem` at 0, and no later
  run gets past it until the semaphore is removed by hand;
* a token server that is started again gives the numbers from 1 again while its clients are
  still there, and a request in the hands of a server that dies is lost;
* a second echo server takes the name of one that runs: the first keeps the clients it has and
  gets no more;
* the echo server has one connection at a time and its user decides when it ends: one who types for
  ever keeps those in the backlog waiting (`WaitingServed` asks that the other users leave).

## Not modelled

* `TP`, the first delivery of the course project: its `main` functions and calls on the FIFO
  are those of `TpFifo`. Its handlers also call `printf`, whose effect on the buffers of
  stdio in a handler is undefined and which no property here would tell apart.
* `clase6/practica`: the code of `practica_resolviendo` but for comments and line breaks.
* `clase3/practica2.c`, a parent and its children with pipes and SIGCHLD: left for later.
  `practica3.c` does not compile as it stands, so there is no behaviour to model.
* The UDP examples: one datagram each way and no state.
* The examples of `fork`, `exec`, `dup2`, `join`, `detach`, `cancel`, signal masks, the named
  FIFO without headers and the shared memory pages: straight lines of calls run by hand, with
  nothing that two actors could do in another order, or parts of what `Spooler` and `TpFifo` have.
* The Jekyll site.
* Within the modelled programs: error branches of calls that cannot fail there, what is
  printed for the user, writes past the end of an array (`aux[22]` in `reader.c`), lines whose
  text looks like a header or begins with a NUL byte, and two runs of `named.c` at once.

## Plan

What is left, in this order:

1. `SpoolerFifo` for `named.c`: whether a run with one producer that begins with what a killed
   one left is still a bounded buffer, and under which legacy.
2. The parent and the child of `clase3/practica2.c`: SIGCHLD against `read`, `sleep`, `pause`.
