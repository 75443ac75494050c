# mymuduo and its HTTP server in TLA+

This directory models the concurrent core of CPP14WebServer: `mymuduo`, a
reactor network library (one event loop per thread, an acceptor, a pool of I/O
loops, TCP connections, asynchronous logging), and the HTTP server above it.
The modules are translated from the code; `PROJECT.json` maps every definition
to the lines it stands for.

## 1. The system

| Component | State it keeps | Operations | Talks to |
|---|---|---|---|
| `EventLoop` (EventLoop.cc) | `quit_`, `pendingFunctors_` under `mutex_`, `callingPendingFunctors_`, the eventfd, `activeChannels_` | `loop`, `quit`, `runInLoop`, `queueInLoop`, `wakeup`, `handleRead`, `doPendingFunctors` | every other component hands it functors; it calls channels |
| `Channel`, `EpollPoller` | `events_`, `revents_`, `index_`, `tie_`; `channels_`, the kernel's interest set | enable/disable, `update`, `remove`, `handleEvent`; `poll`, `updateChannel`, `removeChannel` | loop, connection, acceptor |
| `TcpConnection` | `state_`, `inputBuffer_`, `outputBuffer_`, channel, socket | `send`, `shutdown`, `sendInLoop`, `shutdownInLoop`, `connectEstablished`, `connectDestroyed`, `handleRead/Write/Close/Error` | its I/O loop, the user's callbacks, other threads, `TcpServer` through `closeCallback_` |
| `TcpServer`, `Acceptor` | `connections_`, `nextConnId_`, `started_`, `listenning_` | `start`, `newConnection`, `removeConenction`, `removeConnectionInLoop`, destructor | base loop, I/O loops |
| `EventLoopThreadPool`, `EventLoopThread`, `Thread` | `loops_`, `next_`; `loop_` under `mutex_`; the `std::thread` | `start`, `getNextLoop`, `startLoop`, `threadFunc` | server, loops |
| `AsyncLogging` | `currentBuffer_`, `nextBuffer_`, `buffers_` under `mutex_`, `running_` | `append`, `threadFunc`, `start`, `stop` | every thread that logs, `LogFile` |
| `Buffer` | a vector, `readerIndex_`, `writerIndex_` | `append`, `retrieve*`, `makeSpace`, `readFd`, `writeFd` | connection, HTTP |
| `HttpServer`, `HttpContext`, `HttpResponse` | parse state, request | `onMessage`, `parseRequest`, `onRequest` | connection |
| `TimerQueue`, `Timer` | `timers_`, `activeTimers_`, `cancelingTimers_`, the timerfd | `addTimer`, `cancel`, `handleRead`, `reset` | nobody: `EventLoop::timerQueue_` is never constructed |
| `Logger`, `LogStream` | `g_logLevel`, `g_output`; a line's buffer | the `LOG_` macros, `operator<<`, `finish`, `~Logger` | `AsyncLogging` through `setOutput()`; stdout without it |
| `LogFile`, `FileUtil` | a file | `append`, `flush` | `AsyncLogging` |
| `Socket`, `InetAddress`, `CurrentThread`, `Timestamp` | none of their own | system calls | all |

What is hard in it: functors handed between threads with a wakeup that must not
be lost; a loop that is told to quit from outside; a connection whose state is
set by its loop, by other threads and by the server; output that is partly in
the kernel, partly in a buffer, with a shutdown that waits for it; removal in
three hops between two loops while descriptors are reused; destruction of the
server at any moment; double-buffered logging with a back end that sleeps; timers
that are added and cancelled while a batch of them runs.
`PROJECT.json` lists these hazards at their lines.

What makes each part correct:

- loop: every functor is called once, in order, by the loop's thread, and
  without waiting for the 10 s poll timeout; `quit()` ends the loop;
- connection: the peer gets what was sent, in order, once, and the FIN after
  it; the user is told once that the connection is down; EPOLLOUT is watched
  exactly while there is output; the process survives;
- server: each connection is established and destroyed once; no poller keeps a
  pointer to a dead channel; descriptors are given back; loops are published
  before they are used, in turn;
- poller: a channel's `index_` and `events_`, `channels_` and the kernel's set agree;
  no destroyed channel is dispatched; a channel that stays ready is called;
- buffer: a queue of bytes that stays inside its vector;
- HTTP: the k-th answer is for the k-th request, and nothing follows a closing one;
- logging: no line is lost, doubled or reordered but those dropped by design;
  the buffers never run out; a full buffer wakes the back end; a line whose message
  leaves room for it is whole to its newline, and a fatal one ends the process;
- timers: the timerfd is armed no later than for the earliest timer; a timer that
  does not repeat runs once; one cancelled in its own batch does not come back.

## 2. The modules

| Module | Models | Extends / uses |
|---|---|---|
| `TaskQueue` | abstract: what a loop promises to those who queue functors | |
| `EventLoop` | one loop, its owner and the other threads | refines `TaskQueue` (`TQ == INSTANCE TaskQueue WITH ...`) |
| `EventLoopProofs` | theorems about `EventLoop` | `EventLoop`, `SequenceTheorems`, `TLAPS` |
| `TcpConnection` | one connection with its loop, socket, peer, other threads and the server's side of its removal | |
| `MCTcpConnection` | the usages the runs of `TcpConnection` consider | `TcpConnection` |
| `TcpConnectionProofs` | theorems about `TcpConnection` | `TcpConnection`, `SequenceTheorems`, `TLAPS` |
| `TcpServer` | server, acceptor, pool start-up, registration of connections in pollers, destruction | |
| `TcpServerProofs` | theorems about `TcpServer` | `TcpServer`, `SequenceTheorems`, `TLAPS` |
| `EpollPoller` | the channels of one loop, their registration in the poller and in the kernel, and the dispatch | |
| `MCEpollPoller` | what may be ready on a descriptor | `EpollPoller` |
| `EpollPollerProofs` | theorems about `EpollPoller` | `EpollPoller`, `FiniteSetTheorems`, `TLAPS` |
| `Buffer` | the methods of `Buffer`, as operators on records | |
| `HttpServer` | one connection of an HTTP server, from `handleRead()` to the response | `Buffer` |
| `HttpServerProofs` | theorems about `Buffer` and `HttpServer` | `HttpServer`, `SequenceLemmas` |
| `MCHttpServer` | the requests and bytes of the runs | `HttpServer` |
| `AsyncLogging` | front end, back end, `start()` and `stop()` | |
| `Logger` | the threads that log: macros, a line's parts, `~Logger()`, `abort()` | composes with `AsyncLogging` (`EXTENDS`) |
| `MCLogger` | the statements of the run | `Logger` |
| `LoggerProofs` | theorems about `AsyncLogging` and `Logger` | `Logger`, `SequenceLemmas` |
| `TimerQueue` | the timers of one loop, the timerfd, the clocks | |
| `TimerQueueProofs` | theorems about `TimerQueue` | `TimerQueue`, `TLAPS` |
| `SequenceLemmas` | induction without operator parameters, recursive functions, elements and flattening of sequences | `SequenceTheorems`, `WellFoundedInduction`, `TLAPS` |

`TcpConnection` and `TcpServer` take each loop as the FIFO executor that
`EventLoop` is shown to implement: a queue of functors, of which the loop runs
the oldest, between events of its channels. So does `TimerQueue`, whose queue holds
only its own calls.

### EventLoop

A step ends wherever another thread may observe or change what it shares with
the loop: the queue (one step per critical section), `quit_`, the eventfd. So
`queueInLoop()` of another thread is `QueueInLoop` (up to the unlock) and
`Wakeup`; `loop()` is `CheckQuit`, `Poll`, one `HandleEvent`/`HandleRead` per
active channel, `BeginPendingFunctors` (the swap), one `CallFunctor` per functor
and `EndPendingFunctors`. A callback is an interval between `HandleEvent` or
`CallFunctor` and `Return`, in which the owner may queue and quit and all others
go on. `executed` is the history of the functors called. A functor is a name,
submitted at most once, so that "called once" can be said. `callingPendingFunctors_`
is set together with the swap: only the owner reads it with effect, for in
another thread `!isInLoopThread()` decides first.

### TcpConnection

State as in the class, plus the kernel's `socket` (bytes taken and not yet read
by the peer), what the peer `received`, the functors `queue`d in the loop and
`pc[t]` of the other threads. `send()` and `shutdown()` from another thread are
split where `state_` is read, set, and the functor queued. Bytes carry the caller
and their position, which is all the properties need; `write()` takes any number
of bytes that fits. `loopPc` also says what killed the process: a failed assertion
(the build is a debug build), SIGPIPE (nothing ignores it), an empty
`std::function`, or the use of a destroyed object. A `usage` fixes who sends and
shuts down, what the peer does, and whether the server dies; `Orderly` is the
set of usages the connection is up to, and most properties are about those, the
others (`StreamInOrder`, `ToldOnce`) about all. `ServerDies` is `~TcpServer()` as one
connection sees it, if no removal of it is on its way; a `removeConnectionInLoop()` that
is queued on the base loop with a raw `TcpServer *` is the other module's.

### TcpServer

Base loop 0 and the pool's loops, each with its functor queue, its poller's
`channels_` and its kernel interest set. `start()` is one step per thread started,
published, waited for. `Accept` is `Acceptor::handleRead()` with
`newConnection()`, which establishes at once in a server without threads.
Closing is `HandleClose` in the I/O loop, `RemoveConnectionInLoop` in the base loop,
`ConnectDestroyed` in the I/O loop, and `Release`, the last `TcpConnectionPtr`
dropped, which closes the descriptor and makes it available to `accept4()`. The
destructor is one step per connection, in any order, interleaved with the I/O
loops; the base loop has ended by then or goes on.

Where the code logs an error at `FATAL` the process aborts, and the model lets the
system call fail at any time: the pool threads' `epoll_create1()`, `eventfd()` and
`epoll_ctl()` (`LoopFails`), `listen()` and the acceptor's `epoll_ctl()` (`ListenFails`),
`accept4()` for any reason, `getsockname()`, and the `epoll_ctl()` that adds a connection
(`AcceptFails`, `EstablishFails`). A step that aborts changes nothing else: what it had
changed is lost with the process. A failed `EPOLL_CTL_DEL` is only logged and left out, as
are `socket()` and `bind()` in the server's constructor, which come before `Init`, and the
exceptions of `std::thread` and `new`.

### EpollPoller

`TcpServer` has only the sequences of updates that connections make; `EpollPoller`
has any. A channel is constructed on a free descriptor, enabled and disabled at will,
removed once no event is enabled (`Channel::remove()` asserts it), and destroyed, which
closes the descriptor. `UpdateChannel` is `updateChannel()` with its odd corner:
`disableAll()` on a channel that is `kNew` or `kDeleted` adds it to the epoll set,
for no event. `Poll` takes any of the ready descriptors that fit `events_` and
doubles it when it is full; `HandleEvent` begins the callbacks of a channel, during
which any channel may be changed, until the next one begins. Removal runs in
`doPendingFunctors()`, because `removeConnectionInLoop()` queues `connectDestroyed()`
even in its own loop; a server that is destroyed inside a callback of one of its
channels, which removes at once, is excluded.

### Buffer and HttpServer

A buffer is the vector, its size and the two indices. `HttpServer` uses it as
`inputBuffer_`: a client's requests are a stream of bytes of which `HandleRead` takes
any number that one `readv()` can return, runs `parseRequest()` with a new
`HttpContext`, and answers. A byte of the model stands for what the parser cannot
tell apart: a request line or a header without its end is one byte, `\r` and `\n` are
one each, so that a read may end anywhere that matters. `malformed` is any request
line that `processRequestLine()` refuses. The callback may ask to close, as
`defaultHttpCallback()` and the test's do. `ParseLine` is one turn of the `while` of
`parseRequest()`, and `parseRequest` a recursive function that takes one turn more
than there are bytes, more than any parse needs (`Parsing`). The bytes a client's
requests consist of are assumed to be among `Byte`.

### AsyncLogging

`append()` and the back end's critical section are one step each, because they
hold `mutex_`; `wait_for()` splits the latter. What the back end does outside the
lock touches only its locals and is one step, `WriteBuffers`. A line is a name;
buffer capacity is counted in lines, and a line of `LongLines` fits no buffer.
`stop()` is three steps: it holds no lock.

### Logger

The lines of `AsyncLogging` become statements. `Begin` is a macro's test (of the level
for `LOG_INFO` and `LOG_DEBUG`, of the length for a `LOG_FMT_`) and the construction of
the `Logger`; `Output` is `~Logger()` up to `g_output()`, which is `AppendLine`; `Abort`
is what follows a fatal line. Between them all other threads go on. A part of a line is
its length, whether it is a number, and whether a `LOG_FMT_` has cut it:
`FixedBuffer::append()` drops what does not leave a byte free, `formatInteger()` asks for
48 bytes. `Formatted` is what a `LOG_FMT_` makes of its message, `Wanted` what it was
asked for. `Line` is what is left of the parts of
header, message and trailer. `Others` are the steps of `AsyncLogging` that are no
`Logger`'s, so `LoggerNext` is its composition with `Next` of `AsyncLogging`. Of the
lengths it is assumed that the header (date, time, thread, level) fits in the stream's
buffer, and that a line number and the newline together take less than the 48 bytes that
`formatInteger()` asks for: it writes no number where the newline would not fit behind it.

What the code does there, and the model with it: the enumeration puts `DEBUG` above
`FATAL`, so `LOG_DEBUG` passes at every level, although `Logger.h:215` says that level
FATAL silences it; only `LOG_INFO` and `LOG_DEBUG` test the level at all; a `LOG_FMT_`
whose message is longer than 1024 is dropped, a `LOG_FMT_FATAL` with its `abort()`; one
of exactly 1024 passes the test `cnt <= 1024` with the NUL that ends `snprintf()`'s 1023
characters as its last byte (`Cut`), which `LinesWhole` excepts from the whole lines; and
the fatal line itself dies in a buffer of `AsyncLogging`. The names of the levels are off
by one against the enumeration (text). `LOG_WARN`, and `LOG_FMT_DEBUG` under `FMT_DEBUG`,
do not compile and are no macros of the model.

### TimerQueue

`addTimer()` and `cancel()` do their work at once when the loop's thread calls them and
are queued otherwise (`pending`), to be called between two handlers. `HandleRead` is the
start of `handleRead()` up to the callbacks, `RunCallback` one callback, during and
between which anything can be added and cancelled, and `Reset` the rest. Where nothing
has expired the three are one step, `HandleRead`: `reset()`'s loop has no round. When a
callback of another channel adds an earliest timer in a round of `loop()` that is to handle
the fired timerfd, this is armed anew and `handleRead()` still comes (`stale`): its read
fails, which is logged, and the rest is as usual.

The clock counts the microseconds of the timerfd and `Now`, as `Timestamp::now()` does,
the seconds; the rest of the class takes both for microseconds. Two to the second keep
instances small. `getExpired()` compares with a null pointer (the member
`timerEntryPtr_` hides the global of that name), so that a timer is expired only after
its time. `activeTimers_` is never filled, so `CancelInLoop` has effect in the timer's
own batch only. An interval below a microsecond is left out.

In the program `EventLoop::timerQueue_` is never constructed: `runAt()`, `runAfter()` and
`runEvery()` dereference a null pointer. The module is about the class.

## 3. The runs

| Run | Shows | Bounds |
|---|---|---|
| `event_loop` | no lost wakeup, FIFO refinement, quit stops the loop | 2 threads, 3 functors, 1 I/O channel, eventfd count up to 2 before `quit()` is no longer called |
| `tcp_connection` | order, FIN after data, EPOLLOUT exactly while needed, survival and delivery in orderly usages | 2 callers, 2 messages of 2 bytes, a 2-byte socket, high-water mark 3, 8 usages |
| `tcp_connection_foreign` | violated: send; send; shutdown from one other thread ends in SIGPIPE | same |
| `tcp_connection_full_socket` | violated: `write() = -1` in a `size_t` | same |
| `tcp_server` | lifecycle of connections across loops, descriptor reuse, destruction, what the process can die of | 3 clients, 2 descriptors, 0 or 2 threads |
| `epoll_poller` | `index_`, `channels_` and the kernel agree, dispatched channels exist, ready channels are called | 3 channels, 2 descriptors, room for 1 event at first |
| `http_server` | the input buffer is a queue inside its vector; answers are in order and end with a closing one | 3 requests of 5 kinds, a vector of 5 with a reserve of 1, an `extrabuf` of 4 |
| `http_split` | violated: a request split over two reads is answered with 400 | 1 request |
| `http_pipelined` | violated: the second of two requests in one read is not answered | 2 requests, a vector that takes both |
| `async_logging` | with `Logger`: no line lost or reordered, buffers never run out, lines whole, flushing, a fatal line's end, `stop()` returns | 2 threads, 3 statements (`LOG_INFO`, `LOG_FMT_ERROR`, `LOG_FMT_FATAL`) and an over-long line, 1 line to a buffer, backlog limit 2, a `LogStream` of 20 bytes, a `LOG_FMT_` buffer of 7 |
| `async_logging_stop` | violated: lines appended before `stop()` are never written | 2 lines |
| `timer_queue` | the timerfd is armed in time, one-shot timers run once, cancelled ones stay away, an armed queue runs what expired | 2 timers, delays 0 and 1, 2 microseconds to the second, clock up to 8, 2 queued calls |

Why the bounds are enough. Two threads and three functors let a functor be queued
before, during and after a batch while another thread is between its unlock and
its write. Two messages of two bytes into a two-byte socket give a complete write, a
partial one, a refused one and a message behind buffered output. The high-water
mark of 3 is crossed. Three clients on two descriptors force a reuse while an
older connection is in any phase of its removal; two loops make the hops
between loops concurrent. Three lines at one to a buffer, and one that fits none, fill
buffers while the back end writes and give a backlog above the limit; of the three
messages one leaves no room for its trailer, one just fits the buffer of a `LOG_FMT_`, and
one has exactly that buffer's size and just leaves room for the trailer. Two timers put one in the batch or in `timers_` while the other is added,
cancelled or restarted, and a clock up to 8 lets a timer repeat over several batches. Three channels on two
descriptors reuse one while the other is dispatched, and `events_` of one is full at
every poll until it grows. A vector smaller than a request takes every branch of
`makeSpace()` and of `readFd()`, and three requests pipeline behind one that keeps the
connection. All state spaces are
finite without state constraints: functors, sends, clients and lines are each
used once, `MaxWakeupFd` bounds only `quit()`, `MaxClock` stops the timers' clock, and
`MaxPending` bounds the calls queued by other threads. `HttpServer` has no liveness property and
no fairness.

`CHECK_DEADLOCK FALSE`: a loop that quit, a connection that was destroyed, a
process that died and a logger that stopped do stop.

Fairness. The owner's thread of a loop runs and callbacks return; a poll on a
readable eventfd returns; a thread inside `wakeup()` completes. Neither the poll
timeout nor anybody's call is assumed, so `QueuedIsCalled` and `QuitStops` do not
rest on the timeout. In `TcpConnection` what is ready again and again is served
(strong fairness), because each round of `loop()` handles every ready channel and
then all functors queued before it; the peer reads what it is sent. In
`TcpServer` every running loop serves its queue and its channels, and a destructor
goes on. In `EpollPoller` the loop's thread goes on, callbacks included. In `AsyncLogging` the back end runs, and `wait_for()` returns after
`flushInterval_` at the latest; in `Logger` a thread that has begun to log goes on, all as
long as the process lives. In `TimerQueue` time passes up to its bound, and the loop
handles the timerfd when it has fired, finishes the batch and calls what is queued.

## 4. What is proved

`EventLoopProofs`, for any threads, functors and channels:

- `TypeCorrect`, `BatchAlwaysDrained`, `QuitAlwaysWakes`, `NothingCalledTwice`;
- `NoWakeupLost`, from the assumption `InitCallbackQueues = FALSE`: a functor that
  the loop's own thread queues before `loop()`, as a `ThreadInitCallback` may, writes
  no eventfd (`EventLoop.cc:142`) and waits for the poll timeout. With the constant
  `TRUE` in `EventLoop.cfg`, TLC finds `NoLostWakeup` violated;
- `LoopIsTaskQueue`: `Spec => TQ!TQSpec`, step by step, with lemmas on
  concatenation (`MoveHead`, `AppendToConcat`).

`NoLostWakeup` is not inductive: it speaks of `poll()` only. `WakeupKept` says the
same at every point from which the loop gets to `poll()` without taking the queue
again ("run", "functor", "check"), where `BatchDrained` gives that
`callingPendingFunctors_` is set exactly while the owner can queue in it.

`LoggerProofs`, about `AsyncLogging`, for any lines, buffer size and a backlog limit of at
least two (the code's is 25):

- `BuffersAlwaysReady`, `FullBufferAlwaysNotified`. They are one inductive invariant: that
  the back end can replace both spares rests on the front end having filled two buffers
  before it is without a next one, and that rests on the spares being there at the swap.
- `LinesInOrderOnce`: what is in the file, in the back end's buffers and in the front
  end's, one after the other (`Way`), is what was appended and not dropped, in that order
  and without doubles. The inductive invariant (`Trail`) adds that no line was appended
  twice and that only appended lines are dropped. Its steps are equations on `FlattenSeq`:
  an append extends the front end's part, the swap hands that part to the back end
  without a change of the whole, and of a backlog that is too long the two buffers kept
  come first, so that dropping the rest takes lines out of the middle (`MiddleGone`).
- `DropsOnlyWhenLate`: a line is dropped by `append()` if it fits no buffer, or in a
  backlog over the limit and then not from its first two buffers.

About `Logger`, for any threads, statements, messages and levels:

- `LoggerUsesAsyncLogging` (`LoggerSpec => Init /\ [][Next]_vars`), by which
  `LoggerFindsBuffers` and `LoggerKeepsLines` are the theorems above for lines that
  statements log. The step that needs an invariant is `Output`: a thread that outputs has
  a statement (`Control`), which is one of the lines.
- `LoggerTypesOK`.
- `LoggedLinesWhole`: a line whose message leaves `MessageRoom` is what its statement
  asked for, whole to its newline, just if its message is not a `LOG_FMT_`'s of exactly
  the size of the buffer (`FormattedParts`), and no message takes anything from the
  header. That an appended line has passed its macro's test, so that no cut message is
  longer, is part of the invariant (`Tested`). `Streamed`
  is recursive: by induction over the parts, what fits is appended (`StreamedWhole`) and
  what was appended stays (`StreamedFront`). The line number needs 48 free bytes, not its
  own length, which is why the room it leaves is enough for the newline (`TrailerEnd`).

`TimerQueueProofs`, for any timers, times, delays and bounds, and any number of
microseconds to the second: `TypeCorrect`, `AlwaysArmedForEarliest`, `OneShotRunsOnce`,
`CancelIsForGood`. The inductive invariant adds where a timer can be (`Fresh`: what a
queued `addTimerInLoop()` will add is nowhere else, was not run or stopped, and is
queued once; `NotYet`: a one-shot timer in `timers_` or still to be run in its batch has not
run; `Cancelled`: a timer of the batch that was cancelled is in `cancelingTimers_`).
Without them a queued call could bring back a timer that is done. That the timerfd is
armed in time rests on `reset()` looking at the earliest timer after all restarts.

`TcpConnectionProofs`, for any callers, usages, message length, socket and high-water
mark: `TypeCorrect`, `WritingMatchesOutput`, `UserToldOnce`, `OrderlyUseSurvives`,
`SentInOrder`, `FinIsAfterData`. None is inductive. `ToldOnce` needs to know that input
is watched exactly from `connectEstablished()` until the user is told (`Told`), and that nothing, not even a
queued functor, comes before `connectEstablished()` (`Opening`). `WritingIffOutput` needs
that a thread which read `kConnected` and then sets `kDisconnecting` does not bring a
disconnected connection back: in an orderly usage the peer stays then and nothing
disconnects it (`Calling`, `StaysUp`). `SurvivesOrderlyUse` adds who may have queued what is
queued (`Used`: after `shutdownWrite()` no `sendInLoop()` is left to run) and why
`connectDestroyed()` comes (`Ending`: `handleClose()` disabled the channel before, or the
server dies and nobody shut the connection down). The last two are about the stream of
what the peer received, the socket holds and `outputBuffer_` keeps. A message is on its way
there in the queue, so `SentInOrder` needs that a caller's bytes in the stream come before
those of its queued sends, and these in the order of the queue (`Ordered`), and
`FinIsAfterData` that every byte sent is in the stream or in a queued send (`NothingLost`)
as long as no functor was lost with a disconnected connection.

`TcpServerProofs`, for any number of clients, threads and descriptors: `TypeCorrect`,
`CalledOnceEach`, `PollersStayLive`, `DiesOnlyOfThese`, one inductive invariant for all.
It follows two tokens of each connection. A connection that was accepted is either
established or has one `connectEstablished()` queued, in its own loop; and it is in
`connections_`, has one `connectDestroyed()` queued, or has been destroyed
(`Accepted`). That the queues hold no functor twice and never `connectDestroyed()` before
`connectEstablished()` is `Queues`, kept by every push and pop (`PushKeeps`, `PopKeeps`).
What a poller knows is a connection between its two calls (`Registered`), and no two
connections have one descriptor (`OwnFd`), so a reused descriptor finds the poller without
it, and a functor's batch that drops the last pointer closes nothing that is registered.
`DiesOnlyOfThese` says what ends the process besides failing system calls: the missing
init callback of a server without threads, and, once the server dies, `Channel::remove()`'s
assertion in a connection that is `kDisconnecting`, or a use of the destroyed server by a
pool loop whose client closed. It needs that a server which is gone has left nothing in
`connections_` (`Emptied`).

`EpollPollerProofs`, for any channels, any finite set of descriptors, any initial size
of `events_` and any readiness: `TypeCorrect`, `PollerAgrees`, `HandledExist`. The
inductive invariant adds to the three that no two channels have one descriptor
(`OneOwner`) and that there are active channels only while `loop()` dispatches
(`DispatchOnly`): removal runs among the functors, so no channel in `activeChannels_`
can leave before its handler is done.

`HttpServerProofs`, about `Buffer`, for any reserve, initial size and `extrabuf`, on every
well-formed buffer: `RetrieveTakesFront`, `EnsuresRoom`, `AppendAppends`, `ReadFdAppends`.
Each says what the method does to the content and that the indices stay inside the vector;
moving the bytes to the front (`MoveKeepsContent`) and making the vector larger
(`ResizeKeepsContent`) change nothing that can be read.

About `HttpServer`, for any number of requests of any kinds, and reads of any size:

- `Parsing`: `parseRequest()` ends, on any buffer. Each turn that goes on takes a line, of
  two bytes at least, so after as many turns as there are bytes `hasMore` is false.
- `InputInOrder`: the buffer is well-formed and holds the last of the bytes received
  (`Suffix`), from `ReadFdAppends` for a read and `RetrieveTakesFront` for a line.
- `RequestsAnsweredInOrder`. The inductive invariant `IHttp` says where the parser is
  (`Position`): while the connection is open, the first unread byte is the first of the
  request that is answered next, or, because a new `HttpContext` forgets what an earlier
  read had parsed, the first of one of its later lines. A parse from a beginning gives
  that request, a part of it, or a refusal if it is malformed (`Fresh`); one from a later
  line is refused or incomplete, for no such line is a request line (`Middle`). So an
  answer is for the next request, never for a later one, and every 400 closes.

`SequenceLemmas` is what these proofs share. The induction principles of the library take
an operator, which the provers cannot instantiate; `SetInduction` and `SeqInduction` take a
set instead, which they can. With them it is proved that the recursive functions of
the modules exist and satisfy their equations (`RecursionExists`, `SameRecursion`), among
them `FlattenSeq`.

Every invariant and every action property that a passing run checks is a theorem, as is
the refinement. Only model-checked is liveness, which is out of the prover's reach:
`QueuedIsCalled`, `QuitStops`, `Delivered`, `ShutdownCompletes`, `LoggedIsFlushed`,
`FatalAborts`, `StopEnds`, `ClosedIsReleased`, `ReadyIsHandled`, `DueTimersRun`.
`NothingCalledTwice` (`CalledOnce`) is proved and follows from the refinement that TLC
checks. That a theorem holds for every value of the constants says nothing of what the
modules abstract from: section 2 says what that is.

## 5. What the code does against its documentation

Each is a run that TLC finds violated; `PROJECT.json` quotes the lines.

1. `TcpConnection.cc:171` closes the write side while another thread's send is
   still queued, although `send()` and `shutdown()` are "Thread safe".
2. `TcpConnection.cc:232` keeps `write() = -1` in a `size_t`: a garbage byte is
   buffered.
3. `AsyncLogging.cc:44` tests `running_` before each swap and there is none after the
   loop, so that what was appended since the last swap, while the logger was running, is
   never written once `stop()` has cleared `running_`.
4. `HttpServer.cc:64` parses every read with a new `HttpContext`, so that a well-formed
   request in two reads is answered with 400.
5. `HttpServer.cc:82` answers one request of those that a read brings, although the
   README promises pipelining.

Three more are in the modules, without a run of their own:

- `EventLoop.cc:80` forgets a `quit()` that came before `loop()`: with
  `QuitBeforeLoop = TRUE` in `EventLoop.cfg`, `QuitStops` is violated.
- `TcpConnection.cc:119` leaves the channel of a `kDisconnecting` connection enabled,
  against the assertion of `Channel.cc:49`: with the usage of `MCTcpConnection` in which
  the server dies and the other thread shuts down, `Survives` is violated.
- `Timestamp.cc:16` counts seconds where `addTime()` adds microseconds, so that the
  timerfd fires before anything has expired, and `reset()` does not arm it again: with
  one timer, `Delays = {1}` and `MaxClock = 6`, `ScheduledRuns` is violated. The callback
  of `runAfter()` would never run.

## 6. Not modelled, and the plan

Not modelled: the text of log lines and responses, addresses, socket options, and
thin wrappers of system calls (no state of their own); short writes and a full disk
below `LogFile` (`FileUtil.cc:24`); the thread-unsafe `localtime()`; the lifetime of the
string given to `send(const std::string &)`; the destruction of an `EventLoop`
while another thread is inside `quit()` (the code's own comment concedes it);
the destructors of the pool's threads, whose loops never end, and of `TimerQueue`.

Of the HTTP layer: the words of a request line, headers but `Connection`, and the
layout of a response.

Left, in this order:

1. `LogFile` and `FileUtil` behind `AsyncLogging`: flushing every so many appends,
   errors of the disk.
2. Theorems on how components compose beyond `Logger`: that `TcpConnection` and
   `TcpServer` may take a loop for the FIFO executor of `TaskQueue` is argued in section 2,
   not proved.
