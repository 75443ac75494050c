---------------------------- MODULE TcpConnection ----------------------------
(***************************************************************************)
(* One mymuduo::TcpConnection, from connectEstablished() to                *)
(* connectDestroyed(): its I/O loop, the threads that call send() and      *)
(* shutdown(), the kernel's socket and the peer.                           *)
(*                                                                         *)
(* The loop is the TaskQueue that EventLoop implements: it runs the oldest *)
(* queued functor or handles an event of the connection's channel.         *)
(* Payload bytes carry the caller and the position in what it sent;        *)
(* lengths are in bytes.                                                   *)
(***************************************************************************)
EXTENDS Naturals, Sequences, FiniteSets

CONSTANTS
    Callers,        \* who calls send() and shutdown(): "loop", the user's
                    \* callbacks in the I/O loop, and other threads
    MaxSends,       \* bound: how often each caller sends
    MessageLen,     \* length of a message
    SocketSendBuf,  \* capacity of the kernel's send buffer
    HighWaterMark,  \* highWaterMark_
    HasWriteComplete,   \* did the user set writeCompleteCallback_?
    Usages          \* the ways in which the connection may be used

(* A usage says which callers send and which shut down, what the peer does,
   whether the server is destroyed while the connection lives, whether the user
   set highWaterMarkCallback_, and whether write() may find the socket full
   when the output buffer is empty.                                        *)
UsageSet == [send: SUBSET Callers, shutdown: SUBSET Callers,
             peer: {"stays", "closes", "resets"}, serverDies: BOOLEAN,
             onHighWater: BOOLEAN, fills: BOOLEAN]

ASSUME TcpConnectionAssumption ==
    /\ "loop" \in Callers /\ "nobody" \notin Callers
    /\ MaxSends \in Nat /\ MessageLen \in Nat \ {0}
    /\ SocketSendBuf \in Nat \ {0} /\ HighWaterMark \in Nat
    /\ HasWriteComplete \in BOOLEAN
    /\ Usages \subseteq UsageSet

VARIABLES
    usage,          \* which of Usages this behaviour follows
    state,          \* state_
    events,         \* the channel's events_
    outputBuffer,   \* outputBuffer_
    socket,         \* what the kernel took and the peer has not read
    received,       \* what the peer has read
    finSent,        \* has shutdownWrite() been called?
    peer,           \* the peer's side of the connection
    queue,          \* the functors queued in the I/O loop
    loopPc,         \* what the I/O loop does, or what killed the process
    pc,             \* pc[t]: where in send() or shutdown() thread t is
    sent,           \* sent[c]: how many sends of c the connection accepted
    removal,        \* the server's removal of the connection
    destroyed,      \* has connectDestroyed() run?
    downs           \* how often the user was told that it is disconnected

vars == <<usage, state, events, outputBuffer, socket, received, finSent, peer,
          queue, loopPc, pc, sent, removal, destroyed, downs>>

\* Everything but the program counters, the queue and what SendInLoop changes.
lifeVars == <<usage, finSent, peer, received, removal, destroyed, downs>>

Threads == Callers \ {"loop"}
Garbage == [by |-> "nobody", at |-> 0]
Bytes == [by: Callers, at: 1 .. MaxSends * MessageLen] \cup {Garbage}

\* The n-th message of c.
Message(c, n) ==
    [i \in 1 .. MessageLen |-> [by |-> c, at |-> (n - 1) * MessageLen + i]]

Functor(op) == [op |-> op, data |-> <<>>]
Ops == {"connectEstablished", "send", "shutdown", "writeComplete",
        "highWaterMark", "connectDestroyed"}

(* What the process can die of: a failed assert(), the default action of a
   signal, an exception nobody catches, an access to a destroyed object.   *)
Deaths == {"assert", "SIGPIPE", "bad_function_call", "use_after_free"}
Alive == loopPc \notin Deaths

TypeOK ==
    /\ usage \in Usages
    /\ state \in {"kConnecting", "kConnected", "kDisconnecting",
                  "kDisconnected"}
    /\ events \subseteq {"read", "write"}
    /\ {outputBuffer, socket, received} \subseteq Seq(Bytes)
    /\ Len(socket) <= SocketSendBuf
    /\ finSent \in BOOLEAN
    /\ peer \in {"open", "closed", "reset", "gone"}
    /\ queue \in Seq([op: Ops, data: Seq(Bytes)])
    /\ loopPc \in {"idle", "callback"} \cup Deaths
    /\ pc \in [Threads -> {"idle", "send", "setState", "queueShutdown"}]
    /\ sent \in [Callers -> 0 .. MaxSends]
    /\ removal \in {"none", "requested", "queued", "serverGone"}
    /\ destroyed \in BOOLEAN
    /\ downs \in Nat

\* TcpServer::newConnection() has just queued connectEstablished().
Init ==
    /\ usage \in Usages
    /\ state = "kConnecting"
    /\ events = {}
    /\ outputBuffer = <<>> /\ socket = <<>> /\ received = <<>>
    /\ finSent = FALSE
    /\ peer = "open"
    /\ queue = <<Functor("connectEstablished")>>
    /\ loopPc = "idle"
    /\ pc = [t \in Threads |-> "idle"]
    /\ sent = [c \in Callers |-> 0]
    /\ removal = "none"
    /\ destroyed = FALSE
    /\ downs = 0

-----------------------------------------------------------------------------
(* Sending, in the I/O loop.  The operators of this part constrain          *)
(* <<events, outputBuffer, socket, queue, loopPc>>; q is the queue without   *)
(* the functor that runs, if one does.                                       *)

IsWriting == "write" \in events
Room == SocketSendBuf - Len(socket)

\* A write() to the socket fails with EPIPE, and raises SIGPIPE, which nothing
\* in the program ignores.
Broken == finSent \/ peer \in {"reset", "gone"}

QueueWriteComplete(q) ==
    IF HasWriteComplete THEN Append(q, Functor("writeComplete")) ELSE q

\* Mutant: the channel is not told to watch for room in the socket.
BufferOutputSilently(rest, q) ==
    /\ outputBuffer' = outputBuffer \o rest
    /\ queue' = q
    /\ UNCHANGED <<events, loopPc>>

\* What write() did not take is appended to the output buffer, and the channel
\* watches for room in the socket.
BufferOutput(rest, q) ==
    LET newLen == Len(outputBuffer) + Len(rest)
    IN  /\ outputBuffer' = outputBuffer \o rest
        /\ events' = events \cup {"write"}
        /\ queue' = IF newLen >= HighWaterMark
                       /\ Len(outputBuffer) < HighWaterMark /\ HighWaterMark # 0
                      THEN Append(q, Functor("highWaterMark"))
                      ELSE q
        /\ UNCHANGED loopPc

\* Mutant: a message is written at once although older ones are buffered.
MayWriteAlways == TRUE

\* "表示channel_第一次开始写数据，而且缓冲区没有待发送数据"
MayWriteDirectly == ~IsWriting /\ outputBuffer = <<>>

\* Mutant: the free space of the socket is ignored.
WriteDirectlyOverfull(data, q) ==
    /\ socket' = socket \o data
    /\ queue' = QueueWriteComplete(q)
    /\ UNCHANGED <<events, outputBuffer, loopPc>>

\* write() takes a part of the data, or all of it.
WriteDirectly(data, q) ==
    \E n \in 1 .. Len(data) :
        /\ n <= Room
        /\ socket' = socket \o SubSeq(data, 1, n)
        /\ IF n = Len(data)
             THEN /\ queue' = QueueWriteComplete(q)
                  /\ UNCHANGED <<events, outputBuffer, loopPc>>
             ELSE BufferOutput(SubSeq(data, n + 1, Len(data)), q)

\* write() returns -1 with EWOULDBLOCK.  nwrote is a size_t, so nwrote >= 0
\* holds, remaining becomes len + 1, and what is buffered starts at data - 1.
WriteWouldBlock(data, q) ==
    /\ usage.fills
    /\ Room = 0
    /\ BufferOutput(<<Garbage>> \o data, q)
    /\ UNCHANGED socket

SendInLoop(data, q) ==
    \/ /\ state = "kDisconnected"
       /\ queue' = q
       /\ UNCHANGED <<events, outputBuffer, socket, loopPc>>
    \/ /\ state # "kDisconnected"
       /\ MayWriteDirectly
       /\ IF Broken
            THEN /\ loopPc' = "SIGPIPE"
                 /\ queue' = q
                 /\ UNCHANGED <<events, outputBuffer, socket>>
            ELSE WriteDirectly(data, q) \/ WriteWouldBlock(data, q)
    \/ /\ state # "kDisconnected"
       /\ ~MayWriteDirectly
       /\ BufferOutput(data, q)
       /\ UNCHANGED socket

\* Mutant: the write side is shut down whatever is left to write.
ShutdownNow == finSent' = TRUE

ShutdownInLoop == finSent' = (finSent \/ ~IsWriting)

-----------------------------------------------------------------------------
(* Functors of the I/O loop.                                               *)

RunsFunctor(op) ==
    /\ loopPc = "idle"
    /\ queue # <<>>
    /\ Head(queue).op = op
    /\ queue' = Tail(queue)

ConnectEstablished ==
    /\ RunsFunctor("connectEstablished")
    /\ state' = "kConnected"
    /\ events' = events \cup {"read"}
    /\ loopPc' = "callback"
    /\ UNCHANGED <<lifeVars, outputBuffer, socket, pc, sent>>

\* sendInLoop() is bound to a raw this: if the connection may have been freed,
\* it may run on freed memory; if somebody still holds it, it finds it closed.
RunSend ==
    /\ loopPc = "idle"
    /\ queue # <<>>
    /\ Head(queue).op = "send"
    /\ \/ SendInLoop(Head(queue).data, Tail(queue))
       \/ /\ destroyed
          /\ loopPc' = "use_after_free"
          /\ UNCHANGED <<events, outputBuffer, socket, queue>>
    /\ UNCHANGED <<lifeVars, state, pc, sent>>

\* So is shutdownInLoop().
RunShutdown ==
    /\ RunsFunctor("shutdown")
    /\ \/ ShutdownInLoop /\ UNCHANGED loopPc
       \/ destroyed /\ loopPc' = "use_after_free" /\ UNCHANGED finSent
    /\ UNCHANGED <<usage, state, events, outputBuffer, socket, received, peer,
                   pc, sent, removal, destroyed, downs>>

RunWriteComplete ==
    /\ RunsFunctor("writeComplete")
    /\ loopPc' = "callback"
    /\ UNCHANGED <<lifeVars, state, events, outputBuffer, socket, pc, sent>>

\* The functor is queued whether or not highWaterMarkCallback_ was set; calling
\* an empty std::function throws.
RunHighWaterMark ==
    /\ RunsFunctor("highWaterMark")
    /\ loopPc' = IF usage.onHighWater THEN "callback" ELSE "bad_function_call"
    /\ UNCHANGED <<lifeVars, state, events, outputBuffer, socket, pc, sent>>

\* Mutant: the channel's events are not disabled before it is removed.
ConnectDestroyedEnabled ==
    /\ RunsFunctor("connectDestroyed")
    /\ IF state = "kConnected"
         THEN state' = "kDisconnected" /\ downs' = downs + 1
         ELSE UNCHANGED <<state, downs>>
    /\ loopPc' = IF events = {} THEN "idle" ELSE "assert"
    /\ destroyed' = TRUE
    /\ UNCHANGED <<usage, events, outputBuffer, socket, received, finSent, peer,
                   pc, sent, removal>>

\* connectDestroyed().  Its callback finds the connection closed: send() and
\* shutdown() do nothing there.  Channel::remove() asserts that no event is
\* enabled.
ConnectDestroyed ==
    /\ RunsFunctor("connectDestroyed")
    /\ IF state = "kConnected"
         THEN state' = "kDisconnected" /\ events' = {} /\ downs' = downs + 1
         ELSE UNCHANGED <<state, events, downs>>
    /\ loopPc' = IF events' = {} THEN "idle" ELSE "assert"
    /\ destroyed' = TRUE
    /\ UNCHANGED <<usage, outputBuffer, socket, received, finSent, peer, pc,
                   sent, removal>>

-----------------------------------------------------------------------------
(* Events of the channel.                                                  *)

\* Input: the message callback is called.
HandleRead ==
    /\ loopPc = "idle"
    /\ "read" \in events
    /\ peer = "open"
    /\ loopPc' = "callback"
    /\ UNCHANGED <<lifeVars, state, events, outputBuffer, socket, queue, pc,
                   sent>>

\* read() fails after a reset: handleError() takes the error off the socket,
\* logs it, and the connection stays.
HandleReadError ==
    /\ loopPc = "idle"
    /\ "read" \in events
    /\ peer = "reset"
    /\ peer' = "gone"
    /\ UNCHANGED <<usage, state, events, outputBuffer, socket, received,
                   finSent, queue, loopPc, pc, sent, removal, destroyed, downs>>

\* Mutant: the channel stays enabled when the connection closes.
HandleCloseEnabled ==
    /\ loopPc = "idle"
    /\ "read" \in events
    /\ peer \in {"closed", "gone"}
    /\ state' = "kDisconnected"
    /\ downs' = downs + 1
    /\ removal' = IF removal = "none" THEN "requested" ELSE removal
    /\ UNCHANGED <<usage, events, outputBuffer, socket, received, finSent, peer,
                   queue, loopPc, pc, sent, destroyed>>

\* read() returns 0: handleClose().  The connection callback finds the
\* connection closed; the close callback is a method of the server.
HandleClose ==
    /\ loopPc = "idle"
    /\ "read" \in events
    /\ peer \in {"closed", "gone"}
    /\ state' = "kDisconnected"
    /\ events' = {}
    /\ downs' = downs + 1
    /\ IF removal = "serverGone"
         THEN loopPc' = "use_after_free" /\ UNCHANGED removal
         ELSE removal' = "requested" /\ UNCHANGED loopPc
    /\ UNCHANGED <<usage, outputBuffer, socket, received, finSent, peer, queue,
                   pc, sent, destroyed>>

\* Mutant: the channel goes on watching for room after the last byte.
OutputWrittenStillWriting ==
    /\ UNCHANGED events
    /\ queue' = QueueWriteComplete(queue)
    /\ finSent' = (finSent \/ state = "kDisconnecting")

\* Mutant: a shutdown() that found output pending is forgotten.
OutputWrittenNoShutdown ==
    /\ events' = events \ {"write"}
    /\ queue' = QueueWriteComplete(queue)
    /\ UNCHANGED finSent

\* The output buffer has become empty: a shutdown() that waited for it, its
\* ~isWriting() now true, takes place.
OutputWritten ==
    /\ events' = events \ {"write"}
    /\ queue' = QueueWriteComplete(queue)
    /\ finSent' = (finSent \/ state = "kDisconnecting")

\* There is room in the socket, or an error on it.
HandleWrite ==
    /\ loopPc = "idle"
    /\ IsWriting
    /\ \/ /\ Broken
          /\ loopPc' = "SIGPIPE"
          /\ UNCHANGED <<events, outputBuffer, socket, finSent, queue>>
       \/ /\ ~Broken
          /\ \E n \in 1 .. Len(outputBuffer) :
                /\ n <= Room
                /\ socket' = socket \o SubSeq(outputBuffer, 1, n)
                /\ outputBuffer' = SubSeq(outputBuffer, n + 1, Len(outputBuffer))
          /\ IF outputBuffer' = <<>> THEN OutputWritten
                                     ELSE UNCHANGED <<events, finSent, queue>>
          /\ UNCHANGED loopPc
    /\ UNCHANGED <<usage, state, received, peer, pc, sent, removal, destroyed,
                   downs>>

-----------------------------------------------------------------------------
(* The user's callbacks in the I/O loop.                                   *)

\* send(): the data goes to sendInLoop() at once.
LoopSend ==
    /\ loopPc = "callback"
    /\ "loop" \in usage.send
    /\ sent["loop"] < MaxSends
    /\ state = "kConnected"
    /\ sent' = [sent EXCEPT !["loop"] = @ + 1]
    /\ SendInLoop(Message("loop", sent'["loop"]), queue)
    /\ UNCHANGED <<lifeVars, state, pc>>

MayShutdown == state = "kConnected"

LoopShutdown ==
    /\ loopPc = "callback"
    /\ "loop" \in usage.shutdown
    /\ MayShutdown
    /\ state' = "kDisconnecting"
    /\ ShutdownInLoop
    /\ UNCHANGED <<usage, events, outputBuffer, socket, received, peer, queue,
                   loopPc, pc, sent, removal, destroyed, downs>>

Return ==
    /\ loopPc = "callback"
    /\ loopPc' = "idle"
    /\ UNCHANGED <<lifeVars, state, events, outputBuffer, socket, queue, pc,
                   sent>>

-----------------------------------------------------------------------------
(* The other threads that use the connection.                              *)

restVars == <<lifeVars, events, outputBuffer, socket, loopPc>>

At(t, from, to) ==
    /\ Alive
    /\ pc[t] = from
    /\ pc' = [pc EXCEPT ![t] = to]

\* send(Buffer*) reads the state, ...
SendCheck(t) ==
    /\ At(t, "idle", "send")
    /\ t \in usage.send
    /\ sent[t] < MaxSends
    /\ state = "kConnected"
    /\ UNCHANGED <<restVars, state, queue, sent>>

\* ... and queues a copy of the data for sendInLoop().
SendQueue(t) ==
    /\ At(t, "send", "idle")
    /\ sent' = [sent EXCEPT ![t] = @ + 1]
    /\ queue' = Append(queue, [op |-> "send", data |-> Message(t, sent'[t])])
    /\ UNCHANGED <<restVars, state>>

\* shutdown() reads the state, ...
ShutdownCheck(t) ==
    /\ At(t, "idle", "setState")
    /\ t \in usage.shutdown
    /\ state = "kConnected"
    /\ UNCHANGED <<restVars, state, queue, sent>>

\* ... sets it, ...
ShutdownSet(t) ==
    /\ At(t, "setState", "queueShutdown")
    /\ state' = "kDisconnecting"
    /\ UNCHANGED <<restVars, queue, sent>>

\* ... and queues shutdownInLoop().
ShutdownQueue(t) ==
    /\ At(t, "queueShutdown", "idle")
    /\ queue' = Append(queue, Functor("shutdown"))
    /\ UNCHANGED <<restVars, state, sent>>

-----------------------------------------------------------------------------
(* The server, in its own loop, and the peer.                              *)

connVars == <<usage, state, events, outputBuffer, finSent, loopPc, pc, sent,
              destroyed, downs>>

\* removeConnectionInLoop() hands connectDestroyed() to the I/O loop.
ServerRemoves ==
    /\ Alive
    /\ removal = "requested"
    /\ removal' = "queued"
    /\ queue' = Append(queue, Functor("connectDestroyed"))
    /\ UNCHANGED <<connVars, socket, received, peer>>

\* ~TcpServer() does so for each connection of its map.
ServerDies ==
    /\ Alive
    /\ usage.serverDies
    /\ removal \in {"none", "requested"}
    /\ removal' = "serverGone"
    /\ queue' = Append(queue, Functor("connectDestroyed"))
    /\ UNCHANGED <<connVars, socket, received, peer>>

PeerReads ==
    /\ Alive
    /\ peer = "open"
    /\ socket # <<>>
    /\ received' = Append(received, Head(socket))
    /\ socket' = Tail(socket)
    /\ UNCHANGED <<connVars, queue, peer, removal>>

PeerCloses ==
    /\ Alive
    /\ peer = "open"
    /\ usage.peer \in {"closes", "resets"}
    /\ peer' = "closed"
    /\ UNCHANGED <<connVars, queue, socket, received, removal>>

\* Data that reaches a closed peer is answered with a reset.
PeerResets ==
    /\ Alive
    /\ peer = "closed"
    /\ usage.peer = "resets"
    /\ socket # <<>>
    /\ peer' = "reset"
    /\ socket' = <<>>
    /\ UNCHANGED <<connVars, queue, received, removal>>

-----------------------------------------------------------------------------
RunFunctor ==
    \/ ConnectEstablished
    \/ RunSend
    \/ RunShutdown
    \/ RunWriteComplete
    \/ RunHighWaterMark
    \/ ConnectDestroyed

HandleEof == HandleReadError \/ HandleClose

UserCode == LoopSend \/ LoopShutdown

ThreadStarts(t) == SendCheck(t) \/ ShutdownCheck(t)

ThreadGoesOn(t) == SendQueue(t) \/ ShutdownSet(t) \/ ShutdownQueue(t)

Environment == ServerDies \/ PeerCloses \/ PeerResets

Next ==
    \/ RunFunctor
    \/ HandleRead
    \/ HandleEof
    \/ HandleWrite
    \/ UserCode
    \/ Return
    \/ \E t \in Threads : ThreadStarts(t) \/ ThreadGoesOn(t)
    \/ ServerRemoves
    \/ PeerReads
    \/ Environment

(* Each iteration of the loop polls, handles every channel that is ready and
   then runs the functors queued before: whatever is ready again and again is
   served.  Callbacks return, calls in progress go on, the server's loop runs,
   the peer reads what it is sent.                                         *)
Fairness ==
    /\ SF_vars(RunFunctor) /\ SF_vars(HandleEof) /\ SF_vars(HandleWrite)
    /\ WF_vars(Return)
    /\ \A t \in Threads : WF_vars(ThreadGoesOn(t))
    /\ WF_vars(ServerRemoves) /\ WF_vars(PeerReads)

Spec == Init /\ [][Next]_vars /\ Fairness

-----------------------------------------------------------------------------
(* Properties.                                                             *)

Stream == received \o socket \o outputBuffer

(* The usages the connection is up to.  A thread other than the loop's may send
   only on a connection that stays open and that nobody shuts down; it may shut
   down only one whose peer stays; and a server may be destroyed only while its
   connections are used by nobody but their own callbacks and none is being
   closed.                                                                 *)
Orderly ==
    /\ usage.onHighWater
    /\ usage.peer # "resets"
    /\ \/ usage.send \subseteq {"loop"}
       \/ usage.peer = "stays" /\ usage.shutdown = {} /\ ~usage.serverDies
    /\ usage.shutdown \subseteq {"loop"} \/ usage.peer = "stays"
    /\ usage.serverDies => usage.peer = "stays" /\ usage.shutdown = {}

\* sendInLoop() and handleWrite(), in every usage: the peer is sent each
\* caller's bytes in the order of its calls and none twice, whether write()
\* took them or the output buffer did.
StreamInOrder ==
    \A i, j \in DOMAIN Stream :
        i < j /\ Stream[i].by = Stream[j].by /\ Stream[i].by \in Callers =>
            Stream[i].at < Stream[j].at

\* What write() does not take "需要保存到缓冲区当中": the peer is sent nothing that
\* no caller sent.
NoGarbage == \A i \in DOMAIN Stream : Stream[i].by \in Callers

\* shutdown() closes the write side only when everything sent before it has
\* been handed to the kernel, whoever still has output pending.
FinAfterData ==
    Orderly /\ ~usage.fills /\ finSent /\ state # "kDisconnected" =>
        LET taken == received \o socket
        IN  \A c \in Callers : \A n \in 1 .. sent[c] * MessageLen :
                \E i \in DOMAIN taken : taken[i] = [by |-> c, at |-> n]

\* "一旦发送完outputBuffer_的数据，就停止观察writable事件避免busyloop": EPOLLOUT is
\* watched exactly while there is output; else the output would be stuck, or
\* the loop would spin.
WritingIffOutput ==
    Orderly /\ state # "kDisconnected" => (IsWriting <=> outputBuffer # <<>>)

\* The process survives: no assert() fails, no write() to a closed connection
\* raises SIGPIPE, no empty callback is called, no functor outlives what it is
\* bound to.
Survives == Alive

\* It survives every orderly usage.
SurvivesOrderlyUse == Orderly => Alive

\* The user is told once that a connection is down, by handleClose() or by
\* connectDestroyed(), and never not at all.
ToldOnce == downs <= 1 /\ (destroyed /\ Alive => downs = 1)

OfCaller(c, bytes) == SelectSeq(bytes, LAMBDA b : b.by = c)

\* What a caller sent reaches the peer, unless the connection goes down.
Delivered ==
    \A c \in Callers : \A n \in 1 .. MaxSends :
        Orderly /\ sent[c] = n ~>
                       \/ Len(OfCaller(c, received)) >= n * MessageLen
                       \/ state = "kDisconnected"

\* A shutdown() closes the write side in the end, however much output there is
\* to write first.
ShutdownCompletes ==
    Orderly /\ state = "kDisconnecting" ~>
        finSent \/ state = "kDisconnected"
=============================================================================
