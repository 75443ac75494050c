------------------------------ MODULE TcpServer ------------------------------
(***************************************************************************)
(* One mymuduo::TcpServer with its Acceptor, its EventLoopThreadPool and   *)
(* the registration of its connections in the pollers of their loops: from *)
(* start() to ~TcpServer(), a connection from accept() to the destruction  *)
(* of its TcpConnection, which closes the descriptor.                      *)
(*                                                                         *)
(* Loop 0 is the base loop, loops 1, 2, ... are those of the pool.  A loop *)
(* is the TaskQueue that EventLoop implements: it runs the oldest queued   *)
(* functor or handles an event of a channel.  What a connection sends is   *)
(* TcpConnection's; here it is connected, shut down or closed.             *)
(***************************************************************************)
EXTENDS Naturals, Sequences, FiniteSets, Functions

CONSTANTS
    MaxConns,       \* bound: how many clients connect
    Fds,            \* the descriptors accept() can return
    ThreadNums,     \* the arguments of setThreadNum() to consider
    NoFd, NoConn    \* "none" of each kind

ASSUME TcpServerAssumption ==
    /\ MaxConns \in Nat
    /\ ThreadNums \subseteq Nat /\ ThreadNums # {}
    /\ NoFd \notin Fds
    /\ NoConn \notin 1 .. MaxConns

Conns == 1 .. MaxConns
Loops == UNION {0 .. n : n \in ThreadNums}

VARIABLES
    numThreads,     \* threadPool_->numThreads_
    initCallback,   \* has threadInitCallback_ been set?
    server,         \* where the server is in its life
    baseRuns,       \* does the base loop still run?
    thread,         \* where the thread of each of the pool's loops is
    loops,          \* threadPool_->loops_
    next,           \* threadPool_->next_
    nextConnId,     \* nextConnId_
    connections,    \* the connections in connections_
    loopOf,         \* the loop each connection was given
    fdOf,           \* its descriptor, NoFd before and after
    state,          \* its state_
    peerClosed,     \* the connections whose client has closed
    queue,          \* the functors queued in each loop
    channels,       \* the channels_ of each loop's poller
    interest,       \* the descriptors in each loop's epoll set
    calls,          \* history: how often each connection was established
                    \* and destroyed
    crash           \* what killed the process, or "none"

poolVars == <<numThreads, initCallback, thread, loops>>
connVars == <<loopOf, nextConnId, next>>
pollVars == <<channels, interest>>
vars == <<poolVars, connVars, pollVars, server, baseRuns, connections, fdOf,
          state, peerClosed, queue, calls, crash>>

ServerStates == {"created", "starting", "listening", "dying", "destroyed"}
ThreadStates == {"none", "created", "published", "looping"}
ConnStates == {"none", "kConnecting", "kConnected", "kDisconnecting",
               "kDisconnected"}
Functor(op, c) == [op |-> op, conn |-> c]
Functors == [op: {"connectEstablished", "removeConnectionInLoop",
                  "connectDestroyed"}, conn: Conns]

TypeOK ==
    /\ numThreads \in ThreadNums /\ initCallback \in BOOLEAN
    /\ server \in ServerStates /\ baseRuns \in BOOLEAN
    /\ thread \in [Loops \ {0} -> ThreadStates]
    /\ loops \in Seq({l \in Loops \ {0} : thread[l] \in {"published", "looping"}})
    /\ next \in Nat /\ (loops # <<>> => next < Len(loops))
    /\ nextConnId \in 1 .. MaxConns + 1
    /\ connections \subseteq 1 .. nextConnId - 1
    /\ loopOf \in [Conns -> Loops]
    /\ fdOf \in [Conns -> Fds \cup {NoFd}]
    /\ state \in [Conns -> ConnStates]
    /\ peerClosed \subseteq Conns
    /\ queue \in [Loops -> Seq(Functors)]
    /\ channels \in [Loops -> [Fds -> Conns \cup {NoConn}]]
    /\ interest \in [Loops -> SUBSET Fds]
    /\ calls \in [Conns -> [established: Nat, destroyed: Nat]]
    /\ crash \in {"none", "abort", "assert", "use_after_free",
                  "bad_function_call"}

Init ==
    /\ numThreads \in ThreadNums /\ initCallback \in BOOLEAN
    /\ server = "created" /\ baseRuns = TRUE
    /\ thread = [l \in Loops \ {0} |-> "none"]
    /\ loops = <<>> /\ next = 0 /\ nextConnId = 1
    /\ connections = {}
    /\ loopOf = [c \in Conns |-> 0]
    /\ fdOf = [c \in Conns |-> NoFd]
    /\ state = [c \in Conns |-> "none"]
    /\ peerClosed = {}
    /\ queue = [l \in Loops |-> <<>>]
    /\ channels = [l \in Loops |-> [f \in Fds |-> NoConn]]
    /\ interest = [l \in Loops |-> {}]
    /\ calls = [c \in Conns |-> [established |-> 0, destroyed |-> 0]]
    /\ crash = "none"

Alive == crash = "none"

\* A system call has failed and the code logs it as fatal: the logger aborts.
\* What else the step had changed by then is gone with the process.
Aborts ==
    /\ crash' = "abort"
    /\ UNCHANGED <<poolVars, connVars, pollVars, server, baseRuns, connections,
                   fdOf, state, peerClosed, queue, calls>>

-----------------------------------------------------------------------------
(* start(): the threads of the pool, one after the other.                  *)

startVars == <<connVars, pollVars, numThreads, initCallback, baseRuns,
               connections, fdOf, state, peerClosed, queue, calls>>

\* The thread that startLoop() is to start, or waits for.
NextThread == Len(loops) + 1

Start ==
    /\ Alive
    /\ server = "created"
    /\ server' = "starting"
    /\ UNCHANGED <<startVars, thread, loops, crash>>

\* startLoop() starts the thread, ...
StartThread ==
    /\ Alive
    /\ server = "starting"
    /\ NextThread <= numThreads
    /\ thread[NextThread] = "none"
    /\ thread' = [thread EXCEPT ![NextThread] = "created"]
    /\ UNCHANGED <<startVars, server, loops, crash>>

\* ... the thread constructs its EventLoop and sets loop_, ...
PublishLoop(l) ==
    /\ Alive
    /\ thread[l] = "created"
    /\ thread' = [thread EXCEPT ![l] = "published"]
    /\ UNCHANGED <<startVars, server, loops, crash>>

\* (which may get no epoll instance, no eventfd, or not watch it)
LoopFails(l) ==
    /\ Alive
    /\ thread[l] = "created"
    /\ Aborts

\* ... and enters loop(), ...
EnterLoop(l) ==
    /\ Alive
    /\ thread[l] = "published"
    /\ thread' = [thread EXCEPT ![l] = "looping"]
    /\ UNCHANGED <<startVars, server, loops, crash>>

\* ... while startLoop() waits until loop_ is set.
StartLoopReturns ==
    /\ Alive
    /\ server = "starting"
    /\ NextThread <= numThreads
    /\ thread[NextThread] \in {"published", "looping"}
    /\ loops' = Append(loops, NextThread)
    /\ UNCHANGED <<startVars, server, thread, crash>>

\* Without threads the pool calls the init callback itself, set or not; then
\* the acceptor listens.
Listen ==
    /\ Alive
    /\ server = "starting"
    /\ Len(loops) = numThreads
    /\ IF numThreads = 0 /\ ~initCallback
         THEN crash' = "bad_function_call" /\ UNCHANGED server
         ELSE server' = "listening" /\ UNCHANGED crash
    /\ UNCHANGED <<startVars, thread, loops>>

\* listen() fails, or epoll_ctl() to watch the socket.
ListenFails ==
    /\ Alive
    /\ server = "starting"
    /\ Len(loops) = numThreads
    /\ numThreads = 0 => initCallback
    /\ Aborts

-----------------------------------------------------------------------------
(* What connectEstablished() and connectDestroyed() do, with what they call  *)
(* of EpollPoller::updateChannel() and removeChannel().  They constrain      *)
(* <<state, channels, interest, calls, crash>>.                              *)

\* A kNew channel is added: its descriptor must not be in channels_.
Establish(c, l, fd) ==
    /\ state' = [state EXCEPT ![c] = "kConnected"]
    /\ crash' = IF channels[l][fd] = NoConn THEN crash ELSE "assert"
    /\ channels' = [channels EXCEPT ![l][fd] = c]
    /\ interest' = [interest EXCEPT ![l] = @ \cup {fd}]
    /\ calls' = [calls EXCEPT ![c].established = @ + 1]

\* Mutant: the channel stays in channels_.
UnregisteredNot(l, fd) == channels

Unregistered(l, fd) == [channels EXCEPT ![l][fd] = NoConn]

\* Only a connection that is kConnected has its events disabled, while
\* Channel::remove() asserts that none is enabled.
Destroy(c, l, fd) ==
    /\ state' = [state EXCEPT ![c] =
                    IF @ = "kConnected" THEN "kDisconnected" ELSE @]
    /\ crash' = IF state[c] # "kConnected" /\ fd \in interest[l]
                  THEN "assert" ELSE crash
    /\ channels' = Unregistered(l, fd)
    /\ interest' = [interest EXCEPT ![l] = @ \ {fd}]
    /\ calls' = [calls EXCEPT ![c].destroyed = @ + 1]

-----------------------------------------------------------------------------
(* The base loop: accepting.                                               *)

\* Is loop l between two callbacks?
Running(l) ==
    /\ Alive
    /\ IF l = 0 THEN baseRuns /\ server \in {"listening", "destroyed"}
                ELSE thread[l] = "looping"

OpenFds == Range(fdOf) \ {NoFd}

\* Mutant: the index wraps one too late.
NextIndexLate == IF loops = <<>> THEN next ELSE (next + 1) % (Len(loops) + 1)

\* getNextLoop(): round robin, or the base loop if there is no other.
NextIndex == IF loops = <<>> THEN next ELSE (next + 1) % Len(loops)
NextLoop == IF loops = <<>> THEN 0 ELSE loops[next + 1]

Entered(c) == connections \cup {c}

\* newConnection().  In a server without threads connectEstablished() runs at
\* once.
NewConnection(fd) ==
    /\ loopOf' = [loopOf EXCEPT ![nextConnId] = NextLoop]
    /\ next' = NextIndex
    /\ nextConnId' = nextConnId + 1
    /\ fdOf' = [fdOf EXCEPT ![nextConnId] = fd]
    /\ connections' = Entered(nextConnId)
    /\ IF NextLoop = 0
         THEN Establish(nextConnId, 0, fd) /\ UNCHANGED queue
         ELSE /\ state' = [state EXCEPT ![nextConnId] = "kConnecting"]
              /\ queue' = [queue EXCEPT ![NextLoop] = Append(@,
                              Functor("connectEstablished", nextConnId))]
              /\ UNCHANGED <<pollVars, calls, crash>>

ClientWaits == Running(0) /\ server = "listening" /\ nextConnId <= MaxConns

\* A client has connected: Acceptor::handleRead().
Accept(fd) ==
    /\ ClientWaits
    /\ fd \notin OpenFds
    /\ NewConnection(fd)
    /\ UNCHANGED <<poolVars, server, baseRuns, peerClosed>>

\* accept4() fails for whatever reason: no descriptor is left, or the client is
\* gone again.  Or newConnection() fails: getsockname(), or, in a server without
\* threads, epoll_ctl() to watch the connection.
AcceptFails ==
    /\ Running(0)
    /\ server = "listening"
    /\ Aborts

-----------------------------------------------------------------------------
(* The loop of a connection.                                               *)

Runs(op, l, c) ==
    /\ Running(l)
    /\ queue[l] # <<>>
    /\ Head(queue[l]) = Functor(op, c)

Popped(l) == [queue EXCEPT ![l] = Tail(@)]

ConnectEstablished(l, c) ==
    /\ Runs("connectEstablished", l, c)
    /\ Establish(c, l, fdOf[c])
    /\ queue' = Popped(l)
    /\ UNCHANGED <<poolVars, connVars, server, baseRuns, connections, fdOf,
                   peerClosed>>

\* epoll_ctl() to watch the connection fails.
EstablishFails(l, c) ==
    /\ Runs("connectEstablished", l, c)
    /\ channels[l][fdOf[c]] = NoConn
    /\ Aborts

ConnectDestroyed(l, c) ==
    /\ Runs("connectDestroyed", l, c)
    /\ Destroy(c, l, fdOf[c])
    /\ queue' = Popped(l)
    /\ UNCHANGED <<poolVars, connVars, server, baseRuns, connections, fdOf,
                   peerClosed>>

\* A callback of the user's shuts the connection down.
Shutdown(c) ==
    /\ Running(loopOf[c])
    /\ state[c] = "kConnected"
    /\ state' = [state EXCEPT ![c] = "kDisconnecting"]
    /\ UNCHANGED <<poolVars, connVars, pollVars, server, baseRuns, connections,
                   fdOf, peerClosed, queue, calls, crash>>

\* Mutant: the connection stays in connections_.
ErasedNot(c) == connections

Erased(c) == connections \ {c}

\* removeConnectionInLoop(): q are the queues without the functor that runs.
Remove(c, q) ==
    /\ connections' = Erased(c)
    /\ queue' = [q EXCEPT ![loopOf[c]] =
                    Append(@, Functor("connectDestroyed", c))]

\* The client has closed: handleClose(), whose close callback is bound to the
\* server.  In the base loop removeConnectionInLoop() runs at once.
HandleClose(c) ==
    LET l == loopOf[c]
        fd == fdOf[c]
    IN  /\ Running(l)
        /\ c \in peerClosed
        /\ fd \in interest[l] /\ channels[l][fd] = c
        /\ state' = [state EXCEPT ![c] = "kDisconnected"]
        /\ interest' = [interest EXCEPT ![l] = @ \ {fd}]
        /\ IF server = "destroyed"
             THEN crash' = "use_after_free" /\ UNCHANGED <<connections, queue>>
             ELSE /\ IF l = 0
                       THEN Remove(c, queue)
                       ELSE /\ queue' = [queue EXCEPT ![0] = Append(@,
                                           Functor("removeConnectionInLoop", c))]
                            /\ UNCHANGED connections
                  /\ UNCHANGED crash
        /\ UNCHANGED <<poolVars, connVars, channels, server, baseRuns, fdOf,
                       peerClosed, calls>>

\* removeConnectionInLoop() as a functor of the base loop, with a raw this.
RemoveConnectionInLoop(c) ==
    /\ Runs("removeConnectionInLoop", 0, c)
    /\ IF server = "destroyed"
         THEN crash' = "use_after_free" /\ UNCHANGED <<connections, queue>>
         ELSE Remove(c, Popped(0)) /\ UNCHANGED crash
    /\ UNCHANGED <<poolVars, connVars, pollVars, server, baseRuns, fdOf, state,
                   peerClosed, calls>>

\* Who holds a TcpConnectionPtr: connections_ and the functors bound to it.
Held(c) ==
    \/ c \in connections
    \/ \E l \in Loops : \E i \in DOMAIN queue[l] : queue[l][i].conn = c

\* The last TcpConnectionPtr is dropped, that of a functor with the batch it
\* was in: ~TcpConnection() closes the descriptor.
Release(c) ==
    /\ Alive
    /\ fdOf[c] # NoFd
    /\ ~Held(c)
    /\ fdOf' = [fdOf EXCEPT ![c] = NoFd]
    /\ UNCHANGED <<poolVars, connVars, pollVars, server, baseRuns, connections,
                   state, peerClosed, queue, calls, crash>>

-----------------------------------------------------------------------------
(* ~TcpServer(), in the base loop's thread.                                *)

\* From a functor of the base loop, or after loop() has returned.
BeginDestroy ==
    /\ Running(0)
    /\ server = "listening"
    /\ server' = "dying"
    /\ baseRuns' \in BOOLEAN
    /\ UNCHANGED <<poolVars, connVars, pollVars, connections, fdOf, state,
                   peerClosed, queue, calls, crash>>

\* For each connection, in any order, runInLoop(connectDestroyed).
DestroyNext(c) ==
    /\ Alive
    /\ server = "dying"
    /\ c \in connections
    /\ connections' = connections \ {c}
    /\ IF loopOf[c] = 0
         THEN Destroy(c, 0, fdOf[c]) /\ UNCHANGED queue
         ELSE /\ queue' = [queue EXCEPT ![loopOf[c]] =
                              Append(@, Functor("connectDestroyed", c))]
              /\ UNCHANGED <<state, pollVars, calls, crash>>
    /\ UNCHANGED <<poolVars, connVars, server, baseRuns, fdOf, peerClosed>>

EndDestroy ==
    /\ Alive
    /\ server = "dying"
    /\ connections = {}
    /\ server' = "destroyed"
    /\ UNCHANGED <<poolVars, connVars, pollVars, baseRuns, connections, fdOf,
                   state, peerClosed, queue, calls, crash>>

PeerCloses(c) ==
    /\ Alive
    /\ c < nextConnId
    /\ c \notin peerClosed
    /\ peerClosed' = peerClosed \cup {c}
    /\ UNCHANGED <<poolVars, connVars, pollVars, server, baseRuns, connections,
                   fdOf, state, queue, calls, crash>>

-----------------------------------------------------------------------------
Startup ==
    \/ StartThread
    \/ \E l \in Loops \ {0} : PublishLoop(l) \/ EnterLoop(l)
    \/ StartLoopReturns
    \/ Listen

RunFunctor(l) ==
    \E c \in Conns :
        \/ ConnectEstablished(l, c)
        \/ ConnectDestroyed(l, c)
        \/ l = 0 /\ RemoveConnectionInLoop(c)

Failure ==
    \/ \E l \in Loops \ {0} : LoopFails(l)
    \/ ListenFails
    \/ AcceptFails
    \/ \E l \in Loops, c \in Conns : EstablishFails(l, c)

Destructor == EndDestroy \/ \E c \in Conns : DestroyNext(c)

Next ==
    \/ Start
    \/ Startup
    \/ Failure
    \/ \E fd \in Fds : Accept(fd)
    \/ \E l \in Loops : RunFunctor(l)
    \/ \E c \in Conns :
          Shutdown(c) \/ HandleClose(c) \/ Release(c) \/ PeerCloses(c)
    \/ BeginDestroy
    \/ Destructor

(* Each thread runs: start() and ~TcpServer() go on once called, and every
   loop that runs serves its queue and its channels.                       *)
Fairness ==
    /\ WF_vars(Startup)
    /\ \A l \in Loops : WF_vars(RunFunctor(l))
    /\ \A c \in Conns : WF_vars(HandleClose(c)) /\ WF_vars(Release(c))
    /\ WF_vars(Destructor)

Spec == Init /\ [][Next]_vars /\ Fairness

-----------------------------------------------------------------------------
(* Properties.                                                             *)

\* "should be called only once" of connectEstablished() and connectDestroyed(),
\* through every race of handleClose(), removeConnectionInLoop() and
\* ~TcpServer(), and in this order.
OnceEach ==
    \A c \in Conns :
        /\ calls[c].established <= 1
        /\ calls[c].destroyed <= calls[c].established

\* A poller never keeps a pointer to a destroyed connection's channel, nor
\* watches a descriptor that has been closed and may have been reused; and as long
\* as the server serves, connections_ keeps whatever is watched alive.
ChannelsLive ==
    \A l \in Loops : \A fd \in Fds :
        /\ channels[l][fd] # NoConn => fdOf[channels[l][fd]] = fd
        /\ fd \in interest[l] => channels[l][fd] # NoConn
        /\ fd \in interest[l] /\ server = "listening" =>
              channels[l][fd] \in connections

\* What the process may die of, while the server lives, dies and after, besides
\* the failure of a system call: a server without threads that has no init
\* callback; Channel::remove(), only in a connection that the server's end found
\* shut down and not yet closed by its client; and the server's memory, only used
\* for a connection of one of the pool's loops whose client closed it.
DiesOnlyOf ==
    /\ crash = "bad_function_call" => numThreads = 0 /\ ~initCallback
    /\ crash = "assert" =>
          /\ server \in {"dying", "destroyed"}
          /\ \E c \in Conns :
                state[c] = "kDisconnecting" /\ calls[c].destroyed = 1
    /\ crash = "use_after_free" =>
          /\ server = "destroyed"
          /\ \E c \in peerClosed : loopOf[c] # 0 /\ state[c] = "kDisconnected"

\* A connection whose client closes is destroyed and its descriptor closed, in
\* three hops between two loops, as long as the base loop runs.
ClosedIsReleased ==
    \A c \in Conns :
        c \in peerClosed ~> fdOf[c] = NoFd \/ ~Alive \/ ~baseRuns
=============================================================================
