------------------------------ MODULE EventLoop ------------------------------
(***************************************************************************)
(* One mymuduo::EventLoop: the thread that owns it and runs loop(), and    *)
(* the other threads, which hand it functors and may ask it to quit.       *)
(*                                                                         *)
(* A step ends wherever another thread may observe or change what the loop *)
(* shares with it: pendingFunctors_ (under mutex_), quit_ (atomic), and    *)
(* the eventfd wakeupFd_.  The calls a callback makes on its own loop are  *)
(* steps of their own between the callback's start and its return, so the  *)
(* other threads interleave with them.  Functors are opaque names, each    *)
(* submitted at most once.                                                 *)
(***************************************************************************)
EXTENDS Naturals, Sequences, Functions

CONSTANTS
    Threads,            \* the threads other than the loop's own
    Functors,           \* the callbacks that can be queued
    IoChannels,         \* the channels of the loop besides the wakeup channel
    MaxWakeupFd,        \* bound: quit() is not called above this eventfd count
    InitCallbackQueues, \* may the owner call queueInLoop() before loop()?
    QuitBeforeLoop      \* may another thread call quit() before loop()?

ASSUME EventLoopAssumption ==
    /\ MaxWakeupFd \in Nat
    /\ InitCallbackQueues \in BOOLEAN
    /\ QuitBeforeLoop \in BOOLEAN
    /\ "wakeup" \notin IoChannels

VARIABLES
    loopPc,                 \* where the owner's thread is, one of LoopPcs
    quit,                   \* quit_
    callingPendingFunctors, \* callingPendingFunctors_
    pendingFunctors,        \* pendingFunctors_
    functors,               \* what is left of doPendingFunctors()'s batch
    wakeupFd,               \* the eventfd's counter
    activeChannels,         \* the channels of activeChannels_ not yet handled
    pc,                     \* pc[t] = "wakeup": t is about to write wakeupFd_
    executed                \* history: the functors called, oldest first

vars == <<loopPc, quit, callingPendingFunctors, pendingFunctors, functors,
          wakeupFd, activeChannels, pc, executed>>

(* "created": constructed, loop() not called yet; "check": at while(!quit_);
   "poll": in poll(); "dispatch": between two handleEvent() calls;
   "handler": in user code called by a channel's handleEvent(); "run":
   between two functors; "functor": in user code called as a functor.      *)
LoopPcs == {"created", "check", "poll", "dispatch", "handler", "run",
            "functor", "stopped"}

TypeOK ==
    /\ loopPc \in LoopPcs
    /\ quit \in BOOLEAN
    /\ callingPendingFunctors \in BOOLEAN
    /\ pendingFunctors \in Seq(Functors)
    /\ functors \in Seq(Functors)
    /\ wakeupFd \in Nat
    /\ activeChannels \subseteq {"wakeup"} \cup IoChannels
    /\ pc \in [Threads -> {"idle", "wakeup"}]
    /\ executed \in Seq(Functors)

Init ==
    /\ loopPc = "created"
    /\ quit = FALSE
    /\ callingPendingFunctors = FALSE
    /\ pendingFunctors = <<>>
    /\ functors = <<>>
    /\ wakeupFd = 0
    /\ activeChannels = {}
    /\ pc = [t \in Threads |-> "idle"]
    /\ executed = <<>>

-----------------------------------------------------------------------------
(* The owner's thread.                                                     *)

\* loop() is entered; it forgets what quit_ was.
Loop ==
    /\ loopPc = "created"
    /\ loopPc' = "check"
    /\ quit' = FALSE
    /\ UNCHANGED <<callingPendingFunctors, pendingFunctors, functors,
                   wakeupFd, activeChannels, pc, executed>>

\* while (!quit_) { activeChannels_.clear(); ...
CheckQuit ==
    /\ loopPc = "check"
    /\ loopPc' = IF quit THEN "stopped" ELSE "poll"
    /\ activeChannels' = {}
    /\ UNCHANGED <<quit, callingPendingFunctors, pendingFunctors, functors,
                   wakeupFd, pc, executed>>

\* poll() comes back with channels that have events; the wakeup channel is
\* readable while the eventfd's count is positive.
PollReturn(ready) ==
    /\ loopPc = "poll"
    /\ ready # {}
    /\ "wakeup" \in ready <=> wakeupFd > 0
    /\ activeChannels' = ready
    /\ loopPc' = "dispatch"
    /\ UNCHANGED <<quit, callingPendingFunctors, pendingFunctors, functors,
                   wakeupFd, pc, executed>>

\* poll() comes back empty, after kPollTimeMs or on EINTR.
PollEmpty ==
    /\ loopPc = "poll"
    /\ loopPc' = "dispatch"
    /\ UNCHANGED <<quit, callingPendingFunctors, pendingFunctors, functors,
                   wakeupFd, activeChannels, pc, executed>>

\* The wakeup channel's callback reads the eventfd, which resets its count.
HandleRead ==
    /\ loopPc = "dispatch"
    /\ "wakeup" \in activeChannels
    /\ activeChannels' = activeChannels \ {"wakeup"}
    /\ wakeupFd' = 0
    /\ UNCHANGED <<loopPc, quit, callingPendingFunctors, pendingFunctors,
                   functors, pc, executed>>

\* Another channel's callback starts.
HandleEvent(c) ==
    /\ loopPc = "dispatch"
    /\ c \in activeChannels
    /\ activeChannels' = activeChannels \ {c}
    /\ loopPc' = "handler"
    /\ UNCHANGED <<quit, callingPendingFunctors, pendingFunctors, functors,
                   wakeupFd, pc, executed>>

\* doPendingFunctors() up to the end of its critical section: the batch is
\* swapped out of pendingFunctors_.
BeginPendingFunctors ==
    /\ loopPc = "dispatch"
    /\ activeChannels = {}
    /\ callingPendingFunctors' = TRUE
    /\ functors' = pendingFunctors
    /\ pendingFunctors' = <<>>
    /\ loopPc' = "run"
    /\ UNCHANGED <<quit, wakeupFd, activeChannels, pc, executed>>

\* Mutant: the batch is drained from its back.
CallFunctorFromBack ==
    /\ loopPc = "run"
    /\ functors # <<>>
    /\ executed' = Append(executed, functors[Len(functors)])
    /\ functors' = SubSeq(functors, 1, Len(functors) - 1)
    /\ loopPc' = "functor"
    /\ UNCHANGED <<quit, callingPendingFunctors, pendingFunctors, wakeupFd,
                   activeChannels, pc>>

\* Mutant: the loop over the batch runs one past its end.
CallFunctorPastEnd ==
    /\ loopPc = "run"
    /\ executed' = Append(executed, IF functors = <<>> THEN "garbage"
                                                       ELSE Head(functors))
    /\ functors' = IF functors = <<>> THEN <<>> ELSE Tail(functors)
    /\ loopPc' = "functor"
    /\ UNCHANGED <<quit, callingPendingFunctors, pendingFunctors, wakeupFd,
                   activeChannels, pc>>

\* The next functor of the batch is called.
CallFunctor ==
    /\ loopPc = "run"
    /\ functors # <<>>
    /\ executed' = Append(executed, Head(functors))
    /\ functors' = Tail(functors)
    /\ loopPc' = "functor"
    /\ UNCHANGED <<quit, callingPendingFunctors, pendingFunctors, wakeupFd,
                   activeChannels, pc>>

\* Mutant: the loop over the batch is left as soon as quit_ is set.
EndPendingFunctorsOnQuit ==
    /\ loopPc = "run"
    /\ functors = <<>> \/ quit
    /\ callingPendingFunctors' = FALSE
    /\ loopPc' = "check"
    /\ UNCHANGED <<quit, pendingFunctors, functors, wakeupFd, activeChannels,
                   pc, executed>>

\* The batch is finished.
EndPendingFunctors ==
    /\ loopPc = "run"
    /\ functors = <<>>
    /\ callingPendingFunctors' = FALSE
    /\ loopPc' = "check"
    /\ UNCHANGED <<quit, pendingFunctors, functors, wakeupFd, activeChannels,
                   pc, executed>>

\* A callback returns to loop() or to doPendingFunctors().
Return ==
    /\ loopPc \in {"handler", "functor"}
    /\ loopPc' = IF loopPc = "handler" THEN "dispatch" ELSE "run"
    /\ UNCHANGED <<quit, callingPendingFunctors, pendingFunctors, functors,
                   wakeupFd, activeChannels, pc, executed>>

-----------------------------------------------------------------------------
(* What any thread may call.                                               *)

Fresh(f) == f \notin Range(executed \o functors \o pendingFunctors)

Push(f) ==
    /\ Fresh(f)
    /\ pendingFunctors' = Append(pendingFunctors, f)

\* Mutant: a functor queued by a functor does not wake the loop.
NeedsWakeupFromOutside(inLoopThread) == ~inLoopThread

\* Mutant: only the functors queued while a batch runs wake the loop.
NeedsWakeupInBatch(inLoopThread) == callingPendingFunctors

\* The condition under which queueInLoop() writes the eventfd.
NeedsWakeup(inLoopThread) == ~inLoopThread \/ callingPendingFunctors

\* Is the owner's thread in code of the user's, which may call the loop?
InCallback ==
    \/ loopPc \in {"handler", "functor"}
    \/ loopPc = "created" /\ InitCallbackQueues

\* queueInLoop() in the loop's own thread.  Only this thread reads the eventfd,
\* so the push and the write are one step.
OwnerQueueInLoop(f) ==
    /\ InCallback
    /\ Push(f)
    /\ wakeupFd' = IF NeedsWakeup(TRUE) THEN wakeupFd + 1 ELSE wakeupFd
    /\ UNCHANGED <<loopPc, quit, callingPendingFunctors, functors,
                   activeChannels, pc, executed>>

\* quit() in the loop's own thread: no write of the eventfd.
OwnerQuit ==
    /\ loopPc \in {"handler", "functor"}
    /\ quit' = TRUE
    /\ UNCHANGED <<loopPc, callingPendingFunctors, pendingFunctors, functors,
                   wakeupFd, activeChannels, pc, executed>>

\* queueInLoop(), or runInLoop(), in another thread, up to the unlock.  The
\* thread will write the eventfd if NeedsWakeup(FALSE), and it always does.
QueueInLoop(t, f) ==
    /\ pc[t] = "idle"
    /\ Push(f)
    /\ pc' = IF NeedsWakeup(FALSE) THEN [pc EXCEPT ![t] = "wakeup"] ELSE pc
    /\ UNCHANGED <<loopPc, quit, callingPendingFunctors, functors, wakeupFd,
                   activeChannels, executed>>

\* Mutant: quit() from another thread does not wake the loop.
QuitSilently(t) ==
    /\ pc[t] = "idle"
    /\ loopPc = "created" => QuitBeforeLoop
    /\ wakeupFd < MaxWakeupFd
    /\ quit' = TRUE
    /\ UNCHANGED <<loopPc, callingPendingFunctors, pendingFunctors, functors,
                   wakeupFd, activeChannels, pc, executed>>

\* quit() in another thread, up to its store of quit_.
Quit(t) ==
    /\ pc[t] = "idle"
    /\ loopPc = "created" => QuitBeforeLoop
    /\ wakeupFd < MaxWakeupFd
    /\ quit' = TRUE
    /\ pc' = [pc EXCEPT ![t] = "wakeup"]
    /\ UNCHANGED <<loopPc, callingPendingFunctors, pendingFunctors, functors,
                   wakeupFd, activeChannels, executed>>

\* wakeup() in another thread.
Wakeup(t) ==
    /\ pc[t] = "wakeup"
    /\ wakeupFd' = wakeupFd + 1
    /\ pc' = [pc EXCEPT ![t] = "idle"]
    /\ UNCHANGED <<loopPc, quit, callingPendingFunctors, pendingFunctors,
                   functors, activeChannels, executed>>

-----------------------------------------------------------------------------
OwnerStep ==
    \/ Loop
    \/ CheckQuit
    \/ HandleRead
    \/ \E c \in IoChannels : HandleEvent(c)
    \/ BeginPendingFunctors
    \/ CallFunctor
    \/ EndPendingFunctors
    \/ Return

Poll ==
    \/ PollEmpty
    \/ \E ready \in SUBSET ({"wakeup"} \cup IoChannels) : PollReturn(ready)

OwnerCall == OwnerQuit \/ \E f \in Functors : OwnerQueueInLoop(f)

ThreadStep(t) ==
    \/ Quit(t)
    \/ Wakeup(t)
    \/ \E f \in Functors : QueueInLoop(t, f)

Next ==
    \/ OwnerStep
    \/ Poll
    \/ OwnerCall
    \/ \E t \in Threads : ThreadStep(t)

(* The owner's thread runs and callbacks return; a poll() whose eventfd is
   readable returns; a thread inside wakeup() completes it.  Nothing is
   assumed of the poll timeout, of I/O events, nor that anyone ever calls
   quit() or queueInLoop().                                                *)
Fairness ==
    /\ WF_vars(OwnerStep)
    /\ WF_vars(wakeupFd > 0 /\ Poll)
    /\ \A t \in Threads : WF_vars(Wakeup(t))

Spec == Init /\ [][Next]_vars /\ Fairness

-----------------------------------------------------------------------------
(* Properties.                                                             *)

WakePending == wakeupFd > 0 \/ \E t \in Threads : pc[t] = "wakeup"

\* No lost wakeup at any point from which the loop reaches poll() without
\* looking at the queue again: NoLostWakeup's inductive form.
WakeupKept ==
    /\ loopPc \in {"created", "run", "functor", "check", "poll"}
    /\ pendingFunctors # <<>>
    => WakePending

\* queueInLoop()'s comment: the loop's thread is woken when it is needed.  A
\* loop that sleeps in poll() never has a functor queued that no eventfd write,
\* made or about to be made, will get it to run.
NoLostWakeup == loopPc = "poll" /\ pendingFunctors # <<>> => WakePending

\* The same of quit(): a loop asleep in poll() whose quit_ is set is going to
\* be woken, although loop() and quit() share no lock.
QuitWakes == loopPc = "poll" /\ quit => WakePending

\* No functor is called twice, or both called and left in a queue, over the
\* swap of doPendingFunctors().
CalledOnce == IsInjective(executed \o functors \o pendingFunctors)

\* doPendingFunctors() drains its batch before loop() looks at quit_ or polls:
\* a functor swapped out of the queue is never dropped, whatever quit() does, and
\* callingPendingFunctors_, which queueInLoop() relies on, is set just then.
BatchDrained ==
    /\ callingPendingFunctors <=> loopPc \in {"run", "functor"}
    /\ functors # <<>> => callingPendingFunctors

\* The loop is a TaskQueue: FIFO over the submissions of all threads.
TQ == INSTANCE TaskQueue WITH
        Tasks <- Functors,
        waiting <- functors \o pendingFunctors,
        done <- executed
ImplementsTaskQueue == TQ!TQSpec

\* A functor queued is called, without help from the poll timeout, unless the
\* loop is told to quit.
QueuedIsCalled ==
    \A f \in Functors :
        f \in Range(pendingFunctors) ~> f \in Range(executed) \/ quit

\* "退出事件循环": after quit() the loop leaves loop(), without help from the poll
\* timeout.
QuitStops == quit ~> loopPc = "stopped"
=============================================================================
