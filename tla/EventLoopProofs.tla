--------------------------- MODULE EventLoopProofs ---------------------------
(***************************************************************************)
(* Proofs, for every set of threads, functors and channels, of EventLoop's *)
(* safety properties and of its refinement of TaskQueue.                   *)
(***************************************************************************)
EXTENDS EventLoop, SequenceTheorems, TLAPS

\* All functors ever queued, in the order of their submission.
History == executed \o functors \o pendingFunctors

-----------------------------------------------------------------------------
(* Facts about sequences.                                                  *)

\* Moving the head of a queue to the end of the sequence before it changes
\* nothing of the two read one after the other.
LEMMA MoveHead ==
    ASSUME NEW S, NEW s \in Seq(S), NEW t \in Seq(S), t # <<>>
    PROVE  /\ Append(s, Head(t)) \in Seq(S)
           /\ Tail(t) \in Seq(S)
           /\ Append(s, Head(t)) \o Tail(t) = s \o t
<1>1. Head(t) \in S /\ Tail(t) \in Seq(S)
  BY HeadTailProperties
<1>2. Append(s, Head(t)) \in Seq(S)
  BY <1>1, AppendProperties
<1> DEFINE l == Append(s, Head(t)) \o Tail(t)
           r == s \o t
<1>3. l \in Seq(S) /\ r \in Seq(S)
  BY <1>1, <1>2, ConcatProperties
<1>4. Len(s) \in Nat /\ Len(t) \in Nat \ {0}
  BY EmptySeq, LenProperties
<1>5. Len(l) = Len(s) + Len(t) /\ Len(r) = Len(s) + Len(t)
  <2>1. Len(l) = Len(Append(s, Head(t))) + Len(Tail(t))
    BY <1>1, <1>2, ConcatProperties
  <2>2. Len(Append(s, Head(t))) = Len(s) + 1 /\ Len(Tail(t)) = Len(t) - 1
    BY <1>1, AppendProperties, HeadTailProperties
  <2>3. Len(r) = Len(s) + Len(t)
    BY ConcatProperties
  <2> QED BY <2>1, <2>2, <2>3, <1>4
<1>6. ASSUME NEW i \in 1 .. Len(l) PROVE l[i] = r[i]
  <2>1. i \in Nat /\ i \in 1 .. (Len(s) + Len(t))
    BY <1>4, <1>5
  <2>2. Len(Append(s, Head(t))) = Len(s) + 1 /\ Len(Tail(t)) = Len(t) - 1
    BY <1>1, AppendProperties, HeadTailProperties
  <2>3. r[i] = IF i <= Len(s) THEN s[i] ELSE t[i - Len(s)]
    BY <2>1, ConcatProperties
  <2>4. l[i] = IF i <= Len(s) + 1 THEN Append(s, Head(t))[i]
                                  ELSE Tail(t)[i - (Len(s) + 1)]
    BY <2>1, <2>2, <1>1, <1>2, <1>4, ConcatProperties
  <2>5. CASE i <= Len(s)
    BY <2>1, <2>3, <2>4, <2>5, <1>1, <1>4, AppendProperties
  <2>6. CASE i = Len(s) + 1
    BY <2>1, <2>3, <2>4, <2>6, <1>1, <1>4, AppendProperties
  <2>7. CASE i > Len(s) + 1
    <3>1. i - (Len(s) + 1) \in 1 .. Len(Tail(t))
      BY <2>1, <2>2, <2>7, <1>4
    <3>2. Tail(t)[i - (Len(s) + 1)] = t[(i - (Len(s) + 1)) + 1]
      BY <3>1, HeadTailProperties
    <3> QED BY <3>2, <2>1, <2>3, <2>4, <2>7, <1>4
  <2> QED BY <2>1, <2>5, <2>6, <2>7, <1>4
<1> QED BY <1>1, <1>2, <1>3, <1>5, <1>6, SeqEqual, Zenon

\* Appending to the second of two sequences appends to the two together.
LEMMA AppendToConcat ==
    ASSUME NEW S, NEW s \in Seq(S), NEW t \in Seq(S), NEW e \in S
    PROVE  s \o Append(t, e) = Append(s \o t, e)
<1>1. s \o t \in Seq(S) /\ <<e>> \in Seq(S)
  BY ConcatProperties
<1>2. s \o Append(t, e) = s \o (t \o <<e>>)
  BY AppendIsConcat
<1>3. Append(s \o t, e) = (s \o t) \o <<e>>
  BY <1>1, AppendIsConcat
<1> QED BY <1>1, <1>2, <1>3, ConcatAssociative

\* A new element keeps a sequence free of repetitions.
LEMMA AppendInjectiveSeq ==
    ASSUME NEW S, NEW s \in Seq(S), NEW e \in S,
           IsInjective(s), e \notin Range(s)
    PROVE  IsInjective(Append(s, e))
<1>1. /\ Len(s) \in Nat
      /\ DOMAIN s = 1 .. Len(s)
      /\ DOMAIN Append(s, e) = 1 .. (Len(s) + 1)
  BY LenProperties, AppendProperties
<1>2. /\ \A i \in 1 .. Len(s) : Append(s, e)[i] = s[i]
      /\ Append(s, e)[Len(s) + 1] = e
  BY AppendProperties
<1>3. \A i \in 1 .. Len(s) : s[i] # e
  BY <1>1 DEF Range
<1> QED BY <1>1, <1>2, <1>3 DEF IsInjective

\* The head and the tail of a concatenation whose first part is not empty.
LEMMA HeadTailConcat ==
    ASSUME NEW S, NEW s \in Seq(S), NEW t \in Seq(S), s # <<>>
    PROVE  /\ s \o t # <<>>
           /\ Head(s \o t) = Head(s)
           /\ Tail(s \o t) = Tail(s) \o t
<1>1. /\ Len(s) \in Nat \ {0} /\ Len(t) \in Nat
      /\ s \o t \in Seq(S)
      /\ Len(s \o t) = Len(s) + Len(t)
      /\ \A i \in 1 .. Len(s) + Len(t) :
            (s \o t)[i] = IF i <= Len(s) THEN s[i] ELSE t[i - Len(s)]
  BY EmptySeq, LenProperties, ConcatProperties
<1>2. s \o t # <<>>
  BY <1>1, EmptySeq
<1>3. Head(s \o t) = Head(s)
  BY <1>1, <1>2
<1>4. Tail(s \o t) = Tail(s) \o t
  <2>1. /\ Tail(s \o t) \in Seq(S)
        /\ Len(Tail(s \o t)) = Len(s) + Len(t) - 1
        /\ \A i \in 1 .. Len(Tail(s \o t)) : Tail(s \o t)[i] = (s \o t)[i + 1]
    BY <1>1, <1>2, HeadTailProperties
  <2>2. /\ Tail(s) \in Seq(S)
        /\ Len(Tail(s)) = Len(s) - 1
        /\ \A i \in 1 .. Len(Tail(s)) : Tail(s)[i] = s[i + 1]
    BY HeadTailProperties
  <2>3. /\ Tail(s) \o t \in Seq(S)
        /\ Len(Tail(s) \o t) = Len(Tail(s)) + Len(t)
        /\ \A i \in 1 .. Len(Tail(s)) + Len(t) :
              (Tail(s) \o t)[i] = IF i <= Len(Tail(s))
                                    THEN Tail(s)[i] ELSE t[i - Len(Tail(s))]
    BY <2>2, ConcatProperties
  <2>4. ASSUME NEW i \in 1 .. Len(Tail(s \o t))
        PROVE  Tail(s \o t)[i] = (Tail(s) \o t)[i]
    <3>1. i \in Nat /\ i >= 1 /\ i + 1 <= Len(s) + Len(t)
      BY <2>1, <1>1
    <3>2. Tail(s \o t)[i] = (s \o t)[i + 1]
      BY <2>1
    <3>3. CASE i <= Len(s) - 1
      BY <3>1, <3>2, <3>3, <1>1, <2>2, <2>3
    <3>4. CASE i > Len(s) - 1
      <4>1. (i + 1) - Len(s) = i - Len(Tail(s))
        BY <3>1, <1>1, <2>2
      <4> QED BY <4>1, <3>1, <3>2, <3>4, <1>1, <2>2, <2>3
    <3> QED BY <3>1, <3>3, <3>4, <1>1
  <2>5. Len(Tail(s \o t)) = Len(Tail(s) \o t)
    BY <1>1, <2>1, <2>2, <2>3
  <2> QED BY <2>1, <2>3, <2>4, <2>5, SeqEqual, Zenon
<1> QED BY <1>2, <1>3, <1>4

-----------------------------------------------------------------------------
(* Type correctness, and the discipline of the batch.                      *)

\* Every variable keeps its type: EventLoop's members, whatever the callbacks do.
THEOREM TypeCorrect == Spec => []TypeOK
<1>1. Init => TypeOK
  <2> SUFFICES ASSUME Init PROVE TypeOK
    OBVIOUS
  <2>1. /\ pendingFunctors \in Seq(Functors)
        /\ functors \in Seq(Functors)
        /\ executed \in Seq(Functors)
    BY EmptySeq DEF Init
  <2>2. /\ loopPc \in LoopPcs
        /\ wakeupFd \in Nat
        /\ activeChannels \subseteq {"wakeup"} \cup IoChannels
        /\ pc \in [Threads -> {"idle", "wakeup"}]
    BY DEF Init, LoopPcs
  <2>3. quit \in BOOLEAN /\ callingPendingFunctors \in BOOLEAN
    BY DEF Init
  <2> QED BY <2>1, <2>2, <2>3 DEF TypeOK
<1>2. TypeOK /\ [Next]_vars => TypeOK'
  <2> SUFFICES ASSUME TypeOK, [Next]_vars PROVE TypeOK'
    OBVIOUS
  <2> USE DEF TypeOK, LoopPcs
  <2>1. CASE Loop
    BY <2>1 DEF Loop
  <2>2. CASE CheckQuit
    BY <2>2 DEF CheckQuit
  <2>3. CASE HandleRead
    BY <2>3 DEF HandleRead
  <2>4. CASE \E c \in IoChannels : HandleEvent(c)
    BY <2>4 DEF HandleEvent
  <2>5. CASE BeginPendingFunctors
    BY <2>5, EmptySeq DEF BeginPendingFunctors
  <2>6. CASE CallFunctor
    BY <2>6, HeadTailProperties, AppendProperties DEF CallFunctor
  <2>7. CASE EndPendingFunctors
    BY <2>7 DEF EndPendingFunctors
  <2>8. CASE Return
    BY <2>8 DEF Return
  <2>9. CASE Poll
    BY <2>9 DEF Poll, PollEmpty, PollReturn
  <2>10. CASE OwnerQuit
    BY <2>10 DEF OwnerQuit
  <2>11. ASSUME NEW f \in Functors, OwnerQueueInLoop(f) PROVE TypeOK'
    <3>1. wakeupFd' \in Nat
      BY <2>11 DEF OwnerQueueInLoop, NeedsWakeup
    <3>2. pendingFunctors' \in Seq(Functors)
      BY <2>11, AppendProperties DEF OwnerQueueInLoop, Push
    <3> QED BY <2>11, <3>1, <3>2 DEF OwnerQueueInLoop
  <2>12. ASSUME NEW t \in Threads, Quit(t) PROVE TypeOK'
    BY <2>12 DEF Quit
  <2>13. ASSUME NEW t \in Threads, Wakeup(t) PROVE TypeOK'
    BY <2>13 DEF Wakeup
  <2>14. ASSUME NEW t \in Threads, NEW f \in Functors, QueueInLoop(t, f)
         PROVE  TypeOK'
    BY <2>14, AppendProperties DEF QueueInLoop, Push, NeedsWakeup
  <2>15. CASE UNCHANGED vars
    BY <2>15 DEF vars
  <2> QED
    BY <2>1, <2>2, <2>3, <2>4, <2>5, <2>6, <2>7, <2>8, <2>9, <2>10, <2>11,
       <2>12, <2>13, <2>14, <2>15
       DEF Next, OwnerStep, OwnerCall, ThreadStep
<1> QED BY <1>1, <1>2, PTL DEF Spec

\* doPendingFunctors() never drops a functor of its batch, and
\* callingPendingFunctors_ is set exactly while it runs one.
THEOREM BatchAlwaysDrained == Spec => []BatchDrained
<1>1. Init => BatchDrained
  BY DEF Init, BatchDrained
<1>2. BatchDrained /\ [Next]_vars => BatchDrained'
  <2> SUFFICES ASSUME BatchDrained, [Next]_vars PROVE BatchDrained'
    OBVIOUS
  <2>1. CASE OwnerStep
    BY <2>1
       DEF OwnerStep, Loop, CheckQuit, HandleRead, HandleEvent, BatchDrained,
           BeginPendingFunctors, CallFunctor, EndPendingFunctors, Return
  <2>2. CASE Poll
    BY <2>2 DEF Poll, PollEmpty, PollReturn, BatchDrained
  <2>3. CASE UNCHANGED <<loopPc, functors, callingPendingFunctors>>
    BY <2>3 DEF BatchDrained
  <2>4. CASE OwnerCall
    BY <2>3, <2>4 DEF OwnerCall, OwnerQuit, OwnerQueueInLoop
  <2>5. CASE \E t \in Threads : ThreadStep(t)
    BY <2>3, <2>5 DEF ThreadStep, Quit, Wakeup, QueueInLoop
  <2>6. CASE UNCHANGED vars
    BY <2>3, <2>6 DEF vars
  <2> QED BY <2>1, <2>2, <2>4, <2>5, <2>6 DEF Next
<1> QED BY <1>1, <1>2, PTL DEF Spec

-----------------------------------------------------------------------------
(* Wakeups.                                                                *)

\* The inductive step of the two wakeup properties on the steps that concern
\* only the other threads' side: a write of the eventfd that is pending stays
\* so, or has been made.
LEMMA WakePendingKept ==
    ASSUME TypeOK, WakePending, NEW t \in Threads, ThreadStep(t)
    PROVE  WakePending'
<1>1. CASE Wakeup(t)
  <2>1. wakeupFd' > 0
    BY <1>1 DEF Wakeup, TypeOK
  <2> QED BY <2>1 DEF WakePending
<1>2. CASE Quit(t)
  BY <1>2 DEF Quit, TypeOK, WakePending
<1>3. ASSUME NEW f \in Functors, QueueInLoop(t, f) PROVE WakePending'
  BY <1>3 DEF QueueInLoop, NeedsWakeup, TypeOK, WakePending
<1> QED BY <1>1, <1>2, <1>3 DEF ThreadStep

\* queueInLoop() never leaves a functor behind a sleeping loop, if the owner's
\* thread queues none before it calls loop().
THEOREM NoWakeupLost ==
    ASSUME InitCallbackQueues = FALSE
    PROVE  Spec => []NoLostWakeup
<1> DEFINE IInv == TypeOK /\ BatchDrained /\ WakeupKept
<1>1. Init => WakeupKept
  BY DEF Init, WakeupKept
<1>2. IInv /\ [Next]_vars => WakeupKept'
  <2> SUFFICES ASSUME TypeOK, BatchDrained, WakeupKept, [Next]_vars
               PROVE  WakeupKept'
    OBVIOUS
  <2>1. CASE OwnerStep
    <3>1. CASE HandleRead \/ \E c \in IoChannels : HandleEvent(c)
      BY <3>1 DEF HandleRead, HandleEvent, WakeupKept
    <3>2. CASE BeginPendingFunctors
      BY <3>2 DEF BeginPendingFunctors, WakeupKept
    <3>3. CASE Loop \/ CheckQuit \/ CallFunctor \/ EndPendingFunctors
      BY <3>3 DEF Loop, CheckQuit, CallFunctor, EndPendingFunctors,
                  WakeupKept, WakePending
    <3>4. CASE Return
      BY <3>4 DEF Return, WakeupKept, WakePending
    <3> QED BY <2>1, <3>1, <3>2, <3>3, <3>4 DEF OwnerStep
  <2>2. CASE Poll
    BY <2>2 DEF Poll, PollEmpty, PollReturn, WakeupKept
  <2>3. CASE OwnerQuit
    BY <2>3 DEF OwnerQuit, WakeupKept, WakePending
  <2>4. ASSUME NEW f \in Functors, OwnerQueueInLoop(f) PROVE WakeupKept'
    <3>1. loopPc \in {"handler", "functor"} /\ loopPc' = loopPc
      BY <2>4 DEF OwnerQueueInLoop, InCallback
    <3>2. CASE loopPc = "handler"
      BY <3>1, <3>2 DEF WakeupKept
    <3>3. CASE loopPc = "functor"
      <4>1. wakeupFd' = wakeupFd + 1
        BY <2>4, <3>3 DEF OwnerQueueInLoop, NeedsWakeup, BatchDrained
      <4> QED BY <4>1 DEF TypeOK, WakeupKept, WakePending
    <3> QED BY <3>1, <3>2, <3>3
  <2>5. ASSUME NEW t \in Threads, ThreadStep(t) PROVE WakeupKept'
    <3>1. CASE WakePending
      BY <2>5, <3>1, WakePendingKept DEF WakeupKept
    <3>2. CASE Quit(t) \/ Wakeup(t)
      <4>1. CASE WakePending
        BY <3>1, <4>1
      <4>2. CASE ~WakePending
        BY <3>2, <4>2 DEF Quit, Wakeup, WakeupKept, WakePending
      <4> QED BY <4>1, <4>2
    <3>3. ASSUME NEW f \in Functors, QueueInLoop(t, f) PROVE WakeupKept'
      BY <3>3 DEF QueueInLoop, NeedsWakeup, TypeOK, WakeupKept, WakePending
    <3> QED BY <2>5, <3>2, <3>3 DEF ThreadStep
  <2>6. CASE UNCHANGED vars
    BY <2>6 DEF vars, WakeupKept, WakePending
  <2> QED BY <2>1, <2>2, <2>3, <2>4, <2>5, <2>6 DEF Next, OwnerCall
<1>3. WakeupKept => NoLostWakeup
  BY DEF WakeupKept, NoLostWakeup
<1> QED BY <1>1, <1>2, <1>3, TypeCorrect, BatchAlwaysDrained, PTL DEF Spec

\* quit() from another thread never finds the loop asleep and leaves it so,
\* although quit_ is stored and the eventfd written in two steps.
THEOREM QuitAlwaysWakes == Spec => []QuitWakes
<1>1. Init => QuitWakes
  BY DEF Init, QuitWakes
<1>2. TypeOK /\ QuitWakes /\ [Next]_vars => QuitWakes'
  <2> SUFFICES ASSUME TypeOK, QuitWakes, [Next]_vars PROVE QuitWakes'
    OBVIOUS
  <2>1. CASE OwnerStep
    BY <2>1, Zenon
       DEF OwnerStep, Loop, CheckQuit, HandleRead, HandleEvent, QuitWakes,
           BeginPendingFunctors, CallFunctor, EndPendingFunctors, Return
  <2>2. CASE Poll
    BY <2>2 DEF Poll, PollEmpty, PollReturn, QuitWakes
  <2>3. CASE OwnerQuit
    BY <2>3 DEF OwnerQuit, QuitWakes
  <2>4. ASSUME NEW f \in Functors, OwnerQueueInLoop(f) PROVE QuitWakes'
    BY <2>4 DEF OwnerQueueInLoop, InCallback, QuitWakes
  <2>5. ASSUME NEW t \in Threads, ThreadStep(t) PROVE QuitWakes'
    <3>1. CASE WakePending
      BY <2>5, <3>1, WakePendingKept DEF QuitWakes
    <3>2. CASE ~WakePending
      BY <2>5, <3>2 DEF ThreadStep, Quit, Wakeup, QueueInLoop, TypeOK,
                        QuitWakes, WakePending
    <3> QED BY <3>1, <3>2
  <2>6. CASE UNCHANGED vars
    BY <2>6 DEF vars, QuitWakes, WakePending
  <2> QED BY <2>1, <2>2, <2>3, <2>4, <2>5, <2>6 DEF Next, OwnerCall
<1> QED BY <1>1, <1>2, TypeCorrect, PTL DEF Spec

-----------------------------------------------------------------------------
(* The queue.                                                              *)

\* queueInLoop() adds its functor at the end of the history, where it is new.
LEMMA PushAppends ==
    ASSUME TypeOK, NEW f \in Functors, Push(f),
           functors' = functors, executed' = executed
    PROVE  /\ functors' \o pendingFunctors'
                = Append(functors \o pendingFunctors, f)
           /\ History' = Append(History, f)
           /\ f \notin Range(History)
<1>1. /\ executed \in Seq(Functors) /\ functors \in Seq(Functors)
      /\ pendingFunctors \in Seq(Functors)
      /\ pendingFunctors' = Append(pendingFunctors, f)
  BY DEF TypeOK, Push
<1>2. functors' \o pendingFunctors' = Append(functors \o pendingFunctors, f)
  BY <1>1, AppendToConcat
<1>3. executed \o functors \in Seq(Functors)
  BY <1>1, ConcatProperties
<1>4. History' = Append(History, f)
  BY <1>1, <1>3, AppendToConcat DEF History
<1>5. f \notin Range(History)
  BY DEF Push, Fresh, History
<1> QED BY <1>2, <1>4, <1>5

\* The steps of the owner leave the history as it is: a functor only moves from
\* pendingFunctors_ to the batch and from the batch to its call.
LEMMA OwnerKeepsHistory ==
    ASSUME TypeOK, BatchDrained, OwnerStep \/ Poll
    PROVE  History' = History
<1>1. /\ executed \in Seq(Functors) /\ functors \in Seq(Functors)
      /\ pendingFunctors \in Seq(Functors)
  BY DEF TypeOK
<1>2. CASE UNCHANGED <<executed, functors, pendingFunctors>>
  BY <1>2 DEF History
<1>3. CASE BeginPendingFunctors
  <2>1. functors = <<>>
    BY <1>3 DEF BeginPendingFunctors, BatchDrained
  <2>2. executed' = executed /\ functors' = pendingFunctors
        /\ pendingFunctors' = <<>>
    BY <1>3 DEF BeginPendingFunctors
  <2>3. executed \o pendingFunctors \in Seq(Functors)
    BY <1>1, ConcatProperties
  <2> QED BY <1>1, <2>1, <2>2, <2>3, ConcatEmptySeq DEF History
<1>4. CASE CallFunctor
  <2>1. executed' \o functors' = executed \o functors
    BY <1>1, <1>4, MoveHead DEF CallFunctor
  <2> QED BY <1>4, <2>1 DEF History, CallFunctor
<1> QED BY <1>2, <1>3, <1>4
        DEF OwnerStep, Poll, Loop, CheckQuit, HandleRead, HandleEvent,
            EndPendingFunctors, Return, PollEmpty, PollReturn

\* No functor is called twice, nor called while it is still queued.
THEOREM NothingCalledTwice == Spec => []CalledOnce
<1>1. Init => CalledOnce
  <2> SUFFICES ASSUME Init PROVE CalledOnce
    OBVIOUS
  <2>1. executed \o functors \o pendingFunctors = <<>>
    BY EmptySeq, ConcatEmptySeq DEF Init
  <2> QED BY <2>1 DEF CalledOnce, IsInjective
<1>2. TypeOK /\ BatchDrained /\ CalledOnce /\ [Next]_vars => CalledOnce'
  <2> SUFFICES ASSUME TypeOK, BatchDrained, CalledOnce, [Next]_vars
               PROVE  CalledOnce'
    OBVIOUS
  <2>1. History \in Seq(Functors) /\ IsInjective(History)
    BY ConcatProperties DEF TypeOK, History, CalledOnce
  <2>2. CASE History' = History
    BY <2>1, <2>2 DEF History, CalledOnce
  <2>3. CASE OwnerStep \/ Poll
    BY <2>2, <2>3, OwnerKeepsHistory
  <2>4. CASE OwnerQuit \/ UNCHANGED vars
        \/ \E t \in Threads : Quit(t) \/ Wakeup(t)
    BY <2>2, <2>4 DEF OwnerQuit, Quit, Wakeup, vars, History
  <2>5. ASSUME NEW f \in Functors,
               Push(f), UNCHANGED <<functors, executed>>
        PROVE  CalledOnce'
    <3>1. IsInjective(History')
      BY <2>1, <2>5, PushAppends, AppendInjectiveSeq
    <3> QED BY <3>1 DEF History, CalledOnce
  <2>6. ASSUME NEW f \in Functors,
               \/ OwnerQueueInLoop(f)
               \/ \E t \in Threads : QueueInLoop(t, f)
        PROVE  CalledOnce'
    BY <2>5, <2>6 DEF OwnerQueueInLoop, QueueInLoop
  <2> QED BY <2>3, <2>4, <2>6 DEF Next, OwnerCall, ThreadStep
<1> QED BY <1>1, <1>2, TypeCorrect, BatchAlwaysDrained, PTL DEF Spec

\* The loop, its batch and its lock implement one FIFO queue of tasks.
THEOREM LoopIsTaskQueue == Spec => ImplementsTaskQueue
<1>1. Init => TQ!TQInit
  <2> SUFFICES ASSUME Init PROVE TQ!TQInit
    OBVIOUS
  <2>1. functors \o pendingFunctors = <<>>
    BY EmptySeq, ConcatEmptySeq DEF Init
  <2> QED BY <2>1 DEF Init, TQ!TQInit
<1>2. TypeOK /\ BatchDrained /\ [Next]_vars => [TQ!TQNext]_(TQ!tqVars)
  <2> SUFFICES ASSUME TypeOK, BatchDrained, [Next]_vars
               PROVE  TQ!TQNext \/ UNCHANGED TQ!tqVars
    OBVIOUS
  <2>1. /\ executed \in Seq(Functors) /\ functors \in Seq(Functors)
        /\ pendingFunctors \in Seq(Functors)
    BY DEF TypeOK
  <2>2. CASE UNCHANGED <<executed, functors, pendingFunctors>>
    BY <2>2 DEF TQ!tqVars
  <2>3. CASE BeginPendingFunctors
    <3>1. functors = <<>>
      BY <2>3 DEF BeginPendingFunctors, BatchDrained
    <3>2. functors' \o pendingFunctors' = functors \o pendingFunctors
      BY <2>1, <2>3, <3>1, ConcatEmptySeq DEF BeginPendingFunctors
    <3> QED BY <2>3, <3>2 DEF BeginPendingFunctors, TQ!tqVars
  <2>4. CASE CallFunctor
    BY <2>1, <2>4, HeadTailConcat DEF CallFunctor, TQ!TQNext, TQ!Run
  <2>5. ASSUME NEW f \in Functors,
               Push(f), UNCHANGED <<functors, executed>>
        PROVE  TQ!TQNext
    <3>1. f \notin Range(executed \o (functors \o pendingFunctors))
      <4>1. executed \o (functors \o pendingFunctors) = History
        BY <2>1, ConcatAssociative DEF History
      <4> QED BY <4>1, <2>5, PushAppends
    <3>2. functors' \o pendingFunctors'
            = Append(functors \o pendingFunctors, f)
      BY <2>5, PushAppends
    <3>3. f \notin TQ!Range(executed \o (functors \o pendingFunctors))
      BY <3>1 DEF Range, TQ!Range
    <3> QED BY <2>5, <3>2, <3>3 DEF TQ!TQNext, TQ!Submit
  <2>6. ASSUME NEW f \in Functors,
               \/ OwnerQueueInLoop(f)
               \/ \E t \in Threads : QueueInLoop(t, f)
        PROVE  TQ!TQNext
    BY <2>5, <2>6 DEF OwnerQueueInLoop, QueueInLoop
  <2>7. CASE OwnerStep \/ Poll
    BY <2>2, <2>3, <2>4, <2>7
       DEF OwnerStep, Poll, Loop, CheckQuit, HandleRead, HandleEvent,
           EndPendingFunctors, Return, PollEmpty, PollReturn
  <2>8. CASE OwnerQuit \/ UNCHANGED vars
        \/ \E t \in Threads : Quit(t) \/ Wakeup(t)
    BY <2>2, <2>8 DEF OwnerQuit, Quit, Wakeup, vars
  <2> QED BY <2>6, <2>7, <2>8 DEF Next, OwnerCall, ThreadStep
<1> QED
  BY <1>1, <1>2, TypeCorrect, BatchAlwaysDrained, PTL
     DEF Spec, ImplementsTaskQueue, TQ!TQSpec
=============================================================================
