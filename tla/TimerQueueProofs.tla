--------------------------- MODULE TimerQueueProofs ---------------------------
(***************************************************************************)
(* Theorems about TimerQueue, for any timers, times and intervals: the     *)
(* timerfd is armed for no later time than the earliest timer's, a timer   *)
(* that does not repeat runs once, and one cancelled by its own batch is   *)
(* not restarted.                                                          *)
(*                                                                         *)
(* The inductive invariant adds where a timer can be: not made, waiting to *)
(* be added, in timers_, or in the batch.  Without it a queued             *)
(* addTimerInLoop() could bring back a timer that has run or was stopped.  *)
(***************************************************************************)
EXTENDS TimerQueue, TLAPS

\* The call at this place of the queue will add its timer.
Adds(i) == i \in 1 .. Len(pending) /\ pending[i].op = "add"

\* What is still to be added is nowhere else, and is added once.
Fresh ==
    /\ \A i \in 1 .. Len(pending) : pending[i].timer \in created
    /\ \A i \in 1 .. Len(pending) :
         Adds(i) => /\ pending[i].timer \notin timers \cup expired \cup stopped
                    /\ ran[pending[i].timer] = 0
    /\ \A i, j \in 1 .. Len(pending) :
         Adds(i) /\ Adds(j) /\ pending[i].timer = pending[j].timer => i = j
    /\ \A t \in Timers \ created : ran[t] = 0

\* A timer that does not repeat and is to run has not run.
NotYet == \A t \in timers \cup uncalled : interval[t] = 0 => ran[t] = 0

\* A timer of the batch that was cancelled is in cancelingTimers_.
Cancelled == stopped \cap expired \subseteq cancelingTimers

Places == Fresh /\ NotYet /\ OneShotOnce

Stopping == Cancelled /\ CancelStopsRepeat

IInv == TypeOK /\ ArmedForEarliest /\ Places /\ Stopping

LEMMA InitInv == Init => IInv
  <1> SUFFICES ASSUME Init PROVE IInv
    OBVIOUS
  <1>1. TypeOK
    <2>1. pending \in Seq(Calls) /\ calling = FALSE /\ expired = {} /\ uncalled = {}
      BY DEF Init
    <2>2. expiration \in [Timers -> Int] /\ interval \in [Timers -> Nat]
      BY DEF Init
    <2>3. ran \in [Timers -> Nat]
      BY DEF Init
    <2>4. /\ {created, timers, activeTimers, cancelingTimers, stopped} = {{}}
          /\ clock \in Nat /\ batchNow \in Nat /\ due \in Nat /\ armedFor \in Int
          /\ stale = FALSE
      BY DEF Init
    <2> QED
      BY <2>1, <2>2, <2>3, <2>4 DEF TypeOK
  <1>2. Fresh
    BY DEF Init, Fresh, Adds
  <1> QED
    BY <1>1, <1>2 DEF Init, IInv, ArmedForEarliest, Places, NotYet, OneShotOnce, Stopping,
                      Cancelled, CancelStopsRepeat

(* The clock of seconds and the timerfd's time are what TypeOK says.        *)
LEMMA NowType == ASSUME TypeOK PROVE Now \in Nat
  <1>1. \A n \in Nat, k \in Nat \ {0} : n \div k \in Nat
    OBVIOUS
  <1> QED
    BY <1>1, TimerQueueAssumption DEF TypeOK, Now

LEMMA ResetTimerfdType ==
  ASSUME TypeOK, NEW when \in Int, ResetTimerfd(when)
  PROVE  due' \in Nat /\ armedFor' \in Int
  BY NowType DEF TypeOK, ResetTimerfd, HowMuchTimeFromNow

(* addTimerInLoop() keeps the timerfd armed for the earliest, if it was.    *)
LEMMA AddKeepsArmed ==
  ASSUME TypeOK, ArmedForEarliest, NEW t \in Timers \ timers, NEW when \in Int,
         AddTimerInLoop(t, when), expiration' \in [Timers -> Int],
         expiration'[t] = when,
         \A u \in timers : expiration'[u] = expiration[u]
  PROVE  ArmedForEarliest' /\ due' \in Nat /\ armedFor' \in Int
  <1>1. timers' = timers \cup {t} /\ timers \subseteq Timers
    BY DEF AddTimerInLoop, TypeOK
  <1>2. CASE IsEarliest(when)
    <2>1. ResetTimerfd(when)
      BY <1>2 DEF AddTimerInLoop
    <2> QED
      BY <1>1, <1>2, <2>1, ResetTimerfdType
         DEF IsEarliest, ResetTimerfd, ArmedForEarliest, TypeOK
  <1>3. CASE ~IsEarliest(when)
    <2>1. PICK u \in timers : expiration[u] <= when
      BY <1>1, <1>3 DEF IsEarliest, TypeOK
    <2>2. UNCHANGED fdVars
      BY <1>3 DEF AddTimerInLoop
    <2> QED
      BY <1>1, <2>1, <2>2 DEF ArmedForEarliest, TypeOK, fdVars
  <1> QED
    BY <1>2, <1>3

LEMMA AddInv ==
  ASSUME IInv, NEW t \in Timers, NEW when \in Int, NEW every \in Nat,
         AddTimer(t, when, every)
  PROVE  IInv'
  <1> USE DEF IInv, AddTimer, batchVars
  <1>1. t \notin timers /\ t \notin expired /\ t \notin stopped /\ ran[t] = 0
    BY DEF TypeOK, Places, Fresh
  <1>2. /\ expiration' \in [Timers -> Int] /\ interval' \in [Timers -> Nat]
        /\ expiration'[t] = when
        /\ \A u \in Timers \ {t} : /\ expiration'[u] = expiration[u]
                                   /\ interval'[u] = interval[u]
    BY DEF TypeOK
  <1>3. CASE AddTimerInLoop(t, when) /\ MayTurnStale(when) /\ UNCHANGED pending
    <2>1. ArmedForEarliest' /\ due' \in Nat /\ armedFor' \in Int
      BY <1>1, <1>2, <1>3, AddKeepsArmed DEF TypeOK
    <2>2. TypeOK'
      BY <1>2, <1>3, <2>1 DEF TypeOK, AddTimerInLoop, MayTurnStale, Calls
    <2>3. Fresh'
      BY <1>1, <1>3 DEF Places, Fresh, Adds, AddTimerInLoop, TypeOK
    <2>4. NotYet' /\ OneShotOnce'
      BY <1>1, <1>2, <1>3 DEF Places, NotYet, OneShotOnce, AddTimerInLoop, TypeOK
    <2>5. Stopping'
      BY <1>1, <1>3 DEF Stopping, Cancelled, CancelStopsRepeat, AddTimerInLoop
    <2> QED
      BY <2>1, <2>2, <2>3, <2>4, <2>5 DEF Places
  <1>4. CASE /\ pending' = Append(pending, [op |-> "add", timer |-> t])
             /\ UNCHANGED <<setVars, fdVars, stale>>
    <2>1. [op |-> "add", timer |-> t] \in Calls
      BY DEF Calls
    <2>2. TypeOK'
      BY <1>2, <1>4, <2>1 DEF TypeOK, setVars, fdVars
    <2>3. ArmedForEarliest'
      BY <1>1, <1>2, <1>4 DEF ArmedForEarliest, TypeOK, setVars, fdVars
    <2>4. Fresh'
      <3>1. /\ Len(pending') = Len(pending) + 1 /\ Len(pending) \in Nat
            /\ pending'[Len(pending) + 1].timer = t
            /\ \A i \in 1 .. Len(pending) : /\ pending'[i] = pending[i]
                                             /\ pending[i].timer \in created
        BY <1>4, <2>1 DEF TypeOK, Places, Fresh
      <3> QED
        BY <1>1, <1>4, <3>1 DEF Places, Fresh, Adds, setVars
    <2>5. NotYet' /\ OneShotOnce'
      BY <1>1, <1>2, <1>4 DEF Places, NotYet, OneShotOnce, TypeOK, setVars
    <2>6. Stopping'
      BY <1>4 DEF Stopping, Cancelled, CancelStopsRepeat, setVars
    <2> QED
      BY <2>2, <2>3, <2>4, <2>5, <2>6 DEF Places
  <1> QED
    BY <1>3, <1>4

(* cancelInLoop() takes no timer of the batch out of timers_: it is not there. *)
LEMMA CancelInv ==
  ASSUME IInv, NEW t \in created, CancelInLoop(t),
         pending' \in Seq(Calls),
         Fresh => Fresh',
         UNCHANGED <<clock, timerVars, stale, batchVars>>
  PROVE  IInv'
  <1> USE DEF IInv, CancelInLoop, timerVars, batchVars, fdVars
  <1>1. timers' \subseteq timers /\ activeTimers' \subseteq timers'
        /\ cancelingTimers \subseteq cancelingTimers'
    BY DEF TypeOK
  <1>2. t \in expired => t \in cancelingTimers' /\ t \notin timers'
    BY DEF TypeOK, Places, OneShotOnce
  <1>3. TypeOK'
    BY <1>1 DEF TypeOK
  <1>4. ArmedForEarliest'
    BY <1>1 DEF ArmedForEarliest
  <1>5. Places'
    BY <1>1 DEF Places, NotYet, OneShotOnce
  <1>6. Stopping'
    BY <1>1, <1>2 DEF Stopping, Cancelled, CancelStopsRepeat
  <1> QED
    BY <1>3, <1>4, <1>5, <1>6

(* A call that is queued for a timer, or one that is taken from the queue,  *)
(* leaves the others fresh.                                                *)
LEMMA TailFresh ==
  ASSUME TypeOK, Fresh, pending # <<>>
  PROVE  /\ Tail(pending) \in Seq(Calls) /\ Head(pending) \in Calls
         /\ Len(Tail(pending)) = Len(pending) - 1
         /\ \A i \in 1 .. Len(Tail(pending)) : /\ i + 1 \in 1 .. Len(pending)
                                              /\ Tail(pending)[i] = pending[i + 1]
         /\ Head(pending) = pending[1] /\ 1 \in 1 .. Len(pending)
  BY DEF TypeOK

LEMMA CancelCallInv ==
  ASSUME IInv, NEW t \in Timers, Cancel(t)
  PROVE  IInv'
  <1> USE DEF Cancel
  <1>1. CASE CancelInLoop(t) /\ UNCHANGED pending
    <2>1. timers' \subseteq timers /\ pending \in Seq(Calls)
      BY <1>1 DEF CancelInLoop, IInv, TypeOK
    <2>2. ASSUME Fresh PROVE Fresh'
      BY <1>1, <2>1, <2>2
         DEF Fresh, Adds, CancelInLoop, timerVars, batchVars, Calls, IInv, TypeOK
    <2> QED
      BY <1>1, <2>1, <2>2, CancelInv
  <1>2. CASE /\ pending' = Append(pending, [op |-> "cancel", timer |-> t])
             /\ UNCHANGED <<setVars, fdVars, stopped>>
    <2>1. [op |-> "cancel", timer |-> t] \in Calls
      BY DEF Calls
    <2>2. TypeOK'
      BY <1>2, <2>1 DEF IInv, TypeOK, setVars, fdVars, timerVars, batchVars
    <2>3. Fresh'
      <3>1. /\ Len(pending') = Len(pending) + 1 /\ Len(pending) \in Nat
            /\ pending'[Len(pending) + 1].op = "cancel"
            /\ pending'[Len(pending) + 1].timer = t
            /\ \A i \in 1 .. Len(pending) : pending'[i] = pending[i]
        BY <1>2, <2>1 DEF IInv, TypeOK
      <3> QED
        BY <1>2, <3>1
           DEF IInv, Places, Fresh, Adds, setVars, timerVars, batchVars
    <2> QED
      BY <1>2, <2>2, <2>3
         DEF IInv, ArmedForEarliest, Places, NotYet, OneShotOnce, Stopping, Cancelled,
             CancelStopsRepeat, setVars, fdVars, timerVars, batchVars
  <1> QED
    BY <1>1, <1>2

LEMMA RunPendingInv == ASSUME IInv, RunPending PROVE IInv'
  <1> DEFINE call == Head(pending)
  <1> USE DEF RunPending
  <1>1. /\ pending' = Tail(pending) /\ expired = {} /\ ~calling
        /\ UNCHANGED <<clock, timerVars, stale, batchVars>>
    BY DEF IInv, TypeOK
  <1>2. /\ pending' \in Seq(Calls) /\ call \in Calls
        /\ Len(pending') = Len(pending) - 1
        /\ \A i \in 1 .. Len(pending') : /\ i + 1 \in 1 .. Len(pending)
                                         /\ pending'[i] = pending[i + 1]
        /\ call = pending[1] /\ 1 \in 1 .. Len(pending)
    BY <1>1, TailFresh DEF IInv, Places
  <1>3. call.timer \in created /\ call.timer \in Timers
    BY <1>2 DEF IInv, Places, Fresh, TypeOK
  <1>4. CASE /\ call.op = "add"
             /\ AddTimerInLoop(call.timer, expiration[call.timer])
             /\ UNCHANGED stopped
    <2>1. /\ call.timer \notin timers \cup expired \cup stopped
          /\ ran[call.timer] = 0
          /\ \A i \in 1 .. Len(pending') : Adds(i + 1) =>
                                              pending'[i].timer # call.timer
      BY <1>2, <1>4 DEF IInv, Places, Fresh, Adds
    <2>2. ArmedForEarliest' /\ due' \in Nat /\ armedFor' \in Int
      <3>1. expiration' = expiration /\ expiration \in [Timers -> Int]
        BY <1>1 DEF timerVars, IInv, TypeOK
      <3> QED
        BY <1>3, <1>4, <2>1, <3>1, AddKeepsArmed DEF IInv, TypeOK
    <2>3. TypeOK'
      BY <1>1, <1>2, <1>3, <1>4, <2>2
         DEF IInv, TypeOK, AddTimerInLoop, timerVars, batchVars
    <2>4. Fresh'
      <3>1. /\ timers' = timers \cup {call.timer} /\ created' = created
            /\ expired' = expired /\ stopped' = stopped /\ ran' = ran
        BY <1>1, <1>4 DEF AddTimerInLoop, timerVars, batchVars
      <3>2. ASSUME NEW i \in 1 .. Len(pending')
            PROVE  /\ i + 1 \in 1 .. Len(pending) /\ pending'[i] = pending[i + 1]
                   /\ Adds(i)' => Adds(i + 1)
        BY <1>2 DEF Adds
      <3>3. ASSUME NEW i \in 1 .. Len(pending')
            PROVE  /\ pending'[i].timer \in created'
                   /\ Adds(i)' => /\ pending'[i].timer \notin timers' \cup expired' \cup stopped'
                                  /\ ran'[pending'[i].timer] = 0
        BY <2>1, <3>1, <3>2 DEF IInv, Places, Fresh
      <3>4. ASSUME NEW i \in 1 .. Len(pending'), NEW j \in 1 .. Len(pending'),
                   Adds(i)', Adds(j)', pending'[i].timer = pending'[j].timer
            PROVE  i = j
        <4>1. i + 1 = j + 1
          BY <3>2, <3>4 DEF IInv, Places, Fresh
        <4> QED
          BY <4>1
      <3>5. \A t \in Timers \ created' : ran'[t] = 0
        BY <3>1 DEF IInv, Places, Fresh
      <3> QED
        BY <3>3, <3>4, <3>5 DEF Fresh
    <2>5. NotYet' /\ OneShotOnce'
      BY <1>1, <1>4, <2>1
         DEF IInv, Places, NotYet, OneShotOnce, AddTimerInLoop, timerVars, batchVars
    <2>6. Stopping'
      BY <1>1, <1>4, <2>1
         DEF IInv, Stopping, Cancelled, CancelStopsRepeat, AddTimerInLoop, batchVars
    <2> QED
      BY <2>2, <2>3, <2>4, <2>5, <2>6 DEF IInv, Places
  <1>5. CASE call.op = "cancel" /\ CancelInLoop(call.timer)
    <2>1. timers' \subseteq timers /\ stopped' = stopped
      BY <1>1, <1>5 DEF CancelInLoop
    <2>2. ASSUME Fresh PROVE Fresh'
      BY <1>1, <1>2, <2>1, <2>2 DEF Fresh, Adds, timerVars, batchVars, Calls
    <2> QED
      BY <1>1, <1>2, <1>3, <1>5, <2>2, CancelInv
  <1> QED
    BY <1>4, <1>5

LEMMA HandleReadInv == ASSUME IInv, HandleRead PROVE IInv'
  <1> USE DEF IInv, HandleRead, timerVars
  <1>1. Now \in Nat /\ Expired \subseteq timers /\ timers' = timers \ Expired
    BY NowType DEF Expired, TakeExpired
  <1>2. TypeOK'
    BY <1>1 DEF TypeOK
  <1>3. ArmedForEarliest'
    BY <1>1 DEF ArmedForEarliest
  <1>4. Places'
    <2>1. expired = {} /\ uncalled = {}
      BY DEF TypeOK
    <2>2. Fresh'
      BY <1>1, <2>1 DEF Places, Fresh, Adds
    <2> QED
      BY <1>1, <2>1, <2>2 DEF Places, NotYet, OneShotOnce
  <1>5. Stopping'
    BY <1>1 DEF Stopping, Cancelled, CancelStopsRepeat
  <1> QED
    BY <1>2, <1>3, <1>4, <1>5

LEMMA RunCallbackInv ==
  ASSUME IInv, NEW t \in Timers, RunCallback(t)
  PROVE  IInv'
  <1> USE DEF IInv, RunCallback, timerVars, setVars, fdVars
  <1>1. /\ t \in expired /\ ran \in [Timers -> Nat]
        /\ ran' = [ran EXCEPT ![t] = @ + 1]
        /\ \A i \in 1 .. Len(pending) : Adds(i) => pending[i].timer # t
    BY DEF TypeOK, Places, Fresh
  <1>2. TypeOK'
    BY <1>1 DEF TypeOK
  <1>3. ArmedForEarliest'
    BY DEF ArmedForEarliest
  <1>4. Fresh'
    <2>1. \A u \in Timers \ {t} : ran'[u] = ran[u]
      BY <1>1
    <2>2. t \in created
      BY <1>1 DEF TypeOK
    <2>3. \A i \in 1 .. Len(pending) : pending[i].timer \in Timers
      BY DEF TypeOK, Places, Fresh
    <2> QED
      BY <1>1, <2>1, <2>2, <2>3 DEF Places, Fresh, Adds
  <1>5. NotYet' /\ OneShotOnce'
    BY <1>1 DEF Places, NotYet, OneShotOnce, TypeOK
  <1>6. Stopping'
    BY DEF Stopping, Cancelled, CancelStopsRepeat
  <1> QED
    BY <1>2, <1>3, <1>4, <1>5, <1>6 DEF Places

(* reset() arms the timerfd for the earliest of all, or leaves it armed for *)
(* a timer that no restarted one can precede.                              *)
LEMMA ResetInv == ASSUME IInv, Reset PROVE IInv'
  <1> USE DEF IInv, Reset, EndBatch
  <1>1. /\ Again \subseteq expired /\ Again \cap timers = {}
        /\ \A t \in Again : interval[t] > 0 /\ t \notin cancelingTimers
        /\ expired \subseteq Timers /\ timers \subseteq Timers
    BY DEF Again, Places, OneShotOnce, TypeOK
  <1>2. /\ expiration' \in [Timers -> Int]
        /\ \A t \in Again : expiration'[t] > 0
        /\ \A t \in timers : expiration'[t] = expiration[t]
    BY <1>1 DEF TypeOK
  <1>3. ArmedForEarliest' /\ due' \in Nat /\ armedFor' \in Int
    <2>1. CASE timers' = {} /\ UNCHANGED fdVars
      BY <2>1 DEF ArmedForEarliest, TypeOK, fdVars
    <2>2. CASE \E t \in timers' :
                 LET nextExpire == expiration'[t] IN
                 /\ \A u \in timers' : nextExpire <= expiration'[u]
                 /\ IF nextExpire > 0 THEN ResetTimerfd(nextExpire)
                                      ELSE UNCHANGED fdVars
      <3>1. PICK t \in timers' :
                 /\ \A u \in timers' : expiration'[t] <= expiration'[u]
                 /\ IF expiration'[t] > 0 THEN ResetTimerfd(expiration'[t])
                                          ELSE UNCHANGED fdVars
        BY <2>2
      <3>2. t \in Timers /\ expiration'[t] \in Int
        BY <1>1, <1>2
      <3>3. CASE expiration'[t] > 0
        BY <3>1, <3>2, <3>3, ResetTimerfdType DEF ResetTimerfd, ArmedForEarliest
      <3>4. CASE ~(expiration'[t] > 0)
        <4>1. t \in timers /\ UNCHANGED fdVars
          BY <1>1, <1>2, <3>1, <3>4
        <4>2. due # 0 => armedFor <= expiration'[t]
          BY <1>2, <4>1 DEF ArmedForEarliest
        <4>3. due' = due /\ armedFor' = armedFor /\ due \in Nat /\ armedFor \in Int
          BY <4>1 DEF fdVars, TypeOK
        <4>4. \A u \in timers' : expiration'[u] \in Int
          BY <1>1, <1>2
        <4> QED
          BY <3>1, <3>2, <4>2, <4>3, <4>4 DEF ArmedForEarliest
      <3> QED
        BY <3>3, <3>4
    <2> QED
      BY <2>1, <2>2 DEF Rearm
  <1>4. TypeOK'
    BY <1>1, <1>2, <1>3 DEF TypeOK
  <1>5. Fresh'
    BY <1>1 DEF Places, Fresh, Adds
  <1>6. NotYet' /\ OneShotOnce'
    BY <1>1 DEF Places, NotYet, OneShotOnce
  <1>7. Stopping'
    BY <1>1 DEF Stopping, Cancelled, CancelStopsRepeat
  <1> QED
    BY <1>3, <1>4, <1>5, <1>6, <1>7 DEF Places

LEMMA TickInv == ASSUME IInv, Tick PROVE IInv'
  BY DEF Tick, IInv, TypeOK, ArmedForEarliest, Places, Fresh, Adds, NotYet, OneShotOnce,
         Stopping, Cancelled, CancelStopsRepeat, timerVars, setVars, fdVars, batchVars

LEMMA StepInv == IInv /\ [Next]_vars => IInv'
  <1> SUFFICES ASSUME IInv, [Next]_vars PROVE IInv'
    OBVIOUS
  <1>1. Now \in Nat /\ Times \subseteq Int /\ Delays \subseteq Nat
    BY NowType, TimerQueueAssumption DEF IInv
  <1>2. ASSUME NEW t \in Timers, RunAt(t) PROVE IInv'
    BY <1>1, <1>2, AddInv DEF RunAt
  <1>3. ASSUME NEW t \in Timers, RunAfter(t) PROVE IInv'
    <2>1. PICK delay \in Delays : AddTimer(t, Now + delay, 0)
      BY <1>3 DEF RunAfter
    <2> QED
      BY <1>1, <2>1, AddInv
  <1>4. ASSUME NEW t \in Timers, RunEvery(t) PROVE IInv'
    <2>1. PICK every \in Delays : AddTimer(t, Now + every, every)
      BY <1>4 DEF RunEvery
    <2> QED
      BY <1>1, <2>1, AddInv
  <1>5. CASE UNCHANGED vars
    BY <1>5 DEF vars, IInv, TypeOK, ArmedForEarliest, Places, Fresh, Adds, NotYet,
                OneShotOnce, Stopping, Cancelled, CancelStopsRepeat, timerVars,
                setVars, fdVars, batchVars
  <1> QED
    BY <1>2, <1>3, <1>4, <1>5, TickInv, CancelCallInv, RunPendingInv, HandleReadInv,
       RunCallbackInv, ResetInv
       DEF Next, RunNext

(* The values of the variables are what the code can give them.             *)
THEOREM TypeCorrect == Spec => []TypeOK
  <1>1. IInv => TypeOK
    BY DEF IInv
  <1> QED
    BY InitInv, StepInv, <1>1, PTL DEF Spec

(* No addTimer() and no end of a batch leaves the timerfd armed for a later *)
(* time than the earliest timer's: addTimerInLoop() and reset() arm it.     *)
THEOREM AlwaysArmedForEarliest == Spec => []ArmedForEarliest
  <1>1. IInv => ArmedForEarliest
    BY DEF IInv
  <1> QED
    BY InitInv, StepInv, <1>1, PTL DEF Spec

(* However addTimer() and cancel() are called, from timers' callbacks and   *)
(* other threads: a timer that does not repeat is run once at the most.     *)
THEOREM OneShotRunsOnce == Spec => []OneShotOnce
  <1>1. IInv => OneShotOnce
    BY DEF IInv, Places
  <1> QED
    BY InitInv, StepInv, <1>1, PTL DEF Spec

(* cancel() from a callback of the timer's own batch, its own or another's,  *)
(* keeps reset() from restarting it, for good.                             *)
THEOREM CancelIsForGood == Spec => []CancelStopsRepeat
  <1>1. IInv => CancelStopsRepeat
    BY DEF IInv, Stopping
  <1> QED
    BY InitInv, StepInv, <1>1, PTL DEF Spec
=============================================================================
