------------------------------ MODULE TimerQueue ------------------------------
(***************************************************************************)
(* mymuduo::TimerQueue: the timers of one event loop, the timerfd that is  *)
(* to wake the loop for the earliest of them, and the threads that add and *)
(* cancel timers.                                                          *)
(*                                                                         *)
(* The clock counts the microseconds of the timerfd.  Timestamp::now() is  *)
(* time(NULL), a count of seconds, which the rest of the class takes for   *)
(* microseconds; the model keeps the two units apart the way the code does *)
(* and only makes a second shorter.  A timer is a name, used once; delays  *)
(* and intervals are what addTime() makes of them, in microseconds.        *)
(***************************************************************************)
EXTENDS Integers, Sequences

CONSTANTS
    Timers,                     \* the timers that can be added
    kMicroSecondsPerSecond,     \* 1000 * 1000 in the code
    Times,                      \* the times given to runAt()
    Delays,                     \* the delays of runAfter(), intervals of runEvery()
    MaxClock,                   \* bound: the clock stops here
    MaxPending                  \* bound: calls that wait for the loop

ASSUME TimerQueueAssumption ==
    /\ kMicroSecondsPerSecond \in Nat \ {0}
    /\ Times \subseteq Int /\ Delays \subseteq Nat
    /\ MaxClock \in Nat /\ MaxPending \in Nat

VARIABLES
    clock,          \* microseconds since the epoch
    pending,        \* the addTimerInLoop() and cancelInLoop() the loop has queued
    created,        \* the timers that addTimer() has made
    expiration, interval,       \* of each timer made; interval 0: does not repeat
    timers,         \* timers_
    activeTimers,   \* activeTimers_
    cancelingTimers,            \* cancelingTimers_
    calling,        \* callingExpiredTimers_
    batchNow, expired,          \* handleRead()'s locals now and expired
    uncalled,       \* the timers of expired that handleRead() has yet to run
    due,            \* when the timerfd fires; 0: it is not armed
    stale,          \* is handleRead() to come for a timerfd armed again since?
    armedFor,       \* history: the expiration it was armed for
    ran,            \* history: how often each timer was run
    stopped         \* history: the timers cancelled while their batch was run

timerVars == <<created, expiration, interval>>
setVars == <<timers, activeTimers, cancelingTimers>>
fdVars == <<due, armedFor>>
batchVars == <<calling, batchNow, expired, uncalled, ran>>
vars == <<clock, pending, timerVars, setVars, fdVars, stale, batchVars, stopped>>

Calls == [op : {"add", "cancel"}, timer : Timers]

TypeOK ==
    /\ clock \in Nat
    /\ pending \in Seq(Calls)
    /\ expiration \in [Timers -> Int] /\ interval \in [Timers -> Nat]
    /\ created \subseteq Timers /\ timers \subseteq created
    /\ activeTimers \subseteq timers /\ cancelingTimers \subseteq created
    /\ expired \subseteq created /\ uncalled \subseteq expired
    /\ calling \in BOOLEAN /\ (calling <=> expired # {})
    /\ batchNow \in Nat /\ due \in Nat /\ armedFor \in Int /\ stale \in BOOLEAN
    /\ ran \in [Timers -> Nat] /\ stopped \subseteq created

Init ==
    /\ clock = 0 /\ pending = <<>>
    /\ created = {}
    /\ expiration = [t \in Timers |-> 0] /\ interval = [t \in Timers |-> 0]
    /\ timers = {} /\ activeTimers = {} /\ cancelingTimers = {}
    /\ calling = FALSE /\ batchNow = 0 /\ expired = {} /\ uncalled = {}
    /\ due = 0 /\ armedFor = 0 /\ stale = FALSE
    /\ ran = [t \in Timers |-> 0] /\ stopped = {}

-----------------------------------------------------------------------------
(* The clocks and the timerfd.                                             *)

\* Timestamp::now().
Now == clock \div kMicroSecondsPerSecond

\* howMuchTimeFromNow(): at least a little (100 microseconds).
HowMuchTimeFromNow(when) == IF when - Now < 1 THEN 1 ELSE when - Now

ResetTimerfd(when) ==
    /\ due' = clock + HowMuchTimeFromNow(when)
    /\ armedFor' = when

Fired == due # 0 /\ due <= clock

Tick ==
    /\ clock < MaxClock
    /\ clock' = clock + 1
    /\ UNCHANGED <<pending, timerVars, setVars, fdVars, stale, batchVars,
                   stopped>>

-----------------------------------------------------------------------------
(* In the loop's thread.                                                   *)

\* Mutant: only the first timer of an empty queue counts.
IsEarliestIfEmpty(when) == timers = {}

\* insert() says whether the new timer is the earliest.
IsEarliest(when) == \A u \in timers : when < expiration[u]

\* insert() enters the timer in timers_, and not in activeTimers_.
AddTimerInLoop(t, when) ==
    /\ timers' = timers \cup {t}
    /\ IF IsEarliest(when) THEN ResetTimerfd(when) ELSE UNCHANGED fdVars
    /\ UNCHANGED <<activeTimers, cancelingTimers>>

CancelInLoop(t) ==
    /\ IF t \in activeTimers
         THEN /\ timers' = timers \ {t}
              /\ activeTimers' = activeTimers \ {t}
              /\ UNCHANGED cancelingTimers
         ELSE /\ cancelingTimers' = IF calling THEN cancelingTimers \cup {t}
                                               ELSE cancelingTimers
              /\ UNCHANGED <<timers, activeTimers>>
    /\ stopped' = IF t \in expired THEN stopped \cup {t} ELSE stopped
    /\ UNCHANGED fdVars

\* The loop's thread calls addTimer() and cancel() from its callbacks: those of
\* timers, or of something else while no batch is run.
InLoop == calling => uncalled # expired

\* Another channel's callback may arm the timerfd anew in a round of the loop
\* whose poll() has reported it: its handleRead() comes all the same.
MayTurnStale(when) ==
    \/ UNCHANGED stale
    \/ ~calling /\ Fired /\ IsEarliest(when) /\ stale' = TRUE

\* addTimer(): runInLoop() does the work at once or queues it.
AddTimer(t, when, every) ==
    /\ clock < MaxClock
    /\ t \notin created
    /\ created' = created \cup {t}
    /\ expiration' = [expiration EXCEPT ![t] = when]
    /\ interval' = [interval EXCEPT ![t] = every]
    /\ \/ /\ InLoop
          /\ AddTimerInLoop(t, when)
          /\ MayTurnStale(when)
          /\ UNCHANGED pending
       \/ /\ Len(pending) < MaxPending
          /\ pending' = Append(pending, [op |-> "add", timer |-> t])
          /\ UNCHANGED <<setVars, fdVars, stale>>
    /\ UNCHANGED <<clock, batchVars, stopped>>

RunAt(t) == \E when \in Times : AddTimer(t, when, 0)

RunAfter(t) == \E delay \in Delays : AddTimer(t, Now + delay, 0)

RunEvery(t) == \E every \in Delays : AddTimer(t, Now + every, every)

\* cancel(), by a caller that has the TimerId.
Cancel(t) ==
    /\ t \in created
    /\ \/ /\ InLoop
          /\ CancelInLoop(t)
          /\ UNCHANGED pending
       \/ /\ Len(pending) < MaxPending
          /\ pending' = Append(pending, [op |-> "cancel", timer |-> t])
          /\ UNCHANGED <<setVars, fdVars, stopped>>
    /\ UNCHANGED <<clock, timerVars, stale, batchVars>>

\* The loop calls what was queued, after the handlers of a round.
RunPending ==
    /\ ~calling /\ ~stale
    /\ pending # <<>>
    /\ pending' = Tail(pending)
    /\ LET call == Head(pending) IN
         \/ /\ call.op = "add"
            /\ AddTimerInLoop(call.timer, expiration[call.timer])
            /\ UNCHANGED stopped
         \/ call.op = "cancel" /\ CancelInLoop(call.timer)
    /\ UNCHANGED <<clock, timerVars, stale, batchVars>>

-----------------------------------------------------------------------------
(* handleRead(), in the loop's thread: the timerfd has fired, or had.      *)

\* The sentry of getExpired() holds the member timerEntryPtr_, which is null: a
\* timer that expires at now is not before it.
Expired == {t \in timers : expiration[t] < Now}

\* Mutant: the expired timers stay in timers_.
TakeExpiredNot == UNCHANGED timers

TakeExpired == timers' = timers \ Expired

\* readTimerfd() only logs that there was nothing to read.  reset() has no effect
\* if nothing has expired: a timerfd that had fired stays disarmed.
HandleRead ==
    /\ ~calling
    /\ Fired \/ stale
    /\ due' = IF Fired THEN 0 ELSE due
    /\ stale' = FALSE
    /\ batchNow' = Now
    /\ expired' = Expired
    /\ uncalled' = Expired
    /\ calling' = (Expired # {})
    /\ TakeExpired
    /\ activeTimers' = activeTimers \ Expired
    /\ cancelingTimers' = {}
    /\ UNCHANGED <<clock, pending, timerVars, armedFor, ran, stopped>>

\* The next callback, in the order of timers_: equal times in that of pointers.
RunCallback(t) ==
    /\ calling
    /\ t \in uncalled
    /\ \A u \in uncalled : expiration[t] <= expiration[u]
    /\ uncalled' = uncalled \ {t}
    /\ ran' = [ran EXCEPT ![t] = @ + 1]
    /\ UNCHANGED <<clock, pending, timerVars, setVars, fdVars, stale, calling,
                   batchNow, expired, stopped>>

\* Mutant: the cancelled timers are restarted as well.
AgainAll == {t \in expired : interval[t] > 0}

\* The timers that reset() restarts.
Again == {t \in expired : interval[t] > 0 /\ t \notin cancelingTimers}

\* Mutant: the timerfd is left to the timer that is added next.
RearmNot == UNCHANGED fdVars

\* The earliest timer left, if there is one and its time is valid().
Rearm ==
    \/ /\ timers' = {}
       /\ UNCHANGED fdVars
    \/ \E t \in timers' :
          LET nextExpire == expiration'[t] IN
          /\ \A u \in timers' : nextExpire <= expiration'[u]
          /\ IF nextExpire > 0 THEN ResetTimerfd(nextExpire) ELSE UNCHANGED fdVars

\* Mutant: callingExpiredTimers_ is not cleared.
EndBatchNot == UNCHANGED calling /\ expired' = {}

EndBatch == calling' = FALSE /\ expired' = {}

\* The callbacks are done.  Each round of reset()'s loop arms the timerfd; only
\* the last one counts.
Reset ==
    /\ calling
    /\ uncalled = {}
    /\ EndBatch
    /\ expiration' = [t \in Timers |-> IF t \in Again THEN batchNow + interval[t]
                                                      ELSE expiration[t]]
    /\ timers' = timers \cup Again
    /\ Rearm
    /\ UNCHANGED <<clock, pending, created, interval, activeTimers,
                   cancelingTimers, stale, batchNow, uncalled, ran, stopped>>

-----------------------------------------------------------------------------
RunNext == \E t \in Timers : RunCallback(t)

Next ==
    \/ Tick
    \/ \E t \in Timers : RunAt(t) \/ RunAfter(t) \/ RunEvery(t) \/ Cancel(t)
    \/ RunPending
    \/ HandleRead
    \/ RunNext
    \/ Reset

(* Time passes; each round of the loop handles the timerfd if it has fired,
   with its whole batch, and then calls what is pending.                   *)
Fairness ==
    /\ WF_vars(Tick)
    /\ WF_vars(RunPending)
    /\ WF_vars(HandleRead)
    /\ WF_vars(RunNext)
    /\ WF_vars(Reset)

Spec == Init /\ [][Next]_vars /\ Fairness

-----------------------------------------------------------------------------
(* Properties.                                                             *)

\* The timerfd is never armed for a later time than that of the earliest timer,
\* whatever is added before, during and after a batch.
ArmedForEarliest == due # 0 => \A t \in timers : armedFor <= expiration[t]

\* A timer that does not repeat runs once at the most, and no timer is in timers_
\* while it waits to be run or restarted.
OneShotOnce ==
    /\ \A t \in Timers : interval[t] = 0 => ran[t] <= 1
    /\ timers \cap expired = {}

\* A timer cancelled by a callback of its own batch is not restarted: not at the
\* end of the batch, and not at the end of a later one.
CancelStopsRepeat == stopped \cap timers = {}

\* If the timerfd is armed at all, a timer that has expired is run (or the
\* bounded clock stops before the timerfd fires); and a batch that was run leaves
\* it armed if timers are left, whatever its callbacks added and cancelled.
DueTimersRun ==
    /\ \A t \in Timers :
         (t \in timers /\ expiration[t] < Now /\ due # 0)
             ~> (t \in expired \/ due > MaxClock)
    /\ calling ~> ~calling /\ (timers = {} \/ due # 0)

\* A callback is run at, or some time after, the time it was scheduled for.
ScheduledRuns ==
    \A t \in Timers :
        (t \in timers /\ expiration[t] < MaxClock \div kMicroSecondsPerSecond)
            ~> t \in expired
=============================================================================
