----------------------------- MODULE EpollPoller -----------------------------
(***************************************************************************)
(* The EpollPoller of one EventLoop with its Channels, from the            *)
(* construction of a channel to its destruction, and the loop's dispatch   *)
(* of the events that epoll_wait() reported.                               *)
(*                                                                         *)
(* What a channel is registered for is kept three times: in its events_    *)
(* and index_, in the poller's channels_, and in the kernel's epoll set.   *)
(* All three change in the loop's thread, but in the middle of a dispatch; *)
(* what is ready changes at any time.  A descriptor that was closed can be *)
(* a new channel's.                                                        *)
(***************************************************************************)
EXTENDS Naturals, FiniteSets

CONSTANTS
    Channels,       \* the Channel objects
    Fds,            \* the descriptors
    ReadyMasks,     \* what can be ready on a descriptor, sets of Conditions
    InitSize,       \* kInitEventListSize
    NoChannel, NoFd, NoEvent    \* "none" of each kind

Interests == {"IN", "OUT"}      \* kReadEvent and kWriteEvent
Unasked == {"HUP", "ERR"}       \* epoll reports these whatever the interest
Conditions == Interests \cup Unasked

ASSUME EpollPollerAssumption ==
    /\ IsFiniteSet(Fds)
    /\ ReadyMasks \subseteq SUBSET Conditions /\ {} \in ReadyMasks
    /\ InitSize \in Nat \ {0}
    /\ NoChannel \notin Channels
    /\ NoFd \notin Fds
    /\ NoEvent \notin [channel: Channels, revents: SUBSET Conditions]

VARIABLES
    life,           \* where each channel is in its life
    fd,             \* its fd_, NoFd while it does not exist
    events,         \* its events_
    index,          \* its index_
    channels,       \* channels_: descriptor -> channel
    watched,        \* the descriptors in the kernel's epoll set ...
    interest,       \* ... and what each is watched for
    ready,          \* what is ready on each descriptor
    size,           \* events_.size()
    phase,          \* where EventLoop::loop() is
    active,         \* activeChannels_ still to be handled, with revents_
    current         \* the one that is handled, NoEvent if none

ownVars == <<life, fd, events, index>>
pollVars == <<channels, watched, interest>>
loopVars == <<size, phase, active, current>>
vars == <<ownVars, pollVars, ready, loopVars>>

Event == [channel: Channels, revents: SUBSET Conditions]

TypeOK ==
    /\ life \in [Channels -> {"unborn", "alive", "removed", "gone"}]
    /\ fd \in [Channels -> Fds \cup {NoFd}]
    /\ events \in [Channels -> SUBSET Interests]
    /\ index \in [Channels -> {"kNew", "kAdded", "kDeleted"}]
    /\ channels \in [Fds -> Channels \cup {NoChannel}]
    /\ watched \subseteq Fds
    /\ interest \in [Fds -> SUBSET Interests]
    /\ ready \in [Fds -> ReadyMasks]
    /\ size \in Nat \ {0} /\ (size = InitSize \/ size <= 2 * Cardinality(Fds))
    /\ phase \in {"poll", "dispatch", "functors"}
    /\ active \subseteq Event
    /\ current \in Event \cup {NoEvent}

Init ==
    /\ life = [c \in Channels |-> "unborn"]
    /\ fd = [c \in Channels |-> NoFd]
    /\ events = [c \in Channels |-> {}]
    /\ index = [c \in Channels |-> "kNew"]
    /\ channels = [f \in Fds |-> NoChannel]
    /\ watched = {}
    /\ interest = [f \in Fds |-> {}]
    /\ ready = [f \in Fds |-> {}]
    /\ size = InitSize
    /\ phase = "poll" /\ active = {} /\ current = NoEvent

-----------------------------------------------------------------------------
(* The life of a channel: its owner has opened the descriptor before and   *)
(* closes it afterwards.                                                   *)

OpenFds == {fd[c] : c \in Channels} \ {NoFd}

Construct(c, f) ==
    /\ life[c] = "unborn"
    /\ f \notin OpenFds
    /\ life' = [life EXCEPT ![c] = "alive"]
    /\ fd' = [fd EXCEPT ![c] = f]
    /\ UNCHANGED <<events, index, pollVars, ready, loopVars>>

\* The owner goes, in whichever thread the last TcpConnectionPtr is dropped, and
\* closes the descriptor: the kernel forgets it.
Destroy(c) ==
    /\ life[c] = "removed"
    /\ life' = [life EXCEPT ![c] = "gone"]
    /\ fd' = [fd EXCEPT ![c] = NoFd]
    /\ watched' = watched \ {fd[c]}
    /\ interest' = [interest EXCEPT ![fd[c]] = {}]
    /\ ready' = [ready EXCEPT ![fd[c]] = {}]
    /\ UNCHANGED <<events, index, channels, loopVars>>

-----------------------------------------------------------------------------
(* updateChannel() and removeChannel().                                    *)

\* The callbacks of channels and the queued functors: all code that uses a
\* channel runs in one of them.
InCallback == phase # "poll"

\* epoll_ctl(), of which EPOLL_CTL_ADD and EPOLL_CTL_MOD are one.
Watch(f, ev) ==
    /\ watched' = watched \cup {f}
    /\ interest' = [interest EXCEPT ![f] = ev]

Unwatch(f) ==
    /\ watched' = watched \ {f}
    /\ interest' = [interest EXCEPT ![f] = {}]

\* Mutant: a channel that is left without events stays kAdded.
UpdateChannelKeepsIndex(c, ev) ==
    IF index[c] = "kAdded" /\ ev = {}
      THEN Unwatch(fd[c]) /\ UNCHANGED <<index, channels>>
      ELSE /\ Watch(fd[c], ev)
           /\ index' = [index EXCEPT ![c] = "kAdded"]
           /\ channels' = [channels EXCEPT ![fd[c]] = c]

\* updateChannel(): a channel that is kNew is entered in channels_, one that is
\* kDeleted is there.  Even a channel without events is added when it is
\* updated and was not kAdded.
UpdateChannel(c, ev) ==
    IF index[c] = "kAdded" /\ ev = {}
      THEN /\ Unwatch(fd[c])
           /\ index' = [index EXCEPT ![c] = "kDeleted"]
           /\ UNCHANGED channels
      ELSE /\ Watch(fd[c], ev)
           /\ index' = [index EXCEPT ![c] = "kAdded"]
           /\ channels' = IF index[c] = "kNew"
                            THEN [channels EXCEPT ![fd[c]] = c]
                            ELSE channels

\* Channel::update() with the new events_.
SetEvents(c, ev) ==
    /\ InCallback
    /\ life[c] = "alive"
    /\ events' = [events EXCEPT ![c] = ev]
    /\ UpdateChannel(c, ev)
    /\ UNCHANGED <<life, fd, ready, loopVars>>

EnableReading(c)  == SetEvents(c, events[c] \cup {"IN"})
DisableReading(c) == SetEvents(c, events[c] \ {"IN"})
EnableWriting(c)  == SetEvents(c, events[c] \cup {"OUT"})
DisableWriting(c) == SetEvents(c, events[c] \ {"OUT"})
DisableAll(c)     == SetEvents(c, {})

\* Mutant: connectDestroyed() is run by the callback that closes.
RemoveAtOnce == InCallback

\* removeConnectionInLoop() queues connectDestroyed() even in its own loop.
MayRemove == phase = "functors"

\* Channel::remove(), which asserts that no event is enabled.  The owner does not
\* use the channel any more.
Remove(c) ==
    /\ MayRemove
    /\ life[c] = "alive"
    /\ events[c] = {}
    /\ life' = [life EXCEPT ![c] = "removed"]
    /\ channels' = [channels EXCEPT ![fd[c]] = NoChannel]
    /\ index' = [index EXCEPT ![c] = "kNew"]
    /\ IF index[c] = "kAdded" THEN Unwatch(fd[c])
                              ELSE UNCHANGED <<watched, interest>>
    /\ UNCHANGED <<fd, events, ready, loopVars>>

-----------------------------------------------------------------------------
(* EventLoop::loop(): poll, dispatch, run the queued functors.             *)

\* Data arrive, room is made, the peer closes, or what was there is consumed.
ReadyChanges(f) ==
    /\ f \in OpenFds
    /\ \E m \in ReadyMasks : ready' = [ready EXCEPT ![f] = m]
    /\ UNCHANGED <<ownVars, pollVars, loopVars>>

Reported(f) == ready[f] \cap (interest[f] \cup Unasked)

ReadyFds == {f \in watched : Reported(f) # {}}

\* Mutants: events_ never grows, or grows whatever was reported.
NotResized(n) == size
ResizedAlways(n) == size * 2

Resized(n) == IF n > 0 /\ n = size THEN size * 2 ELSE size

\* fillActiveChannels(): the channel of each descriptor that epoll_wait() put
\* in events_.
ActiveChannels(reported) ==
    {[channel |-> channels[f], revents |-> Reported(f)] :
        f \in {g \in reported : channels[g] # NoChannel}}

\* poll() returns as many ready descriptors as events_ has room for, whichever
\* the kernel likes, or none after a timeout or a signal.
Poll ==
    /\ phase = "poll"
    /\ \E reported \in SUBSET ReadyFds :
        /\ \/ reported = ReadyFds /\ Cardinality(reported) <= size
           \/ Cardinality(reported) = size
        /\ active' = ActiveChannels(reported)
        /\ size' = Resized(Cardinality(reported))
    /\ phase' = "dispatch"
    /\ UNCHANGED <<ownVars, pollVars, ready, current>>

\* Channel::handleEventWithGuard(): does it call this callback?
Calls(callback, revents) ==
    \/ callback = "closeCallback_" /\ "HUP" \in revents /\ "IN" \notin revents
    \/ callback = "errorCallback_" /\ "ERR" \in revents
    \/ callback = "readCallback_" /\ "IN" \in revents
    \/ callback = "writeCallback_" /\ "OUT" \in revents

\* The next channel of activeChannels_: its callbacks begin, those that revents
\* calls for, with all they do to channels.  Those of a TcpConnection keep it.
HandleEvent(e) ==
    /\ phase = "dispatch"
    /\ e \in active
    /\ active' = active \ {e}
    /\ current' = e
    /\ UNCHANGED <<ownVars, pollVars, ready, size, phase>>

\* The last handler has returned: doPendingFunctors().
DoPendingFunctors ==
    /\ phase = "dispatch"
    /\ active = {}
    /\ phase' = "functors"
    /\ current' = NoEvent
    /\ UNCHANGED <<ownVars, pollVars, ready, size, active>>

FunctorsDone ==
    /\ phase = "functors"
    /\ phase' = "poll"
    /\ UNCHANGED <<ownVars, pollVars, ready, size, active, current>>

-----------------------------------------------------------------------------
Loop ==
    \/ Poll
    \/ \E e \in active : HandleEvent(e)
    \/ DoPendingFunctors
    \/ FunctorsDone

Owner(c) ==
    \/ \E f \in Fds : Construct(c, f)
    \/ EnableReading(c) \/ DisableReading(c)
    \/ EnableWriting(c) \/ DisableWriting(c)
    \/ DisableAll(c)
    \/ Remove(c)
    \/ Destroy(c)

Next ==
    \/ Loop
    \/ \E c \in Channels : Owner(c)
    \/ \E f \in Fds : ReadyChanges(f)

(* The loop's thread goes on: callbacks and functors return.               *)
Spec == Init /\ [][Next]_vars /\ WF_vars(Loop)

-----------------------------------------------------------------------------
(* Properties.                                                             *)

\* After any sequence of updates and removals, of several channels that use one
\* descriptor one after the other: index_ says whether channels_ has the channel
\* and whether the kernel watches it, the kernel watches it for events_, and
\* neither channels_ nor the kernel has a descriptor of anybody else.  The
\* assertions of updateChannel() follow.
KernelAgrees ==
    /\ \A c \in Channels :
        /\ index[c] # "kNew" => life[c] = "alive" /\ channels[fd[c]] = c
        /\ index[c] = "kAdded" =>
              fd[c] \in watched /\ interest[fd[c]] = events[c]
        /\ index[c] = "kDeleted" => events[c] = {}
    /\ \A f \in Fds :
        /\ channels[f] # NoChannel =>
              fd[channels[f]] = f /\ index[channels[f]] # "kNew"
        /\ f \in watched =>
              channels[f] # NoChannel /\ index[channels[f]] = "kAdded"

\* No channel is destroyed, nor its descriptor reused, between the poll that
\* reported it and the end of its handler, whatever the handlers before it do.
HandledIsAlive ==
    \A e \in active \cup ({current} \ {NoEvent}) : life[e.channel] = "alive"

\* Data that stay unread reach the channel's read callback, and a connection that
\* has hung up its close callback, however many other channels are always
\* ready: events_ grows until it has room for all.
WaitsFor(callback, c) ==
    /\ life[c] = "alive"
    /\ fd[c] \in watched
    /\ Calls(callback, Reported(fd[c]))

Gets(callback, c) ==
    current # NoEvent /\ current.channel = c /\ Calls(callback, current.revents)

ReadyIsHandled ==
    \A c \in Channels : \A callback \in {"readCallback_", "closeCallback_"} :
        WaitsFor(callback, c) ~> Gets(callback, c) \/ ~WaitsFor(callback, c)
=============================================================================
