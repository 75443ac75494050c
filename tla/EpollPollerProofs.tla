--------------------------- MODULE EpollPollerProofs ---------------------------
(***************************************************************************)
(* Theorems about EpollPoller, for any number of channels and descriptors: *)
(* the three places that say what a channel is registered for agree, and a *)
(* channel that is or will be handled exists.                              *)
(*                                                                         *)
(* The inductive invariant adds to KernelAgrees who owns a descriptor:     *)
(* without it a channel could be removed and take the channels_ entry of   *)
(* another with it.  HandledIsAlive needs to know when activeChannels_ is  *)
(* empty.                                                                  *)
(***************************************************************************)
EXTENDS EpollPoller, FiniteSetTheorems, TLAPS

Exists(c) == life[c] \in {"alive", "removed"}

\* A descriptor is that of one channel, from its construction to its destruction.
OneOwner ==
    /\ \A c \in Channels : fd[c] # NoFd <=> Exists(c)
    /\ \A c, d \in Channels : fd[c] # NoFd /\ fd[c] = fd[d] => c = d

\* activeChannels_ is empty and no handler runs outside of a dispatch.
DispatchOnly == phase # "dispatch" => active = {} /\ current = NoEvent

Registered == TypeOK /\ OneOwner /\ KernelAgrees

IInv == Registered /\ DispatchOnly /\ HandledIsAlive

(* Registration holds at first: nothing is registered.                     *)
LEMMA InitRegistered == Init => IInv
  BY EpollPollerAssumption
     DEF Init, IInv, Registered, TypeOK, OneOwner, Exists, KernelAgrees,
         DispatchOnly, HandledIsAlive

(* What fillActiveChannels() puts in activeChannels_ are channels that exist. *)
LEMMA ActiveExist ==
  ASSUME Registered, NEW reported \in SUBSET watched
  PROVE  /\ ActiveChannels(reported) \subseteq Event
         /\ \A e \in ActiveChannels(reported) : life[e.channel] = "alive"
  BY EpollPollerAssumption
     DEF ActiveChannels, Registered, TypeOK, KernelAgrees, Reported, Event

(* events_ grows to at most twice the descriptors there are.               *)
LEMMA SizeBounded ==
  ASSUME TypeOK, NEW reported \in SUBSET Fds
  PROVE  LET s == Resized(Cardinality(reported))
         IN  /\ s \in Nat \ {0}
             /\ s = InitSize \/ s <= 2 * Cardinality(Fds)
  <1>1. /\ Cardinality(reported) \in Nat /\ Cardinality(Fds) \in Nat
        /\ Cardinality(reported) <= Cardinality(Fds)
    BY EpollPollerAssumption, FS_Subset, FS_CardinalityType
  <1> QED
    BY <1>1, EpollPollerAssumption DEF TypeOK, Resized

(* An update of events_ keeps the registration: the heart of updateChannel(). *)
LEMMA UpdateRegistered ==
  ASSUME IInv, NEW c \in Channels, NEW ev \in SUBSET Interests, SetEvents(c, ev)
  PROVE  IInv'
  <1> USE EpollPollerAssumption
          DEF IInv, Registered, SetEvents, UpdateChannel, Watch, Unwatch, loopVars
  <1>1. fd[c] \in Fds
    BY DEF TypeOK, OneOwner, Exists
  <1>2. TypeOK'
    BY <1>1 DEF TypeOK, Event
  <1>3. OneOwner'
    BY DEF OneOwner, Exists
  <1>4. KernelAgrees'
    BY <1>1 DEF TypeOK, OneOwner, Exists, KernelAgrees
  <1>5. DispatchOnly' /\ HandledIsAlive'
    BY DEF DispatchOnly, HandledIsAlive
  <1> QED
    BY <1>2, <1>3, <1>4, <1>5

(* A removal takes nothing from any other channel.                         *)
LEMMA RemoveRegistered ==
  ASSUME IInv, NEW c \in Channels, Remove(c)
  PROVE  IInv'
  <1> USE EpollPollerAssumption
          DEF IInv, Registered, Remove, MayRemove, Unwatch, loopVars
  <1>1. fd[c] \in Fds
    BY DEF TypeOK, OneOwner, Exists
  <1>2. TypeOK'
    BY <1>1 DEF TypeOK, Event
  <1>3. OneOwner'
    BY DEF TypeOK, OneOwner, Exists
  <1>4. KernelAgrees'
    BY <1>1 DEF TypeOK, OneOwner, Exists, KernelAgrees
  <1>5. DispatchOnly' /\ HandledIsAlive'
    BY DEF DispatchOnly, HandledIsAlive
  <1> QED
    BY <1>2, <1>3, <1>4, <1>5

(* Nothing is registered for a channel that is constructed or destroyed.   *)
LEMMA LifeRegistered ==
  ASSUME IInv, NEW c \in Channels,
         Destroy(c) \/ \E f \in Fds : Construct(c, f)
  PROVE  IInv'
  <1> USE EpollPollerAssumption DEF IInv, Registered, loopVars
  <1>1. CASE Destroy(c)
    <2>1. fd[c] \in Fds /\ fd[c] \notin watched
      BY <1>1 DEF Destroy, TypeOK, OneOwner, Exists, KernelAgrees
    <2>2. TypeOK'
      BY <1>1, <2>1 DEF Destroy, TypeOK, Event
    <2>3. OneOwner'
      BY <1>1 DEF Destroy, TypeOK, OneOwner, Exists
    <2>4. KernelAgrees'
      BY <1>1, <2>1 DEF Destroy, TypeOK, OneOwner, Exists, KernelAgrees
    <2>5. DispatchOnly' /\ HandledIsAlive'
      BY <1>1 DEF Destroy, DispatchOnly, HandledIsAlive, TypeOK, Event
    <2> QED
      BY <2>2, <2>3, <2>4, <2>5
  <1>2. ASSUME NEW f \in Fds, Construct(c, f)
        PROVE  IInv'
    <2>1. \A d \in Channels : fd[d] # f
      BY <1>2 DEF Construct, OpenFds
    <2>2. TypeOK'
      BY <1>2 DEF Construct, TypeOK, Event, pollVars
    <2>3. OneOwner'
      BY <1>2, <2>1 DEF Construct, TypeOK, OneOwner, Exists
    <2>4. KernelAgrees'
      BY <1>2, <2>1 DEF Construct, TypeOK, OneOwner, Exists, KernelAgrees, pollVars
    <2>5. DispatchOnly' /\ HandledIsAlive'
      BY <1>2 DEF Construct, DispatchOnly, HandledIsAlive, TypeOK, Event
    <2> QED
      BY <2>2, <2>3, <2>4, <2>5
  <1> QED
    BY <1>1, <1>2

(* The loop itself registers nothing; a poll reports channels that exist.  *)
LEMMA LoopRegistered ==
  ASSUME IInv, Loop
  PROVE  IInv'
  <1> USE EpollPollerAssumption DEF IInv, Registered, ownVars, pollVars
  <1>1. CASE Poll
    <2>1. PICK reported \in SUBSET ReadyFds :
              /\ active' = ActiveChannels(reported)
              /\ size' = Resized(Cardinality(reported))
      BY <1>1 DEF Poll
    <2>2. reported \in SUBSET watched /\ reported \in SUBSET Fds
      BY <2>1 DEF ReadyFds, TypeOK
    <2>3. active' \subseteq Event /\ \A e \in active' : life[e.channel] = "alive"
      BY <2>1, <2>2, ActiveExist
    <2>4. size' \in Nat \ {0} /\ (size' = InitSize \/ size' <= 2 * Cardinality(Fds))
      BY <2>1, <2>2, SizeBounded
    <2>5. TypeOK'
      BY <1>1, <2>3, <2>4 DEF Poll, TypeOK
    <2>6. OneOwner' /\ KernelAgrees'
      BY <1>1 DEF Poll, OneOwner, Exists, KernelAgrees
    <2>7. DispatchOnly' /\ HandledIsAlive'
      BY <1>1, <2>3 DEF Poll, DispatchOnly, HandledIsAlive
    <2> QED
      BY <2>5, <2>6, <2>7
  <1>2. CASE \E e \in active : HandleEvent(e)
    <2> PICK e \in active : HandleEvent(e)
      BY <1>2
    <2>1. TypeOK'
      BY DEF HandleEvent, TypeOK
    <2>2. OneOwner' /\ KernelAgrees'
      BY DEF HandleEvent, OneOwner, Exists, KernelAgrees
    <2>3. DispatchOnly' /\ HandledIsAlive'
      BY DEF HandleEvent, DispatchOnly, HandledIsAlive
    <2> QED
      BY <2>1, <2>2, <2>3
  <1>3. CASE DoPendingFunctors \/ FunctorsDone
    <2>1. TypeOK'
      BY <1>3 DEF DoPendingFunctors, FunctorsDone, TypeOK
    <2>2. OneOwner' /\ KernelAgrees'
      BY <1>3 DEF DoPendingFunctors, FunctorsDone, OneOwner, Exists, KernelAgrees
    <2>3. DispatchOnly' /\ HandledIsAlive'
      BY <1>3 DEF DoPendingFunctors, FunctorsDone, DispatchOnly, HandledIsAlive
    <2> QED
      BY <2>1, <2>2, <2>3
  <1> QED
    BY <1>1, <1>2, <1>3 DEF Loop

LEMMA NextRegistered == IInv /\ [Next]_vars => IInv'
  <1> SUFFICES ASSUME IInv, [Next]_vars PROVE IInv'
    OBVIOUS
  <1>1. CASE Loop
    BY <1>1, LoopRegistered
  <1>2. ASSUME NEW c \in Channels, Owner(c) PROVE IInv'
    <2>1. events[c] \in SUBSET Interests
      BY DEF IInv, Registered, TypeOK
    <2>2. CASE \/ EnableReading(c) \/ DisableReading(c)
               \/ EnableWriting(c) \/ DisableWriting(c) \/ DisableAll(c)
      <3>1. \E ev \in SUBSET Interests : SetEvents(c, ev)
        BY <2>1, <2>2 DEF EnableReading, DisableReading, EnableWriting,
                          DisableWriting, DisableAll, Interests
      <3> QED
        BY <3>1, UpdateRegistered
    <2>3. CASE Remove(c)
      BY <2>3, RemoveRegistered
    <2>4. CASE Destroy(c) \/ \E f \in Fds : Construct(c, f)
      BY <2>4, LifeRegistered
    <2> QED
      BY <1>2, <2>2, <2>3, <2>4 DEF Owner
  <1>3. CASE \E f \in Fds : ReadyChanges(f)
    BY <1>3 DEF ReadyChanges, ownVars, pollVars, loopVars, IInv, Registered,
                TypeOK, OneOwner, Exists, KernelAgrees, DispatchOnly, HandledIsAlive
  <1>4. CASE UNCHANGED vars
    BY <1>4 DEF vars, ownVars, pollVars, loopVars, IInv, Registered, TypeOK,
                OneOwner, Exists, KernelAgrees, DispatchOnly, HandledIsAlive
  <1> QED
    BY <1>1, <1>2, <1>3, <1>4 DEF Next

LEMMA Invariance == Spec => []IInv
  <1> QED
    BY InitRegistered, NextRegistered, PTL DEF Spec

(* TypeOK, with the bound on events_, which poll() doubles when it is full. *)
THEOREM TypeCorrect == Spec => []TypeOK
  <1>1. IInv => TypeOK
    BY DEF IInv, Registered
  <1> QED
    BY <1>1, Invariance, PTL

(* After any sequence of updates and removals events_, index_, channels_ and
   the kernel's epoll set agree: the assertions of updateChannel() hold. *)
THEOREM PollerAgrees == Spec => []KernelAgrees
  <1>1. IInv => KernelAgrees
    BY DEF IInv, Registered
  <1> QED
    BY <1>1, Invariance, PTL

(* A channel is not destroyed while it is in activeChannels_: loop() calls
   handleEvent() of channels that exist. *)
THEOREM HandledExist == Spec => []HandledIsAlive
  <1>1. IInv => HandledIsAlive
    BY DEF IInv
  <1> QED
    BY <1>1, Invariance, PTL
=============================================================================
