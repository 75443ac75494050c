---------------------------- MODULE TcpServerProofs ----------------------------
(***************************************************************************)
(* Theorems about TcpServer, for any number of clients, descriptors and    *)
(* threads: each connection is established and destroyed once, no poller   *)
(* outlives a channel it points to, and the process dies of a few things.  *)
(*                                                                         *)
(* The argument follows two tokens of each connection.  One says that it   *)
(* is still to be established: the functor connectEstablished().  The      *)
(* other says who will destroy it: connections_, then the functor          *)
(* connectDestroyed(), then nobody, for it has been destroyed.             *)
(***************************************************************************)
EXTENDS TcpServer, SequenceTheorems, TLAPS

Ops == {"connectEstablished", "removeConnectionInLoop", "connectDestroyed"}

-----------------------------------------------------------------------------
(* Queues.                                                                 *)

HasIn(q, l, op, c) == \E i \in 1 .. Len(q[l]) : q[l][i] = Functor(op, c)

\* No functor is queued twice, and connectDestroyed() never comes before the
\* connectEstablished() of its connection.
NoneTwice(s) == \A i, j \in 1 .. Len(s) : s[i] = s[j] => i = j

EstablishedFirst(s) ==
    \A c \in Conns : \A i, j \in 1 .. Len(s) :
        /\ s[i] = Functor("connectDestroyed", c)
        /\ s[j] = Functor("connectEstablished", c)
        => j < i

Queues(q) ==
    /\ q \in [Loops -> Seq(Functors)]
    /\ \A l \in Loops : NoneTwice(q[l]) /\ EstablishedFirst(q[l])

Shifted(q, l) == [q EXCEPT ![l] = Tail(q[l])]

Pushed(q, l, op, c) == [q EXCEPT ![l] = Append(q[l], Functor(op, c))]

\* A functor is its method and its connection.
LEMMA FunctorsDiffer ==
  ASSUME NEW op, NEW c, NEW o, NEW d
  PROVE  Functor(op, c) = Functor(o, d) <=> op = o /\ c = d
  <1>1. Functor(op, c).op = op /\ Functor(op, c).conn = c
    BY DEF Functor
  <1>2. Functor(o, d).op = o /\ Functor(o, d).conn = d
    BY DEF Functor
  <1> QED
    BY <1>1, <1>2

\* queueInLoop() of a functor that is not queued.
LEMMA PushKeeps ==
  ASSUME NEW q, Queues(q), NEW l \in Loops, NEW op \in Ops, NEW c \in Conns,
         ~HasIn(q, l, op, c),
         op = "connectEstablished" => ~HasIn(q, l, "connectDestroyed", c)
  PROVE  /\ Queues(Pushed(q, l, op, c))
         /\ \A k \in Loops : \A o, d :
               HasIn(Pushed(q, l, op, c), k, o, d) <=>
                  HasIn(q, k, o, d) \/ (k = l /\ o = op /\ d = c)
  <1> DEFINE f == Functor(op, c)
             s == Append(q[l], f)
             p == Pushed(q, l, op, c)
  <1>1. q \in [Loops -> Seq(Functors)] /\ q[l] \in Seq(Functors)
    BY DEF Queues
  <1>2. f \in Functors
    BY DEF Functor, Functors, Ops
  <1>3. /\ s \in Seq(Functors) /\ Len(q[l]) \in Nat /\ Len(s) = Len(q[l]) + 1
        /\ \A i \in 1 .. Len(q[l]) : s[i] = q[l][i]
        /\ s[Len(q[l]) + 1] = f
    BY <1>1, <1>2, AppendProperties
  <1>4. /\ p \in [Loops -> Seq(Functors)] /\ p[l] = s
        /\ \A k \in Loops : k # l => p[k] = q[k]
    BY <1>1, <1>3 DEF Pushed
  <1> HIDE DEF f, s, p
  <1>5. \A i \in 1 .. Len(s) :
           \/ i \in 1 .. Len(q[l]) /\ s[i] = q[l][i]
           \/ i = Len(q[l]) + 1 /\ s[i] = f
    BY <1>3
  <1>6. /\ \A i \in 1 .. Len(q[l]) : i \in 1 .. Len(s) /\ i < Len(q[l]) + 1
        /\ Len(q[l]) + 1 \in 1 .. Len(s)
    BY <1>3
  <1>7. \A i \in 1 .. Len(q[l]) : q[l][i] # f
    BY DEF HasIn, f
  <1>8. NoneTwice(s)
    <2>1. NoneTwice(q[l])
      BY DEF Queues
    <2> QED
      BY <1>5, <1>7, <2>1 DEF NoneTwice
  <1>9. EstablishedFirst(s)
    <2>1. EstablishedFirst(q[l])
      BY DEF Queues
    <2>2. SUFFICES ASSUME NEW d \in Conns,
                          NEW i \in 1 .. Len(s), NEW j \in 1 .. Len(s),
                          s[i] = Functor("connectDestroyed", d),
                          s[j] = Functor("connectEstablished", d)
                   PROVE  j < i
      BY DEF EstablishedFirst
    <2>3. CASE i \in 1 .. Len(q[l]) /\ j \in 1 .. Len(q[l])
      BY <1>3, <2>1, <2>2, <2>3 DEF EstablishedFirst
    <2>4. CASE i = Len(q[l]) + 1 /\ j \in 1 .. Len(q[l])
      BY <1>6, <2>4
    <2>5. CASE i \in 1 .. Len(q[l]) /\ j = Len(q[l]) + 1
      <3>1. f = Functor("connectEstablished", d)
        BY <1>3, <2>2, <2>5
      <3>2. op = "connectEstablished" /\ c = d
        BY <3>1, FunctorsDiffer DEF f
      <3>3. HasIn(q, l, "connectDestroyed", c)
        BY <1>3, <2>2, <2>5, <3>2 DEF HasIn
      <3> QED
        BY <3>2, <3>3
    <2>6. CASE i = Len(q[l]) + 1 /\ j = Len(q[l]) + 1
      <3>1. Functor("connectDestroyed", d) = Functor("connectEstablished", d)
        BY <2>2, <2>6
      <3> QED
        BY <3>1, FunctorsDiffer
    <2> QED
      BY <1>5, <2>3, <2>4, <2>5, <2>6
  <1>10. Queues(p)
    BY <1>4, <1>8, <1>9 DEF Queues
  <1>11. ASSUME NEW k \in Loops, NEW o, NEW d
         PROVE  HasIn(p, k, o, d) <=>
                   HasIn(q, k, o, d) \/ (k = l /\ o = op /\ d = c)
    <2>1. CASE k # l
      BY <1>4, <2>1 DEF HasIn
    <2>2. CASE k = l
      <3>1. f = Functor(o, d) <=> o = op /\ d = c
        BY FunctorsDiffer DEF f
      <3>2. HasIn(p, l, o, d) <=> \E i \in 1 .. Len(s) : s[i] = Functor(o, d)
        BY <1>4 DEF HasIn
      <3> QED
        BY <1>3, <1>5, <1>6, <2>2, <3>1, <3>2 DEF HasIn
    <2> QED
      BY <2>1, <2>2
  <1> QED
    BY <1>10, <1>11 DEF p

\* doPendingFunctors() takes the oldest functor: it is queued no more, and if it
\* destroys its connection, nothing is left that would establish it.
LEMMA PopKeeps ==
  ASSUME NEW q, Queues(q), NEW l \in Loops, NEW op, NEW c \in Conns,
         q[l] # <<>>, Head(q[l]) = Functor(op, c)
  PROVE  /\ Queues(Shifted(q, l))
         /\ \A k \in Loops : \A o, d :
               HasIn(Shifted(q, l), k, o, d) <=>
                  HasIn(q, k, o, d) /\ ~(k = l /\ o = op /\ d = c)
         /\ HasIn(q, l, op, c)
         /\ op = "connectDestroyed" => ~HasIn(q, l, "connectEstablished", c)
  <1> DEFINE s == Tail(q[l])
             p == Shifted(q, l)
  <1>1. q \in [Loops -> Seq(Functors)] /\ q[l] \in Seq(Functors)
    BY DEF Queues
  <1>2. /\ q[l][1] = Functor(op, c) /\ s \in Seq(Functors)
        /\ Len(q[l]) \in Nat /\ Len(q[l]) >= 1 /\ Len(s) = Len(q[l]) - 1
        /\ \A i \in 1 .. Len(s) : s[i] = q[l][i + 1]
    BY <1>1, HeadTailProperties
  <1>3. /\ p \in [Loops -> Seq(Functors)] /\ p[l] = s
        /\ \A k \in Loops : k # l => p[k] = q[k]
    BY <1>1, <1>2 DEF Shifted
  <1> HIDE DEF s, p
  <1>4. /\ \A i \in 1 .. Len(s) : i + 1 \in 1 .. Len(q[l]) /\ i + 1 # 1
        /\ \A i \in 1 .. Len(q[l]) : i # 1 => i - 1 \in 1 .. Len(s)
        /\ 1 \in 1 .. Len(q[l])
    BY <1>2
  <1>5. \A i \in 1 .. Len(q[l]) : i # 1 => s[i - 1] = q[l][i]
    BY <1>2, <1>4
  <1>6. NoneTwice(q[l]) /\ EstablishedFirst(q[l])
    BY DEF Queues
  <1>7. NoneTwice(s)
    <2>1. SUFFICES ASSUME NEW i \in 1 .. Len(s), NEW j \in 1 .. Len(s),
                          s[i] = s[j]
                   PROVE  i = j
      BY DEF NoneTwice
    <2>2. i + 1 = j + 1
      BY <1>2, <1>4, <1>6, <2>1 DEF NoneTwice
    <2> QED
      BY <1>2, <2>2
  <1>8. EstablishedFirst(s)
    <2>1. SUFFICES ASSUME NEW d \in Conns,
                          NEW i \in 1 .. Len(s), NEW j \in 1 .. Len(s),
                          s[i] = Functor("connectDestroyed", d),
                          s[j] = Functor("connectEstablished", d)
                   PROVE  j < i
      BY DEF EstablishedFirst
    <2>2. j + 1 < i + 1
      BY <1>2, <1>4, <1>6, <2>1 DEF EstablishedFirst
    <2> QED
      BY <1>2, <2>2
  <1>9. Queues(p)
    BY <1>3, <1>7, <1>8 DEF Queues
  <1>10. ASSUME NEW k \in Loops, NEW o, NEW d
         PROVE  HasIn(p, k, o, d) <=>
                   HasIn(q, k, o, d) /\ ~(k = l /\ o = op /\ d = c)
    <2>1. CASE k # l
      BY <1>3, <2>1 DEF HasIn
    <2>2. CASE k = l
      <3>1. q[l][1] = Functor(o, d) <=> o = op /\ d = c
        BY <1>2, FunctorsDiffer
      <3>2. HasIn(p, l, o, d) <=> \E i \in 1 .. Len(s) : s[i] = Functor(o, d)
        BY <1>3 DEF HasIn
      <3>3. HasIn(p, l, o, d) => HasIn(q, l, o, d) /\ q[l][1] # Functor(o, d)
        BY <1>2, <1>4, <1>6, <3>2 DEF HasIn, NoneTwice
      <3>4. HasIn(q, l, o, d) /\ q[l][1] # Functor(o, d) => HasIn(p, l, o, d)
        BY <1>4, <1>5, <3>2 DEF HasIn
      <3> QED
        BY <2>2, <3>1, <3>3, <3>4
    <2> QED
      BY <2>1, <2>2
  <1>11. HasIn(q, l, op, c)
    BY <1>2, <1>4 DEF HasIn
  <1>12. op = "connectDestroyed" => ~HasIn(q, l, "connectEstablished", c)
    <2>1. SUFFICES ASSUME op = "connectDestroyed", NEW j \in 1 .. Len(q[l]),
                          q[l][j] = Functor("connectEstablished", c)
                   PROVE  FALSE
      BY DEF HasIn
    <2>2. j < 1
      BY <1>2, <1>4, <1>6, <2>1 DEF EstablishedFirst
    <2> QED
      BY <1>2, <2>2
  <1> QED
    BY <1>9, <1>10, <1>11, <1>12 DEF p, s

-----------------------------------------------------------------------------
(* The invariant.                                                          *)

Has(l, op, c) == HasIn(queue, l, op, c)
Establishing(c) == Has(loopOf[c], "connectEstablished", c)
Destroying(c) == Has(loopOf[c], "connectDestroyed", c)
Removing(c) == Has(0, "removeConnectionInLoop", c)

Serving == server \notin {"dying", "destroyed"}

\* Round robin starts with the first loop.
FirstLoop == loops = <<>> => next = 0

\* A functor is queued in its connection's loop, or in the base loop.
Placed ==
    \A l \in Loops, c \in Conns :
        /\ Has(l, "connectEstablished", c) =>
              l = loopOf[c] /\ l # 0 /\ c < nextConnId
        /\ Has(l, "connectDestroyed", c) => l = loopOf[c] /\ c < nextConnId
        /\ Has(l, "removeConnectionInLoop", c) => l = 0 /\ c < nextConnId

NotYet ==
    \A c \in Conns : c >= nextConnId =>
        fdOf[c] = NoFd /\ calls[c].established = 0 /\ calls[c].destroyed = 0

\* The two tokens of a connection that was accepted, and what holds of it while
\* removeConnectionInLoop() is queued.
Accepted ==
    \A c \in Conns : c < nextConnId =>
        /\ calls[c].established \in {0, 1}
        /\ calls[c].established = 0 <=> Establishing(c)
        /\ calls[c].destroyed \in {0, 1}
        /\ calls[c].destroyed = 1 => calls[c].established = 1
        /\ c \in connections => ~Destroying(c) /\ calls[c].destroyed = 0
        /\ Destroying(c) => calls[c].destroyed = 0
        /\ c \in connections \/ Destroying(c) \/ calls[c].destroyed = 1
        /\ calls[c].destroyed = 0 => fdOf[c] # NoFd
        /\ Removing(c) =>
              /\ calls[c].established = 1 /\ state[c] = "kDisconnected"
              /\ loopOf[c] # 0 /\ c \in peerClosed
        /\ Serving /\ (Removing(c) \/ Establishing(c)) => c \in connections

\* No two connections have one descriptor.
OwnFd == \A c, d \in Conns : fdOf[c] = fdOf[d] /\ fdOf[c] # NoFd => c = d

\* What a poller knows is a connection between its two calls, and what it
\* watches is one that is up; the base loop's is always in connections_.
Registered ==
    \A l \in Loops, fd \in Fds, c \in Conns : channels[l][fd] = c =>
        /\ l = loopOf[c] /\ fdOf[c] = fd
        /\ calls[c].established = 1 /\ calls[c].destroyed = 0
        /\ fd \in interest[l] => state[c] \in {"kConnected", "kDisconnecting"}
        /\ fd \in interest[l] /\ (Serving \/ l = 0) => c \in connections

Watched ==
    \A l \in Loops, fd \in Fds : fd \in interest[l] => channels[l][fd] # NoConn

ConnInv == Placed /\ NotYet /\ Accepted /\ OwnFd /\ Registered /\ Watched

\* ~TcpServer() leaves nothing in connections_.
Emptied == server = "destroyed" => connections = {}

IInv ==
    /\ TypeOK /\ FirstLoop /\ Queues(queue) /\ ConnInv
    /\ Emptied /\ DiesOnlyOf

\* What the assumption says of the loops and the connections.
LEMMA Constants ==
  /\ 0 \in Loops /\ Loops \subseteq Nat /\ Conns \subseteq Nat
  /\ MaxConns \in Nat /\ NoFd \notin Fds /\ NoConn \notin Conns
  <1>1. ThreadNums \subseteq Nat /\ MaxConns \in Nat
        /\ NoFd \notin Fds /\ NoConn \notin Conns
    BY TcpServerAssumption DEF Conns
  <1>2. PICK n \in ThreadNums : TRUE
    BY TcpServerAssumption
  <1>3. 0 \in 0 .. n
    BY <1>1, <1>2
  <1>4. \A l \in Loops : \E m \in ThreadNums : l \in 0 .. m
    BY DEF Loops
  <1> QED
    BY <1>1, <1>2, <1>3, <1>4 DEF Loops, Conns

LEMMA InitInv ==
  ASSUME Init
  PROVE  IInv
  <1>1. \A l \in Loops : \A op, c : ~Has(l, op, c)
    BY DEF Init, Has, HasIn
  <1>2. TypeOK
    <2>1. /\ loops \in Seq({l \in Loops \ {0} : thread[l] \in {"published", "looping"}})
          /\ queue \in [Loops -> Seq(Functors)]
      BY DEF Init
    <2>2. /\ thread \in [Loops \ {0} -> ThreadStates]
          /\ state \in [Conns -> ConnStates]
          /\ server \in ServerStates
      BY DEF Init, ThreadStates, ConnStates, ServerStates
    <2>3. /\ loopOf \in [Conns -> Loops] /\ fdOf \in [Conns -> Fds \cup {NoFd}]
          /\ channels \in [Loops -> [Fds -> Conns \cup {NoConn}]]
          /\ interest \in [Loops -> SUBSET Fds]
          /\ calls \in [Conns -> [established: Nat, destroyed: Nat]]
      BY Constants DEF Init
    <2>4. /\ nextConnId \in 1 .. MaxConns + 1
          /\ connections \subseteq 1 .. nextConnId - 1
          /\ next \in Nat /\ (loops # <<>> => next < Len(loops))
      BY Constants DEF Init
    <2> QED
      BY <2>1, <2>2, <2>3, <2>4 DEF Init, TypeOK
  <1>3. Queues(queue)
    BY DEF Init, Queues, NoneTwice, EstablishedFirst
  <1>4. Placed /\ NotYet
    BY <1>1 DEF Init, Placed, NotYet
  <1>5. Accepted
    <2>1. \A c \in Conns : ~(c < nextConnId)
      BY Constants DEF Init, Conns
    <2> QED
      BY <2>1 DEF Accepted
  <1>6. OwnFd /\ Registered /\ Watched
    BY Constants DEF Init, OwnFd, Registered, Watched
  <1>7. DiesOnlyOf /\ Emptied /\ FirstLoop
    BY DEF Init, DiesOnlyOf, Emptied, FirstLoop
  <1> QED
    BY <1>2, <1>3, <1>4, <1>5, <1>6, <1>7 DEF IInv, ConnInv

\* A step that leaves the process alive, or that a system call makes abort.
LEMMA Unharmed ==
  ASSUME Alive, crash' = crash \/ crash' = "abort"
  PROVE  DiesOnlyOf'
  BY DEF Alive, DiesOnlyOf

-----------------------------------------------------------------------------
(* connectEstablished() and connectDestroyed(), element by element.        *)

LEMMA EstablishEffect ==
  ASSUME TypeOK, NEW c \in Conns, NEW l \in Loops, NEW fd \in Fds,
         Establish(c, l, fd)
  PROVE  /\ state' \in [Conns -> ConnStates] /\ state'[c] = "kConnected"
         /\ channels' \in [Loops -> [Fds -> Conns \cup {NoConn}]]
         /\ channels'[l][fd] = c
         /\ interest' \in [Loops -> SUBSET Fds]
         /\ \A k \in Loops, f \in Fds :
               /\ k # l \/ f # fd => channels'[k][f] = channels[k][f]
               /\ f \in interest'[k] <=> f \in interest[k] \/ (k = l /\ f = fd)
         /\ calls' \in [Conns -> [established: Nat, destroyed: Nat]]
         /\ calls'[c].established = calls[c].established + 1
         /\ calls'[c].destroyed = calls[c].destroyed
         /\ \A d \in Conns : d # c => state'[d] = state[d] /\ calls'[d] = calls[d]
         /\ crash' = IF channels[l][fd] = NoConn THEN crash ELSE "assert"
  <1>1. /\ state' \in [Conns -> ConnStates] /\ state'[c] = "kConnected"
        /\ \A d \in Conns : d # c => state'[d] = state[d]
    BY DEF Establish, TypeOK, ConnStates
  <1>2. /\ channels' \in [Loops -> [Fds -> Conns \cup {NoConn}]]
        /\ channels'[l][fd] = c
        /\ \A k \in Loops, f \in Fds :
              k # l \/ f # fd => channels'[k][f] = channels[k][f]
    <2>1. channels \in [Loops -> [Fds -> Conns \cup {NoConn}]]
      BY DEF TypeOK
    <2>2. channels' = [channels EXCEPT ![l] = [channels[l] EXCEPT ![fd] = c]]
      BY <2>1 DEF Establish
    <2> QED
      BY <2>1, <2>2
  <1>3. /\ interest' \in [Loops -> SUBSET Fds]
        /\ \A k \in Loops, f \in Fds :
              f \in interest'[k] <=> f \in interest[k] \/ (k = l /\ f = fd)
    BY DEF Establish, TypeOK
  <1>4. /\ calls' \in [Conns -> [established: Nat, destroyed: Nat]]
        /\ calls'[c].established = calls[c].established + 1
        /\ calls'[c].destroyed = calls[c].destroyed
        /\ \A d \in Conns : d # c => calls'[d] = calls[d]
    <2>1. /\ calls \in [Conns -> [established: Nat, destroyed: Nat]]
          /\ calls[c] \in [established: Nat, destroyed: Nat]
          /\ calls[c].established + 1 \in Nat
      BY DEF TypeOK
    <2>2. calls' = [calls EXCEPT ![c] =
             [calls[c] EXCEPT !.established = calls[c].established + 1]]
      BY DEF Establish
    <2> QED
      BY <2>1, <2>2
  <1> QED
    BY <1>1, <1>2, <1>3, <1>4 DEF Establish

LEMMA DestroyEffect ==
  ASSUME TypeOK, NEW c \in Conns, NEW l \in Loops, NEW fd \in Fds,
         Destroy(c, l, fd)
  PROVE  /\ state' \in [Conns -> ConnStates]
         /\ state'[c] = IF state[c] = "kConnected" THEN "kDisconnected"
                                                   ELSE state[c]
         /\ channels' \in [Loops -> [Fds -> Conns \cup {NoConn}]]
         /\ channels'[l][fd] = NoConn
         /\ interest' \in [Loops -> SUBSET Fds]
         /\ \A k \in Loops, f \in Fds :
               /\ k # l \/ f # fd => channels'[k][f] = channels[k][f]
               /\ f \in interest'[k] <=> f \in interest[k] /\ ~(k = l /\ f = fd)
         /\ calls' \in [Conns -> [established: Nat, destroyed: Nat]]
         /\ calls'[c].established = calls[c].established
         /\ calls'[c].destroyed = calls[c].destroyed + 1
         /\ \A d \in Conns : d # c => state'[d] = state[d] /\ calls'[d] = calls[d]
         /\ crash' = IF state[c] # "kConnected" /\ fd \in interest[l]
                       THEN "assert" ELSE crash
  <1>1. /\ state' \in [Conns -> ConnStates]
        /\ state'[c] = IF state[c] = "kConnected" THEN "kDisconnected"
                                                  ELSE state[c]
        /\ \A d \in Conns : d # c => state'[d] = state[d]
    BY DEF Destroy, TypeOK, ConnStates
  <1>2. /\ channels' \in [Loops -> [Fds -> Conns \cup {NoConn}]]
        /\ channels'[l][fd] = NoConn
        /\ \A k \in Loops, f \in Fds :
              k # l \/ f # fd => channels'[k][f] = channels[k][f]
    <2>1. channels \in [Loops -> [Fds -> Conns \cup {NoConn}]]
      BY DEF TypeOK
    <2>2. channels' = [channels EXCEPT ![l] = [channels[l] EXCEPT ![fd] = NoConn]]
      BY <2>1 DEF Destroy, Unregistered
    <2> QED
      BY <2>1, <2>2
  <1>3. /\ interest' \in [Loops -> SUBSET Fds]
        /\ \A k \in Loops, f \in Fds :
              f \in interest'[k] <=> f \in interest[k] /\ ~(k = l /\ f = fd)
    BY DEF Destroy, TypeOK
  <1>4. /\ calls' \in [Conns -> [established: Nat, destroyed: Nat]]
        /\ calls'[c].established = calls[c].established
        /\ calls'[c].destroyed = calls[c].destroyed + 1
        /\ \A d \in Conns : d # c => calls'[d] = calls[d]
    <2>1. /\ calls \in [Conns -> [established: Nat, destroyed: Nat]]
          /\ calls[c] \in [established: Nat, destroyed: Nat]
          /\ calls[c].destroyed + 1 \in Nat
      BY DEF TypeOK
    <2>2. calls' = [calls EXCEPT ![c] =
             [calls[c] EXCEPT !.destroyed = calls[c].destroyed + 1]]
      BY DEF Destroy
    <2> QED
      BY <2>1, <2>2
  <1> QED
    BY <1>1, <1>2, <1>3, <1>4 DEF Destroy

-----------------------------------------------------------------------------
(* Steps that leave the connections alone.                                 *)

ReadyLoops == {l \in Loops \ {0} : thread[l] \in {"published", "looping"}}

\* The invariant of the connections is about nothing else.
LEMMA ConnFrame ==
  ASSUME ConnInv, Serving' => Serving, peerClosed \subseteq peerClosed',
         UNCHANGED <<connVars, pollVars, connections, fdOf, state, queue, calls>>
  PROVE  ConnInv'
  <1>1. UNCHANGED <<loopOf, nextConnId, channels, interest, connections, fdOf,
                    state, queue, calls>>
    BY DEF connVars, pollVars
  <1>2. Placed' /\ NotYet'
    BY <1>1 DEF ConnInv, Placed, NotYet, Has
  <1>3. Accepted'
    BY <1>1 DEF ConnInv, Accepted, Establishing, Destroying, Removing, Has
  <1>4. OwnFd' /\ Registered' /\ Watched'
    BY <1>1 DEF ConnInv, OwnFd, Registered, Watched
  <1> QED
    BY <1>2, <1>3, <1>4 DEF ConnInv

\* A thread that has published its loop never takes it back.
LEMMA LoopsReady ==
  ASSUME TypeOK, UNCHANGED loops,
         \A l \in Loops \ {0} : thread[l] \in {"published", "looping"} =>
                                thread'[l] \in {"published", "looping"}
  PROVE  loops' \in Seq(ReadyLoops')
  <1>1. loops \in Seq(ReadyLoops)
    BY DEF TypeOK, ReadyLoops
  <1>2. ReadyLoops \subseteq ReadyLoops'
    BY DEF ReadyLoops
  <1>3. \A i \in 1 .. Len(loops) : loops[i] \in ReadyLoops'
    BY <1>1, <1>2, ElementOfSeq
  <1> QED
    BY <1>1, <1>3, SeqMonotonic

\* start() and the threads of the pool.
LEMMA QuietInv ==
  ASSUME IInv, UNCHANGED startVars, Serving' => Serving, server' \in ServerStates,
         thread' \in [Loops \ {0} -> ThreadStates], loops' \in Seq(ReadyLoops'),
         loops' = loops \/ Len(loops') = Len(loops) + 1,
         crash' \in {crash, "bad_function_call"}, Emptied', DiesOnlyOf'
  PROVE  IInv'
  <1>1. TypeOK /\ FirstLoop /\ Queues(queue) /\ ConnInv
    BY DEF IInv
  <1>2. /\ UNCHANGED <<loopOf, nextConnId, next, channels, interest, numThreads,
                       initCallback, baseRuns, connections, fdOf, state,
                       peerClosed, queue, calls>>
        /\ UNCHANGED <<connVars, pollVars>>
    BY DEF startVars, connVars, pollVars
  <1>3. Len(loops) \in Nat /\ (loops = <<>> => Len(loops) = 0)
    BY <1>1, EmptySeq, LenProperties DEF TypeOK
  <1>4. FirstLoop' /\ (loops' # <<>> => next' < Len(loops'))
    <2>1. CASE loops' = loops
      BY <1>1, <1>2, <2>1 DEF FirstLoop, TypeOK
    <2>2. CASE Len(loops') = Len(loops) + 1
      <3>1. loops' # <<>>
        BY <1>3, <2>2
      <3>2. next < Len(loops')
        BY <1>1, <1>3, <2>2 DEF FirstLoop, TypeOK
      <3> QED
        BY <1>2, <3>1, <3>2 DEF FirstLoop
    <2> QED
      BY <2>1, <2>2
  <1>5. TypeOK'
    <2>1. crash' \in {"none", "abort", "assert", "use_after_free",
                      "bad_function_call"}
      BY <1>1 DEF TypeOK
    <2>2. loops' \in Seq({l \in Loops \ {0} : thread'[l] \in {"published", "looping"}})
      BY DEF ReadyLoops
    <2> QED
      BY <1>1, <1>2, <1>4, <2>1, <2>2 DEF TypeOK
  <1>6. ConnInv'
    BY <1>1, <1>2, ConnFrame
  <1> QED
    BY <1>1, <1>2, <1>4, <1>5, <1>6 DEF IInv

LEMMA StartupInv ==
  ASSUME IInv, Start \/ Startup \/ EndDestroy
  PROVE  IInv'
  <1>1. TypeOK /\ Emptied
    BY DEF IInv
  <1>2. CASE Start \/ Listen \/ EndDestroy
    <2>1. /\ UNCHANGED <<startVars, thread, loops>> /\ server' \in ServerStates
          /\ Serving' => Serving
          /\ Alive
          /\ crash' = crash \/
               (crash' = "bad_function_call" /\ numThreads = 0 /\ ~initCallback)
          /\ server' # "destroyed" \/ server' = server \/ connections = {}
      BY <1>1, <1>2 DEF Start, Listen, EndDestroy, Serving, ServerStates, TypeOK,
         startVars, poolVars, connVars, pollVars
    <2>2. Emptied'
      BY <1>1, <2>1 DEF Emptied, startVars
    <2>3. DiesOnlyOf'
      BY <2>1 DEF DiesOnlyOf, Alive, startVars
    <2> QED
      BY <1>1, <2>1, <2>2, <2>3, LoopsReady, QuietInv DEF TypeOK
  <1>3. CASE StartThread
    <2>1. /\ UNCHANGED <<startVars, server, loops, crash>> /\ Alive
          /\ thread[NextThread] = "none"
          /\ thread' = [thread EXCEPT ![NextThread] = "created"]
      BY <1>3 DEF StartThread
    <2>2. /\ thread' \in [Loops \ {0} -> ThreadStates]
          /\ \A l \in Loops \ {0} : thread[l] \in {"published", "looping"} =>
                                     thread'[l] \in {"published", "looping"}
      BY <1>1, <2>1 DEF TypeOK, ThreadStates
    <2> QED
      BY <1>1, <2>1, <2>2, LoopsReady, QuietInv, Unharmed
      DEF Serving, TypeOK, Emptied, startVars
  <1>4. ASSUME NEW l \in Loops \ {0}, PublishLoop(l) \/ EnterLoop(l)
        PROVE  IInv'
    <2>1. /\ UNCHANGED <<startVars, server, loops, crash>> /\ Alive
          /\ \/ thread' = [thread EXCEPT ![l] = "published"]
             \/ thread' = [thread EXCEPT ![l] = "looping"]
      BY <1>4 DEF PublishLoop, EnterLoop
    <2>2. /\ thread' \in [Loops \ {0} -> ThreadStates]
          /\ \A k \in Loops \ {0} : thread[k] \in {"published", "looping"} =>
                                     thread'[k] \in {"published", "looping"}
      BY <1>1, <2>1 DEF TypeOK, ThreadStates
    <2> QED
      BY <1>1, <2>1, <2>2, LoopsReady, QuietInv, Unharmed
      DEF Serving, TypeOK, Emptied, startVars
  <1>5. CASE StartLoopReturns
    <2>1. /\ UNCHANGED <<startVars, server, thread, crash>> /\ Alive
          /\ loops' = Append(loops, NextThread)
          /\ NextThread <= numThreads
          /\ thread[NextThread] \in {"published", "looping"}
      BY <1>5 DEF StartLoopReturns
    <2>2. loops \in Seq(ReadyLoops) /\ Len(loops) \in Nat
      BY <1>1, LenProperties DEF TypeOK, ReadyLoops
    <2>3. NextThread \in Loops \ {0}
      <3>1. numThreads \in ThreadNums /\ numThreads \in Nat
        BY <1>1, TcpServerAssumption DEF TypeOK
      <3>2. NextThread \in 0 .. numThreads /\ NextThread # 0
        BY <2>1, <2>2, <3>1 DEF NextThread
      <3> QED
        BY <3>1, <3>2 DEF Loops
    <2>4. NextThread \in ReadyLoops
      BY <2>1, <2>3 DEF ReadyLoops
    <2>5. loops' \in Seq(ReadyLoops) /\ Len(loops') = Len(loops) + 1
      BY <2>1, <2>2, <2>4, AppendProperties
    <2>6. ReadyLoops' = ReadyLoops
      BY <2>1 DEF ReadyLoops
    <2> QED
      BY <1>1, <2>1, <2>5, <2>6, QuietInv, Unharmed
      DEF Serving, TypeOK, Emptied, startVars
  <1> QED
    BY <1>2, <1>3, <1>4, <1>5 DEF Startup

LEMMA BystanderInv ==
  ASSUME IInv, Failure \/ BeginDestroy \/ \E c \in Conns : PeerCloses(c)
  PROVE  IInv'
  <1>1. TypeOK /\ FirstLoop /\ Queues(queue) /\ ConnInv /\ Emptied
    BY DEF IInv
  <1>2. /\ UNCHANGED <<numThreads, initCallback, thread, loops, next, loopOf,
                       nextConnId, channels, interest, connections, fdOf, state,
                       queue, calls>>
        /\ UNCHANGED <<connVars, pollVars>>
        /\ server' \in ServerStates /\ baseRuns' \in BOOLEAN
        /\ peerClosed \subseteq peerClosed' /\ peerClosed' \subseteq Conns
        /\ Serving' => Serving
        /\ server' = "destroyed" => server = "destroyed"
        /\ Alive /\ (crash' = crash \/ crash' = "abort")
    <2>1. CASE Failure
      <3>1. Alive /\ Aborts
        BY <2>1 DEF Failure, LoopFails, ListenFails, AcceptFails, EstablishFails,
           Runs, Running
      <3> QED
        BY <1>1, <3>1 DEF Aborts, poolVars, connVars, pollVars, Serving, TypeOK
    <2>2. CASE BeginDestroy
      BY <1>1, <2>2 DEF BeginDestroy, Running, poolVars, connVars, pollVars,
         Serving, ServerStates, TypeOK
    <2>3. ASSUME NEW c \in Conns, PeerCloses(c)
          PROVE  /\ UNCHANGED <<poolVars, connVars, pollVars, server, baseRuns,
                                connections, fdOf, state, queue, calls, crash>>
                 /\ Alive
                 /\ peerClosed \subseteq peerClosed' /\ peerClosed' \subseteq Conns
      BY <1>1, <2>3 DEF PeerCloses, TypeOK
    <2> QED
      BY <1>1, <2>1, <2>2, <2>3 DEF poolVars, connVars, pollVars, Serving, TypeOK
  <1>3. TypeOK'
    BY <1>1, <1>2 DEF TypeOK
  <1>4. ConnInv'
    BY <1>1, <1>2, ConnFrame
  <1>5. DiesOnlyOf'
    BY <1>2, Unharmed
  <1>6. FirstLoop' /\ Queues(queue') /\ Emptied'
    BY <1>1, <1>2 DEF FirstLoop, Emptied
  <1> QED
    BY <1>3, <1>4, <1>5, <1>6 DEF IInv

-----------------------------------------------------------------------------
(* Functors.                                                               *)

LEMMA ConnectEstablishedInv ==
  ASSUME IInv, NEW l \in Loops, NEW c \in Conns, ConnectEstablished(l, c)
  PROVE  IInv'
  <1>1. /\ TypeOK /\ FirstLoop /\ Queues(queue) /\ ConnInv /\ Emptied
        /\ Placed /\ NotYet /\ Accepted /\ OwnFd /\ Registered /\ Watched
    BY DEF IInv, ConnInv
  <1>2. /\ Alive /\ queue[l] # <<>>
        /\ Head(queue[l]) = Functor("connectEstablished", c)
        /\ Establish(c, l, fdOf[c])
        /\ queue' = Shifted(queue, l)
        /\ UNCHANGED <<numThreads, initCallback, thread, loops, loopOf,
                       nextConnId, next, server, baseRuns, connections, fdOf,
                       peerClosed>>
    BY DEF ConnectEstablished, Runs, Running, Popped, Shifted, poolVars,
       connVars
  <1>3. /\ Queues(queue') /\ Has(l, "connectEstablished", c)
        /\ \A k \in Loops : \A o, d :
              HasIn(queue', k, o, d) <=>
                 /\ HasIn(queue, k, o, d)
                 /\ ~(k = l /\ o = "connectEstablished" /\ d = c)
    BY <1>1, <1>2, PopKeeps DEF Has
  <1>4. l = loopOf[c] /\ l # 0 /\ c < nextConnId /\ Establishing(c)
    BY <1>1, <1>3 DEF Placed, Establishing
  <1>5. /\ calls[c].established = 0 /\ calls[c].destroyed = 0
        /\ fdOf[c] \in Fds
        /\ Serving => c \in connections
        /\ ~Removing(c)
    BY <1>1, <1>4 DEF Accepted, TypeOK
  <1>6. \A d \in Conns : channels[l][fdOf[c]] # d
    <2>1. SUFFICES ASSUME NEW d \in Conns, channels[l][fdOf[c]] = d
                   PROVE  FALSE
      OBVIOUS
    <2>2. fdOf[d] = fdOf[c] /\ calls[d].established = 1
      BY <1>1, <1>5, <2>1 DEF Registered
    <2>3. d = c
      BY <1>1, <1>5, <2>2, Constants DEF OwnFd
    <2> QED
      BY <1>5, <2>2, <2>3
  <1>7. channels[l][fdOf[c]] = NoConn
    BY <1>1, <1>5, <1>6 DEF TypeOK
  <1>8. /\ state' \in [Conns -> ConnStates] /\ state'[c] = "kConnected"
        /\ channels' \in [Loops -> [Fds -> Conns \cup {NoConn}]]
        /\ channels'[l][fdOf[c]] = c
        /\ interest' \in [Loops -> SUBSET Fds]
        /\ \A k \in Loops, f \in Fds :
              /\ k # l \/ f # fdOf[c] => channels'[k][f] = channels[k][f]
              /\ f \in interest'[k] <=>
                    f \in interest[k] \/ (k = l /\ f = fdOf[c])
        /\ calls' \in [Conns -> [established: Nat, destroyed: Nat]]
        /\ calls'[c].established = 1 /\ calls'[c].destroyed = 0
        /\ \A d \in Conns : d # c => state'[d] = state[d] /\ calls'[d] = calls[d]
        /\ crash' = crash
    BY <1>1, <1>2, <1>5, <1>7, EstablishEffect
  <1>9. /\ \A d \in Conns : /\ Establishing(d)' <=> Establishing(d) /\ d # c
                            /\ Destroying(d)' <=> Destroying(d)
                            /\ Removing(d)' <=> Removing(d)
    BY <1>1, <1>2, <1>3, <1>4, Constants
    DEF Establishing, Destroying, Removing, Has, TypeOK
  <1>10. TypeOK'
    BY <1>1, <1>2, <1>3, <1>8 DEF TypeOK, Queues
  <1>11. Placed'
    BY <1>1, <1>2, <1>3 DEF Placed, Has
  <1>12. NotYet'
    <2>1. \A d \in Conns : d >= nextConnId => d # c
      BY <1>1, <1>4, Constants DEF TypeOK
    <2> QED
      BY <1>1, <1>2, <1>8, <2>1 DEF NotYet
  <1>13. Accepted'
    <2>1. ASSUME NEW d \in Conns, d < nextConnId, d # c
          PROVE  calls'[d] = calls[d] /\ state'[d] = state[d]
      BY <1>8, <2>1
    <2> QED
      BY <1>1, <1>2, <1>4, <1>5, <1>8, <1>9, <2>1 DEF Accepted, Serving
  <1>14. OwnFd'
    BY <1>1, <1>2 DEF OwnFd
  <1>15. Registered'
    <2>1. SUFFICES ASSUME NEW k \in Loops, NEW f \in Fds, NEW d \in Conns,
                          channels'[k][f] = d
                   PROVE  /\ k = loopOf'[d] /\ fdOf'[d] = f
                          /\ calls'[d].established = 1 /\ calls'[d].destroyed = 0
                          /\ f \in interest'[k] =>
                                state'[d] \in {"kConnected", "kDisconnecting"}
                          /\ f \in interest'[k] /\ (Serving' \/ k = 0) =>
                                d \in connections'
      BY DEF Registered
    <2>2. CASE k = l /\ f = fdOf[c]
      BY <1>2, <1>4, <1>5, <1>8, <2>1, <2>2 DEF Serving
    <2>3. CASE ~(k = l /\ f = fdOf[c])
      <3>1. channels[k][f] = d /\ d # c
        BY <1>1, <1>5, <1>8, <2>1, <2>3 DEF Registered
      <3>2. /\ calls'[d] = calls[d] /\ state'[d] = state[d]
            /\ f \in interest'[k] <=> f \in interest[k]
        BY <1>8, <2>3, <3>1
      <3> QED
        BY <1>1, <1>2, <3>1, <3>2 DEF Registered, Serving
    <2> QED
      BY <2>2, <2>3
  <1>16. Watched'
    BY <1>1, <1>8, Constants DEF Watched
  <1>17. DiesOnlyOf' /\ Emptied'
    BY <1>1, <1>2, <1>8, Unharmed DEF Emptied
  <1> QED
    BY <1>1, <1>2, <1>3, <1>10, <1>11, <1>12, <1>13, <1>14, <1>15, <1>16, <1>17
    DEF IInv, ConnInv, FirstLoop

\* Whoever runs connectDestroyed(): the poller forgets c, the last of its tokens
\* is spent, and Channel::remove() fails only if the server is no longer there.
LEMMA DestroyInv ==
  ASSUME TypeOK, ConnInv, NEW c \in Conns, c < nextConnId,
         ~Establishing(c), calls[c].destroyed = 0,
         Serving => c \notin connections,
         Destroy(c, loopOf[c], fdOf[c]),
         UNCHANGED <<loopOf, fdOf, nextConnId, server, peerClosed>>,
         connections \ {c} \subseteq connections', connections' \subseteq connections,
         c \notin connections', ~Destroying(c)',
         \A d \in Conns : d # c => (Destroying(d)' <=> Destroying(d)),
         \A d \in Conns : /\ Establishing(d)' <=> Establishing(d)
                          /\ Removing(d)' <=> Removing(d)
  PROVE  /\ state' \in [Conns -> ConnStates]
         /\ channels' \in [Loops -> [Fds -> Conns \cup {NoConn}]]
         /\ interest' \in [Loops -> SUBSET Fds]
         /\ calls' \in [Conns -> [established: Nat, destroyed: Nat]]
         /\ NotYet' /\ Accepted' /\ Registered' /\ Watched'
         /\ crash' \in {crash, "assert"}
         /\ crash' # crash =>
               /\ ~Serving /\ state'[c] = "kDisconnecting"
               /\ calls'[c].destroyed = 1
  <1>1. Placed /\ NotYet /\ Accepted /\ OwnFd /\ Registered /\ Watched
    BY DEF ConnInv
  <1>2. /\ loopOf[c] \in Loops /\ fdOf[c] \in Fds
        /\ calls[c].established = 1
    BY <1>1 DEF Accepted, TypeOK
  <1> DEFINE l == loopOf[c]
             fd == fdOf[c]
  <1>3. /\ state' \in [Conns -> ConnStates]
        /\ state'[c] = IF state[c] = "kConnected" THEN "kDisconnected"
                                                  ELSE state[c]
        /\ channels' \in [Loops -> [Fds -> Conns \cup {NoConn}]]
        /\ channels'[l][fd] = NoConn
        /\ interest' \in [Loops -> SUBSET Fds]
        /\ \A k \in Loops, f \in Fds :
              /\ k # l \/ f # fd => channels'[k][f] = channels[k][f]
              /\ f \in interest'[k] <=> f \in interest[k] /\ ~(k = l /\ f = fd)
        /\ calls' \in [Conns -> [established: Nat, destroyed: Nat]]
        /\ calls'[c].established = 1 /\ calls'[c].destroyed = 1
        /\ \A d \in Conns : d # c => state'[d] = state[d] /\ calls'[d] = calls[d]
        /\ crash' = IF state[c] # "kConnected" /\ fd \in interest[l]
                      THEN "assert" ELSE crash
    BY <1>2, DestroyEffect
  <1> HIDE DEF l, fd
  <1>4. NotYet'
    <2>1. \A d \in Conns : d >= nextConnId => d # c
      BY Constants DEF TypeOK
    <2> QED
      BY <1>1, <1>3, <2>1 DEF NotYet
  <1>5. Accepted'
    <2>1. SUFFICES ASSUME NEW d \in Conns, d < nextConnId
                   PROVE  /\ calls'[d].established \in {0, 1}
                          /\ calls'[d].established = 0 <=> Establishing(d)'
                          /\ calls'[d].destroyed \in {0, 1}
                          /\ calls'[d].destroyed = 1 => calls'[d].established = 1
                          /\ d \in connections' =>
                                ~Destroying(d)' /\ calls'[d].destroyed = 0
                          /\ Destroying(d)' => calls'[d].destroyed = 0
                          /\ \/ d \in connections'
                             \/ Destroying(d)'
                             \/ calls'[d].destroyed = 1
                          /\ calls'[d].destroyed = 0 => fdOf'[d] # NoFd
                          /\ Removing(d)' =>
                                /\ calls'[d].established = 1
                                /\ state'[d] = "kDisconnected"
                                /\ loopOf'[d] # 0 /\ d \in peerClosed'
                          /\ Serving' /\ (Removing(d)' \/ Establishing(d)') =>
                                d \in connections'
      BY DEF Accepted
    <2>2. Serving' = Serving
      BY DEF Serving
    <2>3. CASE d = c
      BY <1>1, <1>2, <1>3, <2>1, <2>2, <2>3 DEF Accepted
    <2>4. CASE d # c
      <3>1. calls'[d] = calls[d] /\ state'[d] = state[d]
        BY <1>3, <2>4
      <3>2. d \in connections' <=> d \in connections
        BY <2>4
      <3> QED
        BY <1>1, <2>1, <2>2, <2>4, <3>1, <3>2 DEF Accepted
    <2> QED
      BY <2>3, <2>4
  <1>6. Registered'
    <2>1. SUFFICES ASSUME NEW k \in Loops, NEW f \in Fds, NEW d \in Conns,
                          channels'[k][f] = d
                   PROVE  /\ k = loopOf'[d] /\ fdOf'[d] = f
                          /\ calls'[d].established = 1 /\ calls'[d].destroyed = 0
                          /\ f \in interest'[k] =>
                                state'[d] \in {"kConnected", "kDisconnecting"}
                          /\ f \in interest'[k] /\ (Serving' \/ k = 0) =>
                                d \in connections'
      BY DEF Registered
    <2>2. ~(k = l /\ f = fd)
      BY <1>3, <2>1, Constants
    <2>3. channels[k][f] = d
      BY <1>3, <2>1, <2>2
    <2>4. d # c
      BY <1>1, <2>2, <2>3 DEF Registered, l, fd
    <2>5. /\ calls'[d] = calls[d] /\ state'[d] = state[d]
          /\ f \in interest'[k] <=> f \in interest[k]
      BY <1>3, <2>2, <2>4
    <2> QED
      BY <1>1, <2>3, <2>4, <2>5 DEF Registered, Serving
  <1>7. Watched'
    BY <1>1, <1>3 DEF Watched
  <1>8. ASSUME crash' # crash
        PROVE  ~Serving /\ state'[c] = "kDisconnecting"
    <2>1. state[c] # "kConnected" /\ fd \in interest[l]
      BY <1>3, <1>8
    <2>2. channels[l][fd] \in Conns
      BY <1>1, <1>2, <2>1 DEF Watched, TypeOK, l, fd
    <2>3. PICK d \in Conns : channels[l][fd] = d
      BY <2>2
    <2>4. /\ fdOf[d] = fd /\ (Serving => d \in connections)
          /\ state[d] \in {"kConnected", "kDisconnecting"}
      BY <1>1, <1>2, <2>1, <2>3 DEF Registered, l, fd
    <2>5. d = c
      BY <1>1, <1>2, <2>4, Constants DEF OwnFd, fd
    <2> QED
      BY <1>3, <2>1, <2>4, <2>5
  <1> QED
    BY <1>3, <1>4, <1>5, <1>6, <1>7, <1>8

LEMMA ConnectDestroyedInv ==
  ASSUME IInv, NEW l \in Loops, NEW c \in Conns, ConnectDestroyed(l, c)
  PROVE  IInv'
  <1>1. /\ TypeOK /\ FirstLoop /\ Queues(queue) /\ ConnInv /\ Emptied
        /\ Placed /\ NotYet /\ Accepted /\ OwnFd /\ Registered /\ Watched
    BY DEF IInv, ConnInv
  <1>2. /\ Alive /\ queue[l] # <<>>
        /\ Head(queue[l]) = Functor("connectDestroyed", c)
        /\ Destroy(c, l, fdOf[c])
        /\ queue' = Shifted(queue, l)
        /\ UNCHANGED <<numThreads, initCallback, thread, loops, loopOf,
                       nextConnId, next, server, baseRuns, connections, fdOf,
                       peerClosed>>
    BY DEF ConnectDestroyed, Runs, Running, Popped, Shifted, poolVars, connVars
  <1>3. /\ Queues(queue') /\ Has(l, "connectDestroyed", c)
        /\ ~Has(l, "connectEstablished", c)
        /\ \A k \in Loops : \A o, d :
              HasIn(queue', k, o, d) <=>
                 /\ HasIn(queue, k, o, d)
                 /\ ~(k = l /\ o = "connectDestroyed" /\ d = c)
    BY <1>1, <1>2, PopKeeps DEF Has
  <1>4. l = loopOf[c] /\ c < nextConnId /\ Destroying(c) /\ ~Establishing(c)
    BY <1>1, <1>3 DEF Placed, Destroying, Establishing
  <1>5. calls[c].destroyed = 0 /\ c \notin connections
    BY <1>1, <1>4 DEF Accepted
  <1>6. \A d \in Conns : /\ Establishing(d)' <=> Establishing(d)
                         /\ Destroying(d)' <=> Destroying(d) /\ d # c
                         /\ Removing(d)' <=> Removing(d)
    BY <1>1, <1>2, <1>3, <1>4, Constants
    DEF Establishing, Destroying, Removing, Has, TypeOK
  <1>7. /\ state' \in [Conns -> ConnStates]
        /\ channels' \in [Loops -> [Fds -> Conns \cup {NoConn}]]
        /\ interest' \in [Loops -> SUBSET Fds]
        /\ calls' \in [Conns -> [established: Nat, destroyed: Nat]]
        /\ NotYet' /\ Accepted' /\ Registered' /\ Watched'
        /\ crash' \in {crash, "assert"}
        /\ crash' # crash =>
              /\ ~Serving /\ state'[c] = "kDisconnecting"
              /\ calls'[c].destroyed = 1
    BY <1>1, <1>2, <1>4, <1>5, <1>6, DestroyInv
  <1>8. TypeOK'
    BY <1>1, <1>2, <1>3, <1>7 DEF TypeOK, Queues
  <1>9. Placed' /\ OwnFd'
    BY <1>1, <1>2, <1>3 DEF Placed, Has, OwnFd
  <1>10. DiesOnlyOf' /\ Emptied'
    BY <1>1, <1>2, <1>7 DEF DiesOnlyOf, Emptied, Alive, Serving
  <1> QED
    BY <1>1, <1>2, <1>3, <1>7, <1>8, <1>9, <1>10 DEF IInv, ConnInv, FirstLoop

-----------------------------------------------------------------------------
(* A connection is shut down, closed, removed and released.                *)

LEMMA ShutdownInv ==
  ASSUME IInv, NEW c \in Conns, Shutdown(c)
  PROVE  IInv'
  <1>1. /\ TypeOK /\ FirstLoop /\ Queues(queue) /\ ConnInv /\ Emptied
        /\ Placed /\ NotYet /\ Accepted /\ OwnFd /\ Registered /\ Watched
    BY DEF IInv, ConnInv
  <1>2. /\ Alive /\ state[c] = "kConnected"
        /\ state' = [state EXCEPT ![c] = "kDisconnecting"]
        /\ UNCHANGED <<numThreads, initCallback, thread, loops, loopOf,
                       nextConnId, next, channels, interest, server, baseRuns,
                       connections, fdOf, peerClosed, queue, calls, crash>>
    BY DEF Shutdown, Running, poolVars, connVars, pollVars
  <1>3. /\ state' \in [Conns -> ConnStates] /\ state'[c] = "kDisconnecting"
        /\ \A d \in Conns : d # c => state'[d] = state[d]
    BY <1>1, <1>2 DEF TypeOK, ConnStates
  <1>4. TypeOK'
    BY <1>1, <1>2, <1>3 DEF TypeOK
  <1>5. Placed' /\ NotYet' /\ OwnFd' /\ Watched'
    BY <1>1, <1>2 DEF Placed, Has, NotYet, OwnFd, Watched
  <1>6. Accepted'
    BY <1>1, <1>2, <1>3
    DEF Accepted, Establishing, Destroying, Removing, Has, Serving
  <1>7. Registered'
    BY <1>1, <1>2, <1>3 DEF Registered, Serving
  <1>8. DiesOnlyOf' /\ Emptied'
    BY <1>1, <1>2, Unharmed DEF Emptied
  <1> QED
    BY <1>1, <1>2, <1>4, <1>5, <1>6, <1>7, <1>8 DEF IInv, ConnInv, FirstLoop

\* Nobody holds the connection: it has been destroyed, so no poller knows it.
LEMMA ReleaseInv ==
  ASSUME IInv, NEW c \in Conns, Release(c)
  PROVE  IInv'
  <1>1. /\ TypeOK /\ FirstLoop /\ Queues(queue) /\ ConnInv /\ Emptied
        /\ Placed /\ NotYet /\ Accepted /\ OwnFd /\ Registered /\ Watched
    BY DEF IInv, ConnInv
  <1>2. /\ Alive /\ fdOf[c] # NoFd /\ ~Held(c)
        /\ fdOf' = [fdOf EXCEPT ![c] = NoFd]
        /\ UNCHANGED <<numThreads, initCallback, thread, loops, loopOf,
                       nextConnId, next, channels, interest, server, baseRuns,
                       connections, state, peerClosed, queue, calls, crash>>
    BY DEF Release, poolVars, connVars, pollVars
  <1>3. /\ fdOf' \in [Conns -> Fds \cup {NoFd}] /\ fdOf'[c] = NoFd
        /\ \A d \in Conns : d # c => fdOf'[d] = fdOf[d]
    BY <1>1, <1>2 DEF TypeOK
  <1>4. c < nextConnId
    BY <1>1, <1>2, Constants DEF NotYet, TypeOK
  <1>5. ~Destroying(c) /\ c \notin connections
    <2>1. SUFFICES ASSUME NEW i \in 1 .. Len(queue[loopOf[c]]),
                          queue[loopOf[c]][i] = Functor("connectDestroyed", c)
                   PROVE  FALSE
      BY <1>2 DEF Held, Destroying, Has, HasIn
    <2>2. loopOf[c] \in Loops /\ queue[loopOf[c]] \in Seq(Functors)
      BY <1>1 DEF TypeOK
    <2>3. i \in DOMAIN queue[loopOf[c]] /\ queue[loopOf[c]][i].conn = c
      BY <2>1, <2>2 DEF Functor
    <2> QED
      BY <1>2, <2>2, <2>3 DEF Held
  <1>6. calls[c].destroyed = 1
    BY <1>1, <1>4, <1>5 DEF Accepted
  <1>7. TypeOK'
    BY <1>1, <1>2, <1>3 DEF TypeOK
  <1>8. Placed' /\ NotYet' /\ Watched'
    BY <1>1, <1>2, <1>3 DEF Placed, Has, NotYet, Watched
  <1>9. OwnFd'
    BY <1>1, <1>3 DEF OwnFd
  <1>10. Accepted'
    BY <1>1, <1>2, <1>3, <1>6
    DEF Accepted, Establishing, Destroying, Removing, Has, Serving
  <1>11. Registered'
    BY <1>1, <1>2, <1>3, <1>6 DEF Registered, Serving
  <1>12. DiesOnlyOf' /\ Emptied'
    BY <1>1, <1>2, Unharmed DEF Emptied
  <1> QED
    BY <1>1, <1>2, <1>7, <1>8, <1>9, <1>10, <1>11, <1>12
    DEF IInv, ConnInv, FirstLoop

\* The server forgets a connection that was closed, and asks its loop to destroy
\* it: what handleClose() in the base loop and removeConnectionInLoop() do.
LEMMA ForgetInv ==
  ASSUME IInv, NEW c \in Conns, NEW q, Queues(q),
         Serving, UNCHANGED server, c \in connections,
         state'[c] = "kDisconnected", state' \in [Conns -> ConnStates],
         \A d \in Conns : d # c => state'[d] = state[d],
         calls[c].established = 1,
         interest' \in [Loops -> SUBSET Fds],
         fdOf[c] \notin interest'[loopOf[c]],
         \A k \in Loops, f \in Fds : k # loopOf[c] \/ f # fdOf[c] =>
             (f \in interest'[k] <=> f \in interest[k]),
         \A k \in Loops : \A o, d :
             HasIn(q, k, o, d) <=>
                /\ HasIn(queue, k, o, d)
                /\ ~(k = 0 /\ o = "removeConnectionInLoop" /\ d = c),
         Remove(c, q), Alive,
         UNCHANGED <<numThreads, initCallback, thread, loops, loopOf, nextConnId,
                     next, channels, baseRuns, fdOf, peerClosed, calls, crash>>
  PROVE  IInv'
  <1>1. /\ TypeOK /\ FirstLoop /\ Queues(queue) /\ ConnInv /\ Emptied
        /\ Placed /\ NotYet /\ Accepted /\ OwnFd /\ Registered /\ Watched
    BY DEF IInv, ConnInv
  <1>2. /\ c < nextConnId /\ ~Destroying(c) /\ calls[c].destroyed = 0
        /\ ~Establishing(c) /\ loopOf[c] \in Loops /\ fdOf[c] \in Fds
    BY <1>1, Constants DEF TypeOK, Accepted
  <1>3. /\ connections' = connections \ {c}
        /\ queue' = Pushed(q, loopOf[c], "connectDestroyed", c)
    BY DEF Remove, Erased, Pushed
  <1>4. ~HasIn(q, loopOf[c], "connectDestroyed", c)
    BY <1>2 DEF Destroying, Has
  <1>5. /\ Queues(queue')
        /\ \A k \in Loops : \A o, d :
              HasIn(queue', k, o, d) <=>
                 \/ HasIn(q, k, o, d)
                 \/ k = loopOf[c] /\ o = "connectDestroyed" /\ d = c
    BY <1>2, <1>3, <1>4, PushKeeps DEF Ops
  <1>6. /\ \A d \in Conns : Establishing(d)' <=> Establishing(d)
        /\ \A d \in Conns : Destroying(d)' <=> Destroying(d) \/ d = c
        /\ \A d \in Conns : Removing(d)' <=> Removing(d) /\ d # c
    <2>1. \A k \in Loops : \A o, d :
             HasIn(queue', k, o, d) <=>
                \/ /\ HasIn(queue, k, o, d)
                   /\ ~(k = 0 /\ o = "removeConnectionInLoop" /\ d = c)
                \/ k = loopOf[c] /\ o = "connectDestroyed" /\ d = c
      BY <1>5
    <2>2. \A d \in Conns : loopOf'[d] = loopOf[d] /\ loopOf[d] \in Loops
      BY <1>1 DEF TypeOK
    <2>3. \A d \in Conns : Establishing(d)' <=> Establishing(d)
      BY <2>1, <2>2 DEF Establishing, Has
    <2>4. \A d \in Conns : Destroying(d)' <=> Destroying(d) \/ d = c
      BY <2>1, <2>2 DEF Destroying, Has
    <2>5. \A d \in Conns : Removing(d)' <=> Removing(d) /\ d # c
      BY <2>1, Constants DEF Removing, Has
    <2> QED
      BY <2>3, <2>4, <2>5
  <1>7. TypeOK'
    BY <1>1, <1>3, <1>5 DEF TypeOK, Queues
  <1>8. Placed' /\ NotYet' /\ OwnFd'
    BY <1>1, <1>2, <1>5 DEF Placed, Has, NotYet, OwnFd
  <1>9. Accepted'
    <2>1. \A d \in Conns : d # c =>
              state'[d] = state[d] /\ (d \in connections' <=> d \in connections)
      BY <1>3
    <2> QED
      BY <1>1, <1>2, <1>3, <1>6, <2>1 DEF Accepted, Serving
  <1>10. Registered'
    <2>1. SUFFICES ASSUME NEW k \in Loops, NEW f \in Fds, NEW d \in Conns,
                          channels[k][f] = d
                   PROVE  /\ k = loopOf[d] /\ fdOf[d] = f
                          /\ calls[d].established = 1 /\ calls[d].destroyed = 0
                          /\ f \in interest'[k] =>
                                state'[d] \in {"kConnected", "kDisconnecting"}
                          /\ f \in interest'[k] => d \in connections'
      BY DEF Registered
    <2>2. CASE d = c
      BY <1>1, <2>1, <2>2 DEF Registered
    <2>3. CASE d # c
      <3>1. k # loopOf[c] \/ f # fdOf[c]
        BY <1>1, <1>2, <2>1, <2>3, Constants DEF Registered, OwnFd
      <3>2. f \in interest'[k] <=> f \in interest[k]
        BY <3>1
      <3> QED
        BY <1>1, <1>3, <2>1, <2>3, <3>2 DEF Registered
    <2> QED
      BY <2>2, <2>3
  <1>11. Watched'
    BY <1>1, <1>2 DEF Watched
  <1>12. DiesOnlyOf' /\ Emptied'
    BY <1>1, <1>3, Unharmed DEF Emptied
  <1> QED
    BY <1>1, <1>5, <1>7, <1>8, <1>9, <1>10, <1>11, <1>12
    DEF IInv, ConnInv, FirstLoop

\* The descriptor is no longer watched; the server is told now, later, or is gone.
LEMMA HandleCloseInv ==
  ASSUME IInv, NEW c \in Conns, HandleClose(c)
  PROVE  IInv'
  <1>1. /\ TypeOK /\ FirstLoop /\ Queues(queue) /\ ConnInv /\ Emptied
        /\ Placed /\ NotYet /\ Accepted /\ OwnFd /\ Registered /\ Watched
    BY DEF IInv, ConnInv
  <1> DEFINE l == loopOf[c]
             fd == fdOf[c]
  <1>2. /\ Alive /\ Running(l)
        /\ fd \in interest[l] /\ channels[l][fd] = c /\ c \in peerClosed
        /\ state' = [state EXCEPT ![c] = "kDisconnected"]
        /\ interest' = [interest EXCEPT ![l] = @ \ {fd}]
        /\ UNCHANGED <<numThreads, initCallback, thread, loops, loopOf,
                       nextConnId, next, channels, server, baseRuns, fdOf,
                       peerClosed, calls>>
    BY DEF HandleClose, Running, poolVars, connVars
  <1>3. l \in Loops /\ fd \in Fds
    BY <1>1, <1>2 DEF TypeOK
  <1>4. /\ calls[c].established = 1 /\ calls[c].destroyed = 0
        /\ state[c] \in {"kConnected", "kDisconnecting"}
        /\ Serving => c \in connections
    BY <1>1, <1>2, <1>3 DEF Registered
  <1>5. c < nextConnId
    BY <1>1, <1>4, Constants DEF NotYet, TypeOK
  <1>6. ~Removing(c) /\ ~Establishing(c)
    BY <1>1, <1>4, <1>5 DEF Accepted
  <1>7. /\ state' \in [Conns -> ConnStates] /\ state'[c] = "kDisconnected"
        /\ \A d \in Conns : d # c => state'[d] = state[d]
    BY <1>1, <1>2 DEF TypeOK, ConnStates
  <1>8. /\ interest' \in [Loops -> SUBSET Fds]
        /\ \A k \in Loops, f \in Fds :
              f \in interest'[k] <=> f \in interest[k] /\ ~(k = l /\ f = fd)
    BY <1>1, <1>2, <1>3 DEF TypeOK
  <1> HIDE DEF l, fd
  <1>9. ASSUME UNCHANGED connections
        PROVE  Registered'
    <2>1. SUFFICES ASSUME NEW k \in Loops, NEW f \in Fds, NEW d \in Conns,
                          channels[k][f] = d
                   PROVE  /\ k = loopOf[d] /\ fdOf[d] = f
                          /\ calls[d].established = 1 /\ calls[d].destroyed = 0
                          /\ f \in interest'[k] =>
                                state'[d] \in {"kConnected", "kDisconnecting"}
                          /\ f \in interest'[k] /\ (Serving \/ k = 0) =>
                                d \in connections
      BY <1>2, <1>9 DEF Registered, Serving
    <2>2. CASE d = c
      BY <1>1, <1>8, <2>1, <2>2 DEF Registered, l, fd
    <2>3. CASE d # c
      BY <1>1, <1>7, <1>8, <2>1, <2>3 DEF Registered
    <2> QED
      BY <2>2, <2>3
  <1>10. Watched'
    BY <1>1, <1>2, <1>8 DEF Watched
  <1>11. CASE server = "destroyed"
    <2>1. crash' = "use_after_free" /\ UNCHANGED <<connections, queue>>
      BY <1>11 DEF HandleClose
    <2>2. TypeOK'
      BY <1>1, <1>2, <1>7, <1>8, <2>1 DEF TypeOK
    <2>3. Placed' /\ NotYet' /\ OwnFd'
      BY <1>1, <1>2, <2>1 DEF Placed, Has, NotYet, OwnFd
    <2>4. Accepted'
      BY <1>1, <1>2, <1>7, <2>1
      DEF Accepted, Establishing, Destroying, Removing, Has, Serving
    <2>5. loopOf[c] # 0
      <3>1. l = 0 => c \in connections
        BY <1>1, <1>2, <1>3 DEF Registered
      <3> QED
        BY <1>1, <1>11, <3>1 DEF Emptied, l
    <2>6. DiesOnlyOf' /\ Emptied' /\ FirstLoop'
      BY <1>1, <1>2, <1>7, <1>11, <2>1, <2>5 DEF DiesOnlyOf, Emptied, FirstLoop
    <2> QED
      BY <1>1, <1>9, <1>10, <1>11, <2>1, <2>2, <2>3, <2>4, <2>6
      DEF IInv, ConnInv
  <1>12. CASE server # "destroyed" /\ l = 0
    <2>1. Remove(c, queue) /\ UNCHANGED crash
      BY <1>12 DEF HandleClose, l
    <2>2. Serving /\ c \in connections
      BY <1>2, <1>4, <1>12 DEF Running, Serving
    <2>3. ~HasIn(queue, 0, "removeConnectionInLoop", c)
      BY <1>6 DEF Removing, Has
    <2>4. \A k \in Loops : \A o, d :
             HasIn(queue, k, o, d) <=>
                /\ HasIn(queue, k, o, d)
                /\ ~(k = 0 /\ o = "removeConnectionInLoop" /\ d = c)
      BY <2>3
    <2>5. /\ fdOf[c] \notin interest'[loopOf[c]]
          /\ \A k \in Loops, f \in Fds : k # loopOf[c] \/ f # fdOf[c] =>
                (f \in interest'[k] <=> f \in interest[k])
      BY <1>3, <1>8 DEF l, fd
    <2> QED
      BY <1>1, <1>2, <1>4, <1>7, <1>8, <2>1, <2>2, <2>4, <2>5, ForgetInv
  <1>13. CASE server # "destroyed" /\ l # 0
    <2>1. /\ queue' = Pushed(queue, 0, "removeConnectionInLoop", c)
          /\ UNCHANGED <<connections, crash>>
      BY <1>13 DEF HandleClose, Pushed, l
    <2>2. /\ Queues(queue')
          /\ \A k \in Loops : \A o, d :
                HasIn(queue', k, o, d) <=>
                   \/ HasIn(queue, k, o, d)
                   \/ k = 0 /\ o = "removeConnectionInLoop" /\ d = c
      BY <1>1, <1>6, <2>1, PushKeeps, Constants DEF Ops, Removing, Has
    <2>3. \A d \in Conns : loopOf'[d] = loopOf[d] /\ loopOf[d] \in Loops
      BY <1>1, <1>2 DEF TypeOK
    <2>4. /\ \A d \in Conns : Establishing(d)' <=> Establishing(d)
          /\ \A d \in Conns : Destroying(d)' <=> Destroying(d)
          /\ \A d \in Conns : Removing(d)' <=> Removing(d) \/ d = c
      <3>1. \A d \in Conns : Establishing(d)' <=> Establishing(d)
        BY <2>2, <2>3 DEF Establishing, Has
      <3>2. \A d \in Conns : Destroying(d)' <=> Destroying(d)
        BY <2>2, <2>3 DEF Destroying, Has
      <3>3. \A d \in Conns : Removing(d)' <=> Removing(d) \/ d = c
        BY <2>2, Constants DEF Removing, Has
      <3> QED
        BY <3>1, <3>2, <3>3
    <2>5. TypeOK'
      BY <1>1, <1>2, <1>7, <1>8, <2>1, <2>2 DEF TypeOK, Queues
    <2>6. Placed' /\ NotYet' /\ OwnFd'
      BY <1>1, <1>2, <1>5, <2>1, <2>2 DEF Placed, Has, NotYet, OwnFd
    <2>7. Accepted'
      <3>1. \A d \in Conns : d # c => state'[d] = state[d]
        BY <1>7
      <3> QED
        BY <1>1, <1>2, <1>4, <1>7, <1>13, <2>1, <2>4, <3>1
        DEF Accepted, Serving, l
    <2>8. DiesOnlyOf' /\ Emptied' /\ FirstLoop'
      BY <1>1, <1>2, <2>1, Unharmed DEF Running, Emptied, FirstLoop
    <2> QED
      BY <1>9, <1>10, <1>13, <2>1, <2>2, <2>5, <2>6, <2>7, <2>8
      DEF IInv, ConnInv
  <1> QED
    BY <1>11, <1>12, <1>13

\* handleClose() ran before: the connection is down and not watched.
LEMMA RemoveConnectionInLoopInv ==
  ASSUME IInv, NEW c \in Conns, RemoveConnectionInLoop(c)
  PROVE  IInv'
  <1>1. /\ TypeOK /\ FirstLoop /\ Queues(queue) /\ ConnInv /\ Emptied
        /\ Placed /\ NotYet /\ Accepted /\ OwnFd /\ Registered /\ Watched
    BY DEF IInv, ConnInv
  <1>2. /\ Alive /\ Running(0) /\ queue[0] # <<>>
        /\ Head(queue[0]) = Functor("removeConnectionInLoop", c)
        /\ UNCHANGED <<numThreads, initCallback, thread, loops, loopOf,
                       nextConnId, next, channels, interest, server, baseRuns,
                       fdOf, state, peerClosed, calls>>
        /\ UNCHANGED <<connVars, pollVars>>
    BY DEF RemoveConnectionInLoop, Runs, Running, poolVars, connVars, pollVars
  <1>3. CASE server = "destroyed"
    <2>1. crash' = "use_after_free" /\ UNCHANGED <<connections, queue>>
      BY <1>3 DEF RemoveConnectionInLoop
    <2>2. ConnInv'
      BY <1>1, <1>2, <2>1, ConnFrame DEF Serving
    <2>3. TypeOK'
      BY <1>1, <1>2, <2>1 DEF TypeOK
    <2>4. Removing(c) /\ c < nextConnId
      BY <1>1, <1>2, PopKeeps, Constants DEF Removing, Has, Placed
    <2>5. DiesOnlyOf' /\ Emptied' /\ FirstLoop'
      BY <1>1, <1>2, <1>3, <2>1, <2>4
      DEF DiesOnlyOf, Emptied, FirstLoop, Accepted
    <2> QED
      BY <1>1, <2>1, <2>2, <2>3, <2>5 DEF IInv
  <1>4. CASE server # "destroyed"
    <2>1. Remove(c, Shifted(queue, 0)) /\ UNCHANGED crash
      BY <1>4 DEF RemoveConnectionInLoop, Popped, Shifted
    <2>2. Serving
      BY <1>2, <1>4 DEF Running, Serving
    <2>3. /\ Queues(Shifted(queue, 0)) /\ Removing(c)
          /\ \A k \in Loops : \A o, d :
                HasIn(Shifted(queue, 0), k, o, d) <=>
                   /\ HasIn(queue, k, o, d)
                   /\ ~(k = 0 /\ o = "removeConnectionInLoop" /\ d = c)
      BY <1>1, <1>2, PopKeeps, Constants DEF Removing, Has
    <2>4. c < nextConnId
      BY <1>1, <2>3, Constants DEF Placed, Removing
    <2>5. /\ c \in connections /\ calls[c].established = 1
          /\ state[c] = "kDisconnected"
      BY <1>1, <2>2, <2>3, <2>4 DEF Accepted
    <2>6. loopOf[c] \in Loops /\ fdOf[c] \in Fds
      BY <1>1, <2>4, <2>5 DEF TypeOK, Accepted
    <2>7. fdOf[c] \notin interest[loopOf[c]]
      <3>1. SUFFICES ASSUME fdOf[c] \in interest[loopOf[c]]
                     PROVE  FALSE
        OBVIOUS
      <3>2. channels[loopOf[c]][fdOf[c]] \in Conns
        BY <1>1, <2>6, <3>1 DEF Watched, TypeOK
      <3>3. PICK d \in Conns : channels[loopOf[c]][fdOf[c]] = d
        BY <3>2
      <3>4. fdOf[d] = fdOf[c] /\ state[d] \in {"kConnected", "kDisconnecting"}
        BY <1>1, <2>6, <3>1, <3>3 DEF Registered
      <3>5. d = c
        BY <1>1, <2>6, <3>4, Constants DEF OwnFd
      <3> QED
        BY <2>5, <3>4, <3>5
    <2>8. interest' \in [Loops -> SUBSET Fds] /\ state' \in [Conns -> ConnStates]
      BY <1>1, <1>2 DEF TypeOK
    <2> QED
      BY <1>1, <1>2, <2>1, <2>2, <2>3, <2>5, <2>7, <2>8, ForgetInv
  <1> QED
    BY <1>3, <1>4

-----------------------------------------------------------------------------
(* The destructor.                                                         *)

\* The server is not serving any more: nobody relies on connections_.
LEMMA DestroyNextInv ==
  ASSUME IInv, NEW c \in Conns, DestroyNext(c)
  PROVE  IInv'
  <1>1. /\ TypeOK /\ FirstLoop /\ Queues(queue) /\ ConnInv /\ Emptied
        /\ Placed /\ NotYet /\ Accepted /\ OwnFd /\ Registered /\ Watched
    BY DEF IInv, ConnInv
  <1>2. /\ Alive /\ server = "dying" /\ c \in connections
        /\ connections' = connections \ {c}
        /\ UNCHANGED <<numThreads, initCallback, thread, loops, loopOf,
                       nextConnId, next, server, baseRuns, fdOf, peerClosed>>
    BY DEF DestroyNext, poolVars, connVars
  <1>3. c < nextConnId /\ loopOf[c] \in Loops
    BY <1>1, <1>2, Constants DEF TypeOK
  <1>4. ~Serving /\ ~Serving' /\ ~Destroying(c) /\ calls[c].destroyed = 0
    BY <1>1, <1>2, <1>3 DEF Serving, Accepted
  <1>5. \A d \in Conns : loopOf'[d] = loopOf[d] /\ loopOf[d] \in Loops
    BY <1>1, <1>2 DEF TypeOK
  <1>6. Emptied' /\ FirstLoop' /\ OwnFd'
    BY <1>1, <1>2 DEF Emptied, FirstLoop, OwnFd
  <1>7. CASE loopOf[c] = 0
    <2>1. Destroy(c, loopOf[c], fdOf[c]) /\ UNCHANGED queue
      BY <1>7 DEF DestroyNext
    <2>2. ~Establishing(c)
      BY <1>1, <1>3, <1>7 DEF Placed, Establishing
    <2>3. \A d \in Conns : /\ Establishing(d)' <=> Establishing(d)
                           /\ Destroying(d)' <=> Destroying(d)
                           /\ Removing(d)' <=> Removing(d)
      BY <1>2, <2>1 DEF Establishing, Destroying, Removing, Has
    <2>4. /\ state' \in [Conns -> ConnStates]
          /\ channels' \in [Loops -> [Fds -> Conns \cup {NoConn}]]
          /\ interest' \in [Loops -> SUBSET Fds]
          /\ calls' \in [Conns -> [established: Nat, destroyed: Nat]]
          /\ NotYet' /\ Accepted' /\ Registered' /\ Watched'
          /\ crash' \in {crash, "assert"}
          /\ crash' # crash =>
                state'[c] = "kDisconnecting" /\ calls'[c].destroyed = 1
      BY <1>1, <1>2, <1>3, <1>4, <2>1, <2>2, <2>3, DestroyInv
    <2>5. TypeOK'
      BY <1>1, <1>2, <2>1, <2>4 DEF TypeOK
    <2>6. Placed'
      BY <1>1, <1>2, <2>1 DEF Placed, Has
    <2>7. DiesOnlyOf'
      BY <1>2, <2>4 DEF DiesOnlyOf, Alive
    <2> QED
      BY <1>1, <1>6, <2>1, <2>4, <2>5, <2>6, <2>7 DEF IInv, ConnInv
  <1>8. CASE loopOf[c] # 0
    <2>1. /\ queue' = Pushed(queue, loopOf[c], "connectDestroyed", c)
          /\ UNCHANGED <<state, channels, interest, calls, crash>>
      BY <1>8 DEF DestroyNext, Pushed, pollVars
    <2>2. /\ Queues(queue')
          /\ \A k \in Loops : \A o, d :
                HasIn(queue', k, o, d) <=>
                   \/ HasIn(queue, k, o, d)
                   \/ k = loopOf[c] /\ o = "connectDestroyed" /\ d = c
      BY <1>1, <1>3, <1>4, <2>1, PushKeeps DEF Ops, Destroying, Has
    <2>3. /\ \A d \in Conns : Establishing(d)' <=> Establishing(d)
          /\ \A d \in Conns : Destroying(d)' <=> Destroying(d) \/ d = c
          /\ \A d \in Conns : Removing(d)' <=> Removing(d)
      <3>1. \A d \in Conns : Establishing(d)' <=> Establishing(d)
        BY <1>5, <2>2 DEF Establishing, Has
      <3>2. \A d \in Conns : Destroying(d)' <=> Destroying(d) \/ d = c
        BY <1>5, <2>2 DEF Destroying, Has
      <3>3. \A d \in Conns : Removing(d)' <=> Removing(d)
        BY <2>2, Constants DEF Removing, Has
      <3> QED
        BY <3>1, <3>2, <3>3
    <2>4. TypeOK'
      BY <1>1, <1>2, <2>1, <2>2 DEF TypeOK, Queues
    <2>5. Placed' /\ NotYet' /\ Watched'
      BY <1>1, <1>2, <1>3, <2>1, <2>2 DEF Placed, Has, NotYet, Watched
    <2>6. Accepted'
      <3>1. \A d \in Conns : d # c => (d \in connections' <=> d \in connections)
        BY <1>2
      <3> QED
        BY <1>1, <1>2, <1>4, <2>1, <2>3, <3>1 DEF Accepted
    <2>7. Registered'
      <3>1. \A k \in Loops, f \in Fds, d \in Conns :
               channels[k][f] = d /\ k = 0 /\ f \in interest[k] =>
                  d \in connections /\ d # c
        BY <1>1, <1>8 DEF Registered
      <3> QED
        BY <1>1, <1>2, <1>4, <2>1, <3>1 DEF Registered
    <2>8. DiesOnlyOf'
      BY <1>2, <2>1, Unharmed
    <2> QED
      BY <1>1, <1>6, <2>2, <2>4, <2>5, <2>6, <2>7, <2>8 DEF IInv, ConnInv
  <1> QED
    BY <1>7, <1>8

-----------------------------------------------------------------------------
(* Accepting.                                                              *)

\* Round robin picks a loop of the pool, and keeps its index inside the pool.
LEMMA NextLoopReady ==
  ASSUME TypeOK, FirstLoop
  PROVE  /\ NextLoop \in Loops
         /\ NextIndex \in Nat
         /\ loops = <<>> => NextIndex = 0
         /\ loops # <<>> => NextIndex < Len(loops)
  <1>1. CASE loops = <<>>
    BY <1>1, Constants DEF NextLoop, NextIndex, FirstLoop
  <1>2. CASE loops # <<>>
    <2>1. /\ loops \in Seq(ReadyLoops) /\ Len(loops) \in Nat
          /\ next \in Nat /\ next < Len(loops)
      BY <1>2, LenProperties DEF TypeOK, ReadyLoops
    <2>2. next + 1 \in 1 .. Len(loops)
      BY <2>1
    <2>3. loops[next + 1] \in Loops
      BY <2>1, <2>2, ElementOfSeq DEF ReadyLoops
    <2>4. (next + 1) % Len(loops) \in Nat /\ (next + 1) % Len(loops) < Len(loops)
      BY <2>1
    <2> QED
      BY <1>2, <2>3, <2>4 DEF NextLoop, NextIndex
  <1> QED
    BY <1>1, <1>2

\* The next connection has no functors, no calls and a descriptor of its own: in
\* the base loop it is established at once, in another loop the functor is queued.
LEMMA AcceptInv ==
  ASSUME IInv, NEW fd \in Fds, Accept(fd)
  PROVE  IInv'
  <1>1. /\ TypeOK /\ FirstLoop /\ Queues(queue) /\ ConnInv /\ Emptied
        /\ Placed /\ NotYet /\ Accepted /\ OwnFd /\ Registered /\ Watched
    BY DEF IInv, ConnInv
  <1>2. /\ nextConnId \in Conns /\ nextConnId \notin connections
        /\ nextConnId + 1 \in 1 .. MaxConns + 1
        /\ connections \cup {nextConnId} \subseteq 1 .. (nextConnId + 1) - 1
    <2>1. nextConnId <= MaxConns
      BY DEF Accept, ClientWaits
    <2>2. /\ nextConnId \in 1 .. MaxConns + 1 /\ MaxConns \in Nat
          /\ connections \subseteq 1 .. nextConnId - 1
      BY <1>1, Constants DEF TypeOK
    <2>3. nextConnId \in Nat /\ nextConnId \in 1 .. MaxConns
      BY <2>1, <2>2
    <2>4. \A d \in connections : d \in 1 .. nextConnId - 1
      BY <2>2
    <2> QED
      BY <2>2, <2>3, <2>4 DEF Conns
  <1> SUFFICES ASSUME NEW c \in Conns, c = nextConnId,
                      NEW l \in Loops, l = NextLoop
               PROVE  IInv'
    BY <1>1, <1>2, NextLoopReady
  <1>3. /\ Alive /\ server = "listening" /\ fd \notin OpenFds
        /\ loopOf' = [loopOf EXCEPT ![c] = l]
        /\ next' = NextIndex
        /\ nextConnId' = c + 1 /\ c \notin connections
        /\ fdOf' = [fdOf EXCEPT ![c] = fd]
        /\ connections' = connections \cup {c}
        /\ UNCHANGED <<numThreads, initCallback, thread, loops, server,
                       baseRuns, peerClosed>>
    BY <1>2 DEF Accept, ClientWaits, Running, NewConnection, Entered, poolVars
  <1>4. /\ next' \in Nat /\ FirstLoop'
        /\ loops' # <<>> => next' < Len(loops')
    BY <1>1, <1>3, NextLoopReady DEF FirstLoop
  <1>5. /\ loopOf' \in [Conns -> Loops] /\ loopOf'[c] = l
        /\ fdOf' \in [Conns -> Fds \cup {NoFd}] /\ fdOf'[c] = fd
        /\ \A d \in Conns : d # c => loopOf'[d] = loopOf[d] /\ fdOf'[d] = fdOf[d]
        /\ \A d \in Conns : loopOf[d] \in Loops
    BY <1>1, <1>2, <1>3, <1>4 DEF TypeOK
  <1>6. \A d \in Conns : fdOf[d] # fd
    BY <1>1, <1>3, Constants DEF OpenFds, Range, TypeOK
  <1>7. /\ calls[c].established = 0 /\ calls[c].destroyed = 0
        /\ \A k \in Loops : \A o \in Ops : ~Has(k, o, c)
    BY <1>1, <1>2 DEF NotYet, Placed, Ops
  <1>8. \A k \in Loops, f \in Fds, d \in Conns : channels[k][f] = d => d # c
    BY <1>1, <1>7 DEF Registered
  <1>9. \A d \in Conns : d < nextConnId' <=> d < c \/ d = c
    BY <1>2, <1>3, Constants
  <1>10. Serving /\ Serving'
    BY <1>3 DEF Serving
  <1> DEFINE Connected == calls'[c].established = 1 /\ state'[c] = "kConnected"
             Outcome ==
                /\ state' \in [Conns -> ConnStates]
                /\ calls' \in [Conns -> [established: Nat, destroyed: Nat]]
                /\ \A d \in Conns :
                      d # c => state'[d] = state[d] /\ calls'[d] = calls[d]
                /\ calls'[c].established \in {0, 1} /\ calls'[c].destroyed = 0
                /\ calls'[c].established = 0 <=> Establishing(c)'
                /\ ~Destroying(c)' /\ ~Removing(c)'
                /\ \A d \in Conns : d # c =>
                      /\ Establishing(d)' <=> Establishing(d)
                      /\ Destroying(d)' <=> Destroying(d)
                      /\ Removing(d)' <=> Removing(d)
                /\ channels' \in [Loops -> [Fds -> Conns \cup {NoConn}]]
                /\ interest' \in [Loops -> SUBSET Fds]
                /\ \A k \in Loops, f \in Fds, d \in Conns :
                      channels'[k][f] = d =>
                         \/ /\ channels[k][f] = d
                            /\ f \in interest'[k] <=> f \in interest[k]
                         \/ d = c /\ k = l /\ f = fd /\ Connected
                /\ Queues(queue') /\ Placed' /\ Watched' /\ crash' = crash
  <1>11. ASSUME l = 0
         PROVE  Outcome
    <2>1. Establish(c, l, fd) /\ UNCHANGED queue
      BY <1>11 DEF Accept, NewConnection
    <2>2. channels[l][fd] = NoConn
      <3>1. channels[l][fd] \in Conns \cup {NoConn}
        BY <1>1, <1>4 DEF TypeOK
      <3> QED
        BY <1>1, <1>4, <1>6, <3>1 DEF Registered
    <2>3. /\ state' \in [Conns -> ConnStates] /\ state'[c] = "kConnected"
          /\ channels' \in [Loops -> [Fds -> Conns \cup {NoConn}]]
          /\ channels'[l][fd] = c
          /\ interest' \in [Loops -> SUBSET Fds]
          /\ \A k \in Loops, f \in Fds :
                /\ k # l \/ f # fd => channels'[k][f] = channels[k][f]
                /\ f \in interest'[k] <=> f \in interest[k] \/ (k = l /\ f = fd)
          /\ calls' \in [Conns -> [established: Nat, destroyed: Nat]]
          /\ calls'[c].established = 1 /\ calls'[c].destroyed = 0
          /\ \A d \in Conns : d # c => state'[d] = state[d] /\ calls'[d] = calls[d]
          /\ crash' = crash
      BY <1>1, <1>2, <1>4, <1>7, <2>1, <2>2, EstablishEffect
    <2>4. \A k \in Loops : \A o, d : Has(k, o, d)' <=> Has(k, o, d)
      BY <2>1 DEF Has
    <2>5. ~Establishing(c)' /\ ~Destroying(c)' /\ ~Removing(c)'
      BY <1>4, <1>5, <1>7, <2>4, Constants
      DEF Establishing, Destroying, Removing, Ops, Has
    <2>6. \A d \in Conns : d # c => /\ Establishing(d)' <=> Establishing(d)
                                    /\ Destroying(d)' <=> Destroying(d)
                                    /\ Removing(d)' <=> Removing(d)
      BY <1>5, <2>1 DEF Establishing, Destroying, Removing, Has
    <2>7. Placed'
      BY <1>1, <1>2, <1>5, <1>7, <1>9, <2>4 DEF Placed, Ops
    <2>8. Watched'
      BY <1>1, <1>2, <2>3, Constants DEF Watched
    <2>9. \A k \in Loops, f \in Fds, d \in Conns : channels'[k][f] = d =>
             \/ /\ channels[k][f] = d
                /\ f \in interest'[k] <=> f \in interest[k]
             \/ d = c /\ k = l /\ f = fd /\ Connected
      BY <2>3
    <2> QED
      BY <1>1, <2>1, <2>3, <2>5, <2>6, <2>7, <2>8, <2>9
  <1>12. ASSUME l # 0
         PROVE  Outcome
    <2>1. /\ state' = [state EXCEPT ![c] = "kConnecting"]
          /\ queue' = Pushed(queue, l, "connectEstablished", c)
          /\ UNCHANGED <<channels, interest, calls, crash>>
      BY <1>12 DEF Accept, NewConnection, Pushed, pollVars
    <2>2. /\ state' \in [Conns -> ConnStates]
          /\ \A d \in Conns : d # c => state'[d] = state[d]
      BY <1>1, <2>1 DEF TypeOK, ConnStates
    <2>3. /\ Queues(queue')
          /\ \A k \in Loops : \A o, d :
                HasIn(queue', k, o, d) <=>
                   \/ HasIn(queue, k, o, d)
                   \/ k = l /\ o = "connectEstablished" /\ d = c
      <3>1. /\ "connectEstablished" \in Ops /\ "connectDestroyed" \in Ops
            /\ ~HasIn(queue, l, "connectEstablished", c)
            /\ ~HasIn(queue, l, "connectDestroyed", c)
        BY <1>4, <1>7 DEF Ops, Has
      <3> QED
        BY <1>1, <1>2, <1>4, <2>1, <3>1, PushKeeps
    <2>4. Establishing(c)' /\ ~Destroying(c)' /\ ~Removing(c)'
      BY <1>4, <1>5, <1>7, <2>3, Constants
      DEF Establishing, Destroying, Removing, Ops, Has
    <2>5. \A d \in Conns : d # c => /\ Establishing(d)' <=> Establishing(d)
                                    /\ Destroying(d)' <=> Destroying(d)
                                    /\ Removing(d)' <=> Removing(d)
      <3>1. \A d \in Conns : d # c => (Establishing(d)' <=> Establishing(d))
        BY <1>5, <2>3 DEF Establishing, Has
      <3>2. \A d \in Conns : d # c => (Destroying(d)' <=> Destroying(d))
        BY <1>5, <2>3 DEF Destroying, Has
      <3>3. \A d \in Conns : d # c => (Removing(d)' <=> Removing(d))
        BY <2>3, Constants DEF Removing, Has
      <3> QED
        BY <3>1, <3>2, <3>3
    <2>6. Placed'
      <3>1. \A k \in Loops, d \in Conns : \A o \in Ops :
               Has(k, o, d)' <=> \/ Has(k, o, d)
                                 \/ k = l /\ o = "connectEstablished" /\ d = c
        BY <2>3 DEF Has
      <3> QED
        BY <1>1, <1>2, <1>5, <1>7, <1>9, <1>12, <3>1 DEF Placed, Ops
    <2>7. Watched'
      BY <1>1, <2>1 DEF Watched
    <2> QED
      BY <1>1, <1>7, <2>1, <2>2, <2>3, <2>4, <2>5, <2>6, <2>7 DEF TypeOK
  <1>13. Outcome
    BY <1>11, <1>12
  <1> HIDE DEF Outcome
  <1>14. TypeOK'
    <2>1. queue' \in [Loops -> Seq(Functors)] /\ crash' = crash
      BY <1>13 DEF Outcome, Queues
    <2>2. /\ state' \in [Conns -> ConnStates]
          /\ calls' \in [Conns -> [established: Nat, destroyed: Nat]]
          /\ channels' \in [Loops -> [Fds -> Conns \cup {NoConn}]]
          /\ interest' \in [Loops -> SUBSET Fds]
      BY <1>13 DEF Outcome
    <2> QED
      BY <1>1, <1>2, <1>3, <1>4, <1>5, <2>1, <2>2 DEF TypeOK
  <1>15. NotYet'
    <2>1. \A d \in Conns : d >= nextConnId' => d # c /\ d >= c
      BY <1>2, <1>3, Constants
    <2> QED
      BY <1>1, <1>5, <1>13, <2>1 DEF NotYet, Outcome
  <1>16. Accepted'
    <2>1. SUFFICES ASSUME NEW d \in Conns, d < nextConnId'
                   PROVE  /\ calls'[d].established \in {0, 1}
                          /\ calls'[d].established = 0 <=> Establishing(d)'
                          /\ calls'[d].destroyed \in {0, 1}
                          /\ calls'[d].destroyed = 1 => calls'[d].established = 1
                          /\ d \in connections' =>
                                ~Destroying(d)' /\ calls'[d].destroyed = 0
                          /\ Destroying(d)' => calls'[d].destroyed = 0
                          /\ \/ d \in connections'
                             \/ Destroying(d)'
                             \/ calls'[d].destroyed = 1
                          /\ calls'[d].destroyed = 0 => fdOf'[d] # NoFd
                          /\ Removing(d)' =>
                                /\ calls'[d].established = 1
                                /\ state'[d] = "kDisconnected"
                                /\ loopOf'[d] # 0 /\ d \in peerClosed'
                          /\ Serving' /\ (Removing(d)' \/ Establishing(d)') =>
                                d \in connections'
      BY DEF Accepted
    <2>2. CASE d = c
      BY <1>3, <1>5, <1>13, <2>2, Constants DEF Outcome
    <2>3. CASE d # c
      <3>1. /\ d < c /\ calls'[d] = calls[d] /\ state'[d] = state[d]
            /\ fdOf'[d] = fdOf[d]
            /\ Establishing(d)' <=> Establishing(d)
            /\ Destroying(d)' <=> Destroying(d)
            /\ Removing(d)' <=> Removing(d)
            /\ d \in connections' <=> d \in connections
        BY <1>3, <1>5, <1>9, <1>13, <2>1, <2>3 DEF Outcome
      <3> QED
        BY <1>1, <1>3, <1>5, <1>10, <2>3, <3>1 DEF Accepted
    <2> QED
      BY <2>2, <2>3
  <1>17. OwnFd'
    BY <1>1, <1>5, <1>6 DEF OwnFd
  <1>18. Registered'
    <2>1. SUFFICES ASSUME NEW k \in Loops, NEW f \in Fds, NEW d \in Conns,
                          channels'[k][f] = d
                   PROVE  /\ k = loopOf'[d] /\ fdOf'[d] = f
                          /\ calls'[d].established = 1 /\ calls'[d].destroyed = 0
                          /\ f \in interest'[k] =>
                                state'[d] \in {"kConnected", "kDisconnecting"}
                          /\ f \in interest'[k] /\ (Serving' \/ k = 0) =>
                                d \in connections'
      BY DEF Registered
    <2>2. CASE d = c
      <3>1. k = l /\ f = fd /\ Connected /\ calls'[c].destroyed = 0
        BY <1>8, <1>13, <2>1, <2>2 DEF Outcome
      <3> QED
        BY <1>3, <1>5, <2>2, <3>1
    <2>3. CASE d # c
      <3>1. /\ channels[k][f] = d
            /\ f \in interest'[k] <=> f \in interest[k]
            /\ calls'[d] = calls[d] /\ state'[d] = state[d]
            /\ loopOf'[d] = loopOf[d] /\ fdOf'[d] = fdOf[d]
        BY <1>5, <1>13, <2>1, <2>3 DEF Outcome
      <3> QED
        BY <1>1, <1>3, <1>10, <3>1 DEF Registered
    <2> QED
      BY <2>2, <2>3
  <1>19. DiesOnlyOf' /\ Emptied'
    BY <1>3, <1>13, Unharmed DEF Emptied, Outcome
  <1> QED
    BY <1>4, <1>13, <1>14, <1>15, <1>16, <1>17, <1>18, <1>19
    DEF IInv, ConnInv, Outcome

-----------------------------------------------------------------------------
(* The theorems.                                                           *)

LEMMA StepInv ==
  ASSUME IInv, [Next]_vars
  PROVE  IInv'
  <1>1. CASE Start \/ Startup \/ EndDestroy
    BY <1>1, StartupInv
  <1>2. CASE Failure \/ BeginDestroy \/ \E c \in Conns : PeerCloses(c)
    BY <1>2, BystanderInv
  <1>3. CASE \E fd \in Fds : Accept(fd)
    BY <1>3, AcceptInv
  <1>4. CASE \E l \in Loops : RunFunctor(l)
    BY <1>4, ConnectEstablishedInv, ConnectDestroyedInv,
       RemoveConnectionInLoopInv
    DEF RunFunctor
  <1>5. CASE \E c \in Conns : Shutdown(c) \/ HandleClose(c) \/ Release(c)
    BY <1>5, ShutdownInv, HandleCloseInv, ReleaseInv
  <1>6. CASE \E c \in Conns : DestroyNext(c)
    BY <1>6, DestroyNextInv
  <1>7. CASE UNCHANGED vars
    <2>1. UNCHANGED <<startVars, thread, loops, server, crash>>
      BY <1>7 DEF vars, startVars, poolVars
    <2>2. TypeOK /\ Emptied /\ DiesOnlyOf
      BY DEF IInv
    <2>3. Emptied' /\ DiesOnlyOf'
      BY <2>1, <2>2 DEF Emptied, DiesOnlyOf, startVars, connVars
    <2> QED
      BY <2>1, <2>2, <2>3, LoopsReady, QuietInv DEF Serving, TypeOK
  <1> QED
    BY <1>1, <1>2, <1>3, <1>4, <1>5, <1>6, <1>7 DEF Next, Destructor

LEMMA Invariant == Spec => []IInv
  <1> QED
    BY InitInv, StepInv, PTL DEF Spec

\* The types of newConnection(), of the pool and of the pollers: among them that
\* loops_ only ever holds loops that their threads have published.
THEOREM TypeCorrect == Spec => []TypeOK
  <1>1. IInv => TypeOK
    BY DEF IInv
  <1> QED
    BY Invariant, <1>1, PTL

\* connectEstablished() and connectDestroyed() are called once each and in this
\* order, however handleClose(), removeConnectionInLoop() and ~TcpServer() race.
THEOREM CalledOnceEach == Spec => []OnceEach
  <1>1. IInv => OnceEach
    <2>1. SUFFICES ASSUME IInv, NEW c \in Conns
                   PROVE  /\ calls[c].established <= 1
                          /\ calls[c].destroyed <= calls[c].established
      BY DEF OnceEach
    <2>2. TypeOK /\ NotYet /\ Accepted
      BY <2>1 DEF IInv, ConnInv
    <2>3. c < nextConnId \/ c >= nextConnId
      BY <2>2, Constants DEF TypeOK
    <2>4. CASE c < nextConnId
      BY <2>2, <2>4 DEF Accepted
    <2>5. CASE c >= nextConnId
      BY <2>2, <2>5 DEF NotYet
    <2> QED
      BY <2>3, <2>4, <2>5
  <1> QED
    BY Invariant, <1>1, PTL

\* What a poller's channels_ points to is a connection that is not destroyed and
\* still owns its descriptor, also after handleClose(), after the descriptor has
\* been reused, and while ~TcpServer() and the loops run side by side.
THEOREM PollersStayLive == Spec => []ChannelsLive
  <1>1. IInv => ChannelsLive
    <2>1. SUFFICES ASSUME IInv, NEW l \in Loops, NEW fd \in Fds
                   PROVE  /\ channels[l][fd] # NoConn =>
                                fdOf[channels[l][fd]] = fd
                          /\ fd \in interest[l] => channels[l][fd] # NoConn
                          /\ fd \in interest[l] /\ server = "listening" =>
                                channels[l][fd] \in connections
      BY DEF ChannelsLive
    <2>2. TypeOK /\ Registered /\ Watched
      BY <2>1 DEF IInv, ConnInv
    <2>3. channels[l][fd] \in Conns \cup {NoConn}
      BY <2>2 DEF TypeOK
    <2>4. server = "listening" => Serving
      BY DEF Serving
    <2> QED
      BY <2>2, <2>3, <2>4 DEF Registered, Watched
  <1> QED
    BY Invariant, <1>1, PTL

\* Through any sequence of accepts, closes, reused descriptors and functors, and
\* also while ~TcpServer() runs and after it, the process dies of four things
\* only: a system call whose failure is logged as fatal (Socket.cc:28-54,
\* TcpServer.cc:68-72, EpollPoller.cc:192); the missing callback of a pool without
\* threads (EventLoopThreadPool.cc); Channel::remove()'s assertion, after the
\* server's end and in a connection shut down and not closed (Channel.cc:49); and
\* the destroyed server, used by a pool's loop for a client that closed.
THEOREM DiesOnlyOfThese == Spec => []DiesOnlyOf
  <1>1. IInv => DiesOnlyOf
    BY DEF IInv
  <1> QED
    BY Invariant, <1>1, PTL
=============================================================================
