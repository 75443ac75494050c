-------------------------- MODULE TcpConnectionProofs --------------------------
(***************************************************************************)
(* Theorems about TcpConnection, for any callers, usages and sizes: its    *)
(* state is well typed, the user is told once that it is down, each        *)
(* caller's bytes leave in order, and in the orderly usages EPOLLOUT is    *)
(* watched exactly while there is output, the process survives and the     *)
(* write side is shut down only behind the last byte.                      *)
(*                                                                         *)
(* They rest on the order of a connection's life: nothing happens before   *)
(* connectEstablished(), input is watched from then until the user is told *)
(* that it is down, and a thread that is about to set kDisconnecting does  *)
(* so, in an orderly usage, only while it is up.  Survival rests also on   *)
(* who may have queued what is queued (Used) and on what has happened when *)
(* connectDestroyed() comes (Ending); the order of the bytes on the        *)
(* messages still queued, each behind all of its caller's that were handed *)
(* on (StreamInv).                                                         *)
(***************************************************************************)
EXTENDS TcpConnection, SequenceTheorems, TLAPS

Functors == [op: Ops, data: Seq(Bytes)]

\* connectEstablished() comes first, and until then there is nothing else.
Opening ==
    /\ state = "kConnecting" =>
          /\ queue # <<>> /\ queue[1].op = "connectEstablished"
          /\ events = {}
          /\ \A t \in Threads : pc[t] = "idle"
    /\ \A i \in 1 .. Len(queue) :
          queue[i].op = "connectEstablished" => i = 1 /\ state = "kConnecting"

\* Input is watched until the user is told, by whoever disables the channel.
Told ==
    /\ downs \in {0, 1}
    /\ "read" \in events <=> state # "kConnecting" /\ downs = 0
    /\ state \in {"kConnecting", "kConnected"} => downs = 0
    /\ state = "kDisconnected" => downs = 1
    /\ destroyed /\ Alive => downs = 1

\* A thread is where its usage lets it go.
Calling ==
    \A t \in Threads :
        /\ pc[t] = "send" => sent[t] < MaxSends
        /\ pc[t] \in {"setState", "queueShutdown"} => t \in usage.shutdown

\* A peer that stays leaves the connection to the server.
StaysUp ==
    usage.peer = "stays" =>
        /\ peer = "open"
        /\ ~usage.serverDies =>
              /\ state # "kDisconnected" /\ removal = "none"
              /\ \A i \in 1 .. Len(queue) : queue[i].op # "connectDestroyed"

Life == Opening /\ Told /\ Calling /\ StaysUp

IInv == TypeOK /\ Life /\ WritingIffOutput

-----------------------------------------------------------------------------
(* Messages and queues.                                                    *)

LEMMA MessageType ==
  ASSUME NEW c \in Callers, NEW n \in 1 .. MaxSends
  PROVE  Message(c, n) \in Seq(Bytes) /\ Message(c, n) # <<>>
  <1>1. /\ MaxSends \in Nat /\ MessageLen \in Nat /\ MessageLen >= 1
        /\ n \in Nat /\ n >= 1 /\ n <= MaxSends
    BY TcpConnectionAssumption
  <1>2. ASSUME NEW i \in 1 .. MessageLen
        PROVE  (n - 1) * MessageLen + i \in 1 .. MaxSends * MessageLen
    <2>1. (n - 1) * MessageLen \in Nat
      BY <1>1
    <2>2. (n - 1) * MessageLen + MessageLen = n * MessageLen
      BY <1>1
    <2>3. n * MessageLen <= MaxSends * MessageLen
      BY <1>1
    <2>4. n * MessageLen \in Nat /\ MaxSends * MessageLen \in Nat
      BY <1>1
    <2> HIDE DEF Message
    <2> QED
      BY <1>1, <2>1, <2>2, <2>3, <2>4
  <1>3. Message(c, n) \in [1 .. MessageLen -> Bytes]
    BY <1>2 DEF Message, Bytes
  <1>4. Message(c, n) \in Seq(Bytes)
    BY <1>1, <1>3, SeqDef
  <1>5. Message(c, n)[1] = [by |-> c, at |-> (n - 1) * MessageLen + 1]
    BY <1>1 DEF Message
  <1>6. DOMAIN Message(c, n) = 1 .. MessageLen
    BY DEF Message
  <1>7. Len(Message(c, n)) = MessageLen
    BY <1>1, <1>4, <1>6, LenProperties
  <1> QED
    BY <1>1, <1>4, <1>7

(* The next queue is q with functors of these kinds behind it.              *)
Grows(q, kinds) ==
    /\ queue' \in Seq(Functors)
    /\ Len(queue') >= Len(q)
    /\ \A i \in 1 .. Len(q) : queue'[i] = q[i]
    /\ \A i \in Len(q) + 1 .. Len(queue') : queue'[i].op \in kinds

LEMMA GrowsNot ==
  ASSUME NEW q \in Seq(Functors), queue' = q, NEW kinds
  PROVE  Grows(q, kinds)
  BY DEF Grows

LEMMA GrowsByOne ==
  ASSUME NEW q \in Seq(Functors), NEW f \in Functors, NEW kinds, f.op \in kinds,
         queue' = Append(q, f)
  PROVE  Grows(q, kinds)
  BY DEF Grows

LEMMA FunctorType ==
  ASSUME NEW op \in Ops
  PROVE  Functor(op) \in Functors /\ Functor(op).op = op
  <1>1. <<>> \in Seq(Bytes)
    BY EmptySeq
  <1> QED
    BY <1>1 DEF Functor, Functors

-----------------------------------------------------------------------------
(* Sending.                                                                *)

\* What sendInLoop() may queue.
Notices == {"writeComplete", "highWaterMark"}

LEMMA BufferOutputKeeps ==
  ASSUME TypeOK, NEW rest \in Seq(Bytes), NEW q \in Seq(Functors),
         BufferOutput(rest, q)
  PROVE  /\ events' = events \cup {"write"} /\ loopPc' = loopPc
         /\ outputBuffer' \in Seq(Bytes)
         /\ rest # <<>> \/ outputBuffer # <<>> => outputBuffer' # <<>>
         /\ Grows(q, Notices)
  <1>1. outputBuffer \in Seq(Bytes)
    BY DEF TypeOK
  <1>2. /\ outputBuffer' \in Seq(Bytes)
        /\ rest # <<>> \/ outputBuffer # <<>> => outputBuffer' # <<>>
    BY <1>1, ConcatProperties, ConcatEqualIffEmpty DEF BufferOutput
  <1>3. queue' = q \/ queue' = Append(q, Functor("highWaterMark"))
    BY DEF BufferOutput
  <1>4. Grows(q, Notices)
    BY <1>3, FunctorType, GrowsNot, GrowsByOne DEF Notices, Ops
  <1> QED
    BY <1>2, <1>4 DEF BufferOutput

LEMMA QueueWriteCompleteGrows ==
  ASSUME NEW q \in Seq(Functors), queue' = QueueWriteComplete(q)
  PROVE  Grows(q, Notices)
  <1>1. queue' = q \/ queue' = Append(q, Functor("writeComplete"))
    BY DEF QueueWriteComplete
  <1> QED
    BY <1>1, FunctorType, GrowsNot, GrowsByOne DEF Notices, Ops

LEMMA WriteDirectlyKeeps ==
  ASSUME TypeOK, NEW data \in Seq(Bytes), NEW q \in Seq(Functors),
         WriteDirectly(data, q)
  PROVE  /\ socket' \in Seq(Bytes) /\ Len(socket') <= SocketSendBuf
         /\ loopPc' = loopPc /\ outputBuffer' \in Seq(Bytes)
         /\ Grows(q, Notices)
         /\ \/ UNCHANGED <<events, outputBuffer>>
            \/ events' = events \cup {"write"} /\ outputBuffer' # <<>>
  <1>1. PICK n \in 1 .. Len(data) :
          /\ n <= Room
          /\ socket' = socket \o SubSeq(data, 1, n)
          /\ IF n = Len(data)
               THEN /\ queue' = QueueWriteComplete(q)
                    /\ UNCHANGED <<events, outputBuffer, loopPc>>
               ELSE BufferOutput(SubSeq(data, n + 1, Len(data)), q)
    BY DEF WriteDirectly
  <1>2. \A i \in 1 .. Len(data) : data[i] \in Bytes
    BY ElementOfSeq
  <1>3. Len(data) \in Nat /\ Len(socket) \in Nat /\ SocketSendBuf \in Nat
    BY LenProperties, TcpConnectionAssumption DEF TypeOK
  <1>4. SubSeq(data, 1, n) \in Seq(Bytes) /\ Len(SubSeq(data, 1, n)) = n
    BY <1>2, <1>3, SubSeqProperties
  <1>5. socket' \in Seq(Bytes) /\ Len(socket') = Len(socket) + n
    BY <1>1, <1>4, ConcatProperties DEF TypeOK
  <1>6. Len(socket') <= SocketSendBuf
    BY <1>1, <1>3, <1>5 DEF Room
  <1>7. CASE n = Len(data)
    BY <1>1, <1>5, <1>6, <1>7, QueueWriteCompleteGrows DEF TypeOK
  <1>8. CASE n # Len(data)
    <2>1. /\ SubSeq(data, n + 1, Len(data)) \in Seq(Bytes)
          /\ Len(SubSeq(data, n + 1, Len(data))) = Len(data) - n
      BY <1>2, <1>3, <1>8, SubSeqProperties
    <2>2. SubSeq(data, n + 1, Len(data)) # <<>>
      <3> DEFINE tail == SubSeq(data, n + 1, Len(data))
      <3>1. Len(tail) # 0
        BY <1>3, <1>8, <2>1
      <3> HIDE DEF tail
      <3>2. tail # <<>>
        BY <3>1
      <3> QED
        BY <3>2 DEF tail
    <2> QED
      BY <1>1, <1>5, <1>6, <1>8, <2>1, <2>2, BufferOutputKeeps
  <1> QED
    BY <1>7, <1>8

LEMMA WriteWouldBlockKeeps ==
  ASSUME TypeOK, NEW data \in Seq(Bytes), NEW q \in Seq(Functors),
         WriteWouldBlock(data, q)
  PROVE  /\ socket' = socket /\ loopPc' = loopPc
         /\ events' = events \cup {"write"}
         /\ outputBuffer' \in Seq(Bytes) /\ outputBuffer' # <<>>
         /\ Grows(q, Notices)
  <1>1. <<Garbage>> \o data \in Seq(Bytes) /\ <<Garbage>> \o data # <<>>
    <2>1. <<Garbage>> \in Seq(Bytes) /\ <<Garbage>> # <<>>
      BY DEF Bytes
    <2> QED
      BY <2>1, ConcatProperties, ConcatEqualIffEmpty
  <1> QED
    BY <1>1, BufferOutputKeeps DEF WriteWouldBlock

(* sendInLoop() leaves EPOLLOUT watched just when it leaves output, if that
   was so before.                                                          *)
LEMMA SendInLoopKeeps ==
  ASSUME TypeOK, NEW data \in Seq(Bytes), NEW q \in Seq(Functors),
         SendInLoop(data, q)
  PROVE  /\ socket' \in Seq(Bytes) /\ Len(socket') <= SocketSendBuf
         /\ outputBuffer' \in Seq(Bytes)
         /\ events' \in {events, events \cup {"write"}}
         /\ loopPc' \in {loopPc, "SIGPIPE"}
         /\ Grows(q, Notices)
         /\ (IsWriting <=> outputBuffer # <<>>) =>
               (IsWriting' <=> outputBuffer' # <<>>)
  <1>1. CASE /\ queue' = q
             /\ UNCHANGED <<events, outputBuffer, socket>>
             /\ loopPc' \in {loopPc, "SIGPIPE"}
    BY <1>1, GrowsNot DEF TypeOK, IsWriting
  <1>2. CASE WriteDirectly(data, q)
    BY <1>2, WriteDirectlyKeeps DEF IsWriting
  <1>3. CASE WriteWouldBlock(data, q)
    BY <1>3, WriteWouldBlockKeeps DEF IsWriting, TypeOK
  <1>4. CASE ~MayWriteDirectly /\ BufferOutput(data, q) /\ UNCHANGED socket
    BY <1>4, BufferOutputKeeps DEF IsWriting, TypeOK, MayWriteDirectly
  <1> QED
    BY <1>1, <1>2, <1>3, <1>4 DEF SendInLoop

-----------------------------------------------------------------------------
(* The queue.                                                              *)

NoneIn(q, op) == \A i \in 1 .. Len(q) : q[i].op # op

\* Whatever functor runs, connectEstablished() is not behind it.
LEMMA PopKeeps ==
  ASSUME TypeOK, Opening, queue # <<>>
  PROVE  /\ Head(queue) \in Functors /\ Tail(queue) \in Seq(Functors)
         /\ state = "kConnecting" => Head(queue).op = "connectEstablished"
         /\ Head(queue).op = "connectEstablished" => state = "kConnecting"
         /\ NoneIn(Tail(queue), "connectEstablished")
         /\ NoneIn(queue, "connectDestroyed") =>
               /\ Head(queue).op # "connectDestroyed"
               /\ NoneIn(Tail(queue), "connectDestroyed")
  <1>1. queue \in Seq(Functors)
    BY DEF TypeOK, Functors
  <1>2. /\ Head(queue) = queue[1] /\ Tail(queue) \in Seq(Functors)
        /\ Len(queue) \in Nat /\ Len(queue) >= 1
        /\ Len(Tail(queue)) = Len(queue) - 1
        /\ \A i \in 1 .. Len(Tail(queue)) : Tail(queue)[i] = queue[i + 1]
    BY <1>1, HeadTailProperties
  <1>3. \A i \in 1 .. Len(Tail(queue)) :
           /\ i + 1 \in 1 .. Len(queue) /\ i + 1 # 1
           /\ Tail(queue)[i] = queue[i + 1]
    BY <1>2
  <1>4. 1 \in 1 .. Len(queue) /\ queue[1] \in Functors
    BY <1>1, <1>2, ElementOfSeq
  <1> QED
    BY <1>2, <1>3, <1>4 DEF Opening, NoneIn

LEMMA GrowsNone ==
  ASSUME NEW q \in Seq(Functors), NEW kinds, Grows(q, kinds),
         NEW op, op \notin kinds, NoneIn(q, op)
  PROVE  NoneIn(queue', op)
  <1>1. Len(q) \in Nat /\ Len(queue') \in Nat
    BY LenProperties DEF Grows
  <1>2. SUFFICES ASSUME NEW i \in 1 .. Len(queue')
                 PROVE  queue'[i].op # op
    BY DEF NoneIn
  <1>3. CASE i \in 1 .. Len(q)
    BY <1>3 DEF Grows, NoneIn
  <1>4. CASE i \in Len(q) + 1 .. Len(queue')
    BY <1>4 DEF Grows
  <1> QED
    BY <1>1, <1>2, <1>3, <1>4

\* Once the connection is established, only the queue matters to Opening.
LEMMA OpeningOver ==
  ASSUME Opening
  PROVE  state # "kConnecting" => NoneIn(queue, "connectEstablished")
  BY DEF Opening, NoneIn

LEMMA OpeningIsOver ==
  ASSUME state' # "kConnecting", NoneIn(queue', "connectEstablished")
  PROVE  Opening'
  BY DEF Opening, NoneIn

-----------------------------------------------------------------------------
(* The invariant.                                                          *)

LEMMA InitInv ==
  ASSUME Init
  PROVE  IInv
  <1>1. Functor("connectEstablished") \in Functors
        /\ Functor("connectEstablished").op = "connectEstablished"
    BY FunctorType DEF Ops
  <1>2. /\ queue \in Seq(Functors) /\ Len(queue) = 1 /\ queue # <<>>
        /\ queue[1].op = "connectEstablished"
    BY <1>1 DEF Init
  <1>3. TypeOK
    <2>1. <<>> \in Seq(Bytes) /\ Len(<<>>) = 0
      BY EmptySeq
    <2>2. SocketSendBuf \in Nat /\ MaxSends \in Nat /\ "loop" \in Callers
      BY TcpConnectionAssumption
    <2>3. \A c \in Callers : 0 \in 0 .. MaxSends
      BY <2>2
    <2>4. /\ pc \in [Threads -> {"idle", "send", "setState", "queueShutdown"}]
          /\ sent \in [Callers -> 0 .. MaxSends]
      BY <2>3 DEF Init
    <2>5. /\ {outputBuffer, socket, received} \subseteq Seq(Bytes)
          /\ Len(socket) <= SocketSendBuf
      BY <2>1, <2>2 DEF Init
    <2>6. queue \in Seq([op: Ops, data: Seq(Bytes)])
      BY <1>2 DEF Functors
    <2>7. /\ loopPc \in {"idle", "callback"} \cup Deaths
          /\ downs \in Nat /\ events \subseteq {"read", "write"}
      BY DEF Init
    <2> QED
      BY <2>4, <2>5, <2>6, <2>7 DEF Init, TypeOK
  <1>4. Opening
    BY <1>2 DEF Init, Opening
  <1>5. Told
    BY DEF Init, Told
  <1>6. Calling
    BY DEF Init, Calling
  <1>7. StaysUp
    BY <1>2 DEF Init, StaysUp
  <1>8. WritingIffOutput
    BY DEF Init, WritingIffOutput, IsWriting
  <1> QED
    BY <1>3, <1>4, <1>5, <1>6, <1>7, <1>8 DEF IInv, Life

-----------------------------------------------------------------------------
(* Functors.                                                               *)

LEMMA ConnectEstablishedInv ==
  ASSUME IInv, ConnectEstablished
  PROVE  IInv'
  <1>1. TypeOK /\ Opening /\ Told /\ Calling /\ StaysUp /\ WritingIffOutput
    BY DEF IInv, Life
  <1>2. /\ queue # <<>> /\ Head(queue).op = "connectEstablished"
        /\ queue' = Tail(queue) /\ loopPc = "idle"
        /\ state' = "kConnected" /\ events' = events \cup {"read"}
        /\ loopPc' = "callback"
        /\ UNCHANGED <<lifeVars, outputBuffer, socket, pc, sent>>
    BY DEF ConnectEstablished, RunsFunctor
  <1>3. /\ queue' \in Seq(Functors) /\ state = "kConnecting"
        /\ NoneIn(queue', "connectEstablished")
        /\ NoneIn(queue, "connectDestroyed")
              => NoneIn(queue', "connectDestroyed")
    BY <1>1, <1>2, PopKeeps
  <1>4. TypeOK'
    BY <1>1, <1>2, <1>3 DEF TypeOK, Functors, lifeVars
  <1>5. Opening'
    BY <1>2, <1>3, OpeningIsOver
  <1>6. Told'
    BY <1>1, <1>2, <1>3 DEF Told, lifeVars, Alive, Deaths
  <1>7. Calling'
    BY <1>1, <1>2 DEF Calling, lifeVars
  <1>8. StaysUp'
    BY <1>1, <1>2, <1>3 DEF StaysUp, NoneIn, lifeVars
  <1>9. WritingIffOutput'
    BY <1>1, <1>2, <1>3 DEF WritingIffOutput, IsWriting, Orderly, lifeVars
  <1> QED
    BY <1>4, <1>5, <1>6, <1>7, <1>8, <1>9 DEF IInv, Life

\* What sendInLoop() leaves alone, and what it can change, keeps the invariant,
\* whether a functor or a callback calls it.
LEMMA SendInLoopInv ==
  ASSUME IInv, NEW data \in Seq(Bytes), NEW q \in Seq(Functors),
         SendInLoop(data, q), UNCHANGED <<lifeVars, state, pc>>,
         state # "kConnecting", loopPc \in {"idle", "callback"},
         NoneIn(q, "connectEstablished"),
         NoneIn(queue, "connectDestroyed") => NoneIn(q, "connectDestroyed"),
         sent' \in [Callers -> 0 .. MaxSends],
         \A t \in Threads : sent'[t] = sent[t]
  PROVE  IInv'
  <1>1. TypeOK /\ Opening /\ Told /\ Calling /\ StaysUp /\ WritingIffOutput
    BY DEF IInv, Life
  <1>2. /\ socket' \in Seq(Bytes) /\ Len(socket') <= SocketSendBuf
        /\ outputBuffer' \in Seq(Bytes)
        /\ events' \in {events, events \cup {"write"}}
        /\ loopPc' \in {loopPc, "SIGPIPE"}
        /\ Grows(q, Notices)
        /\ (IsWriting <=> outputBuffer # <<>>) =>
              (IsWriting' <=> outputBuffer' # <<>>)
    BY <1>1, SendInLoopKeeps
  <1>3. /\ queue' \in Seq(Functors)
        /\ NoneIn(queue', "connectEstablished")
        /\ NoneIn(q, "connectDestroyed") => NoneIn(queue', "connectDestroyed")
    <2>1. queue' \in Seq(Functors)
      BY <1>2 DEF Grows
    <2>2. "connectEstablished" \notin Notices /\ "connectDestroyed" \notin Notices
      BY DEF Notices
    <2> QED
      BY <1>2, <2>1, <2>2, GrowsNone
  <1>4. TypeOK'
    BY <1>1, <1>2, <1>3 DEF TypeOK, Functors, lifeVars, Deaths
  <1>5. Opening'
    BY <1>3, OpeningIsOver
  <1>6. Told'
    BY <1>1, <1>2 DEF Told, lifeVars, Alive, Deaths
  <1>7. Calling'
    BY <1>1 DEF Calling, lifeVars
  <1>8. StaysUp'
    BY <1>1, <1>3 DEF StaysUp, NoneIn, lifeVars
  <1>9. WritingIffOutput'
    BY <1>1, <1>2 DEF WritingIffOutput, Orderly, lifeVars
  <1> QED
    BY <1>4, <1>5, <1>6, <1>7, <1>8, <1>9 DEF IInv, Life

LEMMA RunSendInv ==
  ASSUME IInv, RunSend
  PROVE  IInv'
  <1>1. TypeOK /\ Opening /\ Told /\ Calling /\ StaysUp /\ WritingIffOutput
    BY DEF IInv, Life
  <1>2. /\ loopPc = "idle" /\ queue # <<>> /\ Head(queue).op = "send"
        /\ UNCHANGED <<lifeVars, state, pc, sent>>
    BY DEF RunSend
  <1>3. CASE SendInLoop(Head(queue).data, Tail(queue))
    <2>1. /\ Head(queue) \in Functors /\ Tail(queue) \in Seq(Functors)
          /\ state # "kConnecting"
          /\ NoneIn(Tail(queue), "connectEstablished")
          /\ NoneIn(queue, "connectDestroyed")
                => NoneIn(Tail(queue), "connectDestroyed")
      BY <1>1, <1>2, PopKeeps
    <2>2. Head(queue).data \in Seq(Bytes)
      BY <2>1 DEF Functors
    <2>3. sent' \in [Callers -> 0 .. MaxSends]
      BY <1>1, <1>2 DEF TypeOK
    <2> QED
      BY <1>2, <1>3, <2>1, <2>2, <2>3, SendInLoopInv
  <1>4. CASE /\ loopPc' = "use_after_free"
             /\ UNCHANGED <<events, outputBuffer, socket, queue>>
    <2>1. TypeOK'
      BY <1>1, <1>2, <1>4 DEF TypeOK, lifeVars, Deaths
    <2>2. Opening' /\ Calling' /\ StaysUp'
      BY <1>1, <1>2, <1>4 DEF Opening, Calling, StaysUp, lifeVars
    <2>3. Told'
      BY <1>1, <1>2, <1>4 DEF Told, lifeVars, Alive, Deaths
    <2>4. WritingIffOutput'
      BY <1>1, <1>2, <1>4 DEF WritingIffOutput, IsWriting, Orderly, lifeVars
    <2> QED
      BY <2>1, <2>2, <2>3, <2>4 DEF IInv, Life
  <1> QED
    BY <1>3, <1>4 DEF RunSend

LEMMA RunShutdownInv ==
  ASSUME IInv, RunShutdown
  PROVE  IInv'
  <1>1. TypeOK /\ Opening /\ Told /\ Calling /\ StaysUp /\ WritingIffOutput
    BY DEF IInv, Life
  <1>2. /\ queue # <<>> /\ Head(queue).op = "shutdown"
        /\ queue' = Tail(queue) /\ loopPc = "idle"
        /\ loopPc' \in {"idle", "use_after_free"} /\ finSent' \in BOOLEAN
        /\ UNCHANGED <<usage, state, events, outputBuffer, socket, received,
                       peer, pc, sent, removal, destroyed, downs>>
    BY <1>1 DEF RunShutdown, RunsFunctor, ShutdownInLoop, TypeOK
  <1>3. /\ queue' \in Seq(Functors) /\ state # "kConnecting"
        /\ NoneIn(queue', "connectEstablished")
        /\ NoneIn(queue, "connectDestroyed")
              => NoneIn(queue', "connectDestroyed")
    BY <1>1, <1>2, PopKeeps
  <1>4. TypeOK'
    BY <1>1, <1>2, <1>3 DEF TypeOK, Functors, Deaths
  <1>5. Opening'
    BY <1>2, <1>3, OpeningIsOver
  <1>6. Told'
    BY <1>1, <1>2 DEF Told, Alive, Deaths
  <1>7. Calling'
    BY <1>1, <1>2 DEF Calling
  <1>8. StaysUp'
    BY <1>1, <1>2, <1>3 DEF StaysUp, NoneIn
  <1>9. WritingIffOutput'
    BY <1>1, <1>2 DEF WritingIffOutput, IsWriting, Orderly
  <1> QED
    BY <1>4, <1>5, <1>6, <1>7, <1>8, <1>9 DEF IInv, Life

\* The user's notices change the loop's counter only.
LEMMA RunNoticeInv ==
  ASSUME IInv, RunWriteComplete \/ RunHighWaterMark
  PROVE  IInv'
  <1>1. TypeOK /\ Opening /\ Told /\ Calling /\ StaysUp /\ WritingIffOutput
    BY DEF IInv, Life
  <1>2. /\ queue # <<>> /\ Head(queue).op \in Notices
        /\ queue' = Tail(queue) /\ loopPc = "idle"
        /\ loopPc' \in {"callback", "bad_function_call"}
        /\ UNCHANGED <<lifeVars, state, events, outputBuffer, socket, pc, sent>>
    BY DEF RunWriteComplete, RunHighWaterMark, RunsFunctor, Notices
  <1>3. /\ queue' \in Seq(Functors) /\ state # "kConnecting"
        /\ NoneIn(queue', "connectEstablished")
        /\ NoneIn(queue, "connectDestroyed")
              => NoneIn(queue', "connectDestroyed")
    BY <1>1, <1>2, PopKeeps DEF Notices
  <1>4. TypeOK'
    BY <1>1, <1>2, <1>3 DEF TypeOK, Functors, Deaths, lifeVars
  <1>5. Opening'
    BY <1>2, <1>3, OpeningIsOver
  <1>6. Told'
    BY <1>1, <1>2 DEF Told, Alive, Deaths, lifeVars
  <1>7. Calling'
    BY <1>1, <1>2 DEF Calling, lifeVars
  <1>8. StaysUp'
    BY <1>1, <1>2, <1>3 DEF StaysUp, NoneIn, lifeVars
  <1>9. WritingIffOutput'
    BY <1>1, <1>2 DEF WritingIffOutput, IsWriting, Orderly, lifeVars
  <1> QED
    BY <1>4, <1>5, <1>6, <1>7, <1>8, <1>9 DEF IInv, Life

\* connectDestroyed() tells the user only if nobody else has: on a connection
\* that was shut down, and is still enabled, Channel::remove() ends the process.
LEMMA ConnectDestroyedInv ==
  ASSUME IInv, ConnectDestroyed
  PROVE  IInv'
  <1>1. TypeOK /\ Opening /\ Told /\ Calling /\ StaysUp /\ WritingIffOutput
    BY DEF IInv, Life
  <1>2. /\ queue # <<>> /\ Head(queue).op = "connectDestroyed"
        /\ queue' = Tail(queue) /\ loopPc = "idle" /\ destroyed' = TRUE
        /\ loopPc' = IF events' = {} THEN "idle" ELSE "assert"
        /\ UNCHANGED <<usage, outputBuffer, socket, received, finSent, peer, pc,
                       sent, removal>>
    BY DEF ConnectDestroyed, RunsFunctor
  <1>3. \/ /\ state = "kConnected" /\ state' = "kDisconnected"
           /\ events' = {} /\ downs' = downs + 1
        \/ state # "kConnected" /\ UNCHANGED <<state, events, downs>>
    BY DEF ConnectDestroyed
  <1>4. /\ queue' \in Seq(Functors) /\ state # "kConnecting"
        /\ NoneIn(queue', "connectEstablished")
        /\ NoneIn(queue, "connectDestroyed")
              => NoneIn(queue', "connectDestroyed")
        /\ ~NoneIn(queue, "connectDestroyed")
    BY <1>1, <1>2, PopKeeps
  <1>5. TypeOK'
    <2>1. queue' \in Seq([op: Ops, data: Seq(Bytes)])
      BY <1>4 DEF Functors
    <2>2. /\ state' \in {"kConnecting", "kConnected", "kDisconnecting",
                         "kDisconnected"}
          /\ downs' \in Nat
      BY <1>1, <1>3 DEF TypeOK
    <2>3. events' \subseteq {"read", "write"}
      BY <1>1, <1>3 DEF TypeOK
    <2>4. loopPc' \in {"idle", "callback"} \cup Deaths
      BY <1>2 DEF Deaths
    <2> QED
      BY <1>1, <1>2, <2>1, <2>2, <2>3, <2>4 DEF TypeOK
  <1>6. Opening'
    BY <1>3, <1>4, OpeningIsOver
  <1>7. Told'
    BY <1>1, <1>2, <1>3, <1>4 DEF Told, Alive, Deaths
  <1>8. Calling'
    BY <1>1, <1>2 DEF Calling
  <1>9. StaysUp'
    BY <1>1, <1>2, <1>3, <1>4 DEF StaysUp, NoneIn
  <1>10. WritingIffOutput'
    BY <1>1, <1>2, <1>3 DEF WritingIffOutput, IsWriting, Orderly
  <1> QED
    BY <1>5, <1>6, <1>7, <1>8, <1>9, <1>10 DEF IInv, Life

-----------------------------------------------------------------------------
(* Events and callbacks.                                                   *)

\* Steps that leave the queue and the connection's state alone.
LEMMA LoopPcInv ==
  ASSUME IInv, loopPc \notin Deaths, loopPc' \in {"idle", "callback", "SIGPIPE"},
         UNCHANGED <<lifeVars, state, events, outputBuffer, socket, queue, pc,
                     sent>>
  PROVE  IInv'
  <1>1. TypeOK /\ Opening /\ Told /\ Calling /\ StaysUp /\ WritingIffOutput
    BY DEF IInv, Life
  <1>2. TypeOK'
    BY <1>1 DEF TypeOK, lifeVars, Deaths
  <1>3. Opening' /\ Calling' /\ StaysUp'
    BY <1>1 DEF Opening, Calling, StaysUp, lifeVars
  <1>4. Told'
    BY <1>1 DEF Told, lifeVars, Alive, Deaths
  <1>5. WritingIffOutput'
    BY <1>1 DEF WritingIffOutput, IsWriting, Orderly, lifeVars
  <1> QED
    BY <1>2, <1>3, <1>4, <1>5 DEF IInv, Life

LEMMA HandleReadErrorInv ==
  ASSUME IInv, HandleReadError
  PROVE  IInv'
  <1>1. TypeOK /\ Opening /\ Told /\ Calling /\ StaysUp /\ WritingIffOutput
    BY DEF IInv, Life
  <1>2. TypeOK'
    BY <1>1 DEF TypeOK, HandleReadError
  <1>3. Opening' /\ Calling'
    BY <1>1 DEF Opening, Calling, HandleReadError
  <1>4. StaysUp'
    BY <1>1 DEF StaysUp, HandleReadError
  <1>5. Told'
    BY <1>1 DEF Told, HandleReadError, Alive, Deaths
  <1>6. WritingIffOutput'
    BY <1>1 DEF WritingIffOutput, IsWriting, Orderly, HandleReadError
  <1> QED
    BY <1>2, <1>3, <1>4, <1>5, <1>6 DEF IInv, Life

\* Input is watched, so the user has not been told.
LEMMA HandleCloseInv ==
  ASSUME IInv, HandleClose
  PROVE  IInv'
  <1>1. TypeOK /\ Opening /\ Told /\ Calling /\ StaysUp /\ WritingIffOutput
    BY DEF IInv, Life
  <1>2. /\ "read" \in events /\ peer \in {"closed", "gone"}
        /\ state' = "kDisconnected" /\ events' = {} /\ downs' = downs + 1
        /\ loopPc' \in {"idle", "use_after_free"}
        /\ removal' \in {"requested", "serverGone"}
        /\ UNCHANGED <<usage, outputBuffer, socket, received, finSent, peer,
                       queue, pc, sent, destroyed>>
    BY DEF HandleClose
  <1>3. downs = 0 /\ state # "kConnecting" /\ usage.peer # "stays"
    BY <1>1, <1>2 DEF Told, StaysUp
  <1>4. TypeOK'
    BY <1>1, <1>2, <1>3 DEF TypeOK, Deaths
  <1>5. Opening'
    BY <1>1, <1>2, <1>3, OpeningOver, OpeningIsOver
  <1>6. Told'
    BY <1>2, <1>3 DEF Told
  <1>7. Calling' /\ StaysUp'
    BY <1>1, <1>2, <1>3 DEF Calling, StaysUp
  <1>8. WritingIffOutput'
    BY <1>2 DEF WritingIffOutput
  <1> QED
    BY <1>4, <1>5, <1>6, <1>7, <1>8 DEF IInv, Life

LEMMA HandleWriteInv ==
  ASSUME IInv, HandleWrite
  PROVE  IInv'
  <1>1. TypeOK /\ Opening /\ Told /\ Calling /\ StaysUp /\ WritingIffOutput
    BY DEF IInv, Life
  <1>2. /\ loopPc = "idle" /\ IsWriting
        /\ UNCHANGED <<usage, state, received, peer, pc, sent, removal,
                       destroyed, downs>>
    BY DEF HandleWrite
  <1>3. CASE /\ loopPc' = "SIGPIPE"
             /\ UNCHANGED <<events, outputBuffer, socket, finSent, queue>>
    BY <1>2, <1>3, LoopPcInv DEF lifeVars, Deaths
  <1>4. CASE /\ \E n \in 1 .. Len(outputBuffer) :
                    /\ n <= Room
                    /\ socket' = socket \o SubSeq(outputBuffer, 1, n)
                    /\ outputBuffer' =
                          SubSeq(outputBuffer, n + 1, Len(outputBuffer))
             /\ IF outputBuffer' = <<>> THEN OutputWritten
                                        ELSE UNCHANGED <<events, finSent, queue>>
             /\ UNCHANGED loopPc
    <2>1. PICK n \in 1 .. Len(outputBuffer) :
            /\ n <= Room
            /\ socket' = socket \o SubSeq(outputBuffer, 1, n)
            /\ outputBuffer' = SubSeq(outputBuffer, n + 1, Len(outputBuffer))
      BY <1>4
    <2>2. /\ Len(outputBuffer) \in Nat /\ Len(socket) \in Nat
          /\ SocketSendBuf \in Nat
          /\ \A i \in 1 .. Len(outputBuffer) : outputBuffer[i] \in Bytes
      BY <1>1, LenProperties, ElementOfSeq, TcpConnectionAssumption DEF TypeOK
    <2>3. /\ SubSeq(outputBuffer, 1, n) \in Seq(Bytes)
          /\ Len(SubSeq(outputBuffer, 1, n)) = n
          /\ SubSeq(outputBuffer, n + 1, Len(outputBuffer)) \in Seq(Bytes)
      BY <2>2, SubSeqProperties
    <2>4. socket' \in Seq(Bytes) /\ Len(socket') = Len(socket) + n
      BY <1>1, <2>1, <2>3, ConcatProperties DEF TypeOK
    <2>5. Len(socket') <= SocketSendBuf
      BY <2>1, <2>2, <2>4 DEF Room
    <2>6. /\ IsWriting' <=> outputBuffer' # <<>>
          /\ events' \in {events, events \ {"write"}} /\ finSent' \in BOOLEAN
          /\ Grows(queue, Notices)
      <3>1. queue \in Seq(Functors)
        BY <1>1 DEF TypeOK, Functors
      <3>2. CASE outputBuffer' = <<>>
        BY <1>1, <1>4, <3>1, <3>2, QueueWriteCompleteGrows
        DEF OutputWritten, IsWriting, TypeOK
      <3>3. CASE outputBuffer' # <<>>
        BY <1>1, <1>2, <1>4, <3>1, <3>3, GrowsNot DEF IsWriting, TypeOK
      <3> QED
        BY <3>2, <3>3
    <2>7. state # "kConnecting"
      BY <1>1, <1>2 DEF Opening, IsWriting
    <2>8. /\ queue' \in Seq(Functors)
          /\ NoneIn(queue', "connectEstablished")
          /\ NoneIn(queue, "connectDestroyed")
                => NoneIn(queue', "connectDestroyed")
      <3>1. queue \in Seq(Functors) /\ queue' \in Seq(Functors)
        BY <1>1, <2>6 DEF TypeOK, Functors, Grows
      <3>2. "connectEstablished" \notin Notices /\ "connectDestroyed" \notin Notices
        BY DEF Notices
      <3>3. NoneIn(queue, "connectEstablished")
        BY <1>1, <2>7, OpeningOver
      <3> QED
        BY <2>6, <3>1, <3>2, <3>3, GrowsNone
    <2>9. TypeOK'
      BY <1>1, <1>2, <1>4, <2>1, <2>3, <2>4, <2>5, <2>6, <2>8
      DEF TypeOK, Functors
    <2>10. Opening'
      BY <1>2, <2>7, <2>8, OpeningIsOver
    <2>11. Told'
      BY <1>1, <1>2, <1>4, <2>6 DEF Told, Alive
    <2>12. Calling'
      BY <1>1, <1>2 DEF Calling
    <2>13. StaysUp'
      BY <1>1, <1>2, <2>8 DEF StaysUp, NoneIn
    <2>14. WritingIffOutput'
      BY <2>6 DEF WritingIffOutput
    <2> QED
      BY <2>9, <2>10, <2>11, <2>12, <2>13, <2>14 DEF IInv, Life
  <1> QED
    BY <1>3, <1>4 DEF HandleWrite

LEMMA LoopSendInv ==
  ASSUME IInv, LoopSend
  PROVE  IInv'
  <1>1. TypeOK /\ Opening
    BY DEF IInv, Life
  <1>2. /\ MaxSends \in Nat /\ "loop" \in Callers /\ "loop" \notin Threads
        /\ Threads \subseteq Callers
    BY TcpConnectionAssumption DEF Threads
  <1>3. /\ sent \in [Callers -> 0 .. MaxSends] /\ sent["loop"] < MaxSends
        /\ sent' = [sent EXCEPT !["loop"] = sent["loop"] + 1]
    BY <1>1 DEF LoopSend, TypeOK
  <1>4. sent'["loop"] \in 1 .. MaxSends
    BY <1>2, <1>3
  <1>5. sent' \in [Callers -> 0 .. MaxSends] /\ \A t \in Threads : sent'[t] = sent[t]
    BY <1>2, <1>3, <1>4
  <1>6. Message("loop", sent'["loop"]) \in Seq(Bytes)
    BY <1>2, <1>4, MessageType
  <1>7. queue \in Seq(Functors) /\ NoneIn(queue, "connectEstablished")
    BY <1>1, OpeningOver DEF TypeOK, Functors, LoopSend
  <1> QED
    BY <1>5, <1>6, <1>7, SendInLoopInv DEF LoopSend

LEMMA LoopShutdownInv ==
  ASSUME IInv, LoopShutdown
  PROVE  IInv'
  <1>1. TypeOK /\ Opening /\ Told /\ Calling /\ StaysUp /\ WritingIffOutput
    BY DEF IInv, Life
  <1>2. /\ state = "kConnected" /\ state' = "kDisconnecting"
        /\ UNCHANGED <<usage, events, outputBuffer, socket, received, peer,
                       queue, loopPc, pc, sent, removal, destroyed, downs>>
    BY DEF LoopShutdown, MayShutdown
  <1>3. TypeOK'
    BY <1>1, <1>2 DEF TypeOK, LoopShutdown, ShutdownInLoop
  <1>4. Opening'
    BY <1>1, <1>2, OpeningOver, OpeningIsOver
  <1>5. Told'
    BY <1>1, <1>2 DEF Told, Alive
  <1>6. Calling' /\ StaysUp'
    BY <1>1, <1>2 DEF Calling, StaysUp
  <1>7. WritingIffOutput'
    BY <1>1, <1>2 DEF WritingIffOutput, IsWriting, Orderly
  <1> QED
    BY <1>3, <1>4, <1>5, <1>6, <1>7 DEF IInv, Life

-----------------------------------------------------------------------------
(* The other threads.                                                      *)

LEMMA AppendKeeps ==
  ASSUME TypeOK, NEW f \in Functors, f.op # "connectEstablished",
         queue' = Append(queue, f)
  PROVE  /\ queue' \in Seq(Functors)
         /\ Opening /\ UNCHANGED <<state, events, pc>> => Opening'
         /\ NoneIn(queue, "connectEstablished") =>
               NoneIn(queue', "connectEstablished")
         /\ f.op # "connectDestroyed" /\ NoneIn(queue, "connectDestroyed") =>
               NoneIn(queue', "connectDestroyed")
  <1>1. queue \in Seq(Functors)
    BY DEF TypeOK, Functors
  <1>2. /\ queue' \in Seq(Functors) /\ queue' # <<>>
        /\ Len(queue) \in Nat /\ Len(queue') = Len(queue) + 1
        /\ \A i \in 1 .. Len(queue) : queue'[i] = queue[i]
        /\ queue'[Len(queue) + 1] = f
    BY <1>1, AppendProperties
  <1>3. \A i \in 1 .. Len(queue') : i \in 1 .. Len(queue) \/ queue'[i] = f
    BY <1>2
  <1>4. queue # <<>> => 1 \in 1 .. Len(queue)
    BY <1>1, <1>2, EmptySeq
  <1>5. Opening /\ UNCHANGED <<state, events, pc>> => Opening'
    BY <1>2, <1>3, <1>4 DEF Opening
  <1> QED
    BY <1>2, <1>3, <1>5 DEF NoneIn

\* Where a thread's step leads it.
LEMMA AtKeeps ==
  ASSUME TypeOK, NEW t \in Threads, NEW from,
         NEW to \in {"idle", "send", "setState", "queueShutdown"},
         At(t, from, to)
  PROVE  /\ pc' \in [Threads -> {"idle", "send", "setState", "queueShutdown"}]
         /\ pc[t] = from /\ pc'[t] = to /\ Alive
         /\ \A u \in Threads : u # t => pc'[u] = pc[u]
  BY DEF TypeOK, At

LEMMA CheckInv ==
  ASSUME IInv, NEW t \in Threads, ThreadStarts(t)
  PROVE  IInv'
  <1>1. TypeOK /\ Opening /\ Told /\ Calling /\ StaysUp /\ WritingIffOutput
    BY DEF IInv, Life
  <1>2. /\ state = "kConnected"
        /\ UNCHANGED <<restVars, state, queue, sent>>
        /\ \/ At(t, "idle", "send") /\ sent[t] < MaxSends
           \/ At(t, "idle", "setState") /\ t \in usage.shutdown
    BY DEF ThreadStarts, SendCheck, ShutdownCheck
  <1>3. /\ pc' \in [Threads -> {"idle", "send", "setState", "queueShutdown"}]
        /\ \A u \in Threads : u # t => pc'[u] = pc[u]
        /\ \/ pc'[t] = "send" /\ sent[t] < MaxSends
           \/ pc'[t] = "setState" /\ t \in usage.shutdown
    BY <1>1, <1>2, AtKeeps
  <1>4. TypeOK'
    BY <1>1, <1>2, <1>3 DEF TypeOK, restVars, lifeVars
  <1>5. Opening'
    BY <1>1, <1>2, OpeningOver, OpeningIsOver
  <1>6. Told'
    BY <1>1, <1>2 DEF Told, Alive, restVars, lifeVars
  <1>7. Calling'
    BY <1>1, <1>2, <1>3 DEF Calling, restVars, lifeVars
  <1>8. StaysUp'
    BY <1>1, <1>2 DEF StaysUp, restVars, lifeVars
  <1>9. WritingIffOutput'
    BY <1>1, <1>2 DEF WritingIffOutput, IsWriting, Orderly, restVars, lifeVars
  <1> QED
    BY <1>4, <1>5, <1>6, <1>7, <1>8, <1>9 DEF IInv, Life

LEMMA SendQueueInv ==
  ASSUME IInv, NEW t \in Threads, SendQueue(t)
  PROVE  IInv'
  <1>1. TypeOK /\ Opening /\ Told /\ Calling /\ StaysUp /\ WritingIffOutput
    BY DEF IInv, Life
  <1>2. /\ sent' = [sent EXCEPT ![t] = sent[t] + 1]
        /\ queue' = Append(queue, [op |-> "send", data |-> Message(t, sent'[t])])
        /\ UNCHANGED <<restVars, state>>
    BY DEF SendQueue
  <1>3. /\ pc' \in [Threads -> {"idle", "send", "setState", "queueShutdown"}]
        /\ pc[t] = "send" /\ pc'[t] = "idle"
        /\ \A u \in Threads : u # t => pc'[u] = pc[u]
    BY <1>1, AtKeeps DEF SendQueue
  <1>4. state # "kConnecting" /\ sent[t] < MaxSends
    BY <1>1, <1>3 DEF Opening, Calling
  <1>5. /\ sent' \in [Callers -> 0 .. MaxSends] /\ sent'[t] \in 1 .. MaxSends
        /\ \A u \in Callers : u # t => sent'[u] = sent[u]
    BY <1>1, <1>2, <1>4, TcpConnectionAssumption DEF TypeOK, Threads
  <1>6. [op |-> "send", data |-> Message(t, sent'[t])] \in Functors
    BY <1>5, MessageType DEF Functors, Ops, Threads
  <1>7. /\ queue' \in Seq(Functors) /\ NoneIn(queue', "connectEstablished")
        /\ NoneIn(queue, "connectDestroyed") =>
              NoneIn(queue', "connectDestroyed")
    BY <1>1, <1>2, <1>4, <1>6, OpeningOver, AppendKeeps
  <1>8. TypeOK'
    BY <1>1, <1>2, <1>3, <1>5, <1>7 DEF TypeOK, Functors, restVars, lifeVars
  <1>9. Opening'
    BY <1>2, <1>4, <1>7, OpeningIsOver
  <1>10. Told'
    BY <1>1, <1>2 DEF Told, Alive, restVars, lifeVars
  <1>11. Calling'
    BY <1>1, <1>2, <1>3, <1>5 DEF Calling, Threads, restVars, lifeVars
  <1>12. StaysUp'
    BY <1>1, <1>2, <1>7 DEF StaysUp, NoneIn, restVars, lifeVars
  <1>13. WritingIffOutput'
    BY <1>1, <1>2 DEF WritingIffOutput, IsWriting, Orderly, restVars, lifeVars
  <1> QED
    BY <1>8, <1>9, <1>10, <1>11, <1>12, <1>13 DEF IInv, Life

\* A thread that is about to set kDisconnecting has read kConnected before: in
\* an orderly usage nothing has disconnected it since.
LEMMA ShutdownSetInv ==
  ASSUME IInv, NEW t \in Threads, ShutdownSet(t)
  PROVE  IInv'
  <1>1. TypeOK /\ Opening /\ Told /\ Calling /\ StaysUp /\ WritingIffOutput
    BY DEF IInv, Life
  <1>2. state' = "kDisconnecting" /\ UNCHANGED <<restVars, queue, sent>>
    BY DEF ShutdownSet
  <1>3. /\ pc' \in [Threads -> {"idle", "send", "setState", "queueShutdown"}]
        /\ pc[t] = "setState" /\ pc'[t] = "queueShutdown"
        /\ \A u \in Threads : u # t => pc'[u] = pc[u]
    BY <1>1, AtKeeps DEF ShutdownSet
  <1>4. state # "kConnecting" /\ t \in usage.shutdown
    BY <1>1, <1>3 DEF Opening, Calling
  <1>5. TypeOK'
    BY <1>1, <1>2, <1>3 DEF TypeOK, restVars, lifeVars
  <1>6. Opening'
    BY <1>1, <1>2, <1>4, OpeningOver, OpeningIsOver
  <1>7. Told'
    BY <1>1, <1>2, <1>4 DEF Told, Alive, restVars, lifeVars
  <1>8. Calling'
    BY <1>1, <1>2, <1>3, <1>4 DEF Calling, restVars, lifeVars
  <1>9. StaysUp'
    BY <1>1, <1>2 DEF StaysUp, restVars, lifeVars
  <1>10. Orderly => state # "kDisconnected"
    BY <1>1, <1>4 DEF Orderly, StaysUp, Threads
  <1>11. WritingIffOutput'
    BY <1>1, <1>2, <1>10
    DEF WritingIffOutput, IsWriting, Orderly, restVars, lifeVars
  <1> QED
    BY <1>5, <1>6, <1>7, <1>8, <1>9, <1>11 DEF IInv, Life

LEMMA ShutdownQueueInv ==
  ASSUME IInv, NEW t \in Threads, ShutdownQueue(t)
  PROVE  IInv'
  <1>1. TypeOK /\ Opening /\ Told /\ Calling /\ StaysUp /\ WritingIffOutput
    BY DEF IInv, Life
  <1>2. /\ queue' = Append(queue, Functor("shutdown"))
        /\ UNCHANGED <<restVars, state, sent>>
    BY DEF ShutdownQueue
  <1>3. /\ pc' \in [Threads -> {"idle", "send", "setState", "queueShutdown"}]
        /\ pc[t] = "queueShutdown" /\ pc'[t] = "idle"
        /\ \A u \in Threads : u # t => pc'[u] = pc[u]
    BY <1>1, AtKeeps DEF ShutdownQueue
  <1>4. state # "kConnecting"
    BY <1>1, <1>3 DEF Opening
  <1>5. /\ queue' \in Seq(Functors) /\ NoneIn(queue', "connectEstablished")
        /\ NoneIn(queue, "connectDestroyed") =>
              NoneIn(queue', "connectDestroyed")
    BY <1>1, <1>2, <1>4, FunctorType, OpeningOver, AppendKeeps DEF Ops
  <1>6. TypeOK'
    BY <1>1, <1>2, <1>3, <1>5 DEF TypeOK, Functors, restVars, lifeVars
  <1>7. Opening'
    BY <1>2, <1>4, <1>5, OpeningIsOver
  <1>8. Told'
    BY <1>1, <1>2 DEF Told, Alive, restVars, lifeVars
  <1>9. Calling'
    BY <1>1, <1>2, <1>3 DEF Calling, restVars, lifeVars
  <1>10. StaysUp'
    BY <1>1, <1>2, <1>5 DEF StaysUp, NoneIn, restVars, lifeVars
  <1>11. WritingIffOutput'
    BY <1>1, <1>2 DEF WritingIffOutput, IsWriting, Orderly, restVars, lifeVars
  <1> QED
    BY <1>6, <1>7, <1>8, <1>9, <1>10, <1>11 DEF IInv, Life

-----------------------------------------------------------------------------
(* The server and the peer.                                                *)

LEMMA ServerInv ==
  ASSUME IInv, ServerRemoves \/ ServerDies
  PROVE  IInv'
  <1>1. TypeOK /\ Opening /\ Told /\ Calling /\ StaysUp /\ WritingIffOutput
    BY DEF IInv, Life
  <1>2. /\ removal = "requested" \/ usage.serverDies
        /\ removal' \in {"queued", "serverGone"}
        /\ queue' = Append(queue, Functor("connectDestroyed"))
        /\ UNCHANGED <<connVars, socket, received, peer>>
    BY DEF ServerRemoves, ServerDies
  <1>3. queue' \in Seq(Functors) /\ Opening'
    BY <1>1, <1>2, FunctorType, AppendKeeps DEF Ops, connVars
  <1>4. TypeOK'
    BY <1>1, <1>2, <1>3 DEF TypeOK, Functors, connVars
  <1>5. Told'
    BY <1>1, <1>2 DEF Told, Alive, connVars
  <1>6. Calling' /\ StaysUp'
    BY <1>1, <1>2 DEF Calling, StaysUp, connVars
  <1>7. WritingIffOutput'
    BY <1>1, <1>2 DEF WritingIffOutput, IsWriting, Orderly, connVars
  <1> QED
    BY <1>3, <1>4, <1>5, <1>6, <1>7 DEF IInv, Life

LEMMA PeerInv ==
  ASSUME IInv, PeerReads \/ PeerCloses \/ PeerResets
  PROVE  IInv'
  <1>1. TypeOK /\ Opening /\ Told /\ Calling /\ StaysUp /\ WritingIffOutput
    BY DEF IInv, Life
  <1>2. /\ UNCHANGED <<connVars, queue, removal>>
        /\ peer' \in {"open", "closed", "reset"}
        /\ usage.peer # "stays" \/ peer' = peer
        /\ socket' \in Seq(Bytes) /\ received' \in Seq(Bytes)
        /\ Len(socket') <= SocketSendBuf
    <2>1. CASE PeerReads
      <3>1. /\ socket \in Seq(Bytes) /\ received \in Seq(Bytes)
            /\ socket # <<>> /\ Len(socket) <= SocketSendBuf
        BY <1>1, <2>1 DEF TypeOK, PeerReads
      <3>2. /\ Head(socket) \in Bytes /\ Tail(socket) \in Seq(Bytes)
            /\ Len(Tail(socket)) = Len(socket) - 1
            /\ Len(socket) \in Nat
        BY <3>1, HeadTailProperties
      <3>3. Append(received, Head(socket)) \in Seq(Bytes)
        BY <3>1, <3>2, AppendProperties
      <3>4. Len(Tail(socket)) <= SocketSendBuf
        BY <3>1, <3>2, TcpConnectionAssumption
      <3> QED
        BY <2>1, <3>2, <3>3, <3>4 DEF PeerReads
    <2>2. CASE PeerCloses
      BY <1>1, <2>2 DEF PeerCloses, TypeOK
    <2>3. CASE PeerResets
      <3>1. <<>> \in Seq(Bytes) /\ Len(<<>>) = 0 /\ SocketSendBuf \in Nat
        BY EmptySeq, TcpConnectionAssumption
      <3> QED
        BY <1>1, <2>3, <3>1 DEF PeerResets, TypeOK
    <2> QED
      BY <2>1, <2>2, <2>3
  <1>3. TypeOK'
    BY <1>1, <1>2 DEF TypeOK, connVars
  <1>4. Opening' /\ Calling' /\ StaysUp'
    BY <1>1, <1>2 DEF Opening, Calling, StaysUp, connVars
  <1>5. Told'
    BY <1>1, <1>2 DEF Told, Alive, connVars
  <1>6. WritingIffOutput'
    BY <1>1, <1>2 DEF WritingIffOutput, IsWriting, Orderly, connVars
  <1> QED
    BY <1>3, <1>4, <1>5, <1>6 DEF IInv, Life

-----------------------------------------------------------------------------
(* The theorems.                                                           *)

LEMMA StepInv ==
  ASSUME IInv, [Next]_vars
  PROVE  IInv'
  <1>1. CASE RunFunctor
    BY <1>1, ConnectEstablishedInv, RunSendInv, RunShutdownInv, RunNoticeInv,
       ConnectDestroyedInv DEF RunFunctor
  <1>2. CASE HandleRead
    BY <1>2, LoopPcInv DEF HandleRead, Deaths
  <1>3. CASE HandleEof
    BY <1>3, HandleReadErrorInv, HandleCloseInv DEF HandleEof
  <1>4. CASE HandleWrite
    BY <1>4, HandleWriteInv
  <1>5. CASE UserCode
    BY <1>5, LoopSendInv, LoopShutdownInv DEF UserCode
  <1>6. CASE Return
    BY <1>6, LoopPcInv DEF Return, Deaths
  <1>7. ASSUME NEW t \in Threads, ThreadStarts(t) \/ ThreadGoesOn(t)
        PROVE  IInv'
    BY <1>7, CheckInv, SendQueueInv, ShutdownSetInv, ShutdownQueueInv
    DEF ThreadGoesOn
  <1>8. CASE ServerRemoves \/ ServerDies
    BY <1>8, ServerInv
  <1>9. CASE PeerReads \/ PeerCloses \/ PeerResets
    BY <1>9, PeerInv
  <1>10. CASE UNCHANGED vars
    BY <1>10 DEF vars, IInv, Life, TypeOK, Opening, Told, Calling, StaysUp,
       WritingIffOutput, IsWriting, Orderly, Alive
  <1> QED
    BY <1>1, <1>2, <1>3, <1>4, <1>5, <1>6, <1>7, <1>8, <1>9, <1>10
    DEF Next, Environment

\* The inductive invariant holds of every reachable state of a connection.
THEOREM Invariant == Spec => []IInv
  <1>1. Init => IInv
    BY InitInv
  <1>2. IInv /\ [Next]_vars => IInv'
    BY StepInv
  <1> QED
    BY <1>1, <1>2, PTL DEF Spec

\* Every variable of a connection keeps its type: in particular, send() and
\* handleWrite() never put more into the socket than it has room for.
THEOREM TypeCorrect == Spec => []TypeOK
  <1>1. IInv => TypeOK
    BY DEF IInv
  <1> QED
    BY <1>1, Invariant, PTL

\* In every orderly usage, sendInLoop() and handleWrite() leave EPOLLOUT watched
\* exactly while the output buffer holds something.
THEOREM WritingMatchesOutput == Spec => []WritingIffOutput
  <1>1. IInv => WritingIffOutput
    BY DEF IInv
  <1> QED
    BY <1>1, Invariant, PTL

\* Whatever order handleClose(), connectDestroyed(), shutdown() and the end of
\* the server come in, the user is told once that the connection is down.
THEOREM UserToldOnce == Spec => []ToldOnce
  <1>1. IInv => ToldOnce
    BY DEF IInv, Life, Told, ToldOnce
  <1> QED
    BY <1>1, Invariant, PTL

-----------------------------------------------------------------------------
(* The process survives every orderly usage.                               *)

Closing == state \in {"kDisconnecting", "kDisconnected"}

\* Only who may send or shut down does: the write side is shut down, and a
\* functor of another thread is queued, only then.
Used ==
    /\ \A t \in Threads :
          /\ pc[t] = "send" => t \in usage.send
          /\ pc[t] = "queueShutdown" => Closing
    /\ NoneIn(queue, "send") \/ ~(usage.send \subseteq {"loop"})
    /\ \/ NoneIn(queue, "shutdown")
       \/ ~(usage.shutdown \subseteq {"loop"}) /\ Closing
    /\ state = "kDisconnecting" \/ finSent => usage.shutdown # {}
    /\ finSent => Closing

\* connectDestroyed() is queued, in an orderly usage, when handleClose() has
\* disabled the channel or the server dies; and there is nothing to write once
\* the write side is closed.
Ending ==
    /\ state = "kDisconnected" => events = {}
    /\ usage.peer # "resets" => peer \in {"open", "closed"}
    /\ removal = "serverGone" => usage.serverDies
    /\ removal \in {"requested", "queued"} => downs = 1
    /\ NoneIn(queue, "connectDestroyed") \/ removal \in {"queued", "serverGone"}
    /\ usage.peer = "stays" /\ ~usage.serverDies => ~destroyed
    /\ Orderly /\ removal \in {"requested", "queued"} => state = "kDisconnected"
    /\ Orderly /\ finSent => ~IsWriting

SInv == Used /\ Ending /\ SurvivesOrderlyUse

LEMMA PopNone ==
  ASSUME TypeOK, queue # <<>>, NEW op
  PROVE  NoneIn(queue, op) => Head(queue).op # op /\ NoneIn(Tail(queue), op)
  <1>1. queue \in Seq(Functors)
    BY DEF TypeOK, Functors
  <1>2. /\ Head(queue) = queue[1]
        /\ Len(queue) \in Nat /\ Len(queue) >= 1
        /\ Len(Tail(queue)) = Len(queue) - 1
        /\ \A i \in 1 .. Len(Tail(queue)) : Tail(queue)[i] = queue[i + 1]
    BY <1>1, HeadTailProperties
  <1>3. \A i \in 1 .. Len(Tail(queue)) :
           i + 1 \in 1 .. Len(queue) /\ Tail(queue)[i] = queue[i + 1]
    BY <1>2
  <1>4. 1 \in 1 .. Len(queue)
    BY <1>2
  <1> QED
    BY <1>2, <1>3, <1>4 DEF NoneIn

LEMMA AppendNone ==
  ASSUME TypeOK, NEW f \in Functors, queue' = Append(queue, f),
         NEW op, op # f.op
  PROVE  NoneIn(queue, op) => NoneIn(queue', op)
  <1>1. queue \in Seq(Functors)
    BY DEF TypeOK, Functors
  <1>2. /\ Len(queue) \in Nat /\ Len(queue') = Len(queue) + 1
        /\ \A i \in 1 .. Len(queue) : queue'[i] = queue[i]
        /\ queue'[Len(queue) + 1] = f
    BY <1>1, AppendProperties
  <1>3. \A i \in 1 .. Len(queue') : i \in 1 .. Len(queue) \/ queue'[i] = f
    BY <1>2
  <1> QED
    BY <1>2, <1>3 DEF NoneIn

LEMMA InitSurvives ==
  ASSUME Init
  PROVE  SInv
  <1>1. Functor("connectEstablished") \in Functors
        /\ Functor("connectEstablished").op = "connectEstablished"
    BY FunctorType DEF Ops
  <1>2. \A op : op # "connectEstablished" => NoneIn(queue, op)
    BY <1>1 DEF Init, NoneIn
  <1>3. Used
    BY <1>2 DEF Init, Used, Closing
  <1>4. Ending
    BY <1>2 DEF Init, Ending, IsWriting
  <1>5. SurvivesOrderlyUse
    BY DEF Init, SurvivesOrderlyUse, Alive, Deaths
  <1> QED
    BY <1>3, <1>4, <1>5 DEF SInv

LEMMA ConnectEstablishedSurvives ==
  ASSUME IInv, SInv, ConnectEstablished
  PROVE  SInv'
  <1>1. TypeOK /\ Opening /\ Used /\ Ending
    BY DEF IInv, Life, SInv
  <1>2. /\ queue # <<>> /\ Head(queue).op = "connectEstablished"
        /\ queue' = Tail(queue)
        /\ state' = "kConnected" /\ events' = events \cup {"read"}
        /\ loopPc' = "callback"
        /\ UNCHANGED <<lifeVars, outputBuffer, socket, pc, sent>>
    BY DEF ConnectEstablished, RunsFunctor
  <1>3. \A op : NoneIn(queue, op) => NoneIn(queue', op)
    BY <1>1, <1>2, PopNone
  <1>4. state = "kConnecting" /\ \A t \in Threads : pc[t] = "idle"
    BY <1>1, <1>2, PopKeeps DEF Opening
  <1>5. Used'
    BY <1>1, <1>2, <1>3, <1>4 DEF Used, Closing, lifeVars
  <1>6. Ending'
    BY <1>1, <1>2, <1>3, <1>4 DEF Ending, Orderly, IsWriting, lifeVars
  <1>7. SurvivesOrderlyUse'
    BY <1>2 DEF SurvivesOrderlyUse, Alive, Deaths
  <1> QED
    BY <1>5, <1>6, <1>7 DEF SInv

\* sendInLoop() writes to a closed connection only after a shutdownWrite().
LEMMA SendInLoopSurvives ==
  ASSUME IInv, SInv, NEW data \in Seq(Bytes), NEW q \in Seq(Functors),
         SendInLoop(data, q), UNCHANGED <<lifeVars, state, pc>>,
         loopPc \in {"idle", "callback"}, Orderly => ~finSent,
         \A op : NoneIn(queue, op) => NoneIn(q, op)
  PROVE  SInv'
  <1>1. TypeOK /\ Used /\ Ending
    BY DEF IInv, SInv
  <1>2. /\ loopPc' # loopPc => Broken
        /\ state = "kDisconnected" => events' = events
    <2>1. CASE state = "kDisconnected" /\ UNCHANGED <<events, loopPc>>
      BY <2>1
    <2>2. CASE state # "kDisconnected" /\ Broken /\ loopPc' = "SIGPIPE"
      BY <2>2
    <2>3. CASE state # "kDisconnected" /\ WriteDirectly(data, q)
      BY <1>1, <2>3, WriteDirectlyKeeps
    <2>4. CASE state # "kDisconnected" /\ WriteWouldBlock(data, q)
      BY <1>1, <2>4, WriteWouldBlockKeeps
    <2>5. CASE state # "kDisconnected" /\ BufferOutput(data, q)
      BY <2>5 DEF BufferOutput
    <2> QED
      BY <2>1, <2>2, <2>3, <2>4, <2>5 DEF SendInLoop
  <1>3. Grows(q, Notices)
    BY <1>1, SendInLoopKeeps
  <1>4. /\ NoneIn(queue, "send") => NoneIn(queue', "send")
        /\ NoneIn(queue, "shutdown") => NoneIn(queue', "shutdown")
        /\ NoneIn(queue, "connectDestroyed") =>
              NoneIn(queue', "connectDestroyed")
    <2>1. {"send", "shutdown", "connectDestroyed"} \cap Notices = {}
      BY DEF Notices
    <2> QED
      BY <1>3, <2>1, GrowsNone
  <1>5. Used'
    BY <1>1, <1>4 DEF Used, Closing, lifeVars
  <1>6. Ending'
    BY <1>1, <1>2, <1>4 DEF Ending, Orderly, IsWriting, lifeVars
  <1>7. SurvivesOrderlyUse'
    BY <1>1, <1>2 DEF SurvivesOrderlyUse, Ending, Orderly, Broken, Alive, Deaths,
       lifeVars
  <1> QED
    BY <1>5, <1>6, <1>7 DEF SInv

LEMMA RunSendSurvives ==
  ASSUME IInv, SInv, RunSend
  PROVE  SInv'
  <1>1. TypeOK /\ Opening /\ Used /\ Ending
    BY DEF IInv, Life, SInv
  <1>2. /\ loopPc = "idle" /\ queue # <<>> /\ Head(queue).op = "send"
        /\ UNCHANGED <<lifeVars, state, pc, sent>>
    BY DEF RunSend
  <1>3. ~(usage.send \subseteq {"loop"})
    BY <1>1, <1>2, PopNone DEF Used
  <1>4. CASE SendInLoop(Head(queue).data, Tail(queue))
    <2>1. Orderly => ~finSent
      BY <1>1, <1>3 DEF Used, Orderly
    <2>2. \A op : NoneIn(queue, op) => NoneIn(Tail(queue), op)
      BY <1>1, <1>2, PopNone
    <2>3. Head(queue).data \in Seq(Bytes) /\ Tail(queue) \in Seq(Functors)
      BY <1>1, <1>2, PopKeeps DEF Functors
    <2> QED
      BY <1>2, <1>4, <2>1, <2>2, <2>3, SendInLoopSurvives
  <1>5. CASE /\ destroyed /\ loopPc' = "use_after_free"
             /\ UNCHANGED <<events, outputBuffer, socket, queue>>
    <2>1. ~Orderly
      BY <1>1, <1>3, <1>5 DEF Ending, Orderly
    <2>2. Used'
      BY <1>1, <1>2, <1>5 DEF Used, Closing, lifeVars
    <2>3. Ending'
      BY <1>1, <1>2, <1>5 DEF Ending, Orderly, IsWriting, lifeVars
    <2>4. SurvivesOrderlyUse'
      BY <1>2, <2>1 DEF SurvivesOrderlyUse, Orderly, lifeVars
    <2> QED
      BY <2>2, <2>3, <2>4 DEF SInv
  <1> QED
    BY <1>4, <1>5 DEF RunSend

LEMMA RunShutdownSurvives ==
  ASSUME IInv, SInv, RunShutdown
  PROVE  SInv'
  <1>1. TypeOK /\ Used /\ Ending
    BY DEF IInv, SInv
  <1>2. /\ queue # <<>> /\ Head(queue).op = "shutdown" /\ queue' = Tail(queue)
        /\ loopPc' = "idle" \/ destroyed
        /\ UNCHANGED <<usage, state, events, outputBuffer, socket, received,
                       peer, pc, sent, removal, destroyed, downs>>
    BY DEF RunShutdown, RunsFunctor
  <1>3. finSent' => finSent \/ ~IsWriting
    BY DEF RunShutdown, ShutdownInLoop
  <1>4. \A op : NoneIn(queue, op) => NoneIn(queue', op)
    BY <1>1, <1>2, PopNone
  <1>5. ~(usage.shutdown \subseteq {"loop"}) /\ Closing
    BY <1>1, <1>2, PopNone DEF Used
  <1>6. Used'
    BY <1>1, <1>2, <1>4, <1>5 DEF Used, Closing
  <1>7. Ending'
    BY <1>1, <1>2, <1>3, <1>4 DEF Ending, Orderly, IsWriting
  <1>8. SurvivesOrderlyUse'
    BY <1>1, <1>2, <1>5 DEF SurvivesOrderlyUse, Ending, Orderly, Alive, Deaths
  <1> QED
    BY <1>6, <1>7, <1>8 DEF SInv

LEMMA RunNoticeSurvives ==
  ASSUME IInv, SInv, RunWriteComplete \/ RunHighWaterMark
  PROVE  SInv'
  <1>1. TypeOK /\ Used /\ Ending
    BY DEF IInv, SInv
  <1>2. /\ queue # <<>> /\ queue' = Tail(queue)
        /\ loopPc' = "callback" \/ ~usage.onHighWater
        /\ UNCHANGED <<lifeVars, state, events, outputBuffer, socket, pc, sent>>
    BY DEF RunWriteComplete, RunHighWaterMark, RunsFunctor
  <1>3. \A op : NoneIn(queue, op) => NoneIn(queue', op)
    BY <1>1, <1>2, PopNone
  <1>4. Used'
    BY <1>1, <1>2, <1>3 DEF Used, Closing, lifeVars
  <1>5. Ending'
    BY <1>1, <1>2, <1>3 DEF Ending, Orderly, IsWriting, lifeVars
  <1>6. SurvivesOrderlyUse'
    BY <1>2 DEF SurvivesOrderlyUse, Orderly, Alive, Deaths, lifeVars
  <1> QED
    BY <1>4, <1>5, <1>6 DEF SInv

\* Channel::remove() finds no event enabled: handleClose() has disabled the
\* channel, or nobody has shut the connection down.
LEMMA ConnectDestroyedSurvives ==
  ASSUME IInv, SInv, ConnectDestroyed
  PROVE  SInv'
  <1>1. TypeOK /\ Opening /\ Told /\ StaysUp /\ Used /\ Ending
    BY DEF IInv, Life, SInv
  <1>2. /\ queue # <<>> /\ Head(queue).op = "connectDestroyed"
        /\ queue' = Tail(queue) /\ destroyed' = TRUE
        /\ loopPc' = IF events' = {} THEN "idle" ELSE "assert"
        /\ UNCHANGED <<usage, outputBuffer, socket, received, finSent, peer, pc,
                       sent, removal>>
    BY DEF ConnectDestroyed, RunsFunctor
  <1>3. \/ /\ state = "kConnected" /\ state' = "kDisconnected" /\ events' = {}
        \/ state # "kConnected" /\ UNCHANGED <<state, events, downs>>
    BY DEF ConnectDestroyed
  <1>4. \A op : NoneIn(queue, op) => NoneIn(queue', op)
    BY <1>1, <1>2, PopNone
  <1>5. /\ ~NoneIn(queue, "connectDestroyed") /\ state # "kConnecting"
        /\ removal \in {"queued", "serverGone"}
    BY <1>1, <1>2, PopNone, PopKeeps DEF Ending
  <1>6. Orderly => state \in {"kConnected", "kDisconnected"}
    BY <1>1, <1>5 DEF Used, Ending, Orderly, TypeOK
  <1>7. Used'
    BY <1>1, <1>2, <1>3, <1>4 DEF Used, Closing
  <1>8. Ending'
    <2>1. usage.peer # "stays" \/ usage.serverDies
      BY <1>1, <1>5 DEF StaysUp, NoneIn
    <2>2. Orderly' = Orderly
      BY <1>2 DEF Orderly
    <2>3. state = "kConnected" => removal \notin {"requested", "queued"}
      BY <1>1 DEF Told, Ending
    <2> QED
      BY <1>1, <1>2, <1>3, <1>4, <1>6, <2>1, <2>2, <2>3 DEF Ending, IsWriting
  <1>9. SurvivesOrderlyUse'
    <2>1. Orderly => events' = {}
      BY <1>1, <1>3, <1>6 DEF Ending
    <2> QED
      BY <1>2, <2>1 DEF SurvivesOrderlyUse, Orderly, Alive, Deaths
  <1> QED
    BY <1>7, <1>8, <1>9 DEF SInv

LEMMA LoopPcSurvives ==
  ASSUME IInv, SInv,
         loopPc' \in {"idle", "callback"} \/ ~Orderly,
         UNCHANGED <<lifeVars, state, events, outputBuffer, socket, queue, pc,
                     sent>>
  PROVE  SInv'
  <1>1. Used'
    BY DEF SInv, Used, Closing, NoneIn, lifeVars
  <1>2. Ending'
    BY DEF SInv, Ending, Orderly, IsWriting, NoneIn, lifeVars
  <1>3. SurvivesOrderlyUse'
    BY DEF SurvivesOrderlyUse, Orderly, Alive, Deaths, lifeVars
  <1> QED
    BY <1>1, <1>2, <1>3 DEF SInv

LEMMA HandleReadErrorSurvives ==
  ASSUME IInv, SInv, HandleReadError
  PROVE  SInv'
  <1>1. Used'
    BY DEF SInv, Used, Closing, NoneIn, HandleReadError
  <1>2. Ending'
    BY DEF SInv, Ending, Orderly, IsWriting, NoneIn, HandleReadError
  <1>3. SurvivesOrderlyUse'
    BY DEF SInv, SurvivesOrderlyUse, Orderly, Alive, Deaths, HandleReadError
  <1> QED
    BY <1>1, <1>2, <1>3 DEF SInv

\* The server is there to remove it, or its peer would not close.
LEMMA HandleCloseSurvives ==
  ASSUME IInv, SInv, HandleClose
  PROVE  SInv'
  <1>1. TypeOK /\ Told /\ StaysUp /\ Used /\ Ending
    BY DEF IInv, Life, SInv
  <1>2. /\ "read" \in events /\ downs' = downs + 1 /\ peer \in {"closed", "gone"} /\ loopPc = "idle"
        /\ state' = "kDisconnected" /\ events' = {}
        /\ \/ removal = "serverGone" /\ UNCHANGED removal
           \/ removal' = "requested" /\ loopPc' = loopPc
                 /\ removal # "serverGone"
        /\ UNCHANGED <<usage, outputBuffer, socket, received, finSent, peer,
                       queue, pc, sent, destroyed>>
    BY DEF HandleClose
  <1>3. usage.peer # "stays"
    BY <1>1, <1>2 DEF StaysUp
  <1>4. Orderly => removal # "serverGone"
    BY <1>1, <1>3 DEF Ending, Orderly
  <1>5. Used'
    BY <1>1, <1>2 DEF Used, Closing
  <1>6. Ending'
    <2>1. downs = 0 /\ removal \notin {"requested", "queued"}
      BY <1>1, <1>2 DEF Told, Ending
    <2> QED
      BY <1>1, <1>2, <2>1 DEF Ending, Orderly, IsWriting
  <1>7. SurvivesOrderlyUse'
    BY <1>2, <1>4 DEF SurvivesOrderlyUse, Orderly, Alive, Deaths
  <1> QED
    BY <1>5, <1>6, <1>7 DEF SInv

LEMMA HandleWriteSurvives ==
  ASSUME IInv, SInv, HandleWrite
  PROVE  SInv'
  <1>1. TypeOK /\ Used /\ Ending
    BY DEF IInv, SInv
  <1>2. /\ loopPc = "idle" /\ IsWriting
        /\ UNCHANGED <<usage, state, received, peer, pc, sent, removal,
                       destroyed, downs>>
    BY DEF HandleWrite
  <1>3. CASE /\ Broken /\ loopPc' = "SIGPIPE"
             /\ UNCHANGED <<events, outputBuffer, socket, finSent, queue>>
    <2>1. ~Orderly
      BY <1>1, <1>2, <1>3 DEF Ending, Broken, Orderly
    <2> QED
      BY <1>2, <1>3, <2>1, LoopPcSurvives DEF lifeVars
  <1>4. CASE /\ UNCHANGED loopPc
             /\ OutputWritten \/ UNCHANGED <<events, finSent, queue>>
    <2>1. /\ events' \in {events, events \ {"write"}}
          /\ finSent' => finSent \/ state = "kDisconnecting"
          /\ ~IsWriting' \/ finSent' = finSent
          /\ Grows(queue, Notices)
      <3>1. queue \in Seq(Functors)
        BY <1>1 DEF TypeOK, Functors
      <3>2. CASE OutputWritten
        BY <3>1, <3>2, QueueWriteCompleteGrows DEF OutputWritten, IsWriting
      <3>3. CASE UNCHANGED <<events, finSent, queue>>
        BY <3>1, <3>3, GrowsNot
      <3> QED
        BY <1>4, <3>2, <3>3
    <2>2. /\ NoneIn(queue, "send") => NoneIn(queue', "send")
          /\ NoneIn(queue, "shutdown") => NoneIn(queue', "shutdown")
          /\ NoneIn(queue, "connectDestroyed") =>
                NoneIn(queue', "connectDestroyed")
      <3>1. {"send", "shutdown", "connectDestroyed"} \cap Notices = {}
        BY DEF Notices
      <3>2. queue \in Seq(Functors)
        BY <1>1 DEF TypeOK, Functors
      <3> QED
        BY <2>1, <3>1, <3>2, GrowsNone
    <2>3. Used'
      BY <1>1, <1>2, <2>1, <2>2 DEF Used, Closing
    <2>4. Ending'
      BY <1>1, <1>2, <2>1, <2>2 DEF Ending, Orderly, IsWriting
    <2>5. SurvivesOrderlyUse'
      BY <1>2, <1>4 DEF SurvivesOrderlyUse, Alive, Deaths
    <2> QED
      BY <2>3, <2>4, <2>5 DEF SInv
  <1> QED
    BY <1>3, <1>4 DEF HandleWrite

LEMMA LoopSendSurvives ==
  ASSUME IInv, SInv, LoopSend
  PROVE  SInv'
  <1>1. TypeOK /\ Used
    BY DEF IInv, SInv
  <1>2. /\ MaxSends \in Nat /\ "loop" \in Callers /\ sent["loop"] \in 0 .. MaxSends
        /\ sent["loop"] < MaxSends /\ sent'["loop"] = sent["loop"] + 1
    BY <1>1, TcpConnectionAssumption DEF LoopSend, TypeOK
  <1>3. Message("loop", sent'["loop"]) \in Seq(Bytes)
    BY <1>2, MessageType
  <1>4. ~finSent
    BY <1>1 DEF Used, Closing, LoopSend
  <1>5. queue \in Seq(Functors)
    BY <1>1 DEF TypeOK, Functors
  <1> QED
    BY <1>3, <1>4, <1>5, SendInLoopSurvives DEF LoopSend

LEMMA LoopShutdownSurvives ==
  ASSUME IInv, SInv, LoopShutdown
  PROVE  SInv'
  <1>1. Used /\ Ending
    BY DEF SInv
  <1>2. /\ state = "kConnected" /\ state' = "kDisconnecting"
        /\ "loop" \in usage.shutdown
        /\ UNCHANGED <<usage, events, outputBuffer, socket, received, peer,
                       queue, loopPc, pc, sent, removal, destroyed, downs>>
    BY DEF LoopShutdown, MayShutdown
  <1>3. finSent' => finSent \/ ~IsWriting
    BY DEF LoopShutdown, ShutdownInLoop
  <1>4. Used'
    BY <1>1, <1>2 DEF Used, Closing, NoneIn
  <1>5. Ending'
    BY <1>1, <1>2, <1>3 DEF Ending, Orderly, IsWriting, NoneIn
  <1>6. SurvivesOrderlyUse'
    BY <1>2 DEF SInv, SurvivesOrderlyUse, Orderly, Alive, LoopShutdown, Deaths
  <1> QED
    BY <1>4, <1>5, <1>6 DEF SInv

LEMMA ThreadSurvives ==
  ASSUME IInv, SInv, NEW t \in Threads, ThreadStarts(t) \/ ThreadGoesOn(t)
  PROVE  SInv'
  <1>1. /\ TypeOK /\ Opening /\ Calling /\ StaysUp /\ Used /\ Ending
        /\ SurvivesOrderlyUse
    BY DEF IInv, Life, SInv
  <1>2. ASSUME UNCHANGED restVars
        PROVE  SurvivesOrderlyUse'
    BY <1>1, <1>2 DEF SurvivesOrderlyUse, Orderly, Alive, restVars, lifeVars
  <1>3. ASSUME UNCHANGED <<restVars, state, queue>>
        PROVE  Ending'
    BY <1>1, <1>3 DEF Ending, Orderly, IsWriting, restVars, lifeVars
  <1>4. CASE SendCheck(t)
    <2>1. /\ pc'[t] = "send" /\ t \in usage.send
          /\ \A u \in Threads : u # t => pc'[u] = pc[u]
          /\ UNCHANGED <<restVars, state, queue>>
      BY <1>1, <1>4, AtKeeps DEF SendCheck
    <2>2. Used'
      BY <1>1, <2>1 DEF Used, Closing, restVars, lifeVars
    <2> QED
      BY <1>2, <1>3, <2>1, <2>2 DEF SInv
  <1>5. CASE ShutdownCheck(t)
    <2>1. /\ pc'[t] = "setState"
          /\ \A u \in Threads : u # t => pc'[u] = pc[u]
          /\ UNCHANGED <<restVars, state, queue>>
      BY <1>1, <1>5, AtKeeps DEF ShutdownCheck
    <2>2. Used'
      BY <1>1, <2>1 DEF Used, Closing, restVars, lifeVars
    <2> QED
      BY <1>2, <1>3, <2>1, <2>2 DEF SInv
  <1>6. CASE SendQueue(t)
    <2>1. /\ pc[t] = "send" /\ pc'[t] = "idle"
          /\ \A u \in Threads : u # t => pc'[u] = pc[u]
          /\ UNCHANGED <<restVars, state>>
      BY <1>1, <1>6, AtKeeps DEF SendQueue
    <2>2. [op |-> "send", data |-> Message(t, sent'[t])] \in Functors
      <3>1. sent \in [Callers -> 0 .. MaxSends] /\ t \in Callers
        BY <1>1 DEF TypeOK, Threads
      <3>2. sent[t] \in 0 .. MaxSends /\ sent[t] < MaxSends
        BY <1>1, <2>1, <3>1 DEF Calling
      <3>3. sent'[t] = sent[t] + 1
        BY <1>6, <3>1 DEF SendQueue
      <3>4. sent'[t] \in 1 .. MaxSends
        BY <3>2, <3>3, TcpConnectionAssumption
      <3> QED
        BY <3>1, <3>4, MessageType DEF Functors, Ops
    <2>3. /\ NoneIn(queue, "shutdown") => NoneIn(queue', "shutdown")
          /\ NoneIn(queue, "connectDestroyed") =>
                NoneIn(queue', "connectDestroyed")
      BY <1>1, <1>6, <2>2, AppendNone DEF SendQueue
    <2>4. ~(usage.send \subseteq {"loop"})
      BY <1>1, <2>1 DEF Used, Threads
    <2>5. Used'
      BY <1>1, <2>1, <2>3, <2>4 DEF Used, Closing, restVars, lifeVars
    <2>6. Ending'
      BY <1>1, <2>1, <2>3 DEF Ending, Orderly, IsWriting, restVars, lifeVars
    <2> QED
      BY <1>2, <2>1, <2>5, <2>6 DEF SInv
  <1>7. CASE ShutdownSet(t)
    <2>1. /\ pc[t] = "setState" /\ pc'[t] = "queueShutdown"
          /\ \A u \in Threads : u # t => pc'[u] = pc[u]
          /\ state' = "kDisconnecting" /\ UNCHANGED <<restVars, queue>>
      BY <1>1, <1>7, AtKeeps DEF ShutdownSet
    <2>2. t \in usage.shutdown /\ t # "loop"
      BY <1>1, <2>1 DEF Calling, Threads
    <2>3. Orderly => state # "kDisconnected"
      BY <1>1, <2>2 DEF Orderly, StaysUp
    <2>4. Used'
      BY <1>1, <2>1, <2>2 DEF Used, Closing, restVars, lifeVars
    <2>5. Ending'
      BY <1>1, <2>1, <2>3 DEF Ending, Orderly, IsWriting, restVars, lifeVars
    <2> QED
      BY <1>2, <2>1, <2>4, <2>5 DEF SInv
  <1>8. CASE ShutdownQueue(t)
    <2>1. /\ pc[t] = "queueShutdown" /\ pc'[t] = "idle"
          /\ \A u \in Threads : u # t => pc'[u] = pc[u]
          /\ UNCHANGED <<restVars, state>>
      BY <1>1, <1>8, AtKeeps DEF ShutdownQueue
    <2>2. /\ NoneIn(queue, "send") => NoneIn(queue', "send")
          /\ NoneIn(queue, "connectDestroyed") =>
                NoneIn(queue', "connectDestroyed")
      BY <1>1, <1>8, FunctorType, AppendNone DEF ShutdownQueue, Ops
    <2>3. t \in usage.shutdown /\ t # "loop" /\ Closing
      BY <1>1, <2>1 DEF Calling, Used, Threads
    <2>4. Used'
      BY <1>1, <2>1, <2>2, <2>3 DEF Used, Closing, restVars, lifeVars
    <2>5. Ending'
      BY <1>1, <2>1, <2>2 DEF Ending, Orderly, IsWriting, restVars, lifeVars
    <2> QED
      BY <1>2, <2>1, <2>4, <2>5 DEF SInv
  <1> QED
    BY <1>4, <1>5, <1>6, <1>7, <1>8 DEF ThreadStarts, ThreadGoesOn

LEMMA ServerSurvives ==
  ASSUME IInv, SInv, ServerRemoves \/ ServerDies
  PROVE  SInv'
  <1>1. TypeOK /\ Used /\ Ending /\ SurvivesOrderlyUse
    BY DEF IInv, SInv
  <1>2. /\ \/ removal = "requested" /\ removal' = "queued"
           \/ usage.serverDies /\ removal' = "serverGone"
        /\ queue' = Append(queue, Functor("connectDestroyed"))
        /\ UNCHANGED <<connVars, socket, received, peer>>
    BY DEF ServerRemoves, ServerDies
  <1>3. /\ NoneIn(queue, "send") => NoneIn(queue', "send")
        /\ NoneIn(queue, "shutdown") => NoneIn(queue', "shutdown")
    BY <1>1, <1>2, FunctorType, AppendNone DEF Ops
  <1>4. Used'
    BY <1>1, <1>2, <1>3 DEF Used, Closing, connVars
  <1>5. Ending'
    BY <1>1, <1>2 DEF Ending, Orderly, IsWriting, connVars
  <1>6. SurvivesOrderlyUse'
    BY <1>1, <1>2 DEF SurvivesOrderlyUse, Orderly, Alive, connVars
  <1> QED
    BY <1>4, <1>5, <1>6 DEF SInv

LEMMA PeerSurvives ==
  ASSUME IInv, SInv, PeerReads \/ PeerCloses \/ PeerResets
  PROVE  SInv'
  <1>1. Used /\ Ending /\ SurvivesOrderlyUse
    BY DEF SInv
  <1>2. /\ UNCHANGED <<connVars, queue, removal>>
        /\ peer' \in {peer, "closed"} \/ usage.peer = "resets"
    BY DEF PeerReads, PeerCloses, PeerResets
  <1>3. Used'
    BY <1>1, <1>2 DEF Used, Closing, connVars
  <1>4. Ending'
    BY <1>1, <1>2 DEF Ending, Orderly, IsWriting, connVars
  <1>5. SurvivesOrderlyUse'
    BY <1>1, <1>2 DEF SurvivesOrderlyUse, Orderly, Alive, connVars
  <1> QED
    BY <1>3, <1>4, <1>5 DEF SInv

LEMMA StepSurvives ==
  ASSUME IInv, SInv, [Next]_vars
  PROVE  SInv'
  <1>1. CASE RunFunctor
    BY <1>1, ConnectEstablishedSurvives, RunSendSurvives, RunShutdownSurvives,
       RunNoticeSurvives, ConnectDestroyedSurvives DEF RunFunctor
  <1>2. CASE HandleRead
    BY <1>2, LoopPcSurvives DEF HandleRead
  <1>3. CASE HandleEof
    BY <1>3, HandleReadErrorSurvives, HandleCloseSurvives DEF HandleEof
  <1>4. CASE HandleWrite
    BY <1>4, HandleWriteSurvives
  <1>5. CASE UserCode
    BY <1>5, LoopSendSurvives, LoopShutdownSurvives DEF UserCode
  <1>6. CASE Return
    BY <1>6, LoopPcSurvives DEF Return
  <1>7. ASSUME NEW t \in Threads, ThreadStarts(t) \/ ThreadGoesOn(t)
        PROVE  SInv'
    BY <1>7, ThreadSurvives
  <1>8. CASE ServerRemoves \/ ServerDies
    BY <1>8, ServerSurvives
  <1>9. CASE PeerReads \/ PeerCloses \/ PeerResets
    BY <1>9, PeerSurvives
  <1>10. CASE UNCHANGED vars
    BY <1>10 DEF vars, SInv, Used, Closing, Ending, SurvivesOrderlyUse, Orderly,
       IsWriting, Alive
  <1> QED
    BY <1>1, <1>2, <1>3, <1>4, <1>5, <1>6, <1>7, <1>8, <1>9, <1>10
    DEF Next, Environment

\* No orderly usage, whatever its interleaving, ends the process: no assertion of
\* Channel::remove() fails, nothing is written after shutdownWrite(), no empty
\* callback is called, no functor outlives the connection it is bound to.
THEOREM OrderlyUseSurvives == Spec => []SurvivesOrderlyUse
  <1>1. Init => SInv
    BY InitSurvives
  <1>2. IInv /\ SInv /\ [Next]_vars => SInv'
    BY StepSurvives
  <1>3. SInv => SurvivesOrderlyUse
    BY DEF SInv
  <1> QED
    BY <1>1, <1>2, <1>3, Invariant, PTL DEF Spec

-----------------------------------------------------------------------------
(* The order of the bytes.  A byte is ahead of another if they come from     *)
(* different callers or in the order in which their caller sent them.        *)

Ahead(a, b) == a.by = b.by /\ a.by \in Callers => a.at < b.at

InOrder(s) == \A i, j \in 1 .. Len(s) : i < j => Ahead(s[i], s[j])

Before(s, t) == \A i \in 1 .. Len(s) : \A j \in 1 .. Len(t) : Ahead(s[i], t[j])

\* b does not come from a message beyond the first n[c] of its caller.
Sent(b, n) == b.by \in Callers => b.at <= n[b.by] * MessageLen

SentIn(s, n) == \A i \in 1 .. Len(s) : Sent(s[i], n)

ByThreads(s) == \A i \in 1 .. Len(s) : s[i].by \in Threads

Has(s, b) == \E i \in 1 .. Len(s) : s[i] = b

Sends(q) == {k \in 1 .. Len(q) : q[k].op = "send"}

\* Each queued message waits behind all of its caller's that were handed on.
Ordered(s, q, n) ==
    /\ InOrder(s) /\ SentIn(s, n)
    /\ \A k \in Sends(q) :
          /\ ByThreads(q[k].data) /\ InOrder(q[k].data) /\ SentIn(q[k].data, n)
          /\ Before(s, q[k].data)
    /\ \A k, l \in Sends(q) : k < l => Before(q[k].data, q[l].data)

\* Every byte sent is in the stream or on its way to it.
Whole(s, q, n) ==
    \A c \in Callers : \A m \in 1 .. n[c] * MessageLen :
        \/ Has(s, [by |-> c, at |-> m])
        \/ \E k \in Sends(q) : Has(q[k].data, [by |-> c, at |-> m])

LEMMA ConcatAt ==
  ASSUME NEW s \in Seq(Bytes), NEW t \in Seq(Bytes)
  PROVE  /\ s \o t \in Seq(Bytes) /\ Len(s) \in Nat /\ Len(t) \in Nat
         /\ \A i \in 1 .. Len(s) : /\ i \in 1 .. Len(s \o t)
                                   /\ (s \o t)[i] = s[i]
         /\ \A j \in 1 .. Len(t) : /\ Len(s) + j \in 1 .. Len(s \o t)
                                   /\ (s \o t)[Len(s) + j] = t[j]
         /\ \A i \in 1 .. Len(s \o t) :
               \/ i \in 1 .. Len(s)
               \/ \E j \in 1 .. Len(t) : i = Len(s) + j
  <1>1. /\ s \o t \in Seq(Bytes) /\ Len(s) \in Nat /\ Len(t) \in Nat
        /\ Len(s \o t) = Len(s) + Len(t)
        /\ \A i \in 1 .. Len(s) + Len(t) :
              (s \o t)[i] = IF i <= Len(s) THEN s[i] ELSE t[i - Len(s)]
    BY ConcatProperties, LenProperties
  <1>2. ASSUME NEW i \in 1 .. Len(s \o t), i \notin 1 .. Len(s)
        PROVE  \E j \in 1 .. Len(t) : i = Len(s) + j
    <2>1. i - Len(s) \in 1 .. Len(t) /\ i = Len(s) + (i - Len(s))
      BY <1>1, <1>2
    <2> QED
      BY <2>1
  <1>3. ASSUME NEW i \in 1 .. Len(s)
        PROVE  i \in 1 .. Len(s \o t) /\ (s \o t)[i] = s[i]
    <2>1. i \in 1 .. Len(s) + Len(t) /\ i <= Len(s)
      BY <1>1
    <2> QED
      BY <1>1, <2>1
  <1>4. ASSUME NEW j \in 1 .. Len(t)
        PROVE  Len(s) + j \in 1 .. Len(s \o t) /\ (s \o t)[Len(s) + j] = t[j]
    <2>1. /\ Len(s) + j \in 1 .. Len(s) + Len(t)
          /\ ~(Len(s) + j <= Len(s)) /\ (Len(s) + j) - Len(s) = j
      BY <1>1
    <2> QED
      BY <1>1, <2>1
  <1> QED
    BY <1>1, <1>2, <1>3, <1>4

LEMMA ConcatInOrder ==
  ASSUME NEW s \in Seq(Bytes), NEW t \in Seq(Bytes)
  PROVE  InOrder(s \o t) <=> InOrder(s) /\ InOrder(t) /\ Before(s, t)
  <1> DEFINE st == s \o t
  <1>1. /\ st \in Seq(Bytes) /\ Len(s) \in Nat /\ Len(t) \in Nat
        /\ \A i \in 1 .. Len(s) : i \in 1 .. Len(st) /\ st[i] = s[i]
        /\ \A j \in 1 .. Len(t) : /\ Len(s) + j \in 1 .. Len(st)
                                  /\ st[Len(s) + j] = t[j]
        /\ \A i \in 1 .. Len(st) : \/ i \in 1 .. Len(s)
                                   \/ \E j \in 1 .. Len(t) : i = Len(s) + j
    BY ConcatAt
  <1> HIDE DEF st
  <1>2. ASSUME InOrder(st)
        PROVE  InOrder(s) /\ InOrder(t) /\ Before(s, t)
    <2>1. InOrder(s)
      BY <1>1, <1>2 DEF InOrder
    <2>2. InOrder(t)
      <3>1. SUFFICES ASSUME NEW i \in 1 .. Len(t), NEW j \in 1 .. Len(t), i < j
                     PROVE  Ahead(t[i], t[j])
        BY DEF InOrder
      <3>2. Len(s) + i < Len(s) + j
        BY <1>1, <3>1
      <3> QED
        BY <1>1, <1>2, <3>2 DEF InOrder
    <2>3. Before(s, t)
      <3>1. SUFFICES ASSUME NEW i \in 1 .. Len(s), NEW j \in 1 .. Len(t)
                     PROVE  Ahead(s[i], t[j])
        BY DEF Before
      <3>2. i < Len(s) + j
        BY <1>1
      <3> QED
        BY <1>1, <1>2, <3>2 DEF InOrder
    <2> QED
      BY <2>1, <2>2, <2>3
  <1>3. ASSUME InOrder(s), InOrder(t), Before(s, t)
        PROVE  InOrder(st)
    <2>1. SUFFICES ASSUME NEW i \in 1 .. Len(st), NEW j \in 1 .. Len(st), i < j
                   PROVE  Ahead(st[i], st[j])
      BY DEF InOrder
    <2>2. CASE i \in 1 .. Len(s) /\ j \in 1 .. Len(s)
      BY <1>1, <1>3, <2>1, <2>2 DEF InOrder
    <2>3. ASSUME NEW k \in 1 .. Len(t), j = Len(s) + k, i \in 1 .. Len(s)
          PROVE  Ahead(st[i], st[j])
      BY <1>1, <1>3, <2>3 DEF Before
    <2>4. ASSUME NEW h \in 1 .. Len(t), NEW k \in 1 .. Len(t),
                 i = Len(s) + h, j = Len(s) + k
          PROVE  Ahead(st[i], st[j])
      <3>1. h < k
        BY <1>1, <2>1, <2>4
      <3> QED
        BY <1>1, <1>3, <2>4, <3>1 DEF InOrder
    <2>5. ASSUME NEW h \in 1 .. Len(t), i = Len(s) + h
          PROVE  ~(j \in 1 .. Len(s))
      BY <1>1, <2>1, <2>5
    <2> QED
      BY <1>1, <2>2, <2>3, <2>4, <2>5
  <1> QED
    BY <1>2, <1>3 DEF st

LEMMA ConcatBefore ==
  ASSUME NEW s \in Seq(Bytes), NEW t \in Seq(Bytes), NEW u \in Seq(Bytes)
  PROVE  Before(s \o t, u) <=> Before(s, u) /\ Before(t, u)
  <1> DEFINE st == s \o t
  <1>1. /\ \A i \in 1 .. Len(s) : i \in 1 .. Len(st) /\ st[i] = s[i]
        /\ \A j \in 1 .. Len(t) : /\ Len(s) + j \in 1 .. Len(st)
                                  /\ st[Len(s) + j] = t[j]
        /\ \A i \in 1 .. Len(st) : \/ i \in 1 .. Len(s)
                                   \/ \E j \in 1 .. Len(t) : i = Len(s) + j
    BY ConcatAt
  <1> HIDE DEF st
  <1>2. ASSUME Before(st, u)
        PROVE  Before(s, u) /\ Before(t, u)
    BY <1>1, <1>2 DEF Before
  <1>3. ASSUME Before(s, u), Before(t, u)
        PROVE  Before(st, u)
    BY <1>1, <1>3 DEF Before
  <1> QED
    BY <1>2, <1>3 DEF st

LEMMA ConcatSentIn ==
  ASSUME NEW s \in Seq(Bytes), NEW t \in Seq(Bytes), NEW n
  PROVE  SentIn(s \o t, n) <=> SentIn(s, n) /\ SentIn(t, n)
  <1> DEFINE st == s \o t
  <1>1. /\ \A i \in 1 .. Len(s) : i \in 1 .. Len(st) /\ st[i] = s[i]
        /\ \A j \in 1 .. Len(t) : /\ Len(s) + j \in 1 .. Len(st)
                                  /\ st[Len(s) + j] = t[j]
        /\ \A i \in 1 .. Len(st) : \/ i \in 1 .. Len(s)
                                   \/ \E j \in 1 .. Len(t) : i = Len(s) + j
    BY ConcatAt
  <1> HIDE DEF st
  <1>2. ASSUME SentIn(st, n)
        PROVE  SentIn(s, n) /\ SentIn(t, n)
    BY <1>1, <1>2 DEF SentIn
  <1>3. ASSUME SentIn(s, n), SentIn(t, n)
        PROVE  SentIn(st, n)
    BY <1>1, <1>3 DEF SentIn
  <1> QED
    BY <1>2, <1>3 DEF st

LEMMA ConcatHas ==
  ASSUME NEW s \in Seq(Bytes), NEW t \in Seq(Bytes), NEW b
  PROVE  Has(s \o t, b) <=> Has(s, b) \/ Has(t, b)
  <1> DEFINE st == s \o t
  <1>1. /\ \A i \in 1 .. Len(s) : i \in 1 .. Len(st) /\ st[i] = s[i]
        /\ \A j \in 1 .. Len(t) : /\ Len(s) + j \in 1 .. Len(st)
                                  /\ st[Len(s) + j] = t[j]
        /\ \A i \in 1 .. Len(st) : \/ i \in 1 .. Len(s)
                                   \/ \E j \in 1 .. Len(t) : i = Len(s) + j
    BY ConcatAt
  <1> HIDE DEF st
  <1>2. ASSUME Has(st, b)
        PROVE  Has(s, b) \/ Has(t, b)
    BY <1>1, <1>2 DEF Has
  <1>3. ASSUME Has(s, b) \/ Has(t, b)
        PROVE  Has(st, b)
    BY <1>1, <1>3 DEF Has
  <1> QED
    BY <1>2, <1>3 DEF st

-----------------------------------------------------------------------------
(* What happens to the queue.                                              *)

LEMMA SendsType ==
  ASSUME NEW q \in Seq(Functors), NEW k \in Sends(q)
  PROVE  q[k].data \in Seq(Bytes)
  <1>1. q[k] \in Functors
    BY ElementOfSeq DEF Sends
  <1> QED
    BY <1>1 DEF Functors

LEMMA SendsGrow ==
  ASSUME NEW q \in Seq(Functors), NEW kinds, "send" \notin kinds, Grows(q, kinds)
  PROVE  /\ Sends(queue') = Sends(q)
         /\ \A k \in Sends(q) : queue'[k] = q[k]
  <1>1. Len(q) \in Nat /\ Len(queue') \in Nat /\ Len(queue') >= Len(q)
    BY LenProperties DEF Grows
  <1>2. \A k \in 1 .. Len(q) : k \in 1 .. Len(queue') /\ queue'[k] = q[k]
    BY <1>1 DEF Grows
  <1>3. ASSUME NEW k \in 1 .. Len(queue'), k \notin 1 .. Len(q)
        PROVE  queue'[k].op # "send"
    <2>1. k \in Len(q) + 1 .. Len(queue')
      BY <1>1, <1>3
    <2> QED
      BY <2>1 DEF Grows
  <1> QED
    BY <1>2, <1>3 DEF Sends

LEMMA StreamGrows ==
  ASSUME NEW q \in Seq(Functors), NEW kinds, "send" \notin kinds, Grows(q, kinds),
         NEW s, NEW n
  PROVE  /\ Ordered(s, q, n) => Ordered(s, queue', n)
         /\ Whole(s, q, n) => Whole(s, queue', n)
  <1>1. /\ Sends(queue') = Sends(q)
        /\ \A k \in Sends(q) : queue'[k] = q[k]
    BY SendsGrow
  <1>2. Ordered(s, q, n) => Ordered(s, queue', n)
    BY <1>1 DEF Ordered
  <1>3. Whole(s, q, n) => Whole(s, queue', n)
    BY <1>1 DEF Whole
  <1> QED
    BY <1>2, <1>3

LEMMA SendsTail ==
  ASSUME NEW q \in Seq(Functors), q # <<>>
  PROVE  /\ Tail(q) \in Seq(Functors)
         /\ \A k \in Sends(Tail(q)) : /\ k \in Nat /\ 1 < k + 1
                                     /\ k + 1 \in Sends(q)
                                     /\ Tail(q)[k] = q[k + 1]
         /\ \A k \in Sends(q) : \/ k = 1
                               \/ \E j \in Sends(Tail(q)) : k = j + 1
         /\ 1 \in Sends(q) <=> Head(q).op = "send"
         /\ Head(q) = q[1] /\ Head(q) \in Functors
  <1>1. /\ Head(q) = q[1] /\ Head(q) \in Functors /\ Tail(q) \in Seq(Functors)
        /\ Len(q) \in Nat /\ Len(q) >= 1 /\ Len(Tail(q)) = Len(q) - 1
        /\ \A i \in 1 .. Len(Tail(q)) : Tail(q)[i] = q[i + 1]
    BY HeadTailProperties, LenProperties, EmptySeq
  <1>2. \A k \in 1 .. Len(Tail(q)) : /\ k \in Nat /\ 1 < k + 1
                                      /\ k + 1 \in 1 .. Len(q)
                                      /\ Tail(q)[k] = q[k + 1]
    BY <1>1
  <1>3. ASSUME NEW k \in 1 .. Len(q), k # 1
        PROVE  k - 1 \in 1 .. Len(Tail(q)) /\ k = (k - 1) + 1
    BY <1>1, <1>3
  <1>4. ASSUME NEW k \in Sends(q), k # 1
        PROVE  \E j \in Sends(Tail(q)) : k = j + 1
    <2>1. k \in 1 .. Len(q) /\ q[k].op = "send"
      BY <1>4 DEF Sends
    <2>2. k - 1 \in 1 .. Len(Tail(q)) /\ k = (k - 1) + 1
      BY <1>3, <1>4, <2>1
    <2>3. Tail(q)[k - 1].op = "send"
      BY <1>2, <2>1, <2>2
    <2> QED
      BY <2>2, <2>3 DEF Sends
  <1>5. 1 \in 1 .. Len(q)
    BY <1>1
  <1> QED
    BY <1>1, <1>2, <1>4, <1>5 DEF Sends

\* A functor that sends nothing runs, or one whose data is dropped.
LEMMA StreamTail ==
  ASSUME NEW q \in Seq(Functors), q # <<>>, NEW s, NEW n
  PROVE  /\ Ordered(s, q, n) => Ordered(s, Tail(q), n)
         /\ Head(q).op # "send" /\ Whole(s, q, n) => Whole(s, Tail(q), n)
  <1>1. /\ \A k \in Sends(Tail(q)) : /\ k \in Nat /\ 1 < k + 1
                                     /\ k + 1 \in Sends(q)
                                     /\ Tail(q)[k] = q[k + 1]
        /\ \A k \in Sends(q) : k = 1 \/ \E j \in Sends(Tail(q)) : k = j + 1
        /\ 1 \in Sends(q) <=> Head(q).op = "send"
    BY SendsTail
  <1>2. ASSUME Ordered(s, q, n)
        PROVE  Ordered(s, Tail(q), n)
    <2>1. \A k, l \in Sends(Tail(q)) :
             k < l => Before(Tail(q)[k].data, Tail(q)[l].data)
      <3>1. SUFFICES ASSUME NEW k \in Sends(Tail(q)), NEW l \in Sends(Tail(q)),
                            k < l
                     PROVE  Before(Tail(q)[k].data, Tail(q)[l].data)
        OBVIOUS
      <3>2. k + 1 < l + 1
        BY <1>1, <3>1
      <3> QED
        BY <1>1, <1>2, <3>2 DEF Ordered
    <2> QED
      BY <1>1, <1>2, <2>1 DEF Ordered
  <1>3. ASSUME Head(q).op # "send", Whole(s, q, n)
        PROVE  Whole(s, Tail(q), n)
    BY <1>1, <1>3 DEF Whole
  <1> QED
    BY <1>2, <1>3

\* The oldest message of the queue is handed on.
LEMMA StreamHead ==
  ASSUME NEW q \in Seq(Functors), q # <<>>, Head(q).op = "send",
         NEW s \in Seq(Bytes), NEW n
  PROVE  /\ Ordered(s, q, n) => Ordered(s \o Head(q).data, Tail(q), n)
         /\ Whole(s, q, n) => Whole(s \o Head(q).data, Tail(q), n)
  <1>1. /\ Tail(q) \in Seq(Functors)
        /\ \A k \in Sends(Tail(q)) : /\ k \in Nat /\ 1 < k + 1
                                     /\ k + 1 \in Sends(q)
                                     /\ Tail(q)[k] = q[k + 1]
        /\ \A k \in Sends(q) : k = 1 \/ \E j \in Sends(Tail(q)) : k = j + 1
        /\ 1 \in Sends(q) /\ Head(q) = q[1] /\ Head(q) \in Functors
    BY SendsTail
  <1> DEFINE d == Head(q).data
  <1>2. d \in Seq(Bytes) /\ d = q[1].data
    BY <1>1 DEF Functors
  <1> HIDE DEF d
  <1>3. ASSUME Ordered(s, q, n)
        PROVE  Ordered(s \o d, Tail(q), n)
    <2>1. InOrder(s \o d) /\ SentIn(s \o d, n)
      BY <1>1, <1>2, <1>3, ConcatInOrder, ConcatSentIn DEF Ordered
    <2>2. ASSUME NEW k \in Sends(Tail(q))
          PROVE  Before(s \o d, Tail(q)[k].data)
      <3>1. Tail(q)[k].data \in Seq(Bytes)
        BY <1>1, <2>2, SendsType
      <3>2. Before(s, q[k + 1].data) /\ Before(q[1].data, q[k + 1].data)
        BY <1>1, <1>3 DEF Ordered
      <3>3. Before(s, q[k + 1].data) /\ Before(d, q[k + 1].data)
        BY <1>2, <3>2
      <3>4. Tail(q)[k].data = q[k + 1].data
        BY <1>1, <2>2
      <3> DEFINE e == Tail(q)[k].data
      <3>5. e \in Seq(Bytes) /\ Before(s, e) /\ Before(d, e)
        BY <3>1, <3>3, <3>4
      <3> HIDE DEF e
      <3>6. Before(s \o d, e)
        BY <1>2, <3>5, ConcatBefore
      <3> QED
        BY <3>6 DEF e
    <2>3. Ordered(s, Tail(q), n)
      BY <1>3, StreamTail
    <2> QED
      BY <2>1, <2>2, <2>3 DEF Ordered
  <1>4. ASSUME Whole(s, q, n)
        PROVE  Whole(s \o d, Tail(q), n)
    <2>1. SUFFICES ASSUME NEW c \in Callers, NEW m \in 1 .. n[c] * MessageLen
                   PROVE  \/ Has(s \o d, [by |-> c, at |-> m])
                          \/ \E k \in Sends(Tail(q)) :
                                Has(Tail(q)[k].data, [by |-> c, at |-> m])
      BY DEF Whole
    <2> DEFINE b == [by |-> c, at |-> m]
    <2>2. Has(s, b) \/ \E k \in Sends(q) : Has(q[k].data, b)
      BY <1>4 DEF Whole
    <2>3. Has(s, b) \/ Has(d, b) => Has(s \o d, b)
      BY <1>2, ConcatHas
    <2> HIDE DEF b
    <2>4. ASSUME NEW k \in Sends(q), Has(q[k].data, b)
          PROVE  Has(d, b) \/ \E j \in Sends(Tail(q)) : Has(Tail(q)[j].data, b)
      BY <1>1, <1>2, <2>4
    <2>5. Has(s \o d, b) \/ \E k \in Sends(Tail(q)) : Has(Tail(q)[k].data, b)
      BY <2>2, <2>3, <2>4
    <2> QED
      BY <2>5 DEF b
  <1> QED
    BY <1>3, <1>4 DEF d

LEMMA StreamGarbage ==
  ASSUME NEW s \in Seq(Bytes), NEW q \in Seq(Functors), NEW n, Ordered(s, q, n)
  PROVE  Ordered(s \o <<Garbage>>, q, n)
  <1> DEFINE g == <<Garbage>>
  <1>1. g \in Seq(Bytes) /\ Len(g) = 1 /\ g[1].by \notin Callers
    BY TcpConnectionAssumption DEF Bytes, Garbage
  <1>2. \A i \in 1 .. Len(g) : g[i].by \notin Callers
    BY <1>1
  <1> HIDE DEF g
  <1>3. InOrder(g) /\ SentIn(g, n) /\ \A u : Before(g, u)
    BY <1>2 DEF InOrder, SentIn, Sent, Before, Ahead
  <1>4. Before(s, g)
    BY <1>2 DEF Before, Ahead
  <1>5. ASSUME NEW k \in Sends(q)
        PROVE  Before(s \o g, q[k].data)
    <2>2. q[k].data \in Seq(Bytes)
      BY <1>5, SendsType
    <2> QED
      BY <1>1, <1>3, <1>5, <2>2, ConcatBefore DEF Ordered
  <1>6. InOrder(s \o g) /\ SentIn(s \o g, n)
    BY <1>1, <1>3, <1>4, ConcatInOrder, ConcatSentIn DEF Ordered
  <1>7. Ordered(s \o g, q, n)
    BY <1>5, <1>6 DEF Ordered
  <1> QED
    BY <1>7 DEF g

\* The kernel's bytes are lost.
LEMMA StreamCut ==
  ASSUME NEW r \in Seq(Bytes), NEW k \in Seq(Bytes), NEW o \in Seq(Bytes),
         NEW q \in Seq(Functors), NEW n, Ordered(r \o k \o o, q, n)
  PROVE  Ordered(r \o o, q, n)
  <1>1. r \o k \in Seq(Bytes)
    BY ConcatProperties
  <1>2. /\ InOrder(r \o k) /\ InOrder(o) /\ Before(r \o k, o)
        /\ SentIn(r \o k, n) /\ SentIn(o, n)
    BY <1>1, ConcatInOrder, ConcatSentIn DEF Ordered
  <1>3. InOrder(r) /\ Before(r, o) /\ SentIn(r, n)
    BY <1>2, ConcatInOrder, ConcatBefore, ConcatSentIn
  <1>4. InOrder(r \o o) /\ SentIn(r \o o, n)
    BY <1>2, <1>3, ConcatInOrder, ConcatSentIn
  <1>5. ASSUME NEW l \in Sends(q)
        PROVE  Before(r \o o, q[l].data)
    <2>2. q[l].data \in Seq(Bytes)
      BY <1>5, SendsType
    <2>3. Before(r \o k \o o, q[l].data)
      BY <1>5 DEF Ordered
    <2>4. Before(r \o k, q[l].data) /\ Before(o, q[l].data)
      BY <1>1, <2>2, <2>3, ConcatBefore
    <2>5. Before(r, q[l].data)
      BY <2>2, <2>4, ConcatBefore
    <2> QED
      BY <2>2, <2>4, <2>5, ConcatBefore
  <1> QED
    BY <1>4, <1>5 DEF Ordered

-----------------------------------------------------------------------------
(* A new message.                                                          *)

LEMMA MessageBytes ==
  ASSUME NEW c \in Callers, NEW m \in 1 .. MaxSends
  PROVE  /\ Len(Message(c, m)) = MessageLen
         /\ \A i \in 1 .. MessageLen :
               Message(c, m)[i] = [by |-> c, at |-> (m - 1) * MessageLen + i]
  <1>1. MessageLen \in Nat /\ Message(c, m) \in Seq(Bytes)
    BY MessageType, TcpConnectionAssumption
  <1>2. DOMAIN Message(c, m) = 1 .. MessageLen
    BY DEF Message
  <1>3. Len(Message(c, m)) = MessageLen
    BY <1>1, <1>2, LenProperties
  <1> QED
    BY <1>3 DEF Message

\* c sends: n2 counts one message more than n.
OneMore(c, n, n2) ==
    /\ n \in [Callers -> 0 .. MaxSends]
    /\ n2 \in [Callers -> 0 .. MaxSends]
    /\ n[c] < MaxSends
    /\ n2[c] = n[c] + 1
    /\ \A u \in Callers : u # c => n2[u] = n[u]

LEMMA NextMessage ==
  ASSUME NEW c \in Callers, NEW n, NEW n2, OneMore(c, n, n2)
  PROVE  /\ Message(c, n2[c]) \in Seq(Bytes)
         /\ InOrder(Message(c, n2[c])) /\ SentIn(Message(c, n2[c]), n2)
         /\ \A s \in Seq(Bytes) :
               SentIn(s, n) => SentIn(s, n2) /\ Before(s, Message(c, n2[c]))
         /\ \A u \in Callers : \A x \in 1 .. n2[u] * MessageLen :
               \/ x \in 1 .. n[u] * MessageLen
               \/ Has(Message(c, n2[c]), [by |-> u, at |-> x])
         /\ c \in Threads => ByThreads(Message(c, n2[c]))
  <1>1. /\ MaxSends \in Nat /\ MessageLen \in Nat
        /\ n[c] \in Nat /\ n2[c] = n[c] + 1 /\ n2[c] \in 1 .. MaxSends
        /\ \A u \in Callers : n[u] \in Nat /\ (u # c => n2[u] = n[u])
    BY TcpConnectionAssumption DEF OneMore
  <1> DEFINE M == Message(c, n2[c])
  <1> DEFINE base == n[c] * MessageLen
  <1>2. M \in Seq(Bytes)
    BY <1>1, MessageType
  <1>3. /\ base \in Nat /\ n2[c] * MessageLen = base + MessageLen
        /\ (n2[c] - 1) * MessageLen = base
    BY <1>1
  <1>4. Len(M) = MessageLen
    BY <1>1, MessageBytes
  <1>5. \A i \in 1 .. MessageLen : M[i] = [by |-> c, at |-> base + i]
    BY <1>1, <1>3, MessageBytes
  <1>6. \A u \in Callers : u # c => n2[u] * MessageLen = n[u] * MessageLen
    BY <1>1
  <1>7. n[c] * MessageLen = base
    OBVIOUS
  <1> HIDE DEF M, base
  <1>8. InOrder(M)
    BY <1>1, <1>3, <1>4, <1>5 DEF InOrder, Ahead
  <1>9. SentIn(M, n2)
    BY <1>1, <1>3, <1>4, <1>5 DEF SentIn, Sent
  <1>10. ASSUME NEW b \in Bytes, Sent(b, n)
         PROVE  Sent(b, n2)
    <2>1. b.at \in Nat
      BY TcpConnectionAssumption DEF Bytes, Garbage
    <2>2. CASE b.by = c
      BY <1>1, <1>3, <1>7, <1>10, <2>1, <2>2 DEF Sent
    <2>3. CASE b.by # c
      BY <1>6, <1>10, <2>3 DEF Sent
    <2> QED
      BY <2>2, <2>3
  <1>11. ASSUME NEW b \in Bytes, Sent(b, n), NEW i \in 1 .. MessageLen
         PROVE  Ahead(b, M[i])
    <2>1. b.at \in Nat
      BY TcpConnectionAssumption DEF Bytes, Garbage
    <2>2. M[i] = [by |-> c, at |-> base + i]
      BY <1>5
    <2>3. M[i].by = c /\ M[i].at = base + i
      BY <2>2
    <2>4. base < base + i /\ base + i \in Nat
      BY <1>1, <1>3, <1>11
    <2>5. CASE b.by = c
      BY <1>3, <1>7, <1>11, <2>1, <2>3, <2>5, <2>4 DEF Sent, Ahead
    <2>6. CASE b.by # c
      BY <2>3, <2>6 DEF Ahead
    <2> QED
      BY <2>5, <2>6
  <1>12. ASSUME NEW s \in Seq(Bytes), SentIn(s, n)
         PROVE  SentIn(s, n2) /\ Before(s, M)
    <2>1. \A i \in 1 .. Len(s) : s[i] \in Bytes
      BY ElementOfSeq
    <2> QED
      BY <1>4, <1>10, <1>11, <1>12, <2>1 DEF SentIn, Before
  <1>13. ASSUME NEW u \in Callers, NEW x \in 1 .. n2[u] * MessageLen,
                x \notin 1 .. n[u] * MessageLen
         PROVE  Has(M, [by |-> u, at |-> x])
    <2>1. u = c
      BY <1>6, <1>13
    <2>2. x - base \in 1 .. MessageLen /\ base + (x - base) = x
      BY <1>1, <1>3, <1>7, <1>13, <2>1
    <2> QED
      BY <1>4, <1>5, <2>1, <2>2 DEF Has
  <1>14. c \in Threads => ByThreads(M)
    BY <1>4, <1>5 DEF ByThreads
  <1> QED
    BY <1>2, <1>8, <1>9, <1>12, <1>13, <1>14 DEF M

\* The loop's message passes the queue, which holds those of other threads.
LEMMA StreamMessage ==
  ASSUME NEW s \in Seq(Bytes), NEW q \in Seq(Functors),
         NEW n, NEW n2, OneMore("loop", n, n2)
  PROVE  /\ Ordered(s, q, n) =>
               Ordered(s, q, n2) /\ Ordered(s \o Message("loop", n2["loop"]), q, n2)
         /\ Whole(s, q, n) => Whole(s \o Message("loop", n2["loop"]), q, n2)
  <1> DEFINE M == Message("loop", n2["loop"])
  <1>1. "loop" \in Callers /\ "loop" \notin Threads
    BY TcpConnectionAssumption DEF Threads
  <1>2. /\ M \in Seq(Bytes) /\ InOrder(M) /\ SentIn(M, n2)
        /\ \A u \in Seq(Bytes) : SentIn(u, n) => SentIn(u, n2) /\ Before(u, M)
        /\ \A u \in Callers : \A x \in 1 .. n2[u] * MessageLen :
               \/ x \in 1 .. n[u] * MessageLen
               \/ Has(M, [by |-> u, at |-> x])
    BY <1>1, NextMessage
  <1>3. \A i \in 1 .. Len(M) : M[i].by = "loop"
    <2>1. n2["loop"] \in 1 .. MaxSends
      BY <1>1, TcpConnectionAssumption DEF OneMore
    <2>2. /\ Len(M) = MessageLen
          /\ \A i \in 1 .. MessageLen :
                M[i] = [by |-> "loop", at |-> (n2["loop"] - 1) * MessageLen + i]
      BY <1>1, <2>1, MessageBytes
    <2> HIDE DEF M
    <2> QED
      BY <2>2
  <1> HIDE DEF M
  <1>4. ASSUME Ordered(s, q, n)
        PROVE  Ordered(s, q, n2) /\ Ordered(s \o M, q, n2)
    <2>1. Ordered(s, q, n2)
      BY <1>2, <1>4, SendsType DEF Ordered
    <2>2. InOrder(s \o M) /\ SentIn(s \o M, n2)
      BY <1>2, <1>4, ConcatInOrder, ConcatSentIn DEF Ordered
    <2>3. ASSUME NEW k \in Sends(q)
          PROVE  Before(s \o M, q[k].data)
      <3>2. q[k].data \in Seq(Bytes)
        BY <2>3, SendsType
      <3>3. ByThreads(q[k].data) /\ Before(s, q[k].data)
        BY <1>4 DEF Ordered
      <3>4. Before(M, q[k].data)
        BY <1>1, <1>3, <3>3 DEF Before, Ahead, ByThreads
      <3> QED
        BY <1>2, <3>2, <3>3, <3>4, ConcatBefore
    <2> QED
      BY <2>1, <2>2, <2>3 DEF Ordered
  <1>5. ASSUME Whole(s, q, n)
        PROVE  Whole(s \o M, q, n2)
    <2>1. SUFFICES ASSUME NEW c \in Callers, NEW m \in 1 .. n2[c] * MessageLen
                   PROVE  \/ Has(s \o M, [by |-> c, at |-> m])
                          \/ \E k \in Sends(q) : Has(q[k].data, [by |-> c, at |-> m])
      BY DEF Whole
    <2>2. \/ Has(s, [by |-> c, at |-> m]) \/ Has(M, [by |-> c, at |-> m])
          \/ \E k \in Sends(q) : Has(q[k].data, [by |-> c, at |-> m])
      BY <1>2, <1>5 DEF Whole
    <2> QED
      BY <1>2, <2>2, ConcatHas
  <1> QED
    BY <1>4, <1>5 DEF M

\* The functor that sends the last of t's n[t] messages.
Sending(t, n) == [op |-> "send", data |-> Message(t, n[t])]

\* A thread's message waits behind those it has queued before.
LEMMA StreamQueue ==
  ASSUME NEW s \in Seq(Bytes), NEW q \in Seq(Functors), NEW t \in Threads,
         NEW n, NEW n2, OneMore(t, n, n2),
         NEW q2 \in Seq(Functors),
         q2 = Append(q, Sending(t, n2))
  PROVE  /\ Ordered(s, q, n) => Ordered(s, q2, n2)
         /\ Whole(s, q, n) => Whole(s, q2, n2)
  <1> DEFINE M == Message(t, n2[t])
  <1> DEFINE f == Sending(t, n2)
  <1>1. t \in Callers
    BY DEF Threads
  <1>2. /\ M \in Seq(Bytes) /\ InOrder(M) /\ SentIn(M, n2) /\ ByThreads(M)
        /\ \A u \in Seq(Bytes) : SentIn(u, n) => SentIn(u, n2) /\ Before(u, M)
        /\ \A u \in Callers : \A x \in 1 .. n2[u] * MessageLen :
               \/ x \in 1 .. n[u] * MessageLen
               \/ Has(M, [by |-> u, at |-> x])
    BY <1>1, NextMessage
  <1>3. f \in Functors /\ f.op = "send" /\ f.data = M
    BY <1>2 DEF Functors, Ops, Sending
  <1> HIDE DEF M, f
  <1>4. /\ Len(q) \in Nat /\ Len(q2) = Len(q) + 1
        /\ \A i \in 1 .. Len(q) : q2[i] = q[i]
        /\ q2[Len(q) + 1] = f
    BY <1>3, AppendProperties, LenProperties DEF f
  <1>5. /\ \A k \in Sends(q2) : k \in Sends(q) \/ k = Len(q) + 1
        /\ \A k \in Sends(q) : k \in Sends(q2) /\ q2[k] = q[k] /\ k < Len(q) + 1
        /\ Len(q) + 1 \in Sends(q2)
    BY <1>3, <1>4 DEF Sends
  <1>6. q2[Len(q) + 1].data = M
    BY <1>3, <1>4
  <1>7. ASSUME Ordered(s, q, n)
        PROVE  Ordered(s, q2, n2)
    <2>1. InOrder(s) /\ SentIn(s, n2) /\ Before(s, M)
      BY <1>2, <1>7 DEF Ordered
    <2>2. ASSUME NEW k \in Sends(q2)
          PROVE  /\ ByThreads(q2[k].data) /\ InOrder(q2[k].data)
                 /\ SentIn(q2[k].data, n2) /\ Before(s, q2[k].data)
      <3>1. CASE k \in Sends(q)
        BY <1>2, <1>5, <1>7, <3>1, SendsType DEF Ordered
      <3>2. CASE k = Len(q) + 1
        BY <1>2, <1>6, <2>1, <3>2
      <3> QED
        BY <1>5, <2>2, <3>1, <3>2
    <2>3. ASSUME NEW k \in Sends(q2), NEW l \in Sends(q2), k < l
          PROVE  Before(q2[k].data, q2[l].data)
      <3>1. l \in 1 .. Len(q) + 1 /\ k \in 1 .. Len(q) + 1
        BY <1>4 DEF Sends
      <3>2. k \in Sends(q) /\ q2[k] = q[k]
        BY <1>4, <1>5, <2>3, <3>1
      <3>3. CASE l \in Sends(q)
        BY <1>5, <1>7, <2>3, <3>2, <3>3 DEF Ordered
      <3>4. CASE l = Len(q) + 1
        BY <1>2, <1>6, <1>7, <3>2, <3>4, SendsType DEF Ordered
      <3> QED
        BY <1>5, <2>3, <3>3, <3>4
    <2> QED
      BY <2>1, <2>2, <2>3 DEF Ordered
  <1>8. ASSUME Whole(s, q, n)
        PROVE  Whole(s, q2, n2)
    <2>1. SUFFICES ASSUME NEW c \in Callers, NEW m \in 1 .. n2[c] * MessageLen
                   PROVE  \/ Has(s, [by |-> c, at |-> m])
                          \/ \E k \in Sends(q2) : Has(q2[k].data, [by |-> c, at |-> m])
      BY DEF Whole
    <2>2. \/ Has(s, [by |-> c, at |-> m]) \/ Has(M, [by |-> c, at |-> m])
          \/ \E k \in Sends(q) : Has(q[k].data, [by |-> c, at |-> m])
      BY <1>2, <1>8 DEF Whole
    <2> QED
      BY <1>5, <1>6, <2>2
  <1> QED
    BY <1>7, <1>8

-----------------------------------------------------------------------------
(* The stream and the queue.                                               *)

NothingLost ==
    Orderly /\ ~usage.fills /\ state # "kDisconnected" =>
        Whole(Stream, queue, sent)

StreamInv == Ordered(Stream, queue, sent) /\ NothingLost

LEMMA StreamType ==
  ASSUME TypeOK
  PROVE  /\ Stream \in Seq(Bytes) /\ queue \in Seq(Functors)
         /\ sent \in [Callers -> 0 .. MaxSends]
         /\ outputBuffer = <<>> => Stream = received \o socket
  <1>1. /\ received \in Seq(Bytes) /\ socket \in Seq(Bytes)
        /\ outputBuffer \in Seq(Bytes)
    BY DEF TypeOK
  <1>2. received \o socket \in Seq(Bytes)
    BY <1>1, ConcatProperties
  <1>3. Stream \in Seq(Bytes)
    BY <1>1, <1>2, ConcatProperties DEF Stream
  <1>4. outputBuffer = <<>> => Stream = received \o socket
    BY <1>2, ConcatEmptySeq DEF Stream
  <1> QED
    BY <1>3, <1>4 DEF TypeOK, Functors

LEMMA BytesAssociative ==
  ASSUME NEW s \in Seq(Bytes), NEW t \in Seq(Bytes), NEW u \in Seq(Bytes)
  PROVE  (s \o t) \o u = s \o (t \o u)
  BY ConcatAssociative

LEMMA SplitSeq ==
  ASSUME NEW data \in Seq(Bytes), NEW n \in 1 .. Len(data)
  PROVE  /\ SubSeq(data, 1, n) \in Seq(Bytes)
         /\ SubSeq(data, n + 1, Len(data)) \in Seq(Bytes)
         /\ SubSeq(data, 1, n) \o SubSeq(data, n + 1, Len(data)) = data
         /\ n = Len(data) => SubSeq(data, 1, n) = data
  <1>1. Len(data) \in Nat /\ \A i \in 1 .. Len(data) : data[i] \in Bytes
    BY LenProperties, ElementOfSeq
  <1>2. /\ SubSeq(data, 1, n) \in Seq(Bytes)
        /\ SubSeq(data, n + 1, Len(data)) \in Seq(Bytes)
    BY <1>1, SubSeqProperties
  <1>3. SubSeq(data, 1, n) \o SubSeq(data, n + 1, Len(data))
           = SubSeq(data, 1, Len(data))
    <2>1. /\ 1 \in 1 .. Len(data) + 1 /\ n \in 1 - 1 .. Len(data)
          /\ Len(data) \in n .. Len(data)
      BY <1>1
    <2> QED
      BY <2>1, ConcatAdjacentSubSeq
  <1>4. SubSeq(data, 1, Len(data)) = data
    BY SubSeqFull
  <1> QED
    BY <1>2, <1>3, <1>4

\* What is buffered follows what the kernel has taken.
Joined(r, k, o) == r \o k \o o

LEMMA KernelTakes ==
  ASSUME NEW r \in Seq(Bytes), NEW k \in Seq(Bytes),
         NEW pre \in Seq(Bytes), NEW suf \in Seq(Bytes)
  PROVE  Joined(r, k \o pre, suf) = Joined(r, k, pre \o suf)
  <1>1. r \o (k \o pre) = (r \o k) \o pre
    BY BytesAssociative
  <1>2. r \o k \in Seq(Bytes)
    BY ConcatProperties
  <1>3. ((r \o k) \o pre) \o suf = (r \o k) \o (pre \o suf)
    BY <1>2, BytesAssociative
  <1> QED
    BY <1>1, <1>3 DEF Joined

\* Whatever way sendInLoop() takes, the data goes behind all that was sent, or
\* nowhere.
LEMMA SendInLoopStream ==
  ASSUME TypeOK, NEW data \in Seq(Bytes), NEW q, SendInLoop(data, q),
         received' = received
  PROVE  \/ Stream' = Stream /\ (state = "kDisconnected" \/ loopPc' = "SIGPIPE")
         \/ Stream' = Stream \o data
         \/ Stream' = (Stream \o <<Garbage>>) \o data /\ usage.fills
  <1>1. /\ received \in Seq(Bytes) /\ socket \in Seq(Bytes)
        /\ outputBuffer \in Seq(Bytes) /\ <<Garbage>> \in Seq(Bytes)
    BY DEF TypeOK, Bytes
  <1>2. received \o socket \in Seq(Bytes)
    BY <1>1, ConcatProperties
  <1>3. CASE /\ UNCHANGED <<outputBuffer, socket>>
             /\ state = "kDisconnected" \/ loopPc' = "SIGPIPE"
    BY <1>3 DEF Stream
  <1>4. CASE MayWriteDirectly /\ WriteDirectly(data, q)
    <2>1. outputBuffer = <<>> /\ Stream = received \o socket
      BY <1>4, StreamType DEF MayWriteDirectly
    <2>2. PICK n \in 1 .. Len(data) :
            /\ socket' = socket \o SubSeq(data, 1, n)
            /\ IF n = Len(data)
                 THEN outputBuffer' = outputBuffer
                 ELSE outputBuffer' = outputBuffer \o SubSeq(data, n + 1, Len(data))
      BY <1>4 DEF WriteDirectly, BufferOutput
    <2>3. PICK pre, suf : /\ pre = SubSeq(data, 1, n)
                          /\ suf = SubSeq(data, n + 1, Len(data))
      OBVIOUS
    <2>4. /\ n \in 1 .. Len(data)
          /\ received \in Seq(Bytes) /\ socket \in Seq(Bytes)
      BY <1>1, <2>2
    <2>5. /\ pre \in Seq(Bytes) /\ suf \in Seq(Bytes) /\ pre \o suf = data
          /\ n = Len(data) => pre = data
      BY <2>3, <2>4, SplitSeq
    <2>6. Joined(received, socket \o pre, suf) = Joined(received, socket, data)
      <3>1. pre \in Seq(Bytes) /\ suf \in Seq(Bytes)
        BY <2>5
      <3>2. Joined(received, socket \o pre, suf)
               = Joined(received, socket, pre \o suf)
        BY <2>4, <3>1, KernelTakes
      <3> QED
        BY <2>5, <3>2
    <2>7. /\ socket' = socket \o pre
          /\ outputBuffer' = IF n = Len(data) THEN <<>> ELSE <<>> \o suf
      BY <2>1, <2>2, <2>3
    <2>8. CASE n = Len(data)
      <3>1. socket \o data \in Seq(Bytes)
        BY <1>1, ConcatProperties
      <3>2. received \o (socket \o data) \in Seq(Bytes)
        BY <1>1, <3>1, ConcatProperties
      <3>4. received \o (socket \o data) = (received \o socket) \o data
        BY <1>1, BytesAssociative
      <3>3. Stream' = received \o (socket \o data) \o <<>>
        BY <2>7, <2>8, <2>5 DEF Stream
      <3> QED
        BY <2>1, <3>2, <3>3, <3>4, ConcatEmptySeq
    <2>9. CASE n # Len(data)
      <3>1. outputBuffer' = suf
        BY <2>7, <2>9, <2>5, ConcatEmptySeq
      <3> QED
        BY <2>1, <2>7, <2>6, <3>1 DEF Stream, Joined
    <2> QED
      BY <2>8, <2>9
  <1>5. CASE MayWriteDirectly /\ WriteWouldBlock(data, q)
    <2>1. /\ usage.fills /\ outputBuffer = <<>> /\ Stream = received \o socket
          /\ socket' = socket
          /\ outputBuffer' = outputBuffer \o (<<Garbage>> \o data)
      BY <1>5, StreamType DEF MayWriteDirectly, WriteWouldBlock, BufferOutput
    <2>2. <<Garbage>> \o data \in Seq(Bytes)
      BY <1>1, ConcatProperties
    <2>3. outputBuffer' = <<Garbage>> \o data
      BY <2>1, <2>2, ConcatEmptySeq
    <2>4. Stream' = (received \o socket) \o (<<Garbage>> \o data)
      BY <2>1, <2>3 DEF Stream
    <2>5. Stream' = ((received \o socket) \o <<Garbage>>) \o data
      BY <1>1, <1>2, <2>4, BytesAssociative
    <2> QED
      BY <2>1, <2>5
  <1>6. CASE BufferOutput(data, q) /\ UNCHANGED socket
    <2>1. Stream' = (received \o socket) \o (outputBuffer \o data)
      BY <1>6 DEF BufferOutput, Stream
    <2>2. Stream' = ((received \o socket) \o outputBuffer) \o data
      BY <1>1, <1>2, <2>1, BytesAssociative
    <2> QED
      BY <2>2 DEF Stream
  <1> QED
    BY <1>3, <1>4, <1>5, <1>6 DEF SendInLoop

\* Steps that send nothing.
LEMMA QuietStep ==
  ASSUME TypeOK, StreamInv, Stream' = Stream, UNCHANGED <<usage, sent>>,
         Orderly /\ state' # "kDisconnected" => state # "kDisconnected",
         NEW q \in Seq(Functors), NEW kinds, "send" \notin kinds, Grows(q, kinds),
         \/ q = queue
         \/ queue # <<>> /\ q = Tail(queue) /\ Head(queue).op # "send"
  PROVE  StreamInv'
  <1>1. queue \in Seq(Functors)
    BY StreamType
  <1>2. /\ Ordered(Stream, queue, sent) => Ordered(Stream, q, sent)
        /\ Whole(Stream, queue, sent) => Whole(Stream, q, sent)
    BY <1>1, StreamTail
  <1>3. /\ Ordered(Stream, q, sent) => Ordered(Stream, queue', sent)
        /\ Whole(Stream, q, sent) => Whole(Stream, queue', sent)
    BY StreamGrows
  <1>4. Ordered(Stream', queue', sent')
    BY <1>2, <1>3 DEF StreamInv
  <1>5. NothingLost'
    <2>1. Orderly' = Orderly
      BY DEF Orderly
    <2> QED
      BY <1>2, <1>3, <2>1 DEF StreamInv, NothingLost
  <1> QED
    BY <1>4, <1>5 DEF StreamInv

\* sendInLoop() of a message that is the oldest of the queue, or the loop's own:
\* s is the stream with it, and n what has been sent then.
LEMMA SendStep ==
  ASSUME TypeOK, TypeOK', SInv', NEW data \in Seq(Bytes), NEW q \in Seq(Functors),
         SendInLoop(data, q), UNCHANGED <<lifeVars, state>>,
         \A s \in Seq(Bytes) :
            Ordered(s, queue, sent) =>
               Ordered(s, q, sent') /\ Ordered(s \o data, q, sent'),
         Whole(Stream, queue, sent) => Whole(Stream \o data, q, sent'),
         StreamInv
  PROVE  StreamInv'
  <1>1. /\ Stream \in Seq(Bytes) /\ queue \in Seq(Functors)
        /\ <<Garbage>> \in Seq(Bytes)
    BY StreamType DEF Bytes
  <1>2. \/ Stream' = Stream /\ (state = "kDisconnected" \/ loopPc' = "SIGPIPE")
        \/ Stream' = Stream \o data
        \/ Stream' = (Stream \o <<Garbage>>) \o data /\ usage.fills
    BY SendInLoopStream DEF lifeVars
  <1>3. Grows(q, Notices) /\ "send" \notin Notices
    BY SendInLoopKeeps DEF Notices
  <1>4. Stream \o <<Garbage>> \in Seq(Bytes)
    BY <1>1, ConcatProperties
  <1>5. Ordered(Stream, queue, sent)
    BY DEF StreamInv
  <1>6. Ordered(Stream \o <<Garbage>>, queue, sent)
    BY <1>1, <1>5, StreamGarbage
  <1>7. Ordered(Stream', q, sent')
    BY <1>1, <1>2, <1>4, <1>5, <1>6
  <1>8. Ordered(Stream', queue', sent')
    BY <1>3, <1>7, StreamGrows
  <1>9. NothingLost'
    <2>1. SUFFICES ASSUME Orderly', ~usage'.fills, state' # "kDisconnected"
                   PROVE  Whole(Stream', queue', sent')
      BY DEF NothingLost
    <2>2. Orderly /\ ~usage.fills /\ state # "kDisconnected"
      BY <2>1 DEF Orderly, lifeVars
    <2>3. loopPc' # "SIGPIPE"
      BY <2>1 DEF SInv, SurvivesOrderlyUse, Alive, Deaths
    <2>4. Stream' = Stream \o data
      BY <1>2, <2>2, <2>3
    <2>5. Whole(Stream', q, sent')
      BY <2>2, <2>4 DEF StreamInv, NothingLost
    <2> QED
      BY <1>3, <2>5, StreamGrows
  <1> QED
    BY <1>8, <1>9 DEF StreamInv

LEMMA RunSendStream ==
  ASSUME IInv, IInv', SInv', StreamInv, RunSend
  PROVE  StreamInv'
  <1>1. TypeOK /\ TypeOK' /\ Opening
    BY DEF IInv, Life
  <1>2. queue \in Seq(Functors) /\ Stream \in Seq(Bytes)
    BY <1>1, StreamType
  <1>3. /\ queue # <<>> /\ Head(queue).op = "send"
        /\ UNCHANGED <<lifeVars, state, sent>>
    BY DEF RunSend
  <1>4. CASE SendInLoop(Head(queue).data, Tail(queue))
    <2>1. Head(queue).data \in Seq(Bytes) /\ Tail(queue) \in Seq(Functors)
      BY <1>1, <1>3, PopKeeps DEF Functors
    <2>2. \A s \in Seq(Bytes) :
            Ordered(s, queue, sent) =>
               /\ Ordered(s, Tail(queue), sent)
               /\ Ordered(s \o Head(queue).data, Tail(queue), sent)
      BY <1>2, <1>3, StreamTail, StreamHead
    <2>3. Whole(Stream, queue, sent) =>
             Whole(Stream \o Head(queue).data, Tail(queue), sent)
      BY <1>2, <1>3, StreamHead
    <2>4. sent' = sent
      BY <1>3
    <2> DEFINE d == Head(queue).data
               q == Tail(queue)
    <2> HIDE DEF d, q
    <2>5. /\ d \in Seq(Bytes) /\ q \in Seq(Functors) /\ SendInLoop(d, q)
          /\ \A s \in Seq(Bytes) :
                Ordered(s, queue, sent) =>
                   Ordered(s, q, sent') /\ Ordered(s \o d, q, sent')
          /\ Whole(Stream, queue, sent) => Whole(Stream \o d, q, sent')
      BY <1>4, <2>1, <2>2, <2>3, <2>4 DEF d, q
    <2> QED
      BY <1>1, <1>3, <2>5, SendStep
  <1>5. CASE UNCHANGED <<events, outputBuffer, socket, queue>>
    <2>1. Stream' = Stream
      BY <1>3, <1>5 DEF Stream, lifeVars
    <2>2. Grows(queue, {})
      BY <1>2, <1>5, GrowsNot
    <2>3. UNCHANGED <<usage, sent, state>>
      BY <1>3 DEF lifeVars
    <2> QED
      BY <1>1, <1>2, <2>1, <2>2, <2>3, QuietStep
  <1> QED
    BY <1>4, <1>5 DEF RunSend

LEMMA LoopSendStream ==
  ASSUME IInv, IInv', SInv', StreamInv, LoopSend
  PROVE  StreamInv'
  <1>1. TypeOK /\ TypeOK'
    BY DEF IInv
  <1>2. queue \in Seq(Functors) /\ Stream \in Seq(Bytes)
    BY <1>1, StreamType
  <1>3. OneMore("loop", sent, sent')
    <2>1. /\ sent \in [Callers -> 0 .. MaxSends] /\ sent["loop"] < MaxSends
          /\ sent' = [sent EXCEPT !["loop"] = sent["loop"] + 1]
          /\ sent' \in [Callers -> 0 .. MaxSends] /\ "loop" \in Callers
      BY <1>1, TcpConnectionAssumption DEF LoopSend, TypeOK
    <2> QED
      BY <2>1 DEF OneMore
  <1> DEFINE d == Message("loop", sent'["loop"])
  <1>4. "loop" \in Callers
    BY TcpConnectionAssumption
  <1>5. d \in Seq(Bytes)
    BY <1>3, <1>4, NextMessage
  <1>6. \A s \in Seq(Bytes) :
            /\ Ordered(s, queue, sent) =>
                  Ordered(s, queue, sent') /\ Ordered(s \o d, queue, sent')
            /\ Whole(s, queue, sent) => Whole(s \o d, queue, sent')
    BY <1>2, <1>3, StreamMessage
  <1>7. SendInLoop(d, queue) /\ UNCHANGED <<lifeVars, state>>
    BY DEF LoopSend
  <1> HIDE DEF d
  <1> QED
    BY <1>1, <1>2, <1>5, <1>6, <1>7, SendStep

LEMMA SendQueueStream ==
  ASSUME IInv, IInv', StreamInv, NEW t \in Threads, SendQueue(t)
  PROVE  StreamInv'
  <1>1. TypeOK /\ TypeOK' /\ Calling
    BY DEF IInv, Life
  <1>2. /\ queue \in Seq(Functors) /\ queue' \in Seq(Functors)
        /\ Stream \in Seq(Bytes)
    BY <1>1, StreamType DEF TypeOK, Functors
  <1>3. /\ UNCHANGED <<restVars, state>>
        /\ queue' = Append(queue, Sending(t, sent'))
    BY DEF SendQueue, Sending
  <1>4. OneMore(t, sent, sent')
    <2>1. /\ sent \in [Callers -> 0 .. MaxSends] /\ sent[t] < MaxSends
          /\ sent' = [sent EXCEPT ![t] = sent[t] + 1]
          /\ sent' \in [Callers -> 0 .. MaxSends] /\ t \in Callers
      BY <1>1 DEF SendQueue, At, Calling, TypeOK, Threads
    <2> QED
      BY <2>1 DEF OneMore
  <1>5. /\ Ordered(Stream, queue, sent) => Ordered(Stream, queue', sent')
        /\ Whole(Stream, queue, sent) => Whole(Stream, queue', sent')
    BY <1>2, <1>3, <1>4, StreamQueue
  <1>6. Stream' = Stream /\ Orderly' = Orderly /\ UNCHANGED <<usage, state>>
    BY <1>3 DEF Stream, Orderly, restVars, lifeVars
  <1> QED
    BY <1>5, <1>6 DEF StreamInv, NothingLost

\* The functors that send nothing, the channel's events but EPOLLOUT, and what
\* the loop, the threads and the server do besides leave the stream as it is.
LEMMA QuietStream ==
  ASSUME IInv, StreamInv,
         \/ ConnectEstablished \/ RunShutdown \/ RunWriteComplete
         \/ RunHighWaterMark \/ ConnectDestroyed \/ HandleRead \/ HandleEof
         \/ LoopShutdown \/ Return \/ ServerRemoves \/ ServerDies \/ PeerCloses
  PROVE  StreamInv'
  <1>1. TypeOK /\ Opening
    BY DEF IInv, Life
  <1>2. queue \in Seq(Functors)
    BY <1>1, StreamType
  <1>3. /\ UNCHANGED <<usage, received, socket, outputBuffer, sent>>
        /\ state' # "kDisconnected" => state # "kDisconnected"
    <2>1. CASE ConnectEstablished
      <3>1. state = "kConnecting"
        BY <1>1, <2>1, PopKeeps DEF ConnectEstablished, RunsFunctor
      <3> QED
        BY <2>1, <3>1 DEF ConnectEstablished, lifeVars
    <2>2. CASE RunShutdown \/ ConnectDestroyed
      BY <2>2 DEF RunShutdown, ConnectDestroyed
    <2>3. CASE RunWriteComplete \/ RunHighWaterMark
      BY <2>3 DEF RunWriteComplete, RunHighWaterMark, lifeVars
    <2>4. CASE HandleRead \/ HandleEof \/ Return
      BY <2>4 DEF HandleRead, HandleEof, HandleReadError, HandleClose, Return,
         lifeVars
    <2>5. CASE LoopShutdown
      BY <2>5 DEF LoopShutdown, MayShutdown
    <2>6. CASE ServerRemoves \/ ServerDies \/ PeerCloses
      BY <2>6 DEF ServerRemoves, ServerDies, PeerCloses, connVars
    <2> QED
      BY <2>1, <2>2, <2>3, <2>4, <2>5, <2>6
  <1>4. \/ queue' = queue
        \/ queue # <<>> /\ queue' = Tail(queue) /\ Head(queue).op # "send"
        \/ queue' = Append(queue, Functor("connectDestroyed"))
    <2>1. CASE \/ ConnectEstablished \/ RunShutdown \/ RunWriteComplete
               \/ RunHighWaterMark \/ ConnectDestroyed
      BY <2>1 DEF ConnectEstablished, RunShutdown, RunWriteComplete,
         RunHighWaterMark, ConnectDestroyed, RunsFunctor
    <2>2. CASE HandleRead \/ HandleEof \/ LoopShutdown \/ Return \/ PeerCloses
      BY <2>2 DEF HandleRead, HandleEof, HandleReadError, HandleClose,
         LoopShutdown, Return, PeerCloses
    <2>3. CASE ServerRemoves \/ ServerDies
      BY <2>3 DEF ServerRemoves, ServerDies
    <2> QED
      BY <2>1, <2>2, <2>3
  <1>5. PICK q \in Seq(Functors) :
          /\ Grows(q, {"connectDestroyed"})
          /\ \/ q = queue
             \/ queue # <<>> /\ q = Tail(queue) /\ Head(queue).op # "send"
    <2>1. CASE queue' = queue
      BY <1>2, <2>1, GrowsNot
    <2>2. CASE queue # <<>> /\ queue' = Tail(queue) /\ Head(queue).op # "send"
      BY <1>2, <2>2, SendsTail, GrowsNot
    <2>3. CASE queue' = Append(queue, Functor("connectDestroyed"))
      <3>1. Functor("connectDestroyed") \in Functors
            /\ Functor("connectDestroyed").op \in {"connectDestroyed"}
        BY FunctorType DEF Ops
      <3> QED
        BY <1>2, <2>3, <3>1, GrowsByOne
    <2> QED
      BY <1>4, <2>1, <2>2, <2>3
  <1>6. Stream' = Stream
    BY <1>3 DEF Stream
  <1> QED
    BY <1>1, <1>3, <1>5, <1>6, QuietStep

LEMMA HandleWriteStream ==
  ASSUME IInv, StreamInv, HandleWrite
  PROVE  StreamInv'
  <1>1. TypeOK
    BY DEF IInv
  <1>2. /\ received \in Seq(Bytes) /\ socket \in Seq(Bytes)
        /\ outputBuffer \in Seq(Bytes) /\ queue \in Seq(Functors)
    BY <1>1 DEF TypeOK, Functors
  <1>3. UNCHANGED <<usage, state, received, sent>>
    BY DEF HandleWrite
  <1>4. Stream' = Stream
    <2>1. CASE UNCHANGED <<outputBuffer, socket>>
      BY <1>3, <2>1 DEF Stream
    <2>2. ASSUME NEW n \in 1 .. Len(outputBuffer),
                 socket' = socket \o SubSeq(outputBuffer, 1, n),
                 outputBuffer' = SubSeq(outputBuffer, n + 1, Len(outputBuffer))
          PROVE  Stream' = Stream
      <3>1. PICK pre, suf : /\ pre = SubSeq(outputBuffer, 1, n)
                            /\ suf = SubSeq(outputBuffer, n + 1, Len(outputBuffer))
        OBVIOUS
      <3>2. Joined(received, socket \o pre, suf)
               = Joined(received, socket, outputBuffer)
        <4>1. /\ pre \in Seq(Bytes) /\ suf \in Seq(Bytes)
              /\ pre \o suf = outputBuffer
          BY <1>2, <2>2, <3>1, SplitSeq
        <4>2. pre \in Seq(Bytes) /\ suf \in Seq(Bytes)
          BY <4>1
        <4>3. Joined(received, socket \o pre, suf)
                 = Joined(received, socket, pre \o suf)
          BY <1>2, <4>2, KernelTakes
        <4> QED
          BY <4>1, <4>3
      <3>3. socket' = socket \o pre /\ outputBuffer' = suf
        BY <2>2, <3>1
      <3> QED
        BY <1>3, <3>2, <3>3 DEF Stream, Joined
    <2> QED
      BY <2>1, <2>2 DEF HandleWrite
  <1>5. Grows(queue, Notices) /\ "send" \notin Notices
    BY <1>2, GrowsNot, QueueWriteCompleteGrows
    DEF HandleWrite, OutputWritten, Notices
  <1> QED
    BY <1>1, <1>2, <1>3, <1>4, <1>5, QuietStep

LEMMA ThreadStream ==
  ASSUME IInv, IInv', StreamInv, NEW t \in Threads,
         ThreadStarts(t) \/ ThreadGoesOn(t)
  PROVE  StreamInv'
  <1>1. TypeOK /\ Calling /\ StaysUp
    BY DEF IInv, Life
  <1>2. queue \in Seq(Functors)
    BY <1>1, StreamType
  <1>3. CASE SendQueue(t)
    BY <1>3, SendQueueStream
  <1>4. CASE ~SendQueue(t)
    <2>1. UNCHANGED restVars /\ sent' = sent
      BY <1>4 DEF ThreadStarts, ThreadGoesOn, SendCheck, ShutdownCheck,
         ShutdownSet, ShutdownQueue
    <2>2. Stream' = Stream /\ UNCHANGED <<usage, sent>>
      BY <2>1 DEF Stream, restVars, lifeVars
    <2>3. queue' = queue \/ queue' = Append(queue, Functor("shutdown"))
      BY <1>4 DEF ThreadStarts, ThreadGoesOn, SendCheck, ShutdownCheck,
         ShutdownSet, ShutdownQueue
    <2>4. Functor("shutdown") \in Functors /\ Functor("shutdown").op \in {"shutdown"}
      BY FunctorType DEF Ops
    <2>5. Grows(queue, {"shutdown"})
      BY <1>2, <2>3, <2>4, GrowsNot, GrowsByOne
    <2>6. Orderly => state # "kDisconnected" \/ state' = state
      <3>1. CASE ShutdownSet(t)
        <4>1. pc[t] = "setState" /\ t \in usage.shutdown /\ t # "loop"
          BY <1>1, <3>1 DEF ShutdownSet, At, Calling, Threads
        <4> QED
          BY <1>1, <4>1 DEF Orderly, StaysUp
      <3> QED
        BY <1>4, <3>1 DEF ThreadStarts, ThreadGoesOn, SendCheck, ShutdownCheck,
           ShutdownQueue
    <2> QED
      BY <1>1, <1>2, <2>2, <2>5, <2>6, QuietStep
  <1> QED
    BY <1>3, <1>4

LEMMA PeerReadsStream ==
  ASSUME IInv, StreamInv, PeerReads
  PROVE  StreamInv'
  <1>1. TypeOK
    BY DEF IInv
  <1>2. /\ received \in Seq(Bytes) /\ socket \in Seq(Bytes) /\ socket # <<>>
        /\ outputBuffer \in Seq(Bytes) /\ queue \in Seq(Functors)
        /\ received' = Append(received, Head(socket)) /\ socket' = Tail(socket)
        /\ UNCHANGED <<connVars, queue>>
    BY <1>1 DEF TypeOK, Functors, PeerReads
  <1>3. received' \o socket' = received \o socket
    <2>1. Head(socket) \in Bytes /\ Tail(socket) \in Seq(Bytes)
      BY <1>2, HeadTailProperties
    <2>2. /\ <<Head(socket)>> \in Seq(Bytes)
          /\ received' = received \o <<Head(socket)>>
      BY <1>2, <2>1, AppendIsConcat
    <2>3. <<Head(socket)>> \o Tail(socket) = socket
      <3>1. 1 \in 1 .. Len(socket) /\ Len(socket) \in 1 .. Len(socket)
        BY <1>2, EmptySeq
      <3>2. SubSeq(socket, 1, Len(socket))
               = <<socket[1]>> \o SubSeq(socket, 1 + 1, Len(socket))
        BY <1>2, <3>1, SubSeqRecursiveFirst
      <3>3. /\ SubSeq(socket, 1, Len(socket)) = socket
            /\ Tail(socket) = SubSeq(socket, 2, Len(socket))
        BY <1>2, SubSeqFull, TailIsSubSeq
      <3>4. socket[1] = Head(socket)
        BY <1>2
      <3> QED
        BY <3>2, <3>3, <3>4
    <2> QED
      BY <1>2, <2>1, <2>2, <2>3, BytesAssociative
  <1>4. Stream' = Stream
    BY <1>2, <1>3 DEF Stream, connVars
  <1>5. UNCHANGED <<usage, state, sent>>
    BY <1>2 DEF connVars
  <1>6. Grows(queue, {})
    BY <1>2, GrowsNot
  <1> QED
    BY <1>1, <1>2, <1>4, <1>5, <1>6, QuietStep

LEMMA PeerResetsStream ==
  ASSUME IInv, StreamInv, PeerResets
  PROVE  StreamInv'
  <1>1. TypeOK
    BY DEF IInv
  <1>2. /\ received \in Seq(Bytes) /\ socket \in Seq(Bytes)
        /\ outputBuffer \in Seq(Bytes) /\ queue \in Seq(Functors)
        /\ socket' = <<>> /\ usage.peer = "resets"
        /\ UNCHANGED <<connVars, queue, received>>
    BY <1>1 DEF TypeOK, Functors, PeerResets
  <1>3. Ordered(received \o outputBuffer, queue, sent)
    BY <1>2, StreamCut DEF StreamInv, Stream
  <1>4. Stream' = received \o outputBuffer
    BY <1>2, ConcatEmptySeq DEF Stream, connVars
  <1>5. Ordered(Stream', queue', sent')
    BY <1>2, <1>3, <1>4 DEF connVars
  <1>6. NothingLost'
    BY <1>2 DEF NothingLost, Orderly, connVars
  <1> QED
    BY <1>5, <1>6 DEF StreamInv

LEMMA InitStream ==
  ASSUME Init
  PROVE  StreamInv
  <1>1. Stream = <<>> /\ Len(<<>>) = 0
    <2>1. <<>> \in Seq(Bytes)
      BY EmptySeq
    <2>2. <<>> \o <<>> = <<>>
      BY <2>1, ConcatEmptySeq
    <2> QED
      BY <2>2 DEF Init, Stream
  <1>2. Sends(queue) = {}
    <2>1. Functor("connectEstablished").op = "connectEstablished"
      BY FunctorType DEF Ops
    <2> QED
      BY <2>1 DEF Init, Sends
  <1>3. Ordered(Stream, queue, sent)
    BY <1>1, <1>2 DEF Ordered, InOrder, SentIn
  <1>4. Whole(Stream, queue, sent)
    <2>1. \A c \in Callers : sent[c] * MessageLen = 0
      BY TcpConnectionAssumption DEF Init
    <2> QED
      BY <2>1 DEF Whole
  <1> QED
    BY <1>3, <1>4 DEF StreamInv, NothingLost

LEMMA StepStream ==
  ASSUME IInv, IInv', SInv', StreamInv, [Next]_vars
  PROVE  StreamInv'
  <1>1. CASE RunFunctor
    BY <1>1, RunSendStream, QuietStream DEF RunFunctor
  <1>2. CASE HandleRead \/ HandleEof \/ Return \/ ServerRemoves
    BY <1>2, QuietStream
  <1>3. CASE HandleWrite
    BY <1>3, HandleWriteStream
  <1>4. CASE UserCode
    BY <1>4, LoopSendStream, QuietStream DEF UserCode
  <1>5. ASSUME NEW t \in Threads, ThreadStarts(t) \/ ThreadGoesOn(t)
        PROVE  StreamInv'
    BY <1>5, ThreadStream
  <1>6. CASE PeerReads
    BY <1>6, PeerReadsStream
  <1>7. CASE Environment
    BY <1>7, PeerResetsStream, QuietStream DEF Environment
  <1>8. CASE UNCHANGED vars
    BY <1>8 DEF vars, StreamInv, NothingLost, Orderly, Stream
  <1> QED
    BY <1>1, <1>2, <1>3, <1>4, <1>5, <1>6, <1>7, <1>8 DEF Next

LEMMA InOrderSent ==
  ASSUME IInv, StreamInv
  PROVE  StreamInOrder
  <1>1. Stream \in Seq(Bytes)
    BY StreamType DEF IInv
  <1>2. DOMAIN Stream = 1 .. Len(Stream)
    BY <1>1, LenProperties
  <1>3. InOrder(Stream)
    BY DEF StreamInv, Ordered
  <1> QED
    BY <1>2, <1>3 DEF InOrder, Ahead, StreamInOrder

\* A connection whose write side is shut down has neither output nor, in an
\* orderly usage, a queued message.
LEMMA FinIsLast ==
  ASSUME IInv, SInv, StreamInv
  PROVE  FinAfterData
  <1>1. SUFFICES ASSUME Orderly, ~usage.fills, finSent, state # "kDisconnected",
                        NEW c \in Callers, NEW n \in 1 .. sent[c] * MessageLen
                 PROVE  \E i \in DOMAIN (received \o socket) :
                           (received \o socket)[i] = [by |-> c, at |-> n]
    BY DEF FinAfterData
  <1>2. TypeOK /\ WritingIffOutput /\ Used /\ Ending
    BY DEF IInv, SInv
  <1>3. outputBuffer = <<>>
    BY <1>1, <1>2 DEF WritingIffOutput, Ending
  <1>4. Stream = received \o socket /\ Stream \in Seq(Bytes)
    BY <1>2, <1>3, StreamType
  <1>5. NoneIn(queue, "send")
    BY <1>1, <1>2 DEF Used, Orderly
  <1>6. Sends(queue) = {}
    BY <1>5 DEF NoneIn, Sends
  <1>7. Whole(Stream, queue, sent)
    BY <1>1 DEF StreamInv, NothingLost
  <1>8. Has(Stream, [by |-> c, at |-> n])
    BY <1>1, <1>6, <1>7 DEF Whole
  <1>9. DOMAIN Stream = 1 .. Len(Stream)
    BY <1>4, LenProperties
  <1> QED
    BY <1>4, <1>8, <1>9 DEF Has

LEMMA SendsInOrder == Spec => [](StreamInOrder /\ FinAfterData)
  <1>1. Init => StreamInv /\ SInv
    BY InitStream, InitSurvives
  <1>2. IInv /\ IInv' /\ SInv /\ StreamInv /\ [Next]_vars => SInv' /\ StreamInv'
    BY StepSurvives, StepStream
  <1>3. IInv /\ SInv /\ StreamInv => StreamInOrder /\ FinAfterData
    BY InOrderSent, FinIsLast
  <1> QED
    BY <1>1, <1>2, <1>3, Invariant, PTL DEF Spec

\* sendInLoop() and handleWrite() keep each caller's bytes in the order of its
\* calls, whatever the usage, the interleaving and the sizes of the buffers.
THEOREM SentInOrder == Spec => []StreamInOrder
  BY SendsInOrder, PTL

\* In the orderly usages shutdownWrite() waits for every byte sent before it.
THEOREM FinIsAfterData == Spec => []FinAfterData
  BY SendsInOrder, PTL
=============================================================================
