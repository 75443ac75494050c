----------------------------- MODULE LoggerProofs -----------------------------
(***************************************************************************)
(* The proofs about AsyncLogging, and about Logger, which EXTENDS it.      *)
(*                                                                         *)
(* AsyncLogging alone, for any lines, buffer size and backlog: front end   *)
(* and back end always have the buffers they need, a full buffer is always *)
(* announced, and lines reach the file in order and once.  Then Logger:    *)
(* each of its steps is one of AsyncLogging's or leaves it alone, so all   *)
(* of this holds whatever the statements log and whenever one of them ends *)
(* the process; and the lines they hand over are whole, by induction over  *)
(* the parts of a line.                                                    *)
(***************************************************************************)
EXTENDS Logger, SequenceLemmas

(* The buffers: threadFunc() and append() always have one.                 *)

(* What the three invariants need of each other: where a buffer can only be
   an empty one or none, which variables hold buffers at all, and that the back
   end exists once start() was called.                                     *)
Shape ==
    /\ backend \in BackendPcs
    /\ backend = "none" <=> owner = "created"
    /\ currentBuffer \in Seq(Lines)
    /\ nextBuffer \in {<<>>, NoBuffer}
    /\ newBuffer1 \in {<<>>, NoBuffer}
    /\ newBuffer2 \in {<<>>, NoBuffer}
    /\ buffers \in Seq(Seq(Lines))
    /\ buffersToWrite \in Seq(Seq(Lines))
    /\ backend = "none" => buffersToWrite = <<>>

IInv == Shape /\ SparesReady /\ FrontEndReady /\ FullBufferNotified

LEMMA EmptyIsSeq ==
  ASSUME NEW T
  PROVE  <<>> \in Seq(T)
  OBVIOUS

LEMMA EmptyIsNoNull == <<>> # NoBuffer
  BY EmptyIsSeq, AsyncLoggingAssumption

LEMMA PutIsSeq ==
  ASSUME NEW line \in Lines, NEW b \in Seq(Lines)
  PROVE  Put(line, b) \in Seq(Lines)
  BY DEF Put

LEMMA InitInductive == Init => IInv
  BY EmptyIsNoNull DEF Init, IInv, Shape, SparesReady, FrontEndReady,
       FullBufferNotified, BackendPcs

(* append() leaves a current buffer, and queues one whenever it uses up the
   next one.                                                               *)
LEMMA AppendStep ==
  ASSUME IInv, NEW line \in Lines, AppendLine(line)
  PROVE  IInv'
<1>1. CASE Fits(line, currentBuffer)
  <2>1. currentBuffer' \in Seq(Lines)
    BY <1>1, PutIsSeq DEF IInv, Shape, AppendLine
  <2>2. UNCHANGED <<nextBuffer, buffers, signalled, localVars, backend, owner>>
    BY <1>1 DEF AppendLine
  <2> QED
    BY <2>1, <2>2, AsyncLoggingAssumption DEF IInv, Shape, SparesReady,
         FrontEndReady, FullBufferNotified, localVars, Missing
<1>2. CASE ~Fits(line, currentBuffer)
  <2>1. AppendToNext(line) /\ UNCHANGED <<localVars, backend, owner>>
    BY <1>2 DEF AppendLine
  <2>2. Spare \in Seq(Lines)
    BY EmptyIsSeq DEF Spare, IInv, Shape
  <2>3. currentBuffer' \in Seq(Lines)
    BY <2>1, <2>2, PutIsSeq DEF AppendToNext
  <2>4. buffers' \in Seq(Seq(Lines)) /\ buffers' # <<>>
    BY <2>1, AppendNotEmpty DEF AppendToNext, IInv, Shape
  <2> QED
    BY <2>1, <2>3, <2>4, AsyncLoggingAssumption DEF AppendToNext, IInv, Shape,
         SparesReady, FrontEndReady, FullBufferNotified, localVars, Missing
<1> QED
  BY <1>1, <1>2

(* The swap is reached with both spares there; it uses up the second one only
   if the front end has filled two buffers.                                *)
LEMMA SwapStep ==
  ASSUME IInv, SwapBuffers, backend \in {"lock", "wait"}
  PROVE  IInv'
<1>1. newBuffer1 = <<>> /\ newBuffer2 = <<>>
  BY DEF IInv, SparesReady
<1>2. /\ buffersToWrite' \in Seq(Seq(Lines))
      /\ Len(buffersToWrite') = Len(buffers) + 1
  BY AppendNotEmpty DEF SwapBuffers, IInv, Shape
<1>3. Shape'
  BY <1>1, <1>2 DEF SwapBuffers, IInv, Shape, BackendPcs
<1>4. FrontEndReady'
  BY <1>1, EmptyIsNoNull DEF SwapBuffers, FrontEndReady, IInv, Shape
<1>5. Len(buffersToWrite') >= Missing'
  <2>1. CASE nextBuffer = NoBuffer
    <3>1. buffers # <<>>
      BY <2>1 DEF IInv, FrontEndReady
    <3>2. Len(buffers) \in Nat /\ Len(buffers) >= 1
      BY <3>1 DEF IInv, Shape
    <3> QED
      BY <1>2, <3>2 DEF Missing
  <2>2. CASE nextBuffer # NoBuffer
    <3>1. newBuffer2' = <<>>
      BY <1>1, <2>2 DEF SwapBuffers
    <3>2. Len(buffers) \in Nat
      BY DEF IInv, Shape
    <3> QED
      BY <1>2, <3>1, <3>2, EmptyIsNoNull DEF Missing
  <2> QED
    BY <2>1, <2>2
<1> QED
  BY <1>3, <1>4, <1>5 DEF SwapBuffers, IInv, SparesReady, FullBufferNotified

(* What was written is enough to replace the spares, even after a backlog was
   cut down to two buffers.                                                *)
LEMMA WriteStep ==
  ASSUME IInv, WriteBuffers
  PROVE  IInv'
<1>1. Len(buffersToWrite) \in Nat /\ Len(buffersToWrite) >= Missing
  BY DEF WriteBuffers, IInv, Shape, SparesReady
<1>2. Missing \in 0 .. 2
  BY DEF Missing
<1>3. Len(Kept) \in Nat /\ Len(Kept) >= Missing
  <2>1. CASE Len(buffersToWrite) > MaxBacklog
    <3>1. Len(SubSeq(buffersToWrite, 1, 2)) = 2
      BY <1>1, <2>1, AsyncLoggingAssumption DEF IInv, Shape
    <3> QED
      BY <1>2, <2>1, <3>1 DEF Kept
  <2>2. CASE ~(Len(buffersToWrite) > MaxBacklog)
    BY <1>1, <2>2 DEF Kept
  <2> QED
    BY <2>1, <2>2
<1>4. newBuffer1' = <<>>
  <2>1. CASE newBuffer1 = NoBuffer
    <3>1. Missing >= 1
      BY <2>1 DEF Missing
    <3> QED
      BY <1>2, <1>3, <2>1, <3>1 DEF WriteBuffers, Recycle
  <2>2. CASE newBuffer1 # NoBuffer
    BY <2>2 DEF WriteBuffers, Recycle, IInv, Shape
  <2> QED
    BY <2>1, <2>2
<1>5. newBuffer2' = <<>>
  BY <1>3 DEF WriteBuffers, Recycle, IInv, Shape
<1>6. /\ backend = "write" /\ backend' = "test" /\ buffersToWrite' = <<>>
      /\ UNCHANGED <<currentBuffer, nextBuffer, buffers, owner>>
  BY DEF WriteBuffers, frontVars
<1>7. <<>> \in Seq(Seq(Lines))
  BY EmptyIsSeq
<1> QED
  BY <1>4, <1>5, <1>6, <1>7 DEF IInv, Shape, SparesReady, FrontEndReady,
       FullBufferNotified, BackendPcs

(* The other steps leave the front end's buffers alone.                     *)
LEMMA ControlStep ==
  ASSUME IInv,
         \/ TestRunning \/ Wait \/ Start \/ Stop \/ StopNotify \/ StopJoin
         \/ UNCHANGED vars
  PROVE  IInv'
<1>1. CASE TestRunning
  BY <1>1 DEF TestRunning, IInv, Shape, SparesReady, FrontEndReady,
       FullBufferNotified, BackendPcs, frontVars
<1>2. CASE Wait
  BY <1>2 DEF Wait, IInv, Shape, SparesReady, FrontEndReady,
       FullBufferNotified, BackendPcs, frontVars, localVars
<1>3. CASE Start
  BY <1>3 DEF Start, IInv, Shape, SparesReady, FrontEndReady,
       FullBufferNotified, BackendPcs, frontVars
<1>4. CASE Stop
  BY <1>4 DEF Stop, IInv, Shape, SparesReady, FrontEndReady,
       FullBufferNotified, BackendPcs, frontVars, localVars, Missing
<1>5. CASE StopNotify
  BY <1>5 DEF StopNotify, IInv, Shape, SparesReady, FrontEndReady,
       FullBufferNotified, BackendPcs, frontVars, localVars, Missing
<1>6. CASE StopJoin
  BY <1>6 DEF StopJoin, IInv, Shape, SparesReady, FrontEndReady,
       FullBufferNotified, BackendPcs, frontVars, localVars, Missing
<1>7. CASE UNCHANGED vars
  BY <1>7 DEF vars, IInv, Shape, SparesReady, FrontEndReady,
       FullBufferNotified, BackendPcs, frontVars, localVars, Missing
<1> QED
  BY <1>1, <1>2, <1>3, <1>4, <1>5, <1>6, <1>7

LEMMA StepInductive == IInv /\ [Next]_vars => IInv'
<1> SUFFICES ASSUME IInv, [Next]_vars PROVE IInv'
  OBVIOUS
<1>1. CASE \E line \in Lines : AppendLine(line)
  BY <1>1, AppendStep
<1>2. CASE SwapAtOnce \/ SwapAfterWait
  <2>1. SwapBuffers
    BY <1>2 DEF SwapAtOnce, SwapAfterWait
  <2>2. backend \in {"lock", "wait"}
    BY <1>2 DEF SwapAtOnce, SwapAfterWait
  <2> QED
    BY <2>1, <2>2, SwapStep
<1>3. CASE WriteBuffers
  BY <1>3, WriteStep
<1>4. CASE \/ TestRunning \/ Wait \/ Start \/ Stop \/ StopNotify \/ StopJoin
           \/ UNCHANGED vars
  BY <1>4, ControlStep
<1> QED
  BY <1>1, <1>2, <1>3, <1>4 DEF Next, Backend

LEMMA Inductive == Spec => []IInv
  BY InitInductive, StepInductive, PTL DEF Spec

(* threadFunc()'s commented-out assertions (AsyncLogging.cc:46-48, 68, 96,
   104): both spares are there and empty at every round's start, and there is
   always a written buffer to replace one that was given away.  And append()
   never dereferences a null currentBuffer_, however the swap and the appends
   interleave.                                                             *)
THEOREM BuffersAlwaysReady == Spec => []BuffersReady
<1>1. IInv => BuffersReady
  BY DEF IInv, BuffersReady
<1> QED
  BY <1>1, Inductive, PTL

(* A back end asleep in wait_for() while a full buffer waits in buffers_ has
   been notified: no notification of append() is lost.                     *)
THEOREM FullBufferAlwaysNotified == Spec => []FullBufferNotified
<1>1. IInv => FullBufferNotified
  BY DEF IInv
<1> QED
  BY <1>1, Inductive, PTL

-----------------------------------------------------------------------------
(* The order of the lines on their way from append() to the file.          *)

(* A line taken last comes last.                                            *)
LEMMA BeforeStays ==
  ASSUME NEW T, NEW s \in Seq(T), NEW e \in T, NEW l, NEW m, Before(s, l, m)
  PROVE  Before(Append(s, e), l, m)
<1>1. \A a \in DOMAIN s : a \in DOMAIN Append(s, e) /\ Append(s, e)[a] = s[a]
  OBVIOUS
<1> QED
  BY <1>1 DEF Before

LEMMA LastAfter ==
  ASSUME NEW T, NEW s \in Seq(T), NEW e \in T, NEW l \in ToSet(s)
  PROVE  Before(Append(s, e), l, e)
<1>1. PICK a \in DOMAIN s : s[a] = l
  BY DEF ToSet
<1>2. /\ a \in DOMAIN Append(s, e) /\ Append(s, e)[a] = l
      /\ Len(s) + 1 \in DOMAIN Append(s, e) /\ Append(s, e)[Len(s) + 1] = e
      /\ a < Len(s) + 1
  BY <1>1
<1> QED
  BY <1>2 DEF Before

LEMMA InOrderTaken ==
  ASSUME NEW T, NEW w \in Seq(T), NEW s \in Seq(T), NEW e \in T, InOrder(w, s)
  PROVE  InOrder(w, Append(s, e))
  BY BeforeStays DEF InOrder

LEMMA InOrderAppend ==
  ASSUME NEW T, NEW w \in Seq(T), NEW s \in Seq(T), NEW e \in T, InOrder(w, s),
         ToSet(w) \subseteq ToSet(s)
  PROVE  InOrder(Append(w, e), Append(s, e))
<1> SUFFICES ASSUME NEW i \in DOMAIN Append(w, e), NEW j \in DOMAIN Append(w, e),
                    i < j
             PROVE  Before(Append(s, e), Append(w, e)[i], Append(w, e)[j])
  BY DEF InOrder
<1>1. /\ DOMAIN Append(w, e) = 1 .. Len(w) + 1 /\ Len(w) \in Nat
      /\ DOMAIN w = 1 .. Len(w)
      /\ \A k \in 1 .. Len(w) : Append(w, e)[k] = w[k]
      /\ Append(w, e)[Len(w) + 1] = e
  OBVIOUS
<1>2. i \in DOMAIN w /\ Append(w, e)[i] = w[i]
  BY <1>1
<1>3. CASE j \in 1 .. Len(w)
  <2>1. Before(s, w[i], w[j]) /\ Append(w, e)[j] = w[j]
    BY <1>1, <1>2, <1>3 DEF InOrder
  <2> QED
    BY <1>2, <2>1, BeforeStays
<1>4. CASE j = Len(w) + 1
  <2>1. w[i] \in ToSet(s)
    BY <1>2 DEF ToSet
  <2> QED
    BY <1>1, <1>2, <1>4, <2>1, LastAfter
<1> QED
  BY <1>1, <1>3, <1>4

(* What is left of a sequence without its middle is in order, and if no line  *)
(* was taken twice the middle's lines are gone.                              *)
LEMMA MiddleOut ==
  ASSUME NEW T, NEW p \in Seq(T), NEW r \in Seq(T), NEW q \in Seq(T), NEW s,
         InOrder((p \o r) \o q, s)
  PROVE  InOrder(p \o q, s)
<1> DEFINE w == (p \o r) \o q
           At(i) == IF i <= Len(p) THEN i ELSE i + Len(r)
<1>1. Len(p) \in Nat /\ Len(q) \in Nat /\ Len(r) \in Nat
  OBVIOUS
<1>2. DOMAIN (p \o q) = 1 .. Len(p) + Len(q)
  OBVIOUS
<1>3. ASSUME NEW i \in DOMAIN (p \o q)
      PROVE  At(i) \in DOMAIN w /\ w[At(i)] = (p \o q)[i]
  <2>1. i \in 1 .. Len(p) + Len(q)
    BY <1>2
  <2>2. DOMAIN w = 1 .. Len(p) + Len(r) + Len(q)
    OBVIOUS
  <2>3. CASE i <= Len(p)
    <3>1. w[i] = (p \o r)[i] /\ (p \o r)[i] = p[i] /\ (p \o q)[i] = p[i]
      BY <1>1, <2>1, <2>3
    <3> QED
      BY <1>1, <2>1, <2>2, <2>3, <3>1
  <2>4. CASE ~(i <= Len(p))
    <3>1. w[i + Len(r)] = q[(i + Len(r)) - (Len(p) + Len(r))]
      BY <1>1, <2>1, <2>4
    <3>2. (p \o q)[i] = q[i - Len(p)]
      BY <1>1, <2>1, <2>4
    <3> QED
      BY <1>1, <2>1, <2>2, <2>4, <3>1, <3>2
  <2> QED
    BY <2>3, <2>4
<1>4. ASSUME NEW i \in DOMAIN (p \o q), NEW j \in DOMAIN (p \o q), i < j
      PROVE  At(i) < At(j)
  BY <1>1, <1>2, <1>4
<1> HIDE DEF w, At
<1>5. InOrder(w, s)
  BY DEF w
<1> QED
  BY <1>3, <1>4, <1>5 DEF InOrder

Once(s) == \A a, b \in DOMAIN s : s[a] = s[b] => a = b

LEMMA BeforeIsNotSame ==
  ASSUME NEW s, Once(s), NEW l, Before(s, l, l), DOMAIN s \subseteq Nat
  PROVE  FALSE
  BY DEF Once, Before

LEMMA MiddleGone ==
  ASSUME NEW T, NEW p \in Seq(T), NEW r \in Seq(T), NEW q \in Seq(T),
         NEW s \in Seq(T), InOrder((p \o r) \o q, s), Once(s),
         NEW l \in ToSet(r)
  PROVE  l \notin ToSet(p) \cup ToSet(q)
<1> DEFINE w == (p \o r) \o q
<1>1. Len(p) \in Nat /\ Len(q) \in Nat /\ Len(r) \in Nat
  OBVIOUS
<1>2. DOMAIN w = 1 .. Len(p) + Len(r) + Len(q)
  OBVIOUS
<1>3. PICK k \in 1 .. Len(r) : r[k] = l
  BY DEF ToSet
<1>4. w[Len(p) + k] = l /\ Len(p) + k \in DOMAIN w
  <2>1. w[Len(p) + k] = (p \o r)[Len(p) + k]
    BY <1>1, <1>3
  <2>2. (p \o r)[Len(p) + k] = r[k]
    BY <1>1, <1>3
  <2> QED
    BY <1>1, <1>2, <1>3, <2>1, <2>2
<1>5. DOMAIN s \subseteq Nat
  OBVIOUS
<1>6. InOrder(w, s)
  OBVIOUS
<1>7. ASSUME l \in ToSet(p) PROVE FALSE
  <2>1. PICK i \in 1 .. Len(p) : p[i] = l
    BY <1>7 DEF ToSet
  <2>2. w[i] = (p \o r)[i] /\ (p \o r)[i] = p[i] /\ i \in DOMAIN w /\ i < Len(p) + k
    BY <1>1, <1>2, <1>3, <2>1
  <2> HIDE DEF w
  <2>3. Before(s, l, l)
    BY <1>4, <1>6, <2>1, <2>2 DEF InOrder
  <2> QED
    BY <1>5, <2>3, BeforeIsNotSame
<1>8. ASSUME l \in ToSet(q) PROVE FALSE
  <2>1. PICK i \in 1 .. Len(q) : q[i] = l
    BY <1>8 DEF ToSet
  <2> DEFINE n == i + (Len(p) + Len(r))
  <2>2. w[n] = q[i] /\ n \in DOMAIN w /\ Len(p) + k < n
    BY <1>1, <1>2, <1>3, <2>1
  <2> HIDE DEF w, n
  <2>3. Before(s, l, l)
    BY <1>4, <1>6, <2>1, <2>2 DEF InOrder
  <2> QED
    BY <1>5, <2>3, BeforeIsNotSame
<1> QED
  BY <1>7, <1>8

LEMMA NullIsNoBuffer == NoBuffer \notin Buffers
  BY AsyncLoggingAssumption DEF Buffers

LEMMA PutFits ==
  ASSUME NEW line \in Lines, NEW b \in Buffers
  PROVE  Put(line, b) \in Buffers
  BY AsyncLoggingAssumption DEF Put, Fits, Buffers

LEMMA EmptyFits ==
  <<>> \in Buffers /\ <<>> \in Seq(Buffers) /\ <<>> \in Seq(Lines)
<1>1. <<>> \in Seq(Lines) /\ Len(<<>>) = 0 /\ <<>> \in Seq(Buffers)
  OBVIOUS
<1> QED
  BY <1>1, AsyncLoggingAssumption DEF Buffers

LEMMA BuffersHoldLines ==
  /\ Buffers \subseteq Seq(Lines)
  /\ Seq(Buffers) \subseteq Seq(Seq(Lines))
<1>1. Buffers \subseteq Seq(Lines)
  BY DEF Buffers
<1>2. ASSUME NEW s \in Seq(Buffers) PROVE s \in Seq(Seq(Lines))
  <2>1. s \in [1 .. Len(s) -> Buffers] /\ Len(s) \in Nat
    OBVIOUS
  <2>2. s \in [1 .. Len(s) -> Seq(Lines)]
    BY <1>1, <2>1
  <2> QED
    BY <2>1, <2>2
<1> QED
  BY <1>1, <1>2

LEMMA KeptIsBuffers ==
  ASSUME TypeOK
  PROVE  Kept \in Seq(Buffers)
<1>1. buffersToWrite \in Seq(Buffers)
  BY DEF TypeOK
<1>2. CASE Len(buffersToWrite) > MaxBacklog
  <2>1. SubSeq(buffersToWrite, 1, 2) \in Seq(Buffers)
    BY <1>1, <1>2, AsyncLoggingAssumption
  <2> QED
    BY <1>2, <2>1 DEF Kept
<1>3. CASE ~(Len(buffersToWrite) > MaxBacklog)
  BY <1>1, <1>3 DEF Kept
<1> QED
  BY <1>2, <1>3

LEMMA FlattenIsLines ==
  ASSUME NEW s \in Seq(Buffers)
  PROVE  FlattenSeq(s) \in Seq(Lines)
  BY BuffersHoldLines, FlattenIsSeq

(* The parts of TypeOK that a step may disturb on its own.                  *)
LEMMA InitTypes == Init => TypeOK
<1> SUFFICES ASSUME Init PROVE TypeOK
  OBVIOUS
<1> QED
  BY EmptyFits DEF Init, TypeOK, BackendPcs, OwnerPcs

LEMMA AppendTypes ==
  ASSUME TypeOK, FrontEndReady, NEW line \in Lines, AppendLine(line)
  PROVE  TypeOK'
<1>1. currentBuffer \in Buffers /\ buffers \in Seq(Buffers)
  BY DEF TypeOK, FrontEndReady
<1>2. /\ appended' \in Seq(Lines) /\ dropped' \subseteq Lines
      /\ currentBuffer' \in Buffers
      /\ nextBuffer' \in Buffers \cup {NoBuffer}
      /\ buffers' \in Seq(Buffers) /\ signalled' \in BOOLEAN
  <2>1. appended' \in Seq(Lines) /\ dropped' \subseteq Lines
    BY DEF AppendLine, TypeOK
  <2>2. CASE Fits(line, currentBuffer)
    BY <1>1, <2>1, <2>2, PutFits DEF AppendLine, TypeOK
  <2>3. CASE ~Fits(line, currentBuffer)
    <3>1. Spare \in Buffers
      BY EmptyFits DEF Spare, TypeOK
    <3>2. AppendToNext(line)
      BY <2>3 DEF AppendLine
    <3>3. buffers' \in Seq(Buffers)
      BY <1>1, <3>2, AppendNotEmpty DEF AppendToNext
    <3> QED
      BY <2>1, <3>1, <3>2, <3>3, PutFits DEF AppendToNext
  <2> QED
    BY <2>2, <2>3
<1>3. UNCHANGED <<localVars, running, backend, owner>>
  BY DEF AppendLine
<1> QED
  BY <1>2, <1>3 DEF TypeOK, localVars

LEMMA SwapTypes ==
  ASSUME TypeOK, FrontEndReady, SwapBuffers
  PROVE  TypeOK'
<1>1. currentBuffer \in Buffers /\ buffers \in Seq(Buffers)
  BY DEF TypeOK, FrontEndReady
<1>2. buffersToWrite' \in Seq(Buffers)
  BY <1>1, AppendNotEmpty DEF SwapBuffers
<1> QED
  BY <1>2, EmptyFits DEF SwapBuffers, TypeOK, BackendPcs

LEMMA WriteTypes ==
  ASSUME TypeOK, WriteBuffers
  PROVE  TypeOK'
<1>1. file' \in Seq(Lines) /\ flushed' \in Nat
  <2>1. FlattenSeq(Kept) \in Seq(Lines) /\ file \in Seq(Lines)
    BY KeptIsBuffers, FlattenIsLines DEF TypeOK
  <2>2. file' = file \o FlattenSeq(Kept) /\ flushed' = Len(file')
    BY DEF WriteBuffers, FlushFile
  <2> QED
    BY <2>1, <2>2
<1>2. dropped' \subseteq Lines
  <2>1. ToSet(FlattenSeq(buffersToWrite)) \subseteq Lines
    BY FlattenIsLines, ToSetIn DEF TypeOK
  <2> QED
    BY <2>1 DEF WriteBuffers, TypeOK
<1>3. {newBuffer1', newBuffer2'} \subseteq Buffers \cup {NoBuffer}
  BY EmptyFits DEF WriteBuffers, Recycle, TypeOK
<1>4. buffersToWrite' = <<>> /\ backend' = "test"
  BY DEF WriteBuffers
<1>5. UNCHANGED <<frontVars, running, signalled, owner>>
  BY DEF WriteBuffers
<1> QED
  BY <1>1, <1>2, <1>3, <1>4, <1>5, EmptyFits DEF TypeOK, frontVars, BackendPcs

LEMMA ControlTypes ==
  ASSUME TypeOK,
         \/ TestRunning \/ Wait \/ Start \/ Stop \/ StopNotify \/ StopJoin
         \/ UNCHANGED vars
  PROVE  TypeOK'
<1> USE DEF TypeOK, BackendPcs, OwnerPcs, frontVars, localVars
<1>1. CASE TestRunning
  BY <1>1 DEF TestRunning
<1>2. CASE Wait
  BY <1>2 DEF Wait
<1>3. CASE Start
  <2>1. newBuffer1' \in Buffers /\ newBuffer2' \in Buffers
    BY <1>3, EmptyFits DEF Start
  <2>2. /\ running' \in BOOLEAN /\ owner' \in OwnerPcs /\ backend' \in BackendPcs
        /\ UNCHANGED <<frontVars, buffersToWrite, file, flushed, signalled, dropped>>
    BY <1>3 DEF Start
  <2> QED
    BY <2>1, <2>2
<1>4. CASE Stop
  <2>1. Len(appended) \in Nat
    OBVIOUS
  <2> QED
    BY <1>4, <2>1 DEF Stop
<1>5. CASE StopNotify
  BY <1>5 DEF StopNotify
<1>6. CASE StopJoin
  BY <1>6 DEF StopJoin
<1>7. CASE UNCHANGED vars
  BY <1>7 DEF vars
<1> QED
  BY <1>1, <1>2, <1>3, <1>4, <1>5, <1>6, <1>7

(* What the order needs of itself: no line was taken twice, and only lines that
   were taken are dropped.                                                 *)
Trail ==
    /\ InOrderOnce
    /\ Once(appended)
    /\ dropped \subseteq ToSet(appended)

LEMMA InitTrail == Init => Trail
<1> SUFFICES ASSUME Init PROVE Trail
  OBVIOUS
<1>1. Way = <<>>
  BY FlattenEmpty DEF Init, Way
<1>2. appended = <<>> /\ dropped = {}
  BY DEF Init
<1>3. ToSet(<<>>) = {}
  BY DEF ToSet
<1> QED
  BY <1>1, <1>2, <1>3 DEF Trail, InOrderOnce, InOrder, Once

(* The way in three parts: what is written, what is next, what comes then.  *)
Rest == FlattenSeq(buffers) \o currentBuffer

LEMMA WayParts ==
  ASSUME TypeOK, FrontEndReady
  PROVE  /\ file \in Seq(Lines) /\ appended \in Seq(Lines)
         /\ FlattenSeq(buffersToWrite) \in Seq(Lines)
         /\ FlattenSeq(buffers) \in Seq(Lines)
         /\ currentBuffer \in Seq(Lines)
         /\ Rest \in Seq(Lines)
         /\ Way \in Seq(Lines)
         /\ Way = (file \o FlattenSeq(buffersToWrite)) \o Rest
<1>1. /\ file \in Seq(Lines) /\ appended \in Seq(Lines)
      /\ currentBuffer \in Buffers
      /\ buffers \in Seq(Buffers) /\ buffersToWrite \in Seq(Buffers)
  BY DEF TypeOK, FrontEndReady
<1>2. /\ FlattenSeq(buffersToWrite) \in Seq(Lines)
      /\ FlattenSeq(buffers) \in Seq(Lines)
      /\ currentBuffer \in Seq(Lines)
  BY <1>1, FlattenIsLines, BuffersHoldLines
<1>3. Rest \in Seq(Lines)
  BY <1>2 DEF Rest
<1>4. Way = (file \o FlattenSeq(buffersToWrite)) \o Rest
  BY <1>1, <1>2 DEF Way, Rest
<1>5. Way \in Seq(Lines)
  BY <1>1, <1>2, <1>3, <1>4
<1> QED
  BY <1>1, <1>2, <1>3, <1>4, <1>5

(* append() puts its line at the end of the way, if a buffer can hold it.   *)
LEMMA LinesAssociative ==
  ASSUME NEW r \in Seq(Lines), NEW s \in Seq(Lines), NEW t \in Seq(Lines)
  PROVE  (r \o s) \o t = r \o (s \o t)
  BY ConcatAssociative

LEMMA AppendExtendsWay ==
  ASSUME TypeOK, FrontEndReady, Shape, NEW line \in Lines, AppendLine(line)
  PROVE  Way' = IF line \in LongLines THEN Way ELSE Append(Way, line)
<1> DEFINE put == IF line \in LongLines THEN <<>> ELSE <<line>>
<1>1. put \in Seq(Lines)
  OBVIOUS
<1>2. UNCHANGED <<file, buffersToWrite>>
  BY DEF AppendLine, localVars
<1>3. /\ Rest' = Rest \o put
      /\ FlattenSeq(buffers') \in Seq(Lines) /\ currentBuffer' \in Seq(Lines)
  <2>1. FlattenSeq(buffers) \in Seq(Lines) /\ currentBuffer \in Seq(Lines)
    BY WayParts
  <2>2. CASE Fits(line, currentBuffer)
    <3>1. /\ buffers' = buffers /\ currentBuffer' = Append(currentBuffer, line)
          /\ line \notin LongLines
      BY <2>2 DEF AppendLine, Put, Fits
    <3>2. Append(currentBuffer, line) = currentBuffer \o put
      BY <2>1, <3>1
    <3> HIDE DEF put
    <3>3. Rest' = FlattenSeq(buffers) \o (currentBuffer \o put)
      BY <3>1, <3>2 DEF Rest
    <3>4. currentBuffer \o put \in Seq(Lines)
      BY <1>1, <2>1
    <3> QED
      BY <1>1, <2>1, <3>1, <3>2, <3>3, <3>4, LinesAssociative DEF Rest
  <2>3. CASE ~Fits(line, currentBuffer)
    <3>1. Spare = <<>>
      BY DEF Spare, Shape
    <3>2. currentBuffer' = put
      BY <2>3, <3>1, AsyncLoggingAssumption DEF AppendLine, AppendToNext, Put, Fits
    <3>3. FlattenSeq(buffers') = FlattenSeq(buffers) \o currentBuffer
      <4>1. buffers' = Append(buffers, currentBuffer)
        BY <2>3 DEF AppendLine, AppendToNext
      <4>2. buffers \in Seq(Seq(Lines))
        BY BuffersHoldLines DEF TypeOK
      <4> QED
        BY <2>1, <4>1, <4>2, FlattenAppend
    <3>4. FlattenSeq(buffers) \o currentBuffer \in Seq(Lines)
      BY <2>1
    <3> QED
      BY <1>1, <3>2, <3>3, <3>4 DEF Rest
  <2> QED
    BY <2>2, <2>3
<1>4. Way' = Way \o put
  <2> DEFINE p == file \o FlattenSeq(buffersToWrite)
  <2>1. p \in Seq(Lines) /\ Rest \in Seq(Lines)
    BY WayParts
  <2>2. Way = p \o Rest
    BY WayParts
  <2>3. Way' = (p \o FlattenSeq(buffers')) \o currentBuffer'
    BY <1>2 DEF Way
  <2> HIDE DEF p, put
  <2>4. (p \o FlattenSeq(buffers')) \o currentBuffer' = p \o Rest'
    BY <1>3, <2>1, LinesAssociative DEF Rest
  <2>5. (p \o Rest) \o put = p \o (Rest \o put)
    BY <1>1, <2>1, LinesAssociative
  <2> QED
    BY <1>3, <2>2, <2>3, <2>4, <2>5
<1> QED
  BY <1>4, WayParts
  
LEMMA AppendTrail ==
  ASSUME TypeOK, FrontEndReady, Shape, Trail, NEW line \in Lines,
         AppendLine(line)
  PROVE  Trail'
<1>1. Way \in Seq(Lines) /\ appended \in Seq(Lines)
  BY WayParts
<1>2. line \notin ToSet(appended) /\ appended' = Append(appended, line)
  BY DEF AppendLine
<1>3. ToSet(appended') = ToSet(appended) \cup {line}
  BY <1>1, <1>2, ToSetAppend
<1>4. Once(appended')
  <2>1. \A a \in DOMAIN appended : appended[a] # line
    BY <1>2 DEF ToSet
  <2> QED
    BY <1>1, <1>2, <2>1 DEF Once, Trail
<1>5. InOrder(Way, appended) /\ ToSet(Way) = ToSet(appended) \ dropped
  BY DEF Trail, InOrderOnce
<1>6. CASE line \in LongLines
  <2>1. Way' = Way /\ dropped' = dropped \cup {line}
    BY <1>6, AppendExtendsWay DEF AppendLine
  <2>2. InOrder(Way', appended')
    BY <1>1, <1>2, <1>5, <2>1, InOrderTaken
  <2>3. ToSet(Way') = ToSet(appended') \ dropped'
    BY <1>2, <1>3, <1>5, <2>1
  <2>4. dropped' \subseteq ToSet(appended')
    BY <1>3, <2>1 DEF Trail
  <2> QED
    BY <1>4, <2>2, <2>3, <2>4 DEF Trail, InOrderOnce
<1>7. CASE line \notin LongLines
  <2>1. Way' = Append(Way, line) /\ dropped' = dropped
    BY <1>7, AppendExtendsWay DEF AppendLine
  <2>2. InOrder(Way', appended')
    BY <1>1, <1>2, <1>5, <2>1, InOrderAppend
  <2>3. ToSet(Way') = ToSet(Way) \cup {line}
    BY <1>1, <2>1, ToSetAppend
  <2>4. dropped' \subseteq ToSet(appended')
    BY <1>3, <2>1 DEF Trail
  <2>5. ToSet(Way') = ToSet(appended') \ dropped'
    BY <1>2, <1>3, <1>5, <2>1, <2>3 DEF Trail
  <2> QED
    BY <1>4, <2>2, <2>4, <2>5 DEF Trail, InOrderOnce
<1> QED
  BY <1>6, <1>7

(* What does not move a line.                                               *)
LEMMA SameWay ==
  ASSUME Trail, Way' = Way, UNCHANGED <<appended, dropped>>
  PROVE  Trail'
  BY DEF Trail, InOrderOnce, InOrder, Once, Before

(* The swap takes the rest of the way as it is.                             *)
LEMMA SwapTrail ==
  ASSUME TypeOK, IInv, Trail, SwapBuffers, backend \in {"lock", "wait"}
  PROVE  Trail'
<1>1. buffersToWrite = <<>> /\ newBuffer1 = <<>> /\ FrontEndReady
  BY DEF IInv, SparesReady
<1>2. /\ file' = file /\ buffers' = <<>> /\ currentBuffer' = <<>>
      /\ buffersToWrite' = Append(buffers, currentBuffer)
      /\ UNCHANGED <<appended, dropped>>
  BY <1>1 DEF SwapBuffers
<1>3. FlattenSeq(buffersToWrite') = Rest
  <2>1. buffers \in Seq(Seq(Lines)) /\ currentBuffer \in Seq(Lines)
    BY <1>1, BuffersHoldLines, WayParts DEF TypeOK
  <2> QED
    BY <1>2, <2>1, FlattenAppend DEF Rest
<1>4. FlattenSeq(buffersToWrite) = <<>> /\ Rest' = <<>>
  BY <1>1, <1>2, FlattenEmpty DEF Rest
<1>5. Way = file \o Rest
  <2>1. Way = (file \o <<>>) \o Rest /\ file \in Seq(Lines)
    BY <1>1, <1>4, WayParts
  <2> QED
    BY <2>1
<1>6. Way' = (file \o Rest) \o <<>>
  <2>1. FlattenSeq(buffers') = <<>> /\ currentBuffer' = <<>>
    BY <1>2, FlattenEmpty
  <2>2. Way' = file \o Rest \o <<>> \o <<>>
    BY <1>2, <1>3, <2>1 DEF Way
  <2> QED
    BY <1>1, <2>2, WayParts
<1>7. Way' = Way
  BY <1>1, <1>5, <1>6, WayParts
<1> QED
  BY <1>2, <1>7, SameWay

(* What is kept of a backlog is its beginning.                              *)
LEMMA KeptFirst ==
  ASSUME TypeOK
  PROVE  \E r \in Seq(Lines) :
           FlattenSeq(buffersToWrite) = FlattenSeq(Kept) \o r
<1>1. buffersToWrite \in Seq(Seq(Lines))
  BY BuffersHoldLines DEF TypeOK
<1>2. CASE Len(buffersToWrite) > MaxBacklog
  <2>1. Kept = SubSeq(buffersToWrite, 1, 2) /\ 2 \in 1 .. Len(buffersToWrite)
    BY <1>1, <1>2, AsyncLoggingAssumption DEF Kept
  <2> QED
    BY <1>1, <2>1, FlattenPrefix
<1>3. CASE ~(Len(buffersToWrite) > MaxBacklog)
  <2>1. Kept = buffersToWrite
    BY <1>3 DEF Kept
  <2>2. FlattenSeq(buffersToWrite) \in Seq(Lines) /\ <<>> \in Seq(Lines)
    BY <1>1, FlattenIsSeq, EmptyFits
  <2>3. FlattenSeq(buffersToWrite) = FlattenSeq(buffersToWrite) \o <<>>
    BY <2>2
  <2> QED
    BY <2>1, <2>2, <2>3
<1> QED
  BY <1>2, <1>3

LEMMA WriteTrail ==
  ASSUME TypeOK, FrontEndReady, Trail, WriteBuffers
  PROVE  Trail'
<1> DEFINE k == FlattenSeq(Kept)
           p == file \o k
<1>1. PICK r \in Seq(Lines) : FlattenSeq(buffersToWrite) = k \o r
  BY KeptFirst
<1>2. /\ file' = p /\ buffersToWrite' = <<>>
      /\ dropped' = dropped \cup (ToSet(k \o r) \ ToSet(k))
      /\ UNCHANGED <<buffers, currentBuffer, appended>>
  BY <1>1 DEF WriteBuffers, frontVars
<1>3. /\ k \in Seq(Lines) /\ p \in Seq(Lines) /\ Rest \in Seq(Lines)
      /\ appended \in Seq(Lines)
  BY KeptIsBuffers, FlattenIsLines, WayParts
<1>4. Way = (p \o r) \o Rest
  <2>1. Way = (file \o (k \o r)) \o Rest
    BY <1>1, WayParts
  <2>2. file \in Seq(Lines)
    BY WayParts
  <2> HIDE DEF k
  <2>3. file \o (k \o r) = p \o r
    BY <1>1, <1>3, <2>2, LinesAssociative
  <2> QED
    BY <2>1, <2>3
<1>5. Way' = p \o Rest
  <2> HIDE DEF k, p
  <2>1. Way' = p \o FlattenSeq(<<>>) \o FlattenSeq(buffers) \o currentBuffer
    BY <1>2 DEF Way
  <2>2. p \o FlattenSeq(<<>>) = p
    BY <1>3, FlattenEmpty
  <2>3. FlattenSeq(buffers) \in Seq(Lines) /\ currentBuffer \in Seq(Lines)
    BY WayParts
  <2>4. (p \o FlattenSeq(buffers)) \o currentBuffer = p \o Rest
    BY <1>3, <2>3, LinesAssociative DEF Rest
  <2> QED
    BY <2>1, <2>2, <2>4
<1> HIDE DEF k, p
<1>6. /\ InOrder(Way, appended) /\ Once(appended)
      /\ ToSet(Way) = ToSet(appended) \ dropped
      /\ dropped \subseteq ToSet(appended)
  BY DEF Trail, InOrderOnce
<1>7. InOrder(Way', appended')
  BY <1>2, <1>3, <1>4, <1>5, <1>6, MiddleOut
<1>8. ToSet(r) \cap (ToSet(p) \cup ToSet(Rest)) = {}
  <2>1. InOrder((p \o r) \o Rest, appended)
    BY <1>4, <1>6
  <2> QED
    BY <1>3, <1>6, <2>1, MiddleGone
<1>9. /\ ToSet(Way) = (ToSet(p) \cup ToSet(r)) \cup ToSet(Rest)
      /\ ToSet(Way') = ToSet(p) \cup ToSet(Rest)
      /\ ToSet(k \o r) = ToSet(k) \cup ToSet(r)
  <2>1. p \o r \in Seq(Lines)
    BY <1>3
  <2>2. ToSet(p \o r) = ToSet(p) \cup ToSet(r)
    BY <1>3, ToSetConcat
  <2>3. ToSet((p \o r) \o Rest) = ToSet(p \o r) \cup ToSet(Rest)
    BY <1>3, <2>1, ToSetConcat
  <2>4. ToSet(p \o Rest) = ToSet(p) \cup ToSet(Rest)
    BY <1>3, ToSetConcat
  <2>5. ToSet(k \o r) = ToSet(k) \cup ToSet(r)
    BY <1>3, ToSetConcat
  <2> QED
    BY <1>4, <1>5, <2>2, <2>3, <2>4, <2>5
<1>10. ToSet(k) \subseteq ToSet(p)
  BY <1>3, WayParts, ToSetConcat DEF p
<1>11. dropped' = dropped \cup ToSet(r)
  BY <1>2, <1>8, <1>9, <1>10
<1>12. ToSet(Way') = ToSet(appended') \ dropped'
  BY <1>2, <1>6, <1>8, <1>9, <1>11
<1>13. dropped' \subseteq ToSet(appended')
  BY <1>2, <1>6, <1>9, <1>11
<1> QED
  BY <1>2, <1>6, <1>7, <1>12, <1>13 DEF Trail, InOrderOnce, Once

LEMMA ControlTrail ==
  ASSUME Trail,
         \/ TestRunning \/ Wait \/ Start \/ Stop \/ StopNotify \/ StopJoin
         \/ UNCHANGED vars
  PROVE  Trail'
<1>1. UNCHANGED <<file, buffersToWrite, buffers, currentBuffer, appended, dropped>>
  BY DEF TestRunning, Wait, Start, Stop, StopNotify, StopJoin, vars, frontVars,
         localVars
<1> QED
  BY <1>1, SameWay DEF Way

(* The inductive invariant of the order.  That a line was appended once
   (Once) is what lets a line that is dropped leave no copy behind it.     *)
IOrder == IInv /\ TypeOK /\ Trail

LEMMA OrderInductive == IOrder /\ [Next]_vars => IOrder'
<1> SUFFICES ASSUME IOrder, [Next]_vars PROVE IOrder'
  OBVIOUS
<1>1. IInv /\ IInv' /\ TypeOK /\ Trail
  BY StepInductive DEF IOrder
<1>2. FrontEndReady /\ Shape
  BY <1>1 DEF IInv
<1>3. TypeOK' /\ Trail'
  <2>1. ASSUME NEW line \in Lines, AppendLine(line) PROVE TypeOK' /\ Trail'
    BY <1>1, <1>2, <2>1, AppendTypes, AppendTrail
  <2>2. CASE SwapAtOnce \/ SwapAfterWait
    <3>1. SwapBuffers /\ backend \in {"lock", "wait"}
      BY <2>2 DEF SwapAtOnce, SwapAfterWait
    <3> QED
      BY <1>1, <1>2, <3>1, SwapTypes, SwapTrail
  <2>3. CASE WriteBuffers
    BY <1>1, <1>2, <2>3, WriteTypes, WriteTrail
  <2>4. CASE \/ TestRunning \/ Wait \/ Start \/ Stop \/ StopNotify \/ StopJoin
             \/ UNCHANGED vars
    BY <1>1, <2>4, ControlTypes, ControlTrail
  <2> QED
    BY <2>1, <2>2, <2>3, <2>4 DEF Next, Backend
<1> QED
  BY <1>1, <1>3 DEF IOrder

LEMMA InitOrder == Init => IOrder
  BY InitInductive, InitTypes, InitTrail DEF IOrder

(* Lines reach the file in the order in which append() took them, each of them
   once, and none is lost but those that are counted as dropped: whatever was
   taken and not dropped is, in that order, first in the file, then in
   buffersToWrite, in buffers_ and in currentBuffer_ (append() and threadFunc(),
   AsyncLogging.cc:14-34, 40-119).                                         *)
THEOREM LinesInOrderOnce == Spec => []InOrderOnce
<1>1. IOrder => InOrderOnce
  BY DEF IOrder, Trail
<1> QED
  BY <1>1, InitOrder, OrderInductive, PTL DEF Spec

(* What DroppedOnlyLate says of a step.                                    *)
LEMMA DropsOnlyLate ==
  ASSUME TypeOK, [Next]_vars, NEW l \in dropped' \ dropped
  PROVE  \/ l \in LongLines
         \/ /\ Len(buffersToWrite) > MaxBacklog
            /\ l \notin ToSet(buffersToWrite[1]) \cup ToSet(buffersToWrite[2])
<1>1. CASE \E line \in Lines : AppendLine(line)
  BY <1>1 DEF AppendLine
<1>2. CASE WriteBuffers
  <2>1. l \notin ToSet(FlattenSeq(Kept)) /\ l \in ToSet(FlattenSeq(buffersToWrite))
    BY <1>2 DEF WriteBuffers
  <2>2. Len(buffersToWrite) > MaxBacklog /\ Kept = SubSeq(buffersToWrite, 1, 2)
    BY <2>1 DEF Kept
  <2>3. /\ buffersToWrite \in Seq(Seq(Lines))
        /\ Len(buffersToWrite) \in Nat /\ Len(buffersToWrite) >= 2
    BY <2>2, BuffersHoldLines, AsyncLoggingAssumption DEF TypeOK
  <2>4. buffersToWrite[1] \in Seq(Lines) /\ buffersToWrite[2] \in Seq(Lines)
    BY <2>3
  <2>5. FlattenSeq(Kept) = buffersToWrite[1] \o buffersToWrite[2]
    <3>1. Kept = Append(Append(<<>>, buffersToWrite[1]), buffersToWrite[2])
      <4> DEFINE two == Append(Append(<<>>, buffersToWrite[1]), buffersToWrite[2])
      <4>1. /\ two \in Seq(Seq(Lines)) /\ Len(two) = 2
            /\ two[1] = buffersToWrite[1] /\ two[2] = buffersToWrite[2]
        BY <2>4
      <4>2. /\ Kept \in Seq(Seq(Lines)) /\ Len(Kept) = 2
            /\ Kept[1] = buffersToWrite[1] /\ Kept[2] = buffersToWrite[2]
        BY <2>2, <2>3
      <4> HIDE DEF two
      <4>3. \A i \in 1 .. Len(Kept) : Kept[i] = two[i]
        BY <4>1, <4>2
      <4>4. Kept = two
        BY <4>1, <4>2, <4>3, SeqEqual
      <4> QED
        BY <4>4 DEF two
    <3>2. /\ <<>> \in Seq(Seq(Lines))
          /\ Append(<<>>, buffersToWrite[1]) \in Seq(Seq(Lines))
      BY <2>4
    <3>3. FlattenSeq(Kept) = FlattenSeq(Append(<<>>, buffersToWrite[1]))
                                \o buffersToWrite[2]
      BY <2>4, <3>1, <3>2, FlattenAppend
    <3>4. FlattenSeq(Append(<<>>, buffersToWrite[1])) = <<>> \o buffersToWrite[1]
      BY <2>4, <3>2, FlattenAppend, FlattenEmpty
    <3>5. <<>> \o buffersToWrite[1] = buffersToWrite[1]
      BY <2>4
    <3> QED
      BY <3>3, <3>4, <3>5
  <2> QED
    BY <2>1, <2>2, <2>4, <2>5, ToSetConcat
<1>3. CASE \/ TestRunning \/ Wait \/ SwapAtOnce \/ SwapAfterWait
           \/ Start \/ Stop \/ StopNotify \/ StopJoin \/ UNCHANGED vars
  BY <1>3 DEF TestRunning, Wait, SwapAtOnce, SwapAfterWait, SwapBuffers, Start,
       Stop, StopNotify, StopJoin, vars
<1> QED
  BY <1>1, <1>2, <1>3 DEF Next, Backend

(* A line is dropped only by append() because it is longer than a whole buffer,
   or by threadFunc() when more buffers wait than it tolerates, and then never
   one of the first two buffers (AsyncLogging.cc:70-81, FixedBuffer::append()).
                                                                           *)
THEOREM DropsOnlyWhenLate == Spec => DroppedOnlyLate
<1>1. IOrder /\ [Next]_vars =>
        [\A l \in dropped' \ dropped :
           \/ l \in LongLines
           \/ /\ Len(buffersToWrite) > MaxBacklog
              /\ l \notin ToSet(buffersToWrite[1])
                            \cup ToSet(buffersToWrite[2])]_vars
  BY DropsOnlyLate DEF IOrder
<1> QED
  BY <1>1, InitOrder, OrderInductive, PTL DEF Spec, DroppedOnlyLate

-----------------------------------------------------------------------------
(* Logger uses AsyncLogging as it is meant to be used.                     *)

Control ==
    /\ statement \in [Threads -> Statements \cup {NoStatement}]
    /\ at \in [Threads -> {"idle", "output", "abort"}]
    /\ \A t \in Threads : at[t] = "idle" <=> statement[t] = NoStatement

LEMMA InitControl == LoggerInit => Control
<1> SUFFICES ASSUME LoggerInit PROVE Control
  OBVIOUS
<1>1. statement \in [Threads -> Statements \cup {NoStatement}]
  BY DEF LoggerInit
<1>2. at \in [Threads -> {"idle", "output", "abort"}]
  BY DEF LoggerInit
<1> QED
  BY <1>1, <1>2 DEF LoggerInit, Control

LEMMA StepControl == Control /\ [LoggerNext]_allVars => Control'
<1> SUFFICES ASSUME Control, [LoggerNext]_allVars PROVE Control'
  OBVIOUS
<1>1. CASE Others \/ SetLogLevel \/ UNCHANGED allVars
  BY <1>1 DEF Others, SetLogLevel, allVars, loggerVars, Control
<1>2. ASSUME NEW t \in Threads, Output(t) PROVE Control'
  BY <1>2, LoggerAssumption DEF Output, Control, Statements
<1>3. ASSUME NEW t \in Threads, Abort(t) PROVE Control'
  BY <1>3 DEF Abort, Control
<1>4. ASSUME NEW t \in Threads, NEW s \in Statements, Begin(t, s) PROVE Control'
  <2>1. s # NoStatement
    BY LoggerAssumption DEF Statements
  <2> QED
    BY <1>4, <2>1 DEF Begin, Control
<1> QED
  BY <1>1, <1>2, <1>3, <1>4 DEF LoggerNext, EndLine

(* ~Logger() appends a line of its own statement; nothing else but the callers
   of AsyncLogging touches it.                                             *)
LEMMA StepMaps == Control /\ [LoggerNext]_allVars => [Next]_vars
<1> SUFFICES ASSUME Control, [LoggerNext]_allVars PROVE [Next]_vars
  OBVIOUS
<1>1. CASE Others
  <2>1. ASSUME NEW line \in LongLines, AppendLine(line) PROVE Next
    BY <2>1, AsyncLoggingAssumption DEF Next
  <2> QED
    BY <1>1, <2>1 DEF Others, Next
<1>2. ASSUME NEW t \in Threads, Output(t) PROVE Next
  <2>1. statement[t] \in Lines
    BY <1>2 DEF Output, Control, Statements
  <2> QED
    BY <1>2, <2>1 DEF Output, Next
<1>3. ASSUME NEW t \in Threads, Abort(t) PROVE UNCHANGED vars
  BY <1>3 DEF Abort
<1>4. ASSUME NEW t \in Threads, NEW s \in Statements, Begin(t, s)
      PROVE  UNCHANGED vars
  BY <1>4 DEF Begin
<1>5. CASE SetLogLevel \/ UNCHANGED allVars
  BY <1>5 DEF SetLogLevel, allVars
<1> QED
  BY <1>1, <1>2, <1>3, <1>4, <1>5 DEF LoggerNext, EndLine

(* Composed with Logger, AsyncLogging takes the steps it takes alone.       *)
THEOREM LoggerUsesAsyncLogging == LoggerSpec => Init /\ [][Next]_vars
<1>1. LoggerInit => Init
  BY DEF LoggerInit
<1> QED
  BY <1>1, InitControl, StepControl, StepMaps, PTL DEF LoggerSpec

(* So every ~Logger() finds a current buffer to put its line in, and no
   notification of a full buffer is lost, until the process ends.          *)
THEOREM LoggerFindsBuffers == LoggerSpec => [](BuffersReady /\ FullBufferNotified)
<1>1. IInv => BuffersReady /\ FullBufferNotified
  BY DEF IInv, BuffersReady
<1> QED
  BY <1>1, LoggerUsesAsyncLogging, InitInductive, StepInductive, PTL

-----------------------------------------------------------------------------
(* A line: what operator<< keeps of its parts.                             *)

LEMMA Sizes ==
  /\ kSmallBuffer \in Nat /\ kMaxNumericSize \in Nat
  /\ kMaxNumericSize > 0
  BY LoggerAssumption

LEMMA PartLen ==
  ASSUME NEW p \in Part
  PROVE  /\ p.len \in Nat
         /\ p.number => p.len < kMaxNumericSize
  BY DEF Part

(* The function by which Length() counts.                                   *)
IsLength(f, parts) ==
    f = [n \in 0 .. Len(parts) |->
            IF n = 0 THEN 0 ELSE f[n - 1] + parts[n].len]

LEMMA LengthExists ==
  ASSUME NEW parts \in Seq(Part)
  PROVE  \E f \in [0 .. Len(parts) -> Nat] : IsLength(f, parts)
<1> DEFINE n == Len(parts)
           step == [p \in Nat \X Nat |->
                      IF p[1] \in 1 .. n THEN p[2] + parts[p[1]].len ELSE p[2]]
<1>1. n \in Nat /\ 0 \in Nat
  OBVIOUS
<1>2. \A i \in 1 .. n : parts[i].len \in Nat
  BY PartLen
<1>3. step \in [Nat \X Nat -> Nat]
  BY <1>2
<1>4. PICK f \in [0 .. n -> Nat] : Builds(f, 0, n, 0, step)
  BY <1>1, <1>3, RecursionExists
<1>5. ASSUME NEW i \in 0 .. n, i # 0
      PROVE  step[<<i, f[i - 1]>>] = f[i - 1] + parts[i].len
  <2>1. i - 1 \in 0 .. n /\ i \in 1 .. n /\ i \in Nat
    BY <1>5
  <2>2. f[i - 1] \in Nat
    BY <2>1, <1>4
  <2> QED
    BY <2>1, <2>2
<1> HIDE DEF step
<1>6. IsLength(f, parts)
  BY <1>4, <1>5 DEF Builds, IsLength
<1> QED
  BY <1>4, <1>6

LEMMA LengthSame ==
  ASSUME NEW n \in Nat, NEW r \in Seq(Part), NEW s \in Seq(Part), NEW f, NEW g,
         IsLength(f, r), IsLength(g, s), n <= Len(r), n <= Len(s),
         Agree(r, s, n)
  PROVE  f[n] = g[n]
<1>1. f[0] = g[0]
  BY DEF IsLength
<1>2. ASSUME NEW k \in 1 .. n, f[k - 1] = g[k - 1] PROVE f[k] = g[k]
  <2>1. k \in 0 .. Len(r) /\ k \in 0 .. Len(s) /\ k # 0 /\ r[k] = s[k]
    BY DEF Agree
  <2>2. f[k] = f[k - 1] + r[k].len
    BY <2>1 DEF IsLength
  <2>3. g[k] = g[k - 1] + s[k].len
    BY <2>1 DEF IsLength
  <2> QED
    BY <1>2, <2>1, <2>2, <2>3
<1>3. GoAlike(f, g, n)
  BY <1>2 DEF GoAlike
<1> QED
  BY <1>1, <1>3, SameRecursion

LEMMA LengthDef ==
  ASSUME NEW parts \in Seq(Part), NEW f, IsLength(f, parts)
  PROVE  Length(parts) = f[Len(parts)]
<1> DEFINE g == CHOOSE h : IsLength(h, parts)
<1>1. Length(parts) = g[Len(parts)]
  BY DEF Length, IsLength
<1>2. IsLength(g, parts)
  OBVIOUS
<1> HIDE DEF g
<1>3. Len(parts) \in Nat /\ Agree(parts, parts, Len(parts))
  BY DEF Agree
<1> QED
  BY <1>1, <1>2, <1>3, LengthSame

LEMMA LengthEmpty == Length(<<>>) = 0
<1>1. <<>> \in Seq(Part) /\ Len(<<>>) = 0
  OBVIOUS
<1>2. PICK f \in [0 .. Len(<<>>) -> Nat] : IsLength(f, <<>>)
  BY <1>1, LengthExists
<1>3. f[0] = 0
  BY <1>1, <1>2 DEF IsLength
<1> QED
  BY <1>1, <1>2, <1>3, LengthDef

LEMMA LengthAppend ==
  ASSUME NEW parts \in Seq(Part), NEW p \in Part
  PROVE  /\ Length(parts) \in Nat
         /\ Length(Append(parts, p)) = Length(parts) + p.len
<1> DEFINE n == Len(parts)
           more == Append(parts, p)
<1>1. PICK f \in [0 .. n -> Nat] : IsLength(f, parts)
  BY LengthExists
<1>2. n \in Nat /\ Length(parts) = f[n] /\ f[n] \in Nat
  BY <1>1, LengthDef
<1>3. /\ more \in Seq(Part) /\ Len(more) = n + 1 /\ more[n + 1] = p
      /\ Agree(parts, more, n)
  BY DEF Agree
<1> HIDE DEF more
<1>4. PICK g \in [0 .. Len(more) -> Nat] : IsLength(g, more)
  BY <1>3, LengthExists
<1>5. Length(more) = g[n + 1]
  BY <1>3, <1>4, LengthDef
<1>6. f[n] = g[n]
  BY <1>1, <1>2, <1>3, <1>4, LengthSame
<1>7. g[n + 1] = g[(n + 1) - 1] + more[n + 1].len
  <2>1. n + 1 \in 0 .. Len(more) /\ n + 1 # 0
    BY <1>2, <1>3
  <2> QED
    BY <1>4, <2>1 DEF IsLength
<1>8. (n + 1) - 1 = n
  BY <1>2
<1> QED
  BY <1>2, <1>3, <1>5, <1>6, <1>7, <1>8 DEF more

LEMMA LengthConcat ==
  ASSUME NEW r \in Seq(Part), NEW s \in Seq(Part)
  PROVE  /\ Length(r \o s) = Length(r) + Length(s)
         /\ Length(r) \in Nat /\ Length(s) \in Nat
<1> DEFINE S == {q \in Seq(Part) : /\ Length(r \o q) = Length(r) + Length(q)
                                   /\ Length(r) \in Nat /\ Length(q) \in Nat}
<1>1. <<>> \in S
  <2>1. r \o <<>> = r /\ <<>> \in Seq(Part)
    OBVIOUS
  <2>2. Length(r) \in Nat
    <3>1. PICK f \in [0 .. Len(r) -> Nat] : IsLength(f, r)
      BY LengthExists
    <3>2. f[Len(r)] \in Nat
      BY <3>1
    <3> QED
      BY <3>1, <3>2, LengthDef
  <2> QED
    BY <2>1, <2>2, LengthEmpty
<1>2. ASSUME NEW q \in Seq(Part), NEW p \in Part, q \in S
      PROVE  Append(q, p) \in S
  <2>1. r \o Append(q, p) = Append(r \o q, p) /\ r \o q \in Seq(Part)
    OBVIOUS
  <2>2. Length(r \o Append(q, p)) = Length(r \o q) + p.len
    BY <2>1, LengthAppend
  <2>3. Length(Append(q, p)) = Length(q) + p.len /\ p.len \in Nat
    BY LengthAppend, PartLen
  <2> QED
    BY <1>2, <2>2, <2>3
<1> HIDE DEF S
<1>3. s \in S
  BY <1>1, <1>2, SeqInduction
<1> QED
  BY <1>3 DEF S

(* The same for what a LogStream keeps.                                     *)
IsStreamed(f, parts) ==
    f = [n \in 0 .. Len(parts) |->
            IF n = 0 THEN <<>>
            ELSE IF HasRoom(f[n - 1], parts[n])
                   THEN Append(f[n - 1], parts[n]) ELSE f[n - 1]]

LEMMA StreamedExists ==
  ASSUME NEW parts \in Seq(Part)
  PROVE  \E f \in [0 .. Len(parts) -> Seq(Part)] : IsStreamed(f, parts)
<1> DEFINE n == Len(parts)
           step == [p \in Nat \X Seq(Part) |->
                      IF p[1] \in 1 .. n /\ HasRoom(p[2], parts[p[1]])
                        THEN Append(p[2], parts[p[1]]) ELSE p[2]]
<1>1. n \in Nat /\ <<>> \in Seq(Part)
  OBVIOUS
<1>2. step \in [Nat \X Seq(Part) -> Seq(Part)]
  OBVIOUS
<1>3. PICK f \in [0 .. n -> Seq(Part)] : Builds(f, 0, n, <<>>, step)
  BY <1>1, <1>2, RecursionExists
<1>4. ASSUME NEW i \in 0 .. n, i # 0
      PROVE  step[<<i, f[i - 1]>>] =
               IF HasRoom(f[i - 1], parts[i])
                 THEN Append(f[i - 1], parts[i]) ELSE f[i - 1]
  <2>1. i - 1 \in 0 .. n /\ i \in 1 .. n /\ i \in Nat
    BY <1>4
  <2>2. f[i - 1] \in Seq(Part)
    BY <2>1, <1>3
  <2> QED
    BY <2>1, <2>2
<1> HIDE DEF step
<1>5. IsStreamed(f, parts)
  BY <1>3, <1>4 DEF Builds, IsStreamed
<1> QED
  BY <1>3, <1>5

LEMMA StreamedSame ==
  ASSUME NEW n \in Nat, NEW r \in Seq(Part), NEW s \in Seq(Part), NEW f, NEW g,
         IsStreamed(f, r), IsStreamed(g, s), n <= Len(r), n <= Len(s),
         Agree(r, s, n)
  PROVE  f[n] = g[n]
<1>1. f[0] = g[0]
  BY DEF IsStreamed
<1>2. ASSUME NEW k \in 1 .. n, f[k - 1] = g[k - 1] PROVE f[k] = g[k]
  <2>1. k \in 0 .. Len(r) /\ k \in 0 .. Len(s) /\ k # 0 /\ r[k] = s[k]
    BY DEF Agree
  <2>2. f[k] = IF HasRoom(f[k - 1], r[k]) THEN Append(f[k - 1], r[k])
                                           ELSE f[k - 1]
    BY <2>1 DEF IsStreamed
  <2>3. g[k] = IF HasRoom(g[k - 1], s[k]) THEN Append(g[k - 1], s[k])
                                           ELSE g[k - 1]
    BY <2>1 DEF IsStreamed
  <2> QED
    BY <1>2, <2>1, <2>2, <2>3
<1>3. GoAlike(f, g, n)
  BY <1>2 DEF GoAlike
<1> QED
  BY <1>1, <1>3, SameRecursion

LEMMA StreamedDef ==
  ASSUME NEW parts \in Seq(Part), NEW f, IsStreamed(f, parts)
  PROVE  Streamed(parts) = f[Len(parts)]
<1> DEFINE g == CHOOSE h : IsStreamed(h, parts)
<1>1. Streamed(parts) = g[Len(parts)]
  BY DEF Streamed, IsStreamed
<1>2. IsStreamed(g, parts)
  OBVIOUS
<1> HIDE DEF g
<1>3. Len(parts) \in Nat /\ Agree(parts, parts, Len(parts))
  BY DEF Agree
<1> QED
  BY <1>1, <1>2, <1>3, StreamedSame

LEMMA StreamedEmpty == Streamed(<<>>) = <<>>
<1>1. <<>> \in Seq(Part) /\ Len(<<>>) = 0
  OBVIOUS
<1>2. PICK f \in [0 .. Len(<<>>) -> Seq(Part)] : IsStreamed(f, <<>>)
  BY <1>1, StreamedExists
<1>3. f[0] = <<>>
  BY <1>1, <1>2 DEF IsStreamed
<1> QED
  BY <1>1, <1>2, <1>3, StreamedDef

LEMMA StreamedAppend ==
  ASSUME NEW parts \in Seq(Part), NEW p \in Part
  PROVE  /\ Streamed(parts) \in Seq(Part)
         /\ Streamed(Append(parts, p)) =
              IF HasRoom(Streamed(parts), p) THEN Append(Streamed(parts), p)
                                             ELSE Streamed(parts)
<1> DEFINE n == Len(parts)
           more == Append(parts, p)
<1>1. PICK f \in [0 .. n -> Seq(Part)] : IsStreamed(f, parts)
  BY StreamedExists
<1>2. n \in Nat /\ Streamed(parts) = f[n] /\ f[n] \in Seq(Part)
  BY <1>1, StreamedDef
<1>3. /\ more \in Seq(Part) /\ Len(more) = n + 1 /\ more[n + 1] = p
      /\ Agree(parts, more, n)
  BY DEF Agree
<1> HIDE DEF more
<1>4. PICK g \in [0 .. Len(more) -> Seq(Part)] : IsStreamed(g, more)
  BY <1>3, StreamedExists
<1>5. Streamed(more) = g[n + 1]
  BY <1>3, <1>4, StreamedDef
<1>6. f[n] = g[n]
  BY <1>1, <1>2, <1>3, <1>4, StreamedSame
<1>7. g[n + 1] = IF HasRoom(g[(n + 1) - 1], more[n + 1])
                   THEN Append(g[(n + 1) - 1], more[n + 1]) ELSE g[(n + 1) - 1]
  <2>1. n + 1 \in 0 .. Len(more) /\ n + 1 # 0
    BY <1>2, <1>3
  <2> QED
    BY <1>4, <2>1 DEF IsStreamed
<1>8. (n + 1) - 1 = n
  BY <1>2
<1> QED
  BY <1>2, <1>3, <1>5, <1>6, <1>7, <1>8 DEF more

LEMMA TextIsPart ==
  ASSUME NEW n \in Nat
  PROVE  Text(n) \in Part /\ Text(n).len = n /\ ~Text(n).number
  BY DEF Text, Part

LEMMA NumberIsPart ==
  ASSUME NEW n \in Nat, n < kMaxNumericSize
  PROVE  Number(n) \in Part /\ Number(n).len = n /\ Number(n).number
  BY DEF Number, Part

LEMMA HeaderShort ==
  /\ Header \in Seq(Part)
  /\ \A i \in DOMAIN Header : ~Header[i].number
  /\ Length(Header) \in Nat /\ Length(Header) < kSmallBuffer
<1>1. DOMAIN Header = 1 .. Len(HeaderLens) /\ Len(HeaderLens) \in Nat
  BY LoggerAssumption DEF Header
<1>2. \A i \in 1 .. Len(HeaderLens) : Header[i] = Text(HeaderLens[i])
  BY LoggerAssumption DEF Header
<1>3. \A n \in Nat : Text(n) \in Part /\ ~Text(n).number
  BY TextIsPart
<1>4. Header \in [1 .. Len(HeaderLens) -> Part]
  BY <1>1, <1>3, LoggerAssumption DEF Header
<1>5. Header \in Seq(Part)
  BY <1>1, <1>4
<1>6. ASSUME NEW i \in DOMAIN Header PROVE ~Header[i].number
  <2>1. i \in 1 .. Len(HeaderLens) /\ HeaderLens[i] \in Nat
    <3>1. HeaderLens \in Seq(Nat)
      BY LoggerAssumption
    <3> QED
      BY <1>1, <1>6, <3>1
  <2> QED
    BY <1>1, <1>2, <1>3, <2>1
<1>7. Length(Header) \in Nat
  BY <1>5, LengthConcat
<1> QED
  BY <1>5, <1>6, <1>7, LoggerAssumption

(* A LogStream never takes its buffer's last byte.                          *)
LEMMA StreamedShort ==
  ASSUME NEW parts \in Seq(Part)
  PROVE  /\ Streamed(parts) \in Seq(Part)
         /\ Length(Streamed(parts)) \in Nat
         /\ Length(Streamed(parts)) < kSmallBuffer
<1> DEFINE S == {q \in Seq(Part) : /\ Streamed(q) \in Seq(Part)
                                   /\ Length(Streamed(q)) \in Nat
                                   /\ Length(Streamed(q)) < kSmallBuffer}
<1>1. <<>> \in S
  <2>1. <<>> \in Seq(Part)
    OBVIOUS
  <2>2. 0 < kSmallBuffer
    BY HeaderShort, Sizes
  <2>3. Streamed(<<>>) \in Seq(Part) /\ Length(Streamed(<<>>)) = 0
    BY <2>1, StreamedEmpty, LengthEmpty
  <2> QED
    BY <2>1, <2>2, <2>3
<1>2. ASSUME NEW q \in Seq(Part), NEW p \in Part, q \in S
      PROVE  Append(q, p) \in S
  <2> DEFINE b == Streamed(q)
  <2>1. b \in Seq(Part) /\ Length(b) \in Nat /\ Length(b) < kSmallBuffer
    BY <1>2
  <2>2. Streamed(Append(q, p)) = IF HasRoom(b, p) THEN Append(b, p) ELSE b
    BY StreamedAppend
  <2> HIDE DEF b
  <2>5. Append(q, p) \in Seq(Part)
    OBVIOUS
  <2>3. CASE HasRoom(b, p)
    <3>1. Length(Append(b, p)) = Length(b) + p.len /\ Append(b, p) \in Seq(Part)
      BY <2>1, LengthAppend
    <3>2. p.len \in Nat /\ Length(b) + p.len < kSmallBuffer
      BY <2>1, <2>3, PartLen, Sizes DEF HasRoom
    <3>3. Streamed(Append(q, p)) = Append(b, p)
      BY <2>2, <2>3
    <3>4. Length(Streamed(Append(q, p))) = Length(b) + p.len
      BY <3>1, <3>3
    <3>5. Length(b) + p.len \in Nat
      BY <2>1, <3>2
    <3> QED
      BY <2>5, <3>1, <3>2, <3>3, <3>4, <3>5
  <2>4. CASE ~HasRoom(b, p)
    <3>1. Streamed(Append(q, p)) = b
      BY <2>2, <2>4
    <3> QED
      BY <2>1, <2>5, <3>1
  <2> QED
    BY <2>3, <2>4
<1> HIDE DEF S
<1>3. parts \in S
  BY <1>1, <1>2, SeqInduction
<1> QED
  BY <1>3 DEF S

(* Parts that find room are all kept.                                       *)
LEMMA StreamedWhole ==
  ASSUME NEW r \in Seq(Part), NEW s \in Seq(Part), Streamed(r) = r,
         Length(r) + Length(s) < kSmallBuffer,
         \A i \in DOMAIN s : s[i].number =>
            Length(r) + Length(s) + kMaxNumericSize <= kSmallBuffer
  PROVE  Streamed(r \o s) = r \o s
<1> DEFINE Fits1(q) == /\ Length(r) + Length(q) < kSmallBuffer
                       /\ \A i \in DOMAIN q : q[i].number =>
                            Length(r) + Length(q) + kMaxNumericSize
                              <= kSmallBuffer
           S == {q \in Seq(Part) : Fits1(q) => Streamed(r \o q) = r \o q}
<1>1. <<>> \in S
  OBVIOUS
<1>2. ASSUME NEW q \in Seq(Part), NEW p \in Part, q \in S
      PROVE  Append(q, p) \in S
  <2>0. Append(q, p) \in Seq(Part)
    OBVIOUS
  <2> SUFFICES ASSUME Fits1(Append(q, p))
               PROVE  Streamed(r \o Append(q, p)) = r \o Append(q, p)
    BY <2>0
  <2>1. r \o Append(q, p) = Append(r \o q, p) /\ r \o q \in Seq(Part)
    OBVIOUS
  <2>2. /\ Length(Append(q, p)) = Length(q) + p.len
        /\ Length(r \o q) = Length(r) + Length(q)
        /\ Length(r) \in Nat /\ Length(q) \in Nat /\ p.len \in Nat
    BY LengthAppend, LengthConcat, PartLen
  <2>3. \A i \in DOMAIN q : i \in DOMAIN Append(q, p) /\ Append(q, p)[i] = q[i]
    OBVIOUS
  <2>4. Fits1(q)
    BY <2>2, <2>3, Sizes
  <2>5. Streamed(r \o q) = r \o q
    BY <1>2, <2>4
  <2>6. HasRoom(r \o q, p)
    <3>1. Len(q) + 1 \in DOMAIN Append(q, p) /\ Append(q, p)[Len(q) + 1] = p
      OBVIOUS
    <3>2. Length(r) + Length(Append(q, p)) < kSmallBuffer
      OBVIOUS
    <3>3. p.number => Length(r) + Length(Append(q, p)) + kMaxNumericSize
                        <= kSmallBuffer
      BY <3>1
    <3> QED
      BY <2>2, <3>2, <3>3, Sizes DEF HasRoom
  <2> QED
    BY <2>1, <2>5, <2>6, StreamedAppend
<1> HIDE DEF S
<1>3. s \in S
  BY <1>1, <1>2, SeqInduction
<1> QED
  BY <1>3 DEF S

LEMMA AppendBehind ==
  ASSUME NEW r \in Seq(Part), NEW s \in Seq(Part), NEW p \in Part
  PROVE  Append(r \o s, p) = r \o Append(s, p)
  OBVIOUS

(* What is kept stays at the front of the line.                             *)
LEMMA StreamedFront ==
  ASSUME NEW r \in Seq(Part), NEW s \in Seq(Part)
  PROVE  \E q \in Seq(Part) : Streamed(r \o s) = Streamed(r) \o q
<1> DEFINE b == Streamed(r)
           S == {t \in Seq(Part) : \E q \in Seq(Part) : Streamed(r \o t) = b \o q}
<1>1. b \in Seq(Part)
  BY StreamedShort
<1>2. <<>> \in S
  <2>1. r \o <<>> = r /\ b \o <<>> = b /\ <<>> \in Seq(Part)
    BY <1>1
  <2> QED
    BY <2>1
<1>3. ASSUME NEW t \in Seq(Part), NEW p \in Part, t \in S
      PROVE  Append(t, p) \in S
  <2>1. PICK q \in Seq(Part) : Streamed(r \o t) = b \o q
    BY <1>3
  <2>2. r \o Append(t, p) = Append(r \o t, p) /\ r \o t \in Seq(Part)
    OBVIOUS
  <2> HIDE DEF b
  <2>6. q \in Seq(Part)
    BY <2>1
  <2>7. Append(q, p) \in Seq(Part)
    BY <2>6
  <2>3. Append(b \o q, p) = b \o Append(q, p)
    BY <1>1, <2>6, AppendBehind
  <2>4. Streamed(r \o Append(t, p)) \in {b \o q, b \o Append(q, p)}
    <3>1. Streamed(Append(r \o t, p)) \in
             {Streamed(r \o t), Append(Streamed(r \o t), p)}
      BY <2>2, StreamedAppend
    <3> QED
      BY <2>1, <2>2, <2>3, <3>1
  <2>5. Append(t, p) \in Seq(Part)
    OBVIOUS
  <2> QED
    BY <2>1, <2>3, <2>4, <2>5, <2>7
<1> HIDE DEF S
<1>4. s \in S
  BY <1>2, <1>3, SeqInduction
<1> QED
  BY <1>4 DEF S

(* The five parts of the trailer find room behind a message that leaves them
   MessageRoom.                                                            *)
LEMMA TrailerParts ==
  /\ Trailer \in Seq(Part) /\ Len(Trailer) = 5
  /\ \A i \in 1 .. 5 : /\ Trailer[i] \in Part
                       /\ Trailer[i].len = TrailerLens[i]
                       /\ TrailerLens[i] \in Nat
                       /\ Trailer[i].number <=> i = 4
<1>1. ASSUME NEW i \in 1 .. 5 PROVE TrailerLens[i] \in Nat
  BY LoggerAssumption
<1>2. ASSUME NEW i \in 1 .. 5
      PROVE  Trailer[i] = IF i = 4 THEN Number(TrailerLens[i])
                                   ELSE Text(TrailerLens[i])
  BY DEF Trailer
<1>3. TrailerLens[4] < kMaxNumericSize
  BY <1>1, LoggerAssumption
<1>4. ASSUME NEW i \in 1 .. 5
      PROVE  /\ Trailer[i] \in Part
             /\ Trailer[i].len = TrailerLens[i]
             /\ Trailer[i].number <=> i = 4
  <2>1. TrailerLens[i] \in Nat
    BY <1>1
  <2>2. CASE i = 4
    <3>1. Trailer[i] = Number(TrailerLens[i]) /\ TrailerLens[i] < kMaxNumericSize
      BY <1>2, <1>3, <2>2
    <3> QED
      BY <2>1, <2>2, <3>1, NumberIsPart
  <2>3. CASE i # 4
    <3>1. Trailer[i] = Text(TrailerLens[i])
      BY <1>2, <2>3
    <3> QED
      BY <2>1, <2>3, <3>1, TextIsPart
  <2> QED
    BY <2>2, <2>3
<1>5. Trailer = [i \in 1 .. 5 |-> Trailer[i]]
  BY DEF Trailer
<1>6. Trailer \in Seq(Part) /\ Len(Trailer) = 5
  BY <1>4, <1>5
<1> QED
  BY <1>1, <1>4, <1>6

LEMMA OneMoreWhole ==
  ASSUME NEW b \in Seq(Part), NEW p \in Part, Streamed(b) = b, HasRoom(b, p)
  PROVE  /\ Append(b, p) \in Seq(Part)
         /\ Streamed(Append(b, p)) = Append(b, p)
         /\ Length(Append(b, p)) = Length(b) + p.len
         /\ Length(b) \in Nat /\ p.len \in Nat
  BY StreamedAppend, LengthAppend, PartLen

LEMMA HeaderWhole == Streamed(Header) = Header
<1>1. Length(<<>>) + Length(Header) < kSmallBuffer
  BY HeaderShort, LengthEmpty
<1>2. <<>> \in Seq(Part) /\ <<>> \o Header = Header
  BY HeaderShort
<1>3. \A i \in DOMAIN Header : Header[i].number =>
         Length(<<>>) + Length(Header) + kMaxNumericSize <= kSmallBuffer
  BY HeaderShort
<1> QED
  BY <1>1, <1>2, <1>3, HeaderShort, StreamedEmpty, StreamedWhole

(* What is wanted and what is appended are parts, as long as the message.     *)
LEMMA FormattedParts ==
  ASSUME NEW s \in Statements
  PROVE  /\ Length(Message[s]) \in Nat
         /\ Wanted(s) \in Seq(Part) /\ Formatted(s) \in Seq(Part)
         /\ Length(Formatted(s)) = Length(Message[s])
<1> DEFINE n == Length(Message[s])
<1>1. Message[s] \in Seq(Part)
  BY LoggerAssumption
<1>2. n \in Nat
  BY <1>1, LengthConcat
<1> HIDE DEF n
<1>3. Cut(n) \in Part /\ Cut(n).len = n
  BY <1>2 DEF Cut, Part
<1>4. Text(n) \in Part /\ Text(n).len = n
  BY <1>2, TextIsPart
<1>5. ASSUME NEW p \in Part PROVE <<p>> \in Seq(Part) /\ Length(<<p>>) = p.len
  <2>1. <<>> \in Seq(Part) /\ Append(<<>>, p) = <<p>>
    OBVIOUS
  <2>2. Length(Append(<<>>, p)) = Length(<<>>) + p.len
    BY <2>1, LengthAppend
  <2> QED
    BY <2>1, <2>2, LengthEmpty, PartLen
<1>6. Wanted(s) \in Seq(Part) /\ Length(Wanted(s)) = n
  BY <1>1, <1>4, <1>5 DEF Wanted, n
<1>7. Formatted(s) \in Seq(Part) /\ Length(Formatted(s)) = n
  BY <1>3, <1>5, <1>6 DEF Formatted, n
<1> QED
  BY <1>2, <1>6, <1>7 DEF n

LEMMA PartsGroup ==
  ASSUME NEW s \in Statements
  PROVE  /\ Parts(s) = Header \o (Formatted(s) \o Trailer)
         /\ Formatted(s) \o Trailer \in Seq(Part)
         /\ Parts(s) \in Seq(Part)
<1> DEFINE m == Formatted(s)
<1>1. Header \in Seq(Part) /\ m \in Seq(Part) /\ Trailer \in Seq(Part)
  BY HeaderShort, TrailerParts, FormattedParts
<1>2. Parts(s) = (Header \o m) \o Trailer
  BY DEF Parts
<1> HIDE DEF m
<1>3. (Header \o m) \o Trailer = Header \o (m \o Trailer)
  BY <1>1, ConcatAssociative, SMTT(30)
<1>4. m \o Trailer \in Seq(Part) /\ (Header \o m) \o Trailer \in Seq(Part)
  BY <1>1
<1> QED
  BY <1>2, <1>3, <1>4 DEF m

LEMMA TrailerEnd ==
  \E q \in Seq(Part) :
     /\ Trailer = Append(Append(q, Trailer[4]), Trailer[5])
     /\ Length(q) = TrailerLens[1] + TrailerLens[2] + TrailerLens[3]
<1> DEFINE a == Append(<<>>, Trailer[1])
           b == Append(a, Trailer[2])
           c == Append(b, Trailer[3])
           d == Append(Append(c, Trailer[4]), Trailer[5])
           T(i) == TrailerLens[i]
<1>1. /\ Trailer[1] \in Part /\ Trailer[2] \in Part /\ Trailer[3] \in Part
      /\ Trailer[4] \in Part /\ Trailer[5] \in Part
      /\ Trailer \in Seq(Part) /\ Len(Trailer) = 5
  BY TrailerParts
<1>2. /\ <<>> \in Seq(Part) /\ a \in Seq(Part) /\ b \in Seq(Part)
      /\ c \in Seq(Part) /\ d \in Seq(Part)
  BY <1>1
<1>3. Trailer = d
  <2>1. Len(d) = 5
    BY <1>1
  <2>2. ASSUME NEW i \in 1 .. 5 PROVE Trailer[i] = d[i]
    BY <1>1
  <2> HIDE DEF d
  <2> QED
    BY <1>1, <1>2, <2>1, <2>2, SeqEqual
<1>4. T(1) \in Nat /\ T(2) \in Nat /\ T(3) \in Nat
  BY TrailerParts
<1>5. Length(a) = T(1)
  <2>1. Length(a) = 0 + Trailer[1].len
    BY <1>1, <1>2, LengthAppend, LengthEmpty
  <2> QED
    BY <1>4, <2>1, TrailerParts
<1> HIDE DEF a
<1>6. Length(b) = Length(a) + T(2)
  <2>1. Length(b) = Length(a) + Trailer[2].len
    BY <1>1, <1>2, LengthAppend
  <2> QED
    BY <2>1, TrailerParts
<1> HIDE DEF b
<1>7. Length(c) = Length(b) + T(3)
  <2>1. Length(c) = Length(b) + Trailer[3].len
    BY <1>1, <1>2, LengthAppend
  <2> QED
    BY <2>1, TrailerParts
<1>8. Length(c) = T(1) + T(2) + T(3)
  BY <1>5, <1>6, <1>7
<1> QED
  BY <1>2, <1>3, <1>8

LEMMA LineWhole ==
  ASSUME NEW s \in Statements, Length(Message[s]) <= MessageRoom
  PROVE  Streamed(Parts(s)) = Parts(s)
<1> DEFINE m == Formatted(s)
           t == TrailerLens[1] + TrailerLens[2] + TrailerLens[3]
           u == Trailer[4]
           v == Trailer[5]
<1>1. m \in Seq(Part) /\ Header \in Seq(Part)
  BY HeaderShort, FormattedParts
<1>2. PICK q \in Seq(Part) : Trailer = Append(Append(q, u), v) /\ Length(q) = t
  BY TrailerEnd
<1>3. /\ u \in Part /\ v \in Part /\ u.number /\ ~v.number
      /\ u.len \in Nat /\ v.len \in Nat /\ t \in Nat
      /\ u.len + v.len < kMaxNumericSize
  <2>1. {1, 2, 3, 4, 5} \subseteq 1 .. 5
    OBVIOUS
  <2>2. /\ u.len = TrailerLens[4] /\ v.len = TrailerLens[5]
        /\ u \in Part /\ v \in Part /\ u.number /\ ~v.number
    BY <2>1, TrailerParts
  <2>3. \A i \in {1, 2, 3, 4, 5} : TrailerLens[i] \in Nat
    BY <2>1, TrailerParts
  <2>4. u.len \in Nat /\ v.len \in Nat /\ t \in Nat
    BY <2>2, <2>3
  <2> QED
    BY <2>2, <2>4, LoggerAssumption
<1> DEFINE n == m \o q
           b == Header \o n
<1>4. n \in Seq(Part) /\ b \in Seq(Part)
  BY <1>1, <1>2
<1>5. /\ Length(Header) \in Nat /\ Length(m) \in Nat /\ Length(q) \in Nat
      /\ Length(n) = Length(m) + Length(q)
      /\ Length(b) = Length(Header) + Length(n)
  BY <1>1, <1>2, <1>4, LengthConcat
<1>6. Length(m) <= kSmallBuffer - Length(Header) - kMaxNumericSize - t
  BY FormattedParts DEF MessageRoom
<1> HIDE DEF m, n, b, t, u, v
<1>7. Length(b) + kMaxNumericSize <= kSmallBuffer
  BY <1>2, <1>3, <1>5, <1>6, Sizes
<1>8. Streamed(b) = b
  <2>1. /\ Length(Header) + Length(n) < kSmallBuffer
        /\ Length(Header) + Length(n) + kMaxNumericSize <= kSmallBuffer
    BY <1>5, <1>7, Sizes
  <2> QED
    BY <1>1, <1>4, <2>1, HeaderWhole, StreamedWhole DEF b
<1>9. /\ Append(b, u) \in Seq(Part) /\ Streamed(Append(b, u)) = Append(b, u)
      /\ Length(Append(b, u)) = Length(b) + u.len
  <2>1. HasRoom(b, u)
    BY <1>3, <1>5, <1>7, Sizes DEF HasRoom
  <2> QED
    BY <1>3, <1>4, <1>8, <2>1, OneMoreWhole
<1>10. Streamed(Append(Append(b, u), v)) = Append(Append(b, u), v)
  <2>1. Length(b) + u.len + v.len < kSmallBuffer
    BY <1>3, <1>5, <1>7, Sizes
  <2>2. HasRoom(Append(b, u), v)
    BY <1>3, <1>5, <1>9, <2>1, Sizes DEF HasRoom
  <2> QED
    BY <1>3, <1>9, <2>2, OneMoreWhole
<1>11. Parts(s) = Append(Append(b, u), v)
  <2>1. /\ q \in Seq(Part) /\ Append(q, u) \in Seq(Part)
        /\ m \o Append(q, u) \in Seq(Part)
    BY <1>1, <1>2, <1>3
  <2>2. m \o Append(Append(q, u), v) = Append(Append(n, u), v)
    <3>1. Append(m \o q, u) = m \o Append(q, u)
      BY <1>1, <1>3, <2>1, AppendBehind
    <3>2. Append(m \o Append(q, u), v) = m \o Append(Append(q, u), v)
      BY <1>1, <1>3, <2>1, AppendBehind
    <3> QED
      BY <3>1, <3>2 DEF n
  <2>3. Append(n, u) \in Seq(Part)
    BY <1>3, <1>4
  <2>4. Header \o Append(Append(n, u), v) = Append(Append(b, u), v)
    <3>1. Append(Header \o n, u) = Header \o Append(n, u)
      BY <1>1, <1>3, <1>4, AppendBehind
    <3>2. Append(Header \o Append(n, u), v) = Header \o Append(Append(n, u), v)
      BY <1>1, <1>3, <2>3, AppendBehind
    <3> QED
      BY <3>1, <3>2 DEF b
  <2>5. Parts(s) = Header \o (m \o Trailer)
    BY <1>1, PartsGroup DEF m
  <2> QED
    BY <1>2, <2>2, <2>4, <2>5
<1> QED
  BY <1>8, <1>10, <1>11

LEMMA HeaderKept ==
  ASSUME NEW s \in Statements
  PROVE  IsPrefix(Header, Streamed(Parts(s)))
<1> DEFINE rest == Formatted(s) \o Trailer
<1>1. rest \in Seq(Part) /\ Header \in Seq(Part)
  BY HeaderShort, PartsGroup
<1>2. Parts(s) = Header \o rest
  BY PartsGroup
<1> HIDE DEF rest
<1>3. PICK q \in Seq(Part) :
        Streamed(Header \o rest) = Streamed(Header) \o q
  BY <1>1, StreamedFront
<1>4. IsPrefix(Header, Header \o q)
  BY <1>1, <1>3 DEF IsPrefix
<1> QED
  BY <1>2, <1>3, <1>4, HeaderWhole

(* Statements whose message a LOG_FMT_'s test lets pass.                     *)
Tested == {s \in Statements : IsFormat(s) => Length(Message[s]) <= FormatSize}

(* A message that was cut can be told from the one that was wanted.          *)
LEMMA CutShows ==
  ASSUME NEW s \in Tested
  PROVE  Parts(s) = Header \o Wanted(s) \o Trailer
           <=> ~(IsFormat(s) /\ Length(Message[s]) = FormatSize)
<1> DEFINE n == Length(Message[s])
<1>1. s \in Statements /\ n \in Nat /\ FormatSize \in Nat
  BY FormattedParts, LoggerAssumption DEF Tested
<1>2. CASE ~(IsFormat(s) /\ n = FormatSize)
  <2>1. ~(IsFormat(s) /\ n >= FormatSize)
    BY <1>1, <1>2 DEF Tested
  <2>2. Formatted(s) = Wanted(s)
    BY <2>1 DEF Formatted
  <2> QED
    BY <1>2, <2>2 DEF Parts
<1>3. CASE IsFormat(s) /\ n = FormatSize
  <2>1. Formatted(s) = <<Cut(n)>> /\ Wanted(s) = <<Text(n)>>
    BY <1>1, <1>3 DEF Formatted, Wanted
  <2> HIDE DEF n
  <2>2. Cut(n) \in Part /\ Text(n) \in Part /\ Cut(n) # Text(n)
    BY <1>1 DEF Cut, Text, Part
  <2>3. /\ Header \in Seq(Part) /\ Trailer \in Seq(Part)
        /\ <<Cut(n)>> \in Seq(Part) /\ <<Text(n)>> \in Seq(Part)
    BY <2>2, HeaderShort, TrailerParts
  <2> DEFINE k == Len(Header) + 1
  <2>4. ((Header \o <<Cut(n)>>) \o Trailer)[k] = Cut(n)
    BY <2>3
  <2>5. ((Header \o <<Text(n)>>) \o Trailer)[k] = Text(n)
    BY <2>3
  <2>6. Parts(s) # Header \o Wanted(s) \o Trailer
    BY <2>1, <2>2, <2>4, <2>5 DEF Parts
  <2> QED
    BY <1>3, <2>6 DEF n
<1> QED
  BY <1>2, <1>3

LEMMA TestedLineWhole ==
  ASSUME NEW s \in Tested
  PROVE  /\ Length(Message[s]) <= MessageRoom =>
              (Line[s] = Header \o Wanted(s) \o Trailer <=>
                   ~(IsFormat(s) /\ Length(Message[s]) = FormatSize))
         /\ IsPrefix(Header, Line[s])
         /\ Length(Line[s]) < kSmallBuffer
<1>1. s \in Statements /\ Line[s] = Streamed(Parts(s))
  BY DEF Line, Tested
<1>2. Length(Message[s]) <= MessageRoom => Line[s] = Parts(s)
  BY <1>1, LineWhole
<1>3. IsPrefix(Header, Line[s]) /\ Length(Line[s]) < kSmallBuffer
  BY <1>1, HeaderKept, PartsGroup, StreamedShort
<1> QED
  BY <1>2, <1>3, CutShows

-----------------------------------------------------------------------------
(* What the two know of each other.                                        *)

LoggerTypes ==
    /\ logLevel \in INFO .. DEBUG
    /\ begun \subseteq Statements
    /\ \A t \in Threads : statement[t] \in (begun \cap Tested) \cup {NoStatement}
    /\ ToSet(appended) \subseteq (begun \cap Tested) \cup LongLines
    /\ aborted \in BOOLEAN

LEMMA InitLoggerTypes == LoggerInit => LoggerTypes
<1> SUFFICES ASSUME LoggerInit PROVE LoggerTypes
  OBVIOUS
<1>1. /\ appended = <<>> /\ begun = {} /\ logLevel = 0 /\ aborted = FALSE
      /\ statement = [t \in Threads |-> NoStatement]
  BY DEF LoggerInit, Init, INFO
<1>2. ToSet(appended) = {}
  BY <1>1 DEF ToSet
<1>3. logLevel \in INFO .. DEBUG
  BY <1>1 DEF INFO, DEBUG
<1>4. \A t \in Threads : statement[t] \in (begun \cap Tested) \cup {NoStatement}
  BY <1>1
<1> QED
  BY <1>1, <1>2, <1>3, <1>4 DEF LoggerTypes

(* A line that is appended is of a statement that was begun, or is none.      *)
LEMMA AppendedBegun ==
  ASSUME TypeOK, ToSet(appended) \subseteq (begun \cap Tested) \cup LongLines,
         NEW line \in Lines, AppendLine(line), line \in (begun \cap Tested) \cup LongLines
  PROVE  ToSet(appended') \subseteq (begun \cap Tested) \cup LongLines
<1>1. appended' = Append(appended, line) /\ appended \in Seq(Lines)
  BY DEF AppendLine, TypeOK
<1> QED
  BY <1>1, ToSetAppend

LEMMA StepLoggerTypes ==
  TypeOK /\ Control /\ LoggerTypes /\ [LoggerNext]_allVars => LoggerTypes'
<1> SUFFICES ASSUME TypeOK, Control, LoggerTypes, [LoggerNext]_allVars
             PROVE  LoggerTypes'
  OBVIOUS
<1>1. CASE Others
  <2>1. UNCHANGED loggerVars
    BY <1>1 DEF Others
  <2>2. ToSet(appended') \subseteq (begun \cap Tested) \cup LongLines
    <3>1. ASSUME NEW line \in LongLines, AppendLine(line)
          PROVE  ToSet(appended') \subseteq (begun \cap Tested) \cup LongLines
      BY <3>1, AppendedBegun, AsyncLoggingAssumption DEF LoggerTypes
    <3>2. CASE Backend \/ Start \/ Stop \/ StopNotify \/ StopJoin
      <4>1. appended' = appended
        BY <3>2 DEF Backend, TestRunning, Wait, SwapAtOnce, SwapAfterWait,
             SwapBuffers, WriteBuffers, Start, Stop, StopNotify, StopJoin,
             frontVars
      <4> QED
        BY <4>1 DEF LoggerTypes
    <3> QED
      BY <1>1, <3>1, <3>2 DEF Others
  <2> QED
    BY <2>1, <2>2 DEF LoggerTypes, loggerVars
<1>2. CASE SetLogLevel
  <2>1. logLevel' \in INFO .. DEBUG
    BY <1>2, LoggerAssumption DEF SetLogLevel, INFO, DEBUG
  <2>2. appended' = appended /\ UNCHANGED <<statement, begun, aborted>>
    BY <1>2 DEF SetLogLevel, vars, frontVars
  <2> QED
    BY <2>1, <2>2 DEF LoggerTypes
<1>3. ASSUME NEW t \in Threads, Output(t) PROVE LoggerTypes'
  <2>1. /\ AppendLine(statement[t]) /\ at[t] = "output"
        /\ UNCHANGED <<logLevel, begun, aborted>>
    BY <1>3 DEF Output
  <2>2. statement[t] \in Lines /\ statement[t] \in begun \cap Tested
    BY <2>1 DEF Control, Statements, LoggerTypes
  <2>3. ToSet(appended') \subseteq (begun \cap Tested) \cup LongLines
    BY <2>1, <2>2, AppendedBegun DEF LoggerTypes
  <2>4. \A u \in Threads : statement'[u] \in (begun \cap Tested) \cup {NoStatement}
    BY <1>3 DEF Output, Control, LoggerTypes
  <2> QED
    BY <2>1, <2>3, <2>4 DEF LoggerTypes
<1>4. ASSUME NEW t \in Threads, Abort(t) PROVE LoggerTypes'
  BY <1>4 DEF Abort, LoggerTypes, vars, frontVars
<1>5. ASSUME NEW t \in Threads, NEW s \in Statements, Begin(t, s)
      PROVE  LoggerTypes'
  <2>1. begun' = begun \cup {s} /\ appended' = appended
    BY <1>5 DEF Begin, vars, frontVars
  <2>2. \A u \in Threads : statement'[u] \in (begun' \cap Tested) \cup {NoStatement}
    <3>1. CASE Passes(s)
      <4>1. s \in Tested
        BY <3>1 DEF Passes, Tested
      <4> QED
        BY <1>5, <2>1, <3>1, <4>1 DEF Begin, Control, LoggerTypes
    <3>2. CASE ~Passes(s)
      BY <1>5, <2>1, <3>2 DEF Begin, LoggerTypes
    <3> QED
      BY <3>1, <3>2
  <2>3. UNCHANGED <<logLevel, aborted>>
    BY <1>5 DEF Begin
  <2> QED
    BY <2>1, <2>2, <2>3 DEF LoggerTypes
<1>6. CASE UNCHANGED allVars
  BY <1>6 DEF allVars, loggerVars, vars, frontVars, LoggerTypes
<1> QED
  BY <1>1, <1>2, <1>3, <1>4, <1>5, <1>6 DEF LoggerNext, EndLine

ILogger == IOrder /\ Control /\ LoggerTypes

LEMMA LoggerInductive ==
  /\ LoggerInit => ILogger
  /\ ILogger /\ [LoggerNext]_allVars => ILogger'
<1>1. LoggerInit => ILogger
  BY InitOrder, InitControl, InitLoggerTypes DEF LoggerInit, ILogger
<1>2. ILogger /\ [LoggerNext]_allVars => ILogger'
  <2>1. IOrder => TypeOK
    BY DEF IOrder
  <2> QED
    BY <2>1, OrderInductive, StepControl, StepMaps, StepLoggerTypes DEF ILogger
<1> QED
  BY <1>1, <1>2

(* A statement that is being executed was begun and tested first, at[t] and
   statement[t] go together, and what is appended was begun by a statement: no
   line of a statement is appended without its Logger (Logger.h:52-110,
   Logger::~Logger()).                                                     *)
THEOREM LoggerTypesOK == LoggerSpec => []LoggerTypeOK
<1>1. ILogger => LoggerTypeOK
  BY DEF ILogger, IOrder, Control, LoggerTypes, LoggerTypeOK
<1> QED
  BY <1>1, LoggerInductive, PTL DEF LoggerSpec

(* With the statements of any number of threads for its callers, and one of them
   ending the process at any point, AsyncLogging still keeps their lines in
   order and once, and drops only those it may (Logger.cc's g_output set to
   AsyncLogging::append()).                                                *)
THEOREM LoggerKeepsLines == LoggerSpec => []InOrderOnce /\ DroppedOnlyLate
<1>1. ILogger => InOrderOnce
  BY DEF ILogger, IOrder, Trail
<1>2. ILogger /\ [LoggerNext]_allVars =>
        [\A l \in dropped' \ dropped :
           \/ l \in LongLines
           \/ /\ Len(buffersToWrite) > MaxBacklog
              /\ l \notin ToSet(buffersToWrite[1])
                            \cup ToSet(buffersToWrite[2])]_vars
  BY StepMaps, DropsOnlyLate DEF ILogger, IOrder
<1> QED
  BY <1>1, <1>2, LoggerInductive, PTL DEF LoggerSpec, DroppedOnlyLate

(* What ~Logger() hands over is the line that was asked for, to its newline,
   whenever the message leaves room for a number after it, but for the LOG_FMT_
   message that has exactly the size of the macro's buffer: its test lets pass
   what snprintf() had to cut (Logger.h:14-17).  A longer message loses parts of
   the line but none of the header, and the LogStream's buffer is never filled
   to its last byte (FixedBuffer::append(), LogStream::formatInteger(),
   Logger::Impl::finish()).                                                *)
THEOREM LoggedLinesWhole == LoggerSpec => []LinesWhole
<1>1. ILogger => LinesWhole
  <2> SUFFICES ASSUME ILogger, NEW s \in ToSet(appended) \cap Statements
               PROVE  s \in Tested
    BY TestedLineWhole DEF LinesWhole
  <2> QED
    BY DEF ILogger, LoggerTypes, Statements
<1> QED
  BY <1>1, LoggerInductive, PTL DEF LoggerSpec
=============================================================================
