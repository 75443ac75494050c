---------------------------- MODULE AsyncLogging ----------------------------
(***************************************************************************)
(* mymuduo::AsyncLogging: the threads that append() log lines to a pair of *)
(* buffers, the back-end thread that swaps the buffers out and writes them *)
(* to the log file, and the thread that calls start() and stop().          *)
(*                                                                         *)
(* append() and the back end's critical section hold mutex_ and are one    *)
(* step each, except that wait_for() gives the mutex up.  A line is an     *)
(* opaque name, appended once; a buffer is the sequence of its lines.      *)
(***************************************************************************)
EXTENDS Naturals, Sequences, SequencesExt

CONSTANTS
    Lines,          \* the lines that can be appended
    LongLines,      \* those that no buffer can hold
    BufferSize,     \* how many of the other lines a buffer can hold
    MaxBacklog,     \* more buffers than this are not written (25 in the code)
    NoBuffer        \* a null BufferPtr

ASSUME AsyncLoggingAssumption ==
    /\ LongLines \subseteq Lines
    /\ BufferSize \in Nat \ {0}
    /\ MaxBacklog \in Nat /\ MaxBacklog >= 2
    /\ NoBuffer \notin Seq(Lines)

VARIABLES
    currentBuffer,  \* currentBuffer_
    nextBuffer,     \* nextBuffer_
    buffers,        \* buffers_
    running,        \* running_
    backend,        \* where the back-end thread is, one of BackendPcs
    signalled,      \* has cond_ been notified since the back end waits?
    newBuffer1, newBuffer2, buffersToWrite,   \* threadFunc()'s locals
    file,           \* the lines handed to the log file
    flushed,        \* how many of them output.flush() has covered
    owner,          \* where the thread that calls start() and stop() is
    appended,       \* history: the lines appended, in the order of the lock
    dropped         \* history: the lines given up

frontVars == <<currentBuffer, nextBuffer, buffers, appended>>
localVars == <<newBuffer1, newBuffer2, buffersToWrite, file, flushed>>
vars == <<frontVars, localVars, running, backend, signalled, owner, dropped>>

\* No buffer ever holds more than it can.
Buffers == {b \in Seq(Lines) : Len(b) <= BufferSize}

(* "test": at while (running_); "lock": before the critical section; "wait":
   in wait_for(); "write": after the critical section.                     *)
BackendPcs == {"none", "test", "lock", "wait", "write", "exited"}
OwnerPcs == {"created", "running", "stopping", "joining", "stopped"}

TypeOK ==
    /\ {currentBuffer, nextBuffer, newBuffer1, newBuffer2}
         \subseteq Buffers \cup {NoBuffer}
    /\ {buffers, buffersToWrite} \subseteq Seq(Buffers)
    /\ running \in BOOLEAN /\ signalled \in BOOLEAN
    /\ backend \in BackendPcs /\ owner \in OwnerPcs
    /\ file \in Seq(Lines) /\ appended \in Seq(Lines)
    /\ flushed \in Nat
    /\ dropped \subseteq Lines

Init ==
    /\ currentBuffer = <<>> /\ nextBuffer = <<>> /\ buffers = <<>>
    /\ newBuffer1 = NoBuffer /\ newBuffer2 = NoBuffer /\ buffersToWrite = <<>>
    /\ running = FALSE /\ signalled = FALSE
    /\ backend = "none" /\ owner = "created"
    /\ file = <<>> /\ flushed = 0
    /\ appended = <<>> /\ dropped = {}

-----------------------------------------------------------------------------
(* append(), in any thread.                                                *)

\* Mutant: a line fits a buffer that is full.
FitsFull(line, buffer) == line \notin LongLines /\ Len(buffer) <= BufferSize

Fits(line, buffer) == line \notin LongLines /\ Len(buffer) < BufferSize

\* FixedBuffer::append() copies the line if it fits and else does nothing.
Put(line, buffer) == IF Fits(line, buffer) THEN Append(buffer, line) ELSE buffer

\* The current buffer goes to buffers_ and the spare one, or a new one, takes
\* its place.
Spare == IF nextBuffer # NoBuffer THEN nextBuffer ELSE <<>>

\* Mutant: the buffer that was full is not announced.
AppendToNextSilently(line) ==
    /\ buffers' = Append(buffers, currentBuffer)
    /\ currentBuffer' = Put(line, Spare)
    /\ nextBuffer' = NoBuffer
    /\ UNCHANGED signalled

\* Mutant: the new current buffer is queued in place of the full one.
AppendToNextSwapped(line) ==
    /\ buffers' = Append(buffers, Put(line, Spare))
    /\ UNCHANGED <<currentBuffer, signalled>>
    /\ nextBuffer' = NoBuffer

AppendToNext(line) ==
    /\ buffers' = Append(buffers, currentBuffer)
    /\ currentBuffer' = Put(line, Spare)
    /\ nextBuffer' = NoBuffer
    /\ signalled' = (backend = "wait")

AppendLine(line) ==
    /\ line \notin ToSet(appended)
    /\ appended' = Append(appended, line)
    /\ dropped' = IF line \in LongLines THEN dropped \cup {line} ELSE dropped
    /\ IF Fits(line, currentBuffer)
         THEN /\ currentBuffer' = Put(line, currentBuffer)
              /\ UNCHANGED <<nextBuffer, buffers, signalled>>
         ELSE AppendToNext(line)
    /\ UNCHANGED <<localVars, running, backend, owner>>

-----------------------------------------------------------------------------
(* threadFunc().                                                           *)

\* while (running_); threadFunc() flushes once more when it ends.
TestRunning ==
    /\ backend = "test"
    /\ IF running
         THEN backend' = "lock" /\ UNCHANGED flushed
         ELSE backend' = "exited" /\ flushed' = Len(file)
    /\ UNCHANGED <<frontVars, newBuffer1, newBuffer2, buffersToWrite, file,
                   running, signalled, owner, dropped>>

\* The rest of the critical section: the full buffers and the current one are
\* taken, and the two spares replace the current and, if need be, the next.
SwapBuffers ==
    /\ buffersToWrite' = Append(buffers, currentBuffer)
    /\ buffers' = <<>>
    /\ currentBuffer' = newBuffer1
    /\ newBuffer1' = NoBuffer
    /\ IF nextBuffer = NoBuffer
         THEN nextBuffer' = newBuffer2 /\ newBuffer2' = NoBuffer
         ELSE UNCHANGED <<nextBuffer, newBuffer2>>
    /\ backend' = "write"
    /\ signalled' = FALSE
    /\ UNCHANGED <<appended, file, flushed, running, owner, dropped>>

\* Nothing to do yet: wait_for() gives up the mutex.
Wait ==
    /\ backend = "lock"
    /\ buffers = <<>>
    /\ backend' = "wait"
    /\ signalled' = FALSE
    /\ UNCHANGED <<frontVars, localVars, running, owner, dropped>>

SwapAtOnce == backend = "lock" /\ buffers # <<>> /\ SwapBuffers

\* wait_for() returns, notified or after flushInterval_ or for no reason: the
\* code does not look whether there is something to write.
SwapAfterWait == backend = "wait" /\ SwapBuffers

\* Mutant: of too long a backlog the newest two buffers are kept.
KeptNewest ==
    IF Len(buffersToWrite) > MaxBacklog
      THEN SubSeq(buffersToWrite, Len(buffersToWrite) - 1, Len(buffersToWrite))
      ELSE buffersToWrite

\* Of too long a backlog all buffers but the first two are given up.
Kept == IF Len(buffersToWrite) > MaxBacklog THEN SubSeq(buffersToWrite, 1, 2)
                                            ELSE buffersToWrite

\* How many spares threadFunc() has given away.
Missing == (IF newBuffer1 = NoBuffer THEN 1 ELSE 0)
           + (IF newBuffer2 = NoBuffer THEN 1 ELSE 0)

\* Mutant: only the first spare is replaced.
RecycleOne ==
    /\ newBuffer1' = <<>>
    /\ UNCHANGED newBuffer2

\* A spare given away is replaced by a buffer that was written, cleared, if
\* there is one left.
Recycle ==
    /\ newBuffer1' = IF newBuffer1 = NoBuffer /\ Len(Kept) >= 1
                       THEN <<>> ELSE newBuffer1
    /\ newBuffer2' = IF newBuffer2 = NoBuffer /\ Len(Kept) >= Missing
                       THEN <<>> ELSE newBuffer2

\* Mutant: the flush at the end of the round is left out.
FlushNot == UNCHANGED flushed

FlushFile == flushed' = Len(file')

\* What threadFunc() does outside of the lock: it touches only its own state.
WriteBuffers ==
    /\ backend = "write"
    /\ file' = file \o FlattenSeq(Kept)
    /\ dropped' = dropped \cup (ToSet(FlattenSeq(buffersToWrite))
                                  \ ToSet(FlattenSeq(Kept)))
    /\ Recycle
    /\ buffersToWrite' = <<>>
    /\ FlushFile
    /\ backend' = "test"
    /\ UNCHANGED <<frontVars, running, signalled, owner>>

-----------------------------------------------------------------------------
(* start() and stop().                                                     *)

Start ==
    /\ owner = "created"
    /\ running' = TRUE
    /\ owner' = "running"
    /\ backend' = "test"
    /\ newBuffer1' = <<>> /\ newBuffer2' = <<>>
    /\ UNCHANGED <<frontVars, buffersToWrite, file, flushed, signalled, dropped>>

\* Mutant: stop() forgets to clear running_.
StopKeepsRunning ==
    /\ owner = "running"
    /\ owner' = "stopping"
    /\ UNCHANGED <<frontVars, localVars, running, backend, signalled, dropped>>

\* stop() holds no lock: running_ is cleared, ...
Stop ==
    /\ owner = "running"
    /\ running' = FALSE
    /\ owner' = "stopping"
    /\ UNCHANGED <<frontVars, localVars, backend, signalled, dropped>>

\* ... the back end notified, if it waits, ...
StopNotify ==
    /\ owner = "stopping"
    /\ owner' = "joining"
    /\ signalled' = (backend = "wait")
    /\ UNCHANGED <<frontVars, localVars, running, backend, dropped>>

\* ... and joined.
StopJoin ==
    /\ owner = "joining"
    /\ backend = "exited"
    /\ owner' = "stopped"
    /\ UNCHANGED <<frontVars, localVars, running, backend, signalled, dropped>>

-----------------------------------------------------------------------------
Backend ==
    \/ TestRunning
    \/ Wait
    \/ SwapAtOnce
    \/ SwapAfterWait
    \/ WriteBuffers

Next ==
    \/ Backend
    \/ \E line \in Lines : AppendLine(line)
    \/ Start
    \/ Stop
    \/ StopNotify
    \/ StopJoin

(* The back end runs, and wait_for() returns after flushInterval_ at the
   latest; a stop() that was called goes on.                               *)
Fairness == WF_vars(Backend) /\ WF_vars(StopNotify) /\ WF_vars(StopJoin)

Spec == Init /\ [][Next]_vars /\ Fairness

-----------------------------------------------------------------------------
(* Properties.                                                             *)

\* The commented-out assertions of threadFunc(): both spares are there and empty
\* whenever the back end enters its loop, and nothing is left to write; after
\* the swap there is something to write, and enough of it to replace the spares.
SparesReady ==
    /\ backend \in {"test", "lock", "wait"} =>
         newBuffer1 = <<>> /\ newBuffer2 = <<>> /\ buffersToWrite = <<>>
    /\ backend = "write" => Len(buffersToWrite) >= Missing

\* append() and the swap never leave the front end without a current buffer, and
\* without a next one only if the back end has a full one to replace it with.
FrontEndReady ==
    /\ currentBuffer # NoBuffer
    /\ nextBuffer = NoBuffer => buffers # <<>>
    /\ nextBuffer # NoBuffer => nextBuffer = <<>>

\* Both, at once.
BuffersReady == SparesReady /\ FrontEndReady

\* The lines in the file and in the buffers on the way there.
Way == file \o FlattenSeq(buffersToWrite) \o FlattenSeq(buffers) \o currentBuffer

Before(s, l, m) == \E a, b \in DOMAIN s : a < b /\ s[a] = l /\ s[b] = m

\* Is w in the order of s?
InOrder(w, s) == \A i, j \in DOMAIN w : i < j => Before(s, w[i], w[j])

\* Every line that append() took is in the file or in a buffer on the way there,
\* once and in the order of the lock; what is missing was dropped.
InOrderOnce ==
    /\ ToSet(Way) = ToSet(appended) \ dropped
    /\ InOrder(Way, appended)

\* Lines are given up only for their length, or when the back end is late by
\* more than MaxBacklog buffers: never from the oldest two of a backlog.
DroppedOnlyLate ==
    [][\A l \in dropped' \ dropped :
         \/ l \in LongLines
         \/ /\ Len(buffersToWrite) > MaxBacklog
            /\ l \notin ToSet(buffersToWrite[1]) \cup ToSet(buffersToWrite[2])]_vars

\* A full buffer never waits for flushInterval_: a back end asleep in wait_for()
\* with one in buffers_ has been notified.
FullBufferNotified == backend = "wait" /\ buffers # <<>> => signalled

\* "由后端线程负责定时向磁盘写入前端日志信息": the back end writes what the front
\* end took, sooner or later, unless it gave the line up.
LoggedIsWritten ==
    \A l \in Lines :
        l \in ToSet(appended) /\ owner = "running" ~> l \in ToSet(file) \cup dropped
=============================================================================
