------------------------------ MODULE TaskQueue ------------------------------
(***************************************************************************)
(* What an event loop promises to the callers of runInLoop() and           *)
(* queueInLoop(): tasks submitted from any thread are executed one at a    *)
(* time, by the loop's own thread, in the order in which the submissions   *)
(* took the queue's lock, and each at most once.                           *)
(*                                                                         *)
(* EventLoop implements this specification; TcpServer uses it in the place *)
(* of a loop.                                                              *)
(***************************************************************************)
EXTENDS Sequences, Functions

CONSTANT Tasks      \* the tasks that can be submitted, each once

VARIABLES
    waiting,        \* the tasks submitted and not yet started, oldest first
    done            \* the tasks started, oldest first

tqVars == <<waiting, done>>

TQTypeOK == waiting \in Seq(Tasks) /\ done \in Seq(Tasks)

TQInit == waiting = <<>> /\ done = <<>>

\* A caller hands over a task that was never submitted.
Submit(t) ==
    /\ t \notin Range(done \o waiting)
    /\ waiting' = Append(waiting, t)
    /\ UNCHANGED done

\* The loop's thread takes the oldest task.
Run ==
    /\ waiting # <<>>
    /\ done' = Append(done, Head(waiting))
    /\ waiting' = Tail(waiting)

TQNext == Run \/ \E t \in Tasks : Submit(t)

TQSpec == TQInit /\ [][TQNext]_tqVars
=============================================================================
