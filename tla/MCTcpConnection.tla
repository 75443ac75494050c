--------------------------- MODULE MCTcpConnection ---------------------------
(* Instances of TcpConnection: the loop's callbacks and another thread call   *)
(* it, in the usages the runs are about.                                      *)
EXTENDS TcpConnection

MCCallers == {"loop", "t1"}

Usage(send, shutdown, p) ==
    [send |-> send, shutdown |-> shutdown, peer |-> p, serverDies |-> FALSE,
     onHighWater |-> TRUE, fills |-> FALSE]

(* The first four are orderly; the others each break one rule.              *)
MCUsages ==
    {Usage({"loop"}, {"loop"}, "closes"),
     Usage({"loop", "t1"}, {}, "stays"),
     Usage({"loop"}, {"t1"}, "stays"),
     [Usage({"loop"}, {}, "stays") EXCEPT !.serverDies = TRUE],
     Usage({"t1"}, {"loop", "t1"}, "closes"),
     Usage({"loop"}, {"loop"}, "resets"),
     [Usage({"t1"}, {"t1"}, "closes") EXCEPT !.serverDies = TRUE],
     [Usage({"loop", "t1"}, {}, "stays") EXCEPT !.fills = TRUE]}

\* One thread, not the loop's, sends and then shuts down: both "Thread safe".
ForeignUsages == {Usage({"t1"}, {"t1"}, "stays")}

\* The loop's callbacks send faster than the kernel does.
FillsUsages == {[Usage({"loop"}, {}, "stays") EXCEPT !.fills = TRUE]}
=============================================================================
