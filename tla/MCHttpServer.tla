----------------------------- MODULE MCHttpServer -----------------------------
(* The instances of HttpServer that TLC checks: requests of both versions    *)
(* that keep or close the connection, and malformed ones.                    *)
EXTENDS HttpServer

MCRequestKinds ==
    {[version |-> "HTTP/1.1", connection |-> ""],
     [version |-> "HTTP/1.1", connection |-> "close"],
     [version |-> "HTTP/1.0", connection |-> ""],
     [version |-> "HTTP/1.0", connection |-> "Keep-Alive"],
     [version |-> "malformed", connection |-> ""]}

MCByte ==
    [type: {"requestLine", "header", "CR", "LF"}, request: 0 .. MaxRequests,
     value: Versions \cup Connections]

MCZero == CR
=============================================================================
