------------------------------- MODULE MCLogger -------------------------------
(* Three statements for TLC, of the kinds of macro that behave differently, with
   messages that fill a buffer of 20 bytes to different degrees.             *)
EXTENDS Logger

CONSTANTS info, error, fatal, big

MCLines == {info, error, fatal, big}

MCMacro ==
    (info :> "LOG_INFO") @@ (error :> "LOG_FMT_ERROR") @@ (fatal :> "LOG_FMT_FATAL")

\* The header takes 5 bytes and the trailer 7, of which the line number is 2, and
\* looks for 4.  info leaves too little room for its number and fatal just enough.
\* error just fits the buffer of a LOG_FMT_, and fatal is as long as that buffer.
MCMessage ==
    (info :> <<Text(5), Number(1), Text(2)>>)
    @@ (error :> <<Text(6)>>) @@ (fatal :> <<Text(7)>>)

MCHeaderLens == <<3, 1, 1>>
MCTrailerLens == <<1, 2, 1, 2, 1>>
=============================================================================
