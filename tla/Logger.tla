-------------------------------- MODULE Logger --------------------------------
(***************************************************************************)
(* mymuduo::Logger and its macros, with setOutput() given an AsyncLogging: *)
(* the threads whose statements test g_logLevel, put their line together   *)
(* in a LogStream, hand it to AsyncLogging::append() and, after a line of  *)
(* level FATAL, end the process.                                           *)
(*                                                                         *)
(* The lines of AsyncLogging are the statements, each executed once, by    *)
(* any thread, and LongLines, which others append.  A part of a line is    *)
(* its length, whether it is a number and whether a LOG_FMT_ has cut it: a *)
(* LogStream drops a part that does not fit, and for a number asks for     *)
(* more room than it needs.                                                *)
(***************************************************************************)
EXTENDS AsyncLogging

CONSTANTS
    Threads,            \* the threads that log
    Macro,              \* of each statement: one of Macros
    Levels,             \* bound: the levels that setLogLevel() is given
    Message,            \* of each statement: the parts of its message
    HeaderLens,         \* of time, thread and level, before the message
    TrailerLens,        \* of " - ", file name, ':', line number and '\n'
    kSmallBuffer,       \* the size of a LogStream's buffer, 4000 in the code
    kMaxNumericSize,    \* the room a number must find, 48 in the code
    FormatSize,         \* the size of a LOG_FMT_'s buffer, 1024 in the code
    NoStatement         \* a thread that executes none

Macros == {"LOG_DEBUG", "LOG_INFO", "LOG_ERROR", "LOG_FATAL",
           "LOG_FMT_INFO", "LOG_FMT_ERROR", "LOG_FMT_FATAL"}

Statements == Lines \ LongLines

\* No number is as long as the room it looks for.
Part == {part \in [number : BOOLEAN, cut : BOOLEAN, len : Nat] :
            part.number => part.len < kMaxNumericSize}

Length(parts) ==
    LET upto[n \in 0 .. Len(parts)] ==
            IF n = 0 THEN 0 ELSE upto[n - 1] + parts[n].len
    IN  upto[Len(parts)]

Text(len) == [number |-> FALSE, cut |-> FALSE, len |-> len]
Number(len) == [number |-> TRUE, cut |-> FALSE, len |-> len]

\* The last of the bytes is snprintf()'s NUL in the place of the text's.
Cut(len) == [number |-> FALSE, cut |-> TRUE, len |-> len]

Header == [i \in DOMAIN HeaderLens |-> Text(HeaderLens[i])]

\* The header always fits, and the line number and the newline wherever there is
\* room for a number.
ASSUME LoggerAssumption ==
    /\ Macro \in [Statements -> Macros]
    /\ Levels \subseteq 0 .. 3
    /\ Message \in [Statements -> Seq(Part)]
    /\ HeaderLens \in Seq(Nat) /\ TrailerLens \in [1 .. 5 -> Nat]
    /\ {kSmallBuffer, kMaxNumericSize, FormatSize} \subseteq Nat
    /\ Length(Header) < kSmallBuffer
    /\ TrailerLens[4] + TrailerLens[5] < kMaxNumericSize
    /\ NoStatement \notin Lines

VARIABLES
    logLevel,           \* g_logLevel
    statement,          \* what each thread executes
    at,                 \* where each thread is in it
    begun,              \* history: the statements executed
    aborted             \* has abort() been called?

loggerVars == <<logLevel, statement, at, begun, aborted>>
allVars == <<vars, loggerVars>>

\* enum LogLevel.
INFO == 0
ERROR == 1
FATAL == 2
DEBUG == 3

LoggerTypeOK ==
    /\ TypeOK
    /\ logLevel \in INFO .. DEBUG
    /\ statement \in [Threads -> Statements \cup {NoStatement}]
    /\ at \in [Threads -> {"idle", "output", "abort"}]
    /\ \A t \in Threads : at[t] = "idle" <=> statement[t] = NoStatement
    /\ begun \subseteq Statements
    /\ ToSet(appended) \subseteq begun \cup LongLines
    /\ aborted \in BOOLEAN

LoggerInit ==
    /\ Init
    /\ logLevel = INFO
    /\ statement = [t \in Threads |-> NoStatement]
    /\ at = [t \in Threads |-> "idle"]
    /\ begun = {}
    /\ aborted = FALSE

-----------------------------------------------------------------------------
(* A line.                                                                 *)

Level(s) == CASE Macro[s] = "LOG_DEBUG" -> DEBUG
              [] Macro[s] \in {"LOG_INFO", "LOG_FMT_INFO"} -> INFO
              [] Macro[s] \in {"LOG_ERROR", "LOG_FMT_ERROR"} -> ERROR
              [] Macro[s] \in {"LOG_FATAL", "LOG_FMT_FATAL"} -> FATAL

IsFormat(s) == Macro[s] \in {"LOG_FMT_INFO", "LOG_FMT_ERROR", "LOG_FMT_FATAL"}

\* Mutant: every part asks for the room of a number.
HasRoomWide(buffer, part) == kSmallBuffer - Length(buffer) >= kMaxNumericSize

\* FixedBuffer::append() and formatInteger() look at avail().
HasRoom(buffer, part) ==
    IF part.number THEN kSmallBuffer - Length(buffer) >= kMaxNumericSize
                   ELSE kSmallBuffer - Length(buffer) > part.len

\* finish().
Trailer == [i \in 1 .. 5 |-> IF i = 4 THEN Number(TrailerLens[i])
                                      ELSE Text(TrailerLens[i])]

\* What the statement asks for: a LOG_FMT_ appends its message as one text.
Wanted(s) == IF IsFormat(s) THEN <<Text(Length(Message[s]))>> ELSE Message[s]

\* What it appends: snprintf() ends what it writes to the buffer with a NUL, and
\* a LOG_FMT_ takes the message's whole length from there.
Formatted(s) ==
    IF IsFormat(s) /\ Length(Message[s]) >= FormatSize
      THEN <<Cut(Length(Message[s]))>> ELSE Wanted(s)

Parts(s) == Header \o Formatted(s) \o Trailer

\* operator<<: a part that finds no room is dropped.
Streamed(parts) ==
    LET upto[n \in 0 .. Len(parts)] ==
            IF n = 0 THEN <<>>
            ELSE IF HasRoom(upto[n - 1], parts[n])
                   THEN Append(upto[n - 1], parts[n]) ELSE upto[n - 1]
    IN  upto[Len(parts)]

\* What is in the LogStream's buffer when ~Logger() hands it over.
Line == [s \in Statements |-> Streamed(Parts(s))]

-----------------------------------------------------------------------------
(* A statement.                                                            *)

\* Only LOG_DEBUG and LOG_INFO look at the level, and a LOG_FMT_ at the length of
\* what snprintf() would have written: one that has the buffer's size passes.
Passes(s) ==
    /\ Macro[s] \in {"LOG_DEBUG", "LOG_INFO"} => logLevel <= Level(s)
    /\ IsFormat(s) => Length(Message[s]) <= FormatSize

SetLogLevel ==
    /\ \E level \in Levels : logLevel' = level
    /\ UNCHANGED <<vars, statement, at, begun, aborted>>

\* The macro's test, and if it passes the Logger with its message.
Begin(t, s) ==
    /\ at[t] = "idle"
    /\ s \notin begun
    /\ begun' = begun \cup {s}
    /\ IF Passes(s)
         THEN /\ statement' = [statement EXCEPT ![t] = s]
              /\ at' = [at EXCEPT ![t] = "output"]
         ELSE UNCHANGED <<statement, at>>
    /\ UNCHANGED <<vars, logLevel, aborted>>

\* Mutant: the level that ends the process is that of the last name.
EndsProcessLast(s) == Level(s) = DEBUG

EndsProcess(s) == Level(s) = FATAL

\* ~Logger(): g_output() ...
Output(t) ==
    /\ at[t] = "output"
    /\ AppendLine(statement[t])
    /\ IF EndsProcess(statement[t])
         THEN /\ at' = [at EXCEPT ![t] = "abort"]
              /\ UNCHANGED statement
         ELSE /\ at' = [at EXCEPT ![t] = "idle"]
              /\ statement' = [statement EXCEPT ![t] = NoStatement]
    /\ UNCHANGED <<logLevel, begun, aborted>>

\* ... and after a fatal line g_flush(), which flushes stdout and not the
\* AsyncLogging, and abort().
Abort(t) ==
    /\ at[t] = "abort"
    /\ aborted' = TRUE
    /\ UNCHANGED <<vars, logLevel, statement, at, begun>>

\* What is not a Logger.
Others ==
    /\ \/ Backend
       \/ \E line \in LongLines : AppendLine(line)
       \/ Start
       \/ Stop
       \/ StopNotify
       \/ StopJoin
    /\ UNCHANGED loggerVars

EndLine(t) == Output(t) \/ Abort(t)

LoggerNext ==
    /\ ~aborted
    /\ \/ Others
       \/ SetLogLevel
       \/ \E t \in Threads : \/ EndLine(t)
                             \/ \E s \in Statements : Begin(t, s)

(* AsyncLogging's fairness, for as long as the process lives, and that of a
   thread that has begun to log.                                           *)
LoggerFairness ==
    /\ WF_allVars(~aborted /\ Backend /\ UNCHANGED loggerVars)
    /\ WF_allVars(~aborted /\ (StopNotify \/ StopJoin) /\ UNCHANGED loggerVars)
    /\ \A t \in Threads : WF_allVars(~aborted /\ EndLine(t))

LoggerSpec == LoggerInit /\ [][LoggerNext]_allVars /\ LoggerFairness

-----------------------------------------------------------------------------
(* Properties.                                                             *)

\* The room a message may take: what is left for the trailer must hold a number.
MessageRoom ==
    kSmallBuffer - Length(Header) - kMaxNumericSize
      - (TrailerLens[1] + TrailerLens[2] + TrailerLens[3])

\* A line is as it was asked for, to its newline, whenever its message leaves room
\* for the trailer, except that a LOG_FMT_ message which has exactly the size of
\* its buffer has lost its last byte to a NUL.  One that leaves no room loses
\* parts, but none of the header, and no line takes the buffer's last byte.
LinesWhole ==
    \A s \in ToSet(appended) \cap Statements :
        /\ Length(Message[s]) <= MessageRoom =>
              (Line[s] = Header \o Wanted(s) \o Trailer <=>
                   ~(IsFormat(s) /\ Length(Message[s]) = FormatSize))
        /\ IsPrefix(Header, Line[s])
        /\ Length(Line[s]) < kSmallBuffer

\* "FATAL情况终止程序": a fatal statement ends the process, unless it is a
\* LOG_FMT_FATAL whose message is too long.
FatalAborts ==
    \A s \in Statements :
        (s \in begun /\ Level(s) = FATAL /\ Passes(s)) ~> aborted

\* A line that was appended is flushed as long as the process lives.
LoggedIsFlushed ==
    \A l \in Lines :
        l \in ToSet(appended) /\ owner = "running" ~>
            \/ l \in ToSet(SubSeq(file, 1, flushed))
            \/ l \in dropped
            \/ ~running
            \/ aborted

\* stop() returns, although its notification may miss the back end.
StopEnds == owner = "stopping" ~> owner = "stopped" \/ aborted
=============================================================================
