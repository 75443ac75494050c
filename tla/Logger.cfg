\* Two threads, three statements and a line that no buffer can hold.
SPECIFICATION LoggerSpec
CONSTANTS
    info = info
    error = error
    fatal = fatal
    big = big
    Lines <- MCLines
    LongLines = {big}
    BufferSize = 1
    MaxBacklog = 2
    NoBuffer = NoBuffer
    Threads = {a, b}
    Levels = {2}
    Macro <- MCMacro
    Message <- MCMessage
    HeaderLens <- MCHeaderLens
    TrailerLens <- MCTrailerLens
    kSmallBuffer = 20
    kMaxNumericSize = 4
    FormatSize = 7
    NoStatement = NoStatement
INVARIANTS LoggerTypeOK BuffersReady InOrderOnce FullBufferNotified LinesWhole
PROPERTIES DroppedOnlyLate FatalAborts LoggedIsFlushed StopEnds
\* The logger stops, and the process may end.
CHECK_DEADLOCK FALSE
