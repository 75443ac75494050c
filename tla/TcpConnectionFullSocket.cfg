\* write() finds the socket full.
SPECIFICATION Spec
CONSTANTS
    Callers <- MCCallers
    Usages <- FillsUsages
    MaxSends = 2
    MessageLen = 2
    SocketSendBuf = 2
    HighWaterMark = 3
    HasWriteComplete = TRUE
INVARIANTS NoGarbage
\* A connection that is destroyed, that nobody uses any more or whose process
\* died stops.
CHECK_DEADLOCK FALSE
