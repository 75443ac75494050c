\* Two callers, two messages of two bytes each, a socket that holds one.
SPECIFICATION Spec
CONSTANTS
    Callers <- MCCallers
    Usages <- MCUsages
    MaxSends = 2
    MessageLen = 2
    SocketSendBuf = 2
    HighWaterMark = 3
    HasWriteComplete = TRUE
INVARIANTS TypeOK StreamInOrder FinAfterData WritingIffOutput
           SurvivesOrderlyUse ToldOnce
PROPERTIES Delivered ShutdownCompletes
\* A connection that is destroyed, that nobody uses any more or whose process
\* died stops.
CHECK_DEADLOCK FALSE
