\* Two requests, which one read can take.
SPECIFICATION Spec
CONSTANTS
    kCheapPretend = 1
    kInitialSize = 16
    ExtraSize = 4
    Byte <- MCByte
    Zero <- MCZero
    RequestKinds <- MCRequestKinds
    MaxRequests = 2
INVARIANT PipelinedAnswered
\* A client stops when it has sent all its requests.
CHECK_DEADLOCK FALSE
