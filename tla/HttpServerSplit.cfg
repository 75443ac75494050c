\* One request in reads of any size.
SPECIFICATION Spec
CONSTANTS
    kCheapPretend = 1
    kInitialSize = 4
    ExtraSize = 4
    Byte <- MCByte
    Zero <- MCZero
    RequestKinds <- MCRequestKinds
    MaxRequests = 1
INVARIANT BadRequestIsMalformed
\* A client stops when it has sent all its requests.
CHECK_DEADLOCK FALSE
