\* Three requests in reads of any size, a vector of five bytes and an extrabuf of
\* four.
SPECIFICATION Spec
CONSTANTS
    kCheapPretend = 1
    kInitialSize = 4
    ExtraSize = 4
    Byte <- MCByte
    Zero <- MCZero
    RequestKinds <- MCRequestKinds
    MaxRequests = 3
INVARIANTS InputIsQueue AnsweredInOrder
\* A client stops when it has sent all its requests.
CHECK_DEADLOCK FALSE
