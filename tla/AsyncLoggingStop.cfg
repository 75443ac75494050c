\* Two lines, start() and stop().
SPECIFICATION Spec
CONSTANTS
    Lines = {l1, l2}
    LongLines = {}
    BufferSize = 2
    MaxBacklog = 2
    NoBuffer = NoBuffer
PROPERTIES LoggedIsWritten
\* The logger stops, and so does one that is never started.
CHECK_DEADLOCK FALSE
