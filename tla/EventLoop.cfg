\* Two threads and the loop's own callbacks share three functors.
SPECIFICATION Spec
CONSTANTS
    Threads = {t1, t2}
    Functors = {f1, f2, f3}
    IoChannels = {io}
    MaxWakeupFd = 2
    InitCallbackQueues = FALSE
    QuitBeforeLoop = FALSE
INVARIANTS TypeOK NoLostWakeup QuitWakes BatchDrained
PROPERTIES ImplementsTaskQueue QueuedIsCalled QuitStops
\* A loop that quit stops for good, and so does one nobody calls any more.
CHECK_DEADLOCK FALSE
