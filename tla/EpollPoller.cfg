\* Three channels, two descriptors, and room for one event at first.
SPECIFICATION Spec
CONSTANTS
    Channels = {c1, c2, c3}
    Fds = {f1, f2}
    ReadyMasks <- MCReadyMasks
    InitSize = 1
    NoChannel = NoChannel
    NoFd = NoFd
    NoEvent = NoEvent
INVARIANTS TypeOK KernelAgrees HandledIsAlive
PROPERTIES ReadyIsHandled
