\* Servers with two threads and with none; three clients share two descriptors.
SPECIFICATION Spec
CONSTANTS
    MaxConns = 3
    Fds = {fd1, fd2}
    ThreadNums = {0, 2}
    NoFd = NoFd
    NoConn = NoConn
INVARIANTS TypeOK OnceEach ChannelsLive DiesOnlyOf
PROPERTIES ClosedIsReleased
\* A process that died, or that serves nobody any more, stops.
CHECK_DEADLOCK FALSE
