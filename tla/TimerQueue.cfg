\* Two microseconds to the second.
SPECIFICATION Spec
CONSTANTS
    Timers = {t1, t2}
    kMicroSecondsPerSecond = 2
    Times = {0}
    Delays = {0, 1}
    MaxClock = 8
    MaxPending = 2
INVARIANTS TypeOK ArmedForEarliest OneShotOnce CancelStopsRepeat
PROPERTIES DueTimersRun
\* The bounded clock stops.
CHECK_DEADLOCK FALSE
