\* Three timers, so that a callback can act on two others; an instant before, at
\* and after an expiry; one and two periods of catch-up.
CONSTANTS
    Timer = {t1, t2, t3}
    None = None
    MaxTime = 2
    Delay = {0, 1}
    MaxModify = 1
SPECIFICATION Spec
INVARIANTS LinkedOnce SleepCovers
PROPERTIES ServiceSpec Served
