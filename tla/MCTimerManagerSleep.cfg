\* The same clients, checked against what test_reactor.cpp takes loop's result for.
CONSTANTS
    Timer = {t1, t2, t3}
    None = None
    MaxTime = 2
    Delay = {0, 1}
    MaxModify = 0
SPECIFICATION Spec
INVARIANTS NoOversleep
