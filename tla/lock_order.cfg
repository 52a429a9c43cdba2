SPECIFICATION Spec
CONSTANTS
    Threads = {t1, t2, t3}
    NoThread = NoThread
    MaxRounds = 4
SYMMETRY ThreadSymmetry
INVARIANTS
    NoCircularWait
    SleepersHoldNothing
CHECK_DEADLOCK FALSE
