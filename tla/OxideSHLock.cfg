CONSTANTS
    t1 = t1
    t2 = t2
    t3 = t3
    Thread <- MCThread
    NoThread = NoThread
    MaxGuards = 3
SPECIFICATION FairSpec
INVARIANTS CountsMatchGuards NoLostWakeup PanicEndsProcess
PROPERTIES Contract ReadersGetIn
CHECK_DEADLOCK FALSE
