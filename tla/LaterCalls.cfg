\* Three calls on two lists, each of which may change the map.
SPECIFICATION FairSpec
CONSTANTS
    Calls = {t1, t2, t3}
    NoCall = NoCall
    Delays = {1, 2}
    Elapsed = {1, 2}
    Curtimes = {2}
    MaxWait = 1
    Word = 256
    MaxTime = 4
INVARIANTS Owned NoOversleep
PROPERTIES TimersKept CallsRun
CHECK_DEADLOCK FALSE
