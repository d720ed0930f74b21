SPECIFICATION FairSpec
CONSTANTS
    Readers = {r1, r2}
    MaxHops = 0
    MaxReports = 3
INVARIANTS TypeOK WakesLiveLoop SleepersHaveNothing FreedAtRest
PROPERTIES ImplementsQueue CloseReturns EndReachesReaders
CHECK_DEADLOCK FALSE
