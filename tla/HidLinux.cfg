SPECIFICATION FairSpec
CONSTANTS
    MaxHops = 0
    MaxReports = 4
INVARIANTS TypeOK FreedAtRest NeverSleepsOnReport
PROPERTIES EndIsFinal ImplementsQueue CloseReturns EndReachesReader
CHECK_DEADLOCK FALSE
