CONSTANTS
    t1 = t1
    t2 = t2
    Turns = {t1, t2}
    Busy = {t1}
    MaxRequests = 1
    MaxIter = 2
    MaxUses = 2
    MaxStops = 1
    MaxRounds = 2
    MaxGoals = 1
SPECIFICATION FairSpec
INVARIANTS
    GrantedWasAnsweredYes
    AuditIsTrue
    OneStepAfterInterrupt
PROPERTIES
    TurnsEnd
