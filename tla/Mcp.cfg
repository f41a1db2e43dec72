SPECIFICATION FairSpec
CONSTANTS
    Callers = {c1, c2}
    Boot = boot
    Failures = 2
    ReverseIds = {2, 3}
    MaxCooling = 1
    MaxOwn = 1
    Apps = {app}
    Logins = {login}
    Specs <- MCSpecs
    Stored <- MCStored
    JoyOnly = FALSE
INVARIANTS
    AnswersReachTheirCall
    BreakerIsEarned
    StoreSurvives
PROPERTIES
    CallsReturn
