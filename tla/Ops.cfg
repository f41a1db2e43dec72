SPECIFICATION Spec
CONSTANTS
    t1 = t1
    t2 = t2
    w = w
    r = r
    TurnCalls = {t1, t2}
    Writes = {w}
    Reads = {r}
    WithGraph = {t1}
    SessionOf <- MCSessions
    Scenarios <- MCScenarios
    MaxMishaps = 1
    EventBuffer = 2
    TurnBuffer = 1
    Requests = {q1, q2, q3}
    Users = {ann, bob, cyd}
    MaxOpen = 2
    IdleSweep = TRUE
    MaxSpawns = 4
    Hosts <- MCHosts
INVARIANTS ReadsSeeEarlierWrites StreamsTellTheirTurn AnsweredUnlessKilled
PROPERTIES PoolSparesWhatIsUsed NobodyWaitsForever
CHECK_DEADLOCK FALSE
