SPECIFICATION FairSpec
CONSTANTS
    a = a
    b = b
    ds = ds
    Saves <- MCSaves
    Nothing = Nothing
    Absent = Absent
    Ids = {a, b}
    Routes <- MCRoutes
    Turns = {t1, t2}
    Vendors = {ds}
    Local = ollama
    Unknown = odd
    EnvKey = EnvKey
    EnvTokens = 2
    Window = 3
    Asked = {0, 1, 3}
    Commands = {ls, pwd}
    Broken = {pwd}
    MaxRules = 1
    MaxRequests = 3
    MaxFaults = 1
CHECK_DEADLOCK FALSE
INVARIANTS
    
    AcceptedConfigBoots
    CalmCacheIsFresh
PROPERTIES
    ChoosingEnds
