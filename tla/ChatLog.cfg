CONSTANTS
    t1 = t1
    t2 = t2
    Turns = {t1, t2}
    EveryN = 1
    MaxLost = 1
SPECIFICATION FairSpec
INVARIANTS
    EpisodesDisjoint
    ConsolidatedAccountedFor
PROPERTIES
    ClaimsAreSettled
    ImplementsClaims
