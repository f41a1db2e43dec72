CONSTANTS
    morning = morning
    notice = notice
    Jobs = {morning, notice}
    Declared = {morning}
    CatchUp = {morning}
    Triggers <- TriggersHere
    Legacy <- LegacyHere
    LastMinute = 4
    MaxCrashes = 2
    MaxFaults = 1
SPECIFICATION FairSpec
CHECK_DEADLOCK FALSE
INVARIANTS
    KnownRunsAreClaimed
    OnlyCrashesRepeatARun
PROPERTIES
    InterruptedIsRunAgain
    MissedIsMadeUp
