CONSTANTS
    Gone = Gone
    Unwritten = Unwritten
    Ends <- MCEnds
    IdenticalThreshold = 3
    MaxCyclePeriod = 4
    LeastStub = 9
    MostStub = 40
    NoticeLen = 6
    NoticePathLen = 10
    SelfBudgeted = {"run"}
    Tools = {"run", "note", "remote"}
    Stranger = "nobody"
    RunCommand = "run"
    Unchecked = {"remote"}
    Settings <- MCSettings
    StubMinChars = 25
    NoteLen = 7
    ReferenceLen = 8
SPECIFICATION ToolCallsSpec
INVARIANTS
    RunsAreCleared
    StallsAreNoticed
    RequestsFit
    WarningsAreRead
CHECK_DEADLOCK FALSE
