CONSTANTS
    NoNode = NoNode
    Failed = Failed
    MaxSteps = 6
    Graphs <- GraphsHere
    Private <- PrivateHere
    Outcomes <- OutcomesHere
    MayHang <- MayHangHere
    Label <- LabelHere
SPECIFICATION FairSpec
CHECK_DEADLOCK FALSE
INVARIANTS
    LoopsAreBounded
    JoinsRunOnTheirInputs
    NoWriteLost
    BriefingSpeaks
PROPERTIES
    RunEnds
