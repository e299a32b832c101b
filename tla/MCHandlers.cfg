SPECIFICATION HSpec
CONSTANTS
    Worker = {w1, w2}
    NoWorker = NoWorker
    RunRef <- MCRunRef
    NoRun = NoRun
    Verdict <- MCVerdict
    NoVerdict = NoVerdict
    AnyState = AnyState
    Case <- MCCase
    Loop = {p1}
    MaxAttempts = 2
    ReportAttempts = 2
    AutoRetryMax = 1
    AutoAccept = TRUE
    Accepting <- MCAccepting
    Unfounded <- MCUnfounded
    MaxUpsets = 2
    Result <- MCResult
    Wanted <- MCWanted
SYMMETRY Symmetry
INVARIANTS
    HTypeOK
    JudgedRun
    PassIsEarned
    RunOfTheJob
    
    BriefingComplete
PROPERTIES
    StepsOfControl
CHECK_DEADLOCK FALSE
