SPECIFICATION PlannedSpec
CONSTANTS
    Worker = {"w1"}
    NoWorker = NoWorker
    RunRef = {}
    NoRun = NoRun
    Verdict = {"pass", "error"}
    NoVerdict = NoVerdict
    AnyState = AnyState
    Case = {"c1"}
    Loop = {"p1"}
    MaxAttempts = 2
    ReportAttempts = 1
    AutoRetryMax = 1
    AutoAccept = TRUE
    Accepting = {"pass"}
    Unfounded = {"error"}
    MaxUpsets = 1
INVARIANTS
    TypeOK
    
    VerdictDecides
    ChecksHaveARun
    ReportComesLast
    

    
CHECK_DEADLOCK FALSE
