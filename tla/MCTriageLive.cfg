SPECIFICATION FairSpec
CONSTANTS
    Worker = {w1}
    NoWorker = NoWorker
    RunRef = {}
    NoRun = NoRun
    Verdict = {}
    NoVerdict = NoVerdict
    AnyState = AnyState
    Loop = {p1}
    MaxJobs = 5
    Dependent = {d1}
    MaxAttempts = 2
    AutoRetryMax = 1
    TriageAttempts = 3
    MaxCrashes = 1
    MaxRequeues = 0

    
PROPERTIES
    OrphansRepaired
    FailureSettles
CHECK_DEADLOCK FALSE
