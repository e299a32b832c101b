SPECIFICATION Spec
CONSTANTS
    Worker = {w1}
    NoWorker = NoWorker
    RunRef = {}
    NoRun = NoRun
    Verdict = {}
    NoVerdict = NoVerdict
    AnyState = AnyState
    Loop = {p1, p2}
    MaxJobs = 3
    Dependent = {d1}
    MaxAttempts = 1
    AutoRetryMax = 0
    TriageAttempts = 3
    MaxCrashes = 0
    MaxRequeues = 0
INVARIANT
    OneTriageJob
CHECK_DEADLOCK FALSE
