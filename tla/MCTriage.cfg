SPECIFICATION Spec
CONSTANTS
    Worker = {w1}
    NoWorker = NoWorker
    RunRef = {}
    NoRun = NoRun
    Verdict = {}
    NoVerdict = NoVerdict
    AnyState = AnyState
    Loop = {p1, p2}
    MaxJobs = 5
    Dependent = {d1}
    MaxAttempts = 3
    AutoRetryMax = 0
    TriageAttempts = 3
    MaxCrashes = 0
    MaxRequeues = 1
SYMMETRY Symmetry
ACTION_CONSTRAINT PromptStep
INVARIANTS
    TypeOK
    
    
    LineageAdvances
CHECK_DEADLOCK FALSE
