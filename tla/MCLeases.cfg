SPECIFICATION FairSpec
CONSTANTS
    Worker = {w1, w2}
    NoWorker = NoWorker
    RunRef <- MCRunRef
    NoRun = NoRun
    Verdict = {}
    NoVerdict = NoVerdict
    AnyState = AnyState
    Job = {j1, j2}
    NoJob = NoJob
    Capacity = 1
    MaxAttempts = 2
    MaxStarts = 2
INVARIANTS
    TypeOK
    LeaseIffHeld
    IdleHoldsNothing
    CapacityRespected
    AttemptBound
PROPERTIES
    OutcomeIsFinal
    ImplementsLifecycle
    UnadoptedSettles
CHECK_DEADLOCK FALSE
