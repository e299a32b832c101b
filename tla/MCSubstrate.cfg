SPECIFICATION Spec
CONSTANTS
    Worker = {w1}
    NoWorker = NoWorker
    RunRef = {}
    NoRun = NoRun
    Verdict = {}
    NoVerdict = NoVerdict
    AnyState = AnyState
    Client = {c1, c2}
    NoClient = NoClient
    Job = {j1}
    Study = {s1}
    Calls <- WorkCalls
    NoCall = NoCall
    MaxEvents = 6
SYMMETRY Symmetry
INVARIANTS
    TypeOK
    UpdateHits
    LogReplaysTables
    AttemptsAreLogged
PROPERTIES
    OneRowOneEvent
    ImplementsLifecycle
CHECK_DEADLOCK FALSE
