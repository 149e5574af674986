SPECIFICATION Spec
CONSTANTS
    N = 3
    Manifests <- AllShapes
    Procs = {p1, p2}
    Tasks = {t1, t2}
    MaxStops = 1
    Cancels = TRUE
INVARIANT TypeOK
INVARIANT GatedCallsApproved
INVARIANT WaitCanEnd
INVARIANT DependenciesHold
PROPERTY OverIsOver
PROPERTY DoneStaysDone
CHECK_DEADLOCK FALSE
SYMMETRY Alike
