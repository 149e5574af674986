SPECIFICATION Spec
CONSTANTS
    N = 3
    Manifests <- Parallel
    Procs = {p1}
    Tasks = {t1, t2}
    MaxStops = 0
    Cancels = FALSE
INVARIANT CompletedIsDecided
CHECK_DEADLOCK FALSE
