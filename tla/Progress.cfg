SPECIFICATION Progress
CONSTANTS
    i1 = i1  i2 = i2  k1 = k1  k2 = k2  r1 = r1  r2 = r2
    NoItem = NoItem  NoWorker = NoWorker
    MaximumAttempts = 2
    Runners = {r1, r2}  Workers = {r1, r2}  WorkerOf <- MCWorkerOf
    Items = {i1, i2}  Keys = {k1, k2}  KeyOf <- MCKeyOf
    LastTurn = 1
    Procs = {p1}
    Calls = {c1, c2}
    MaxRestarts = 1
    PublishFails = FALSE
    Stops = {"awaiting_approval", "awaiting_clarification", "completed", "failed", "timed_out"}
    NoProc = NoProc
PROPERTIES EveryItemSettles PendingFollowsRun
CHECK_DEADLOCK FALSE
