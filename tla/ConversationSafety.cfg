SPECIFICATION ConvSafe
CONSTANTS
    LastTurn = 2
    Procs = {p1}
    Calls = {c1, c2}
    MaxRestarts = 1
    PublishFails = FALSE
    Stops = {"awaiting_approval", "awaiting_clarification", "completed", "failed", "timed_out"}
    NoProc = NoProc
INVARIANTS TurnsSound
PROPERTIES OutcomeStands ContractKept
SYMMETRY Interchangeable
CHECK_DEADLOCK FALSE
