SPECIFICATION Spec
CONSTANTS
    n1 = n1  h1 = h1  h2 = h2  None = None
    Nodes <- OneNode  Handlers <- TwoHandlers
    OnRejection = "fail"  Crashes = FALSE  Outages = FALSE  Deadlines = FALSE  Cancels = FALSE
SYMMETRY Symmetric
INVARIANTS DecisionTaken
CHECK_DEADLOCK FALSE
