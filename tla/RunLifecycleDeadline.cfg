SPECIFICATION Spec
CONSTANTS
    n1 = n1  h1 = h1  h2 = h2  None = None
    Nodes <- OneNode  Handlers <- TwoHandlers
    OnRejection = "fail"  Crashes = TRUE  Outages = FALSE  Deadlines = TRUE  Cancels = FALSE
SYMMETRY Symmetric
INVARIANTS WaitIsFree
PROPERTIES ResumedRunIsDriven
