SPECIFICATION Spec
CONSTANTS
    n1 = n1  h1 = h1  h2 = h2  None = None
    Nodes <- OneNode  Handlers <- TwoHandlers
    OnRejection = "continue"  Crashes = TRUE  Outages = TRUE  Deadlines = FALSE  Cancels = TRUE
SYMMETRY Symmetric
INVARIANTS TypeOK CopiesCoherent
PROPERTIES HistoryIsLegal RunFollowsDecision DecisionStands
