SPECIFICATION Spec
CONSTANTS
    e1 = e1  e2 = e2  e3 = e3  o1 = o1  o2 = o2  o3 = o3  None = None
    Execs <- MCExecs  Ops <- MCOps
    SideEffecting = TRUE  Retries = FALSE  HasHook = TRUE  SingleNode = TRUE  Serialized = TRUE
SYMMETRY Symmetric
INVARIANTS AtMostOneEffect LedgerTruthful DecisionsKept
CHECK_DEADLOCK FALSE
