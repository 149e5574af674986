SPECIFICATION Spec
CONSTANTS
    e1 = e1  e2 = e2  e3 = e3  o1 = o1  o2 = o2  o3 = o3  None = None
    Execs <- MCTwoExecs  Ops <- MCOps
    SideEffecting = TRUE  Retries = TRUE  HasHook = TRUE  SingleNode = FALSE  Serialized = FALSE
SYMMETRY SymmetricTwo
PROPERTIES SettledStands
CHECK_DEADLOCK FALSE
