SPECIFICATION ServicesSpec
CONSTANTS
  r1 = r1
  r2 = r2
  EnabledTools = {"look", "change", "ping"}
  ReadOnlyTools = {"look"}
  ApprovalTools = {"change"}
  CallLimit <- MCCallLimit
  BadCalls <- MCBad
  Arguments = {"a", "b"}
  Replies <- MCReplies
  MaxCallId = 6
  MaxSteps = 2
  StepIncrement = 1
  AutoExtensions = 1
  MaxExtensions = 2
  MaxModelCalls = 2
  MaxAttempts = 2
  MaxPending = 2
  MaxSteering = 1
  LoopRestarts = 1
  Writers = {"w1", "w2"}
  Readers = {"r1"}
  HomeOf <- MCHome
  QueueSize = 2
  MaxEvents = 4
  MaxChars = 2
  Providers = {"near", "far"}
  Registration <- MCRegistration
  Profiles <- MCProfiles
  ModelCalls = {r1, r2}
  Threshold = 2
  Reset = 2
  Limit = 2
  Window = 2
  MaxClock = 2
  MeterMayFail = TRUE
  WireNames = {"a.b", "a__b", "a b", "a_b"}
  Readable <- MCReadable
  Accepted = {"a__b", "a_b"}
  StemOf <- MCStems
  Indexes = {0, 1}
  ChunkPieces = {"x", "y"}
  MaxChunks = 4
  CacheCallers = {"q1", "q2", "q3", "q4"}
  CallerContext <- MCContexts
  CacheScopeOf = "user"
  MaxEntries = 1
  MaxVersion = 2
  NoCaller = NoCaller
  HttpRequests = {r1, r2}
  Tokens = {"a", "b"}
  TokenOf <- MCTokenOf
  TrustUntil = 2
  KeyTtl = 2
  MinInterval = 2
  AuditLimit = 1
  AuditWindow = 2
  MaxRevocations = 1
  MaxRevokes = 2
  Nobody = Nobody
  GateRequests = {r1, r2}
  Principals <- MCPrincipals
  RunsKnown <- MCRunsKnown
  ConversationsKnown <- MCConversationsKnown
  Policies <- MCPolicies
  BodyLimit = 1
  GateUntil = 1
  NoPrincipal = NoPrincipal
  McpCalls = {r1, r2}
  McpUsers <- MCUsers
  Processes = {"here", "away"}
  Here = "here"
  TokenScope = "user"
  Callbacks = {1, 2}
  MaxOAuthConnections = 1
  MaxToken = 2
  MaxAuthorizations = 2
  MaxSessions = 2
  Absent = Absent
SYMMETRY ServicesSymmetry
CHECK_DEADLOCK FALSE
INVARIANTS LoopSafe ClientsSafe ModelCallsSafe McpSafe
PROPERTIES CacheSafe TrustSafe
