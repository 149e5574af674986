SPECIFICATION PlatformSpec
CONSTANTS
  i1 = i1
  i2 = i2
  i3 = i3
  k1 = k1
  k2 = k2
  r1 = r1
  r2 = r2
  NoItem = NoItem
  NoWorker = NoWorker
  MaximumAttempts = 2
  Runners <- MCRunners
  Workers <- MCRunners
  WorkerOf <- MCWorkerOf
  Items <- MCItems
  Keys <- MCKeys
  KeyOf <- MCKeyOf
  BundleConfigs <- MCBundles
  RequireSigned = FALSE
  TrustedKeys = {"k"}
  GuardedAgents <- MCGuardedAgents
  GuardedTools <- MCTools
  Payloads <- MCPayloads
  OpenPoints = {"after_tool", "input"}
  MaxPolicyErrors = 1
  NoSelection = NoSelection
  Listers = {"l1", "l2"}
  ServerTools <- MCServerTools
  NormalName <- MCNormal
  AllowedNames <- MCToolNames
  TrustedServers = {"sa"}
  OperatorPolicy <- MCOperator
  BuiltInTools = {"clock"}
  Origins <- MCOrigins
  HomeOrigin <- MCHomeOrigin
  MaxPages = 3
  MaxResultBytes = 3
  PageSizes = {1, 2}
  MaxClients = 3
  KitCalls = {"k1", "k2"}
  TextFile <- MCTextFile
  ReadBytes = 3
  DirTree <- MCDirs
  MaxDirEntries = 2
  MaxDirDepth = 2
  Deployments <- MCDeployments
  Handles = {"database", "redis", "cache_redis", "artifacts", "http", "mcp", "kit", "base", "provider_client", "adapter"}
  MaxFaults = 1
  GraphNodes = {"a", "b", "c"}
  NodeDeps <- MCDeps
  NodeKey <- MCKey
  Drives = {"d1", "d3"}
  DriveProcess <- MCProcess
  MaxParallel = 2
  MaxTries = 2
  Questions <- MCQuestions
  Policy <- MCPolicy
  MaxAge = 1
  QueryUntil = 2
  SemanticQueries <- MCQueries
  SemanticModels <- MCModels
  SemanticJoins <- MCJoins
  Caller <- MCCaller
  ModelVersions <- MCVersions
  Predictions <- MCPredictions
  Nothing = Nothing
  MaxSaid = 8
  MaxTurns = 2
  MaxContext = 9
  Trigger = 5
  KeepRecent = 1
  InputLimit = 4
  ArchivePrefix = TRUE
  ShortenOld = TRUE
  Documents <- MCDocuments
  MaxEvidence = 2
  MaxRepairs = 1
  MemoryItems = 3
  MaxMemory = 4
  Texts <- MCTexts
  PageSize = 2
  Readers_ = {"o1", "o2"}
  ArtifactUntil = 2
  Files <- MCFiles
  GivenFiles <- MCGiven
  FileTypes = {"png", "pdf"}
  FileCount = 2
  FileBytes = 2
  Skills = {"k1", "k2"}
  AgentVersions <- MCSkillAgents
  Missing = Missing
  wr1 = wr1
  wr2 = wr2
  MemoryCalls = {"c1", "c2", wr1, wr2}
  ScopeOf <- MCScopeOf
  Rights <- MCRights
  MemoryKeys = {"k"}
  Contents = {"a"}
  Screened = "redacted"
  SizeOf <- MCSizes
  DefaultQuota <- MCQuota
  TenantQuota <- MCTenantQuota
  RecallLimit = 1
  MaxRetention = 1
  MemoryUntil = 2
  MaxRevision = 1
  MaxReplays = 1
  FlowTasks = {1, 2, 3, 4}
  ChildIds = {1, 2}
  ParentRetry = TRUE
  ChildRetry = FALSE
  MaxCrashes = 2
  TextLength = 8
  WordSize = 4
  WordOverlap = {0, 1, 3}
  LineKinds = {"h1", "h2", "text", "item", "blank", "fence", "rule"}
  MaxLines = 4
  BlockChoices <- MCBlocks
  ChunkSize = 12
  ChunkOverlap = 2
  PathLengths = {0, 1, 9}
  IndexTasks = {1, 2, 3}
  Sources <- MCSources
  ChunkCount <- MCCounts
  Configured <- MCConfigured
  Backends = {"memory", "postgres", "remote", "faiss"}
  IndexCrashes = 1
  FileTasks = {1, 2, 3}
  FileIds = {"i1", "i2"}
  FileQuota = 1
  FileCrashes = 1
  RedisSessions = {"a", "b", "c"}
  RedisTtl = 2
  ItemLimit = 4
  TrimBatch = 2
  RedisUntil = 6
  Replicas = {"old", "new", "new2"}
  FilesOf <- MCMigrations
  NetRequests = {"n1"}
  Hosts = {"api.x", "db.x", "ip"}
  DomainsOf <- MCDomains
  LiteralOf <- MCLiterals
  Addresses = {"public1", "private1"}
  PublicAddresses = {"public1"}
  Proxy = "proxy"
  AllowedHosts = {"x", "ip"}
  NoProxy = {"db.x"}
  Remotes <- MCRemotes
  Certificates = {"good", "other"}
  MaxHops = 1
  MaxChanges = 1
  Approvers = {"a1", "a2"}
  Listings = {"l"}
  ApprovalLife = 1
  PageLimit = 1
  MaxApprovals = 2
  ApprovalUntil = 2
  DomainPlugins <- MCPlugins
  PackageOf <- MCPackageOf
  TrustedPackages = {"a", "b"}
  PublisherKeys <- MCPluginKeys
  Signers <- MCSigners
  Registers <- MCRegisters
  RuntimeComponents = {"t0"}
  PluginContents = {"v1", "v2"}
  MaxEdits = 3
INVARIANTS QueueSafe DecisionsSafe HostSafe MemorySafe ChildSafe RetrievalSafe NetSafe
PROPERTIES SettledOnce CatalogSafe AnalyticsSafe TextsSafe StorageSafe
CHECK_DEADLOCK FALSE
