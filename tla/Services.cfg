SPECIFICATION ServicesSpec
CONSTANTS
  Keys = {k1}
  Threshold = 2
  Cooldown = 2
  Probes = 2
  RuleLife = 1
  MaxTime = 3
  MaxFailures = 3
  MaxRules = 2
  None = "none"
  Users = {"u1", "u2"}
  Sessions = {"a", "b"}
  Messages = {"m1", "m2", "m3"}
  MaxEntries = 1
  MaxWrites = 2
  MaxRetries = 1
  MaxTurns = 1
  MaxCrashes = 1
  MaxCalls = 4
  MaxSnapshots = 2
  GivenId = 100
  MaxSnapshotTime = 2
  MaxRecords = 2
  Sender <- MCSender
  Window = 2
  RateWindow = 3
  RateMax = 2
  MaxIngressTime = 4
  MaxOpen = 2
  Letter = {"a", "b"}
  MaxReplays = 2
  MaxDeaths = 1
  Connections = {"a", "b", "c"}
  Timeout = 1
  Calls <- MCCalls
  Policies <- MCPolicies
  Modes = {"default", "plan", "bypass", "auto", "interactive", "sandbox", "restricted"}
  Cwd = 3
  Whitelist = {"http_request"}
  Trusting = TRUE
  Memories = {"a", "b", "c"}
  Capacity = 1
  MaxRows = 2
  Groups = {"a", "b"}
  Limit = 1
  MaxChanges = 3
  MaxClock = 1
  Names = {"n1", "n2", "n3"}
  Unknown = "unknown"
  Files = {"f1", "f2"}
  FileOf <- MCFileOf
  ReadAs <- MCReadAs
  MaxSkills = 1
  Slots = {1, 2}
  Skills = {"n"}
  TrendFrom = 2
  DecliningBelow = 3
  RisingAbove = 3
  EvolutionThreshold = 3
  MinCalls = 2
  Percent = 60
  MaxSessions = 1
  MaxConcurrent = 1
  MaxPerMinute = 1
  MaxLives = 2
  Blocks = {1, 2, 3}
  Pieces = 2
  Outgoing = {"m"}
  Timer = "timer"
  MaxTries = 2
  MaxIssued = 4
  MaxIterations = 2
  MaxSuggestions = 2
  MaxReviewTime = 1
  MaxReviews = 2
  MaxActs = 1
  Answers <- MCAnswers
  Requests = {"r1", "r2"}
  Waits = {"a", "b", "c"}
  Turns = {0, 1, 2}
  MaxSaid = 14
  Ids = {"a", "b", "c"}
  Fallback = "fallback"
  MaxMessages = 4
  NumChannels = 2
  Guarded = {2}
  MaxStartFailures = 2
  MaxStarts = 2
INVARIANTS
  Types
  NoConflictingAdvice
  InboundIsOrderly
  OutboundIsKept
  RunsAreWarranted
  SessionsKeepTheirOwn
  StorageIsConsistent
  SkillsAreKept
  ProvidersAreFaithful
PROPERTIES
  BreakerKeepsContract
  RestartHasLastSave
CHECK_DEADLOCK FALSE
