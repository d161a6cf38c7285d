SPECIFICATION ServicesSpec
CONSTANTS
  Types = {t1}
  QueuePriorities = {1, 5}
  MaxActions = 2
  MaxQueued = 2
  None = None
  Delays = {0, 1}
  Periods = {1}
  Priorities = {5}
  MaxPending = 2
  MaxScheduledIds = 3
  MaxTime = 2
  Pools = {cpu, gpu}
  FirstPool = cpu
  Requesters = {r1, r2}
  Capacities = {1, 2}
  Amounts = {1, 2}
  MaxGrants = 2
  ClusterNodes = {n1, n2}
  Agents = {a1}
  Callers = {c1, c2, c3}
  Peers = {1, 2}
  ProtocolNodes = {2}
  Threads = {h1, h2}
  MissedThreshold = 2
  DeadThreshold = 3
  OfferIds = {1}
  BallotIds = {1}
  AgentIds = {b1, b2, b3}
  FewAgents = {b1, b2}
  Capable = {b1}
  TaskIds = {k1}
  ProposalIds = {1}
  RequestIds = {1, 2}
  Shares = {1, 2}
  MaxTotal = 3
  Workers = {1, 2}
  Submitters = {s1, s2}
  PlacedIds = {1}
  MaxLoad = 2
  Thoughts = {m1, m2}
  Contexts = {"goal"}
  Importances = {1, 3}
  Thresholds = {0, 2}
  BufferSizes = {0, 1, 2}
  FirstSize = 1
  FirstThreshold = 2
  ItemIds = {1, 2, 3}
  MaxIndexed = 3
  GoalAtoms = {g1, g2, g3}
  MaxHierarchyDepth = 2
  MaxSubgoals = 2
  Concepts = {x1, x2, x3}
  Transitivity = Transitivity
  OtherRules = {GoalDriven}
  RulePriorities = {1, 2}
  PassLimits = {0, 2}
  MaxRules = 3
  MaxTold = 3
  ContextIds = {y1, y2, y3}
  ContextTypes = {task}
  ContextAtoms = {o1}
  MaxContexts = 2
  CoreThreads = {h1, h2}
  CoreAtoms = {e1, e2}
  CorePriorities = {5, 10}
  MaxConcurrent = 2
  Repeats = {2}
  NoStatus = NoStatus
  MaxAsked = 2
  MaxPlanned = 1
  Handles = {z1}
  Nodes = {z1}
  RecordKinds = {task}
  MaxAge = 2
  MaxKeywords = 2
  CoreLoop = loop
  CoreHands = {h3}
  TaskPriorities = {0, 1}
  CycleLimit = 2
  MaxCoreTasks = 2
  MaxEnqueued = 1
  MaxCorePercepts = 1
  MaxRewired = 1
  PlanGoals = {2, 22}
  PlanStrategies = {"STRIPS", "HIERARCHICAL", "HYBRID"}
  MaxExpansions = 50
  MaxPlanDepth = 2
  MaxPlanActions = 2
  MaxMethods = 3
  EpisodeContexts = {"", "task"}
  EpisodeLimits = {0, 2}
  Instants = {1, 2}
  MaxEpisodes = 3
  MaxSequence = 4
  ExperienceTypes = {"FAILURE", "SUCCESS"}
  ExperienceContexts = {NoContext, task}
  NoContext = NoContext
  Weights = {1, 2, 3}
  ExperienceLimits = {1, 2}
  FewExperiences = 1
  ImportanceThreshold = 2
  RetentionPeriod = 1
  MaxExperienceTime = 2
  Users = {h1, h2}
  NoSession = NoSession
  OwnConversations = {8, 9}
  HistoryLimits = {0, 3}
  MaxUtterances = 2
  MaxSessions = 2
  CommThreads = {h1, h2}
  MessageTypes = {"INFO"}
  Correspondents = {"peer"}
  InboxLimit = 2
  BatchSizes = {2}
  MaxMessages = 3
  ToolCallers = {h1, h2}
  MaxCalls = 2
  ToolNames = {u1, u2}
  ToolCategories = {1, 2}
  DiscoveredTools = {u1}
  DiscoveredAs = 1
  MaxUses = 1
  FactNames = {"a", "b"}
  RelationNames = {"isa", "b"}
  Unknowns = {"?x", "?y", "?p", "?u", "?r"}
  RowLimits = {0, 1}
  NoAnswer = NoAnswer
  MaxFacts = 2
SYMMETRY Symmetry
CHECK_DEADLOCK FALSE
INVARIANTS TypeOK RunsOnce ToolsAreSound MigrationsSettle ReportsAreCurrent CoordinatorAddsUp SpreadByOne MindIsOrdered PlansReachTheirGoals KnowledgeIsSound CommunicationIsSound CoreIsSound MemoriesAreKept
PROPERTIES PrerequisitesFirst RunsInTime CancelIsFinal
