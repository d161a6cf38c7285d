SPECIFICATION LiveSpec
CONSTANTS
  Percepts = {p1, p2}
  Tasks = {t1, t2}
  Goals = {g1}
  Priorities = {1, 3}
  MaxTasksPerCycle = 1
  CycleLimits = {0, 2}
  ReentrantCalls = FALSE
  OwnerMayStop = TRUE
  None = None
  MaxQueue = 2
  MaxRuns = 1
  Peers = {1, 2, 3}
  ProtocolNodes = {2}
  Threads = {h1, h2, h3}
  Timer = h1
  MissedThreshold = 2
  DeadThreshold = 3
  OfferIds = {1}
  BallotIds = {1}
  Tickets = {1, 2}
  TicketPriorities = {1, 3}
  Slas = {0, 2}
  FairnessWeight = 1
  MaxGap = 3
  MaxWaiting = 2
  CoreThreads = {h1, h2}
  CoreAtoms = {c1, c2}
  CorePriorities = {5}
  MaxConcurrent = 1
  Repeats = {}
  NoStatus = NoStatus
  MaxAsked = 2
  MaxPlanned = 0
  CoreLoop = loop
  CoreHands = {h1}
  TaskPriorities = {0}
  CycleLimit = 0
  MaxCoreTasks = 2
  MaxEnqueued = 1
  MaxCorePercepts = 0
  MaxRewired = 1
CHECK_DEADLOCK FALSE
INVARIANTS LoopIsSound
PROPERTIES HighestPriorityFirst LoopServesAll OwnerCallsReturn LeadersAgree FairTicketsWin CoreMoves
