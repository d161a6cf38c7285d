SPECIFICATION QuietSpec
CONSTANTS
  Nodes = {n1, n2, n3}
  Faulty = {}
  Impatient = {n1, n2}
  Commands = {c1}
  None = None
  MaxTerm = 2
  MaxLog = 2
  MaxActive = 3
CHECK_DEADLOCK FALSE
INVARIANTS LogMatching
PROPERTIES AcceptedIsCommitted StableLeaderIsFollowed
