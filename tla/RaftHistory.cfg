SPECIFICATION HSpec
CONSTANTS
  Nodes = {n1, n2, n3}
  Faulty = {n2}
  Impatient = {}
  Commands = {c1}
  None = None
  MaxTerm = 4
  MaxLog = 1
  MaxActive = 1
SYMMETRY Symmetry
CONSTRAINT FewRounds
CHECK_DEADLOCK FALSE
INVARIANTS LeaderCompleteness
PROPERTIES CommittedIsStable ImplementsReplicatedLog
