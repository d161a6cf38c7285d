SPECIFICATION Spec
CONSTANTS
  Nodes = {n1, n2, n3, n4}
  Faulty = {}
  Impatient = {}
  Commands = {c1}
  None = None
  MaxTerm = 1
  MaxLog = 0
  MaxActive = 4
SYMMETRY Symmetry
CONSTRAINT FewRounds
CHECK_DEADLOCK FALSE
INVARIANTS ElectionSafety
