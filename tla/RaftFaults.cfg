SPECIFICATION Spec
CONSTANTS
  Nodes = {n1, n2, n3}
  Faulty = {n1}
  Impatient = {}
  Commands = {c1}
  None = None
  MaxTerm = 2
  MaxLog = 1
  MaxActive = 2
SYMMETRY Symmetry
CONSTRAINT FewRounds
CHECK_DEADLOCK FALSE
INVARIANTS TypeOK ElectionInv ElectionSafety LeaderAgreement StateMachineSafety
PROPERTIES VoteOncePerTerm
