SPECIFICATION QuietSpec
CONSTANTS
  Nodes = {n1}
  Faulty = {}
  Impatient = {n1}
  Commands = {c1}
  None = None
  MaxTerm = 1
  MaxLog = 1
  MaxActive = 1
CHECK_DEADLOCK FALSE
PROPERTIES AcceptedIsCommitted
