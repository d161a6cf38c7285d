SPECIFICATION WorkingSpec
CONSTANTS
  Thoughts = {a, b, c}
  Contexts = {"goal"}
  Importances = {1, 3}
  Thresholds = {0}
  BufferSizes = {1}
  ItemIds = {1, 2, 3}
  MaxIndexed = 3
PROPERTIES EvictionEnds
