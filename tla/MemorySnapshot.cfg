SPECIFICATION MCSpec
CONSTANTS
  Concepts = {x}
  Contents = {k, m}
  Durations = {0, 1}
  Levels = {1, 2}
  Relations = {t}
  Labels <- AgentLabels
  LinkTypes <- AgentLinks
  MaxEpisodes = 2
  LoadInPlace = FALSE
  MaxId = 8
  MaxEpisodeId = 3
  MaxEntryId = 2
  MaxCycles = 2
  MaxEpoch = 1
  Mixes <- CliMixes
CONSTRAINT FewEpochs
CHECK_DEADLOCK FALSE
INVARIANT SnapshotLoads
