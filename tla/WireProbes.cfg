SPECIFICATION Spec
CONSTANTS
  MaxDuplicates = 1
  ProbeCount = 3
  MIN_LOSS_PATTERN_PROBES = 3
  StaleSeqs = {0, 2}
  Payloads = {0, 2}
  MinimalSize = 1
  FloorSize = 3
  CeilSize = 7
  Retries = 1
  MaxTtl = 3
  MaxLate = 2
  Targets <- MCTargets
  Size = 2
  Messages = 2
INVARIANTS
  TrainHonest
  LossNotUnderstated
  PathHonest
  EvidenceHonest
  TransferVerified
PROPERTY ProbesEnd
