SPECIFICATION Spec
CONSTANTS
  Requests = {r1}
  Pollers = {p1, p2}
  Markers = {}
  Configs <- TwoConfigs
  Defaults <- MCDefaults
  CreatedTtl = 4
  BatchSize = 1
  MaxBatches = 2
  MaxTime = 6
SYMMETRY Symmetry
INVARIANTS TypeOK PromiseKept RetentionSound
PROPERTIES ViewStampedOnce TerminalStable ImplementsContract
