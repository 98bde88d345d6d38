SPECIFICATION FairSpec
CONSTANTS
  Requests = {r1, r2}
  Pollers = {}
  Markers = {}
  Configs <- OneConfig
  Defaults <- MCDefaults
  CreatedTtl = 2
  BatchSize = 1
  MaxBatches = 2
  MaxTime = 3
PROPERTIES ExpiredPurged
