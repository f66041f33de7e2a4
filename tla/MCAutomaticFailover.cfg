SPECIFICATION FairSpec
CONSTANTS
  ShardCount = 1
  ReplicaAddresses <- TwoReplicas
  SyncInterval = 1
  MaxLag = 0
  FailoverTimeout = 1
  LogCap = 1
  LogTrim = 1
  Callers = {}
  Keys = {k1}
  Values = {v1, nan}
  Encodable = {v1}
  ShardOf <- OneShard
  Promotable = {}
  MayCrash = {a1}
  Slow = {a2}
  MaxTime = 1
  None = None
  Absent = Absent
  Unknown = Unknown
  Idle = Idle
  a1 = a1
  a2 = a2
PROPERTIES
  AutomaticFailover
