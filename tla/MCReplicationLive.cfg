SPECIFICATION FairSpec
CONSTANTS
  ShardCount = 1
  ReplicaAddresses <- TwoReplicas
  SyncInterval = 1
  MaxLag = 0
  FailoverTimeout = 1
  LogCap = 1
  LogTrim = 1
  Callers = {c1}
  Keys = {k1}
  Values = {v1, nan}
  Encodable = {v1}
  ShardOf <- OneShard
  Promotable = {}
  MayCrash = {a2}
  Slow = {a2}
  MaxTime = 2
  None = None
  Absent = Absent
  Unknown = Unknown
  Idle = Idle
  a1 = a1
  a2 = a2
PROPERTIES
  ReplicateReturns
  OverdueReplicaHandled
