SPECIFICATION Spec
CONSTANTS
  ShardCount = 2
  ReplicaAddresses <- Repeated
  SyncInterval = 1
  MaxLag = 0
  FailoverTimeout = 1
  LogCap = 0
  LogTrim = 1
  Callers = {c1, c2}
  Keys = {k1}
  Values = {v1, nan}
  Encodable = {v1}
  ShardOf <- OneShard
  Promotable = {a2}
  MayCrash = {}
  Slow = {a2}
  MaxTime = 0
  None = None
  Absent = Absent
  Unknown = Unknown
  Idle = Idle
  a1 = a1
  a2 = a2
SYMMETRY CallerSymmetry
INVARIANTS
  TypeOK
  PrimaryRecorded
  ReplicaDataInOneDatabase
  ActiveSecondaryHasWrites
