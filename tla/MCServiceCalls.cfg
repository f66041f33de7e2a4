SPECIFICATION FairSpec
CONSTANTS
  Rpcs = {r1, r2}
  Keys = {k1}
  ShardOf <- Routed
  Shards = {s1}
  Values = {v1, v2, v3}
  DimOf <- SameDim
  Encodable = {v1, v2}
  Dims = {1, 2}
  Ops = {"create", "drop", "insert", "update", "delete"}
  MayFail = {s1}
  Lossy = {s1}
  MayRestart = TRUE
  MaxLate = 0
  MaxRetries = 1
  None = None
  Absent = Absent
  Unknown = Unknown
  k1 = k1
  k2 = k2
  k3 = k3
  s1 = s1
  s2 = s2
  v2 = v2
INVARIANTS
  TypeOK
  AckedWritesHold
PROPERTIES
  DimensionStable
  OnlyDropsOutdate
  EveryRpcReplies
