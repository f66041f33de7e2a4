SPECIFICATION Spec
CONSTANTS
  Rpcs = {r1}
  Keys = {k1, k2, k3}
  ShardOf <- Routed
  Shards = {s1, s2}
  Values = {v1, v2, v3}
  DimOf <- OwnDim
  Encodable = {v1}
  Dims = {1}
  Ops = {"create", "batchInsert", "batchDelete"}
  MayFail = {}
  Lossy = {s2}
  MayRestart = FALSE
  MaxLate = 1
  MaxRetries = 1
  None = None
  Absent = Absent
  Unknown = Unknown
  k1 = k1
  k2 = k2
  k3 = k3
  s1 = s1
  s2 = s2
  v2 = v2
SYMMETRY Symmetry
INVARIANTS
  AckedWritesHold
