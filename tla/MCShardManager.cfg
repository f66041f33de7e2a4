SPECIFICATION FairSpec
CONSTANTS
  ShardCount = 3
  RedisAddresses <- TwoServers
  VirtualNodes = 2
  Hashes = {0, 1, 2, 3, 4, 5}
  VHash <- Virtual
  Keys = {k1, k2, k3}
  KeyHash <- Place
  KeyCrc <- Residue
  Requests = {r1}
  MayFail = {a1, a2}
  None = None
  a1 = a1
  a2 = a2
  k1 = k1
  k2 = k2
  k3 = k3
INVARIANTS
  TypeOK
  ActiveHasAdapter
  EveryKeyRoutes
  ShardsShareKeys
PROPERTIES
  RequestsEnd
  RecoveredShardServes
