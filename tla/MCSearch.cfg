SPECIFICATION Spec
CONSTANTS
  s1 = s1
  s2 = s2
  lone = v4
  Ids = {v1, v2, v3, v4}
  Shards = {s1, s2}
  ShardOf <- Placed
  Scores = {1, 2, 3}
  Requests <- Asked
  DefaultTopK = 10
  MayFail = {s1}
  MaxWrites = 1
  None = None
  Absent = Absent
  Refused = Refused
  Ended = Ended
INVARIANTS
  TypeOK
  ReplyIsTopK
  ReplyWasStored
  SendsNeverBlock
  StatsCountListed
SYMMETRY Alike
