SPECIFICATION Spec
CONSTANTS
  s1 = s1
  s2 = s2
  lone = v4
  Ids = {v1, v2, v4}
  Shards = {s1, s2}
  ShardOf <- Placed
  Scores = {1, 2, 3}
  Requests <- Asked
  DefaultTopK = 10
  MayFail = {}
  MaxWrites = 0
  None = None
  Absent = Absent
  Refused = Refused
  Ended = Ended
INVARIANT
  SearchFindsSimilar
