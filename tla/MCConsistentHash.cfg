SPECIFICATION Spec
CONSTANTS
  Nodes = {n1, n2, n3}
  VirtualNodes = 2
  Hashes = {0, 1, 2, 3, 4, 5}
  VHash <- Colliding
  MaxKeys = 10
  None = None
  n1 = n1
  n2 = n2
  n3 = n3
INVARIANTS
  KeysMatchMap
  GetNodeAgrees
PROPERTIES
  KeysMoveMinimally
