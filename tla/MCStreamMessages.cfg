SPECIFICATION Spec
CONSTANTS
  Calls = {c1}
  KindsOf <- AnyKind
  Shards = {s1}
  Targets = {s1}
  Flaky = {}
  None = None
  s1 = s1
  s2 = s2
  c1 = c1
  c2 = c2
INVARIANT
  StreamMessageHandled
