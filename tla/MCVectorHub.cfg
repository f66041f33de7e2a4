SPECIFICATION FairSpec
CONSTANTS
  Calls = {c1}
  KindsOf <- AnyKind
  Shards = {s1, s2}
  Targets = {s2}
  Flaky = {s2}
  None = None
  s1 = s1
  s2 = s2
  c1 = c1
  c2 = c2
INVARIANTS
  TypeOK
  AcknowledgedIsCopied
  GraceIsKept
  ReadyIsTrue
PROPERTIES
  PromiseKept
  ShutdownEnds
