SPECIFICATION Spec
CONSTANTS
  LogCap = 6
  LogTrim = 3
  MaxLogged = 16
  Limits <- mcLimits
INVARIANTS
  RecentEntriesKept
  ReplyIsLatest
