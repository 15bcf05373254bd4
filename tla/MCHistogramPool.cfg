SPECIFICATION Spec
CONSTANTS
  TotalSize = 4
  CacheSize = 3
  MaxTime = 7
INVARIANTS TypeOK NoSharing
PROPERTY LastUsedIsKept
