CONSTANTS
  Procs = {p, q}
  Files <- MCFiles
  Unreadable = Unreadable
  DirUsable = FALSE
  MaxStarts = 2
SPECIFICATION FairSpec
INVARIANTS TypeOK IdentityKept OneHost ProxyAsConfigured
PROPERTY SignalStops
CHECK_DEADLOCK FALSE
