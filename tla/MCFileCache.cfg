SPECIFICATION CacheSpec
CONSTANTS
  Procs = {p1, p2}
  Repos <- MCRepos
  Keys <- OneKey
  Asked <- OneKey
  Remotes <- AnyRemote
  Hosted = {}
  Commands = {}
  Vals = {"v1", "v2"}
  Absent = "absent"
  TTLs = {0, 1}
  OldFiles <- OneFile
  None = none
  Torn = torn
  MaxTime = 4
  MaxPush = 1
SYMMETRY Alike
INVARIANTS
  CacheInv
  BoundedReuse
  MissingIsFresh
PROPERTIES
  RefinesTtlCache
CHECK_DEADLOCK FALSE
