SPECIFICATION CacheSpec
CONSTANTS
  Procs = {p1}
  Repos <- MCRepos
  Keys <- RmKeys
  Asked <- Either
  Remotes <- AllThere
  Hosted <- MCHosted
  Commands <- MCCommands
  Vals = {"v1"}
  Absent = "absent"
  TTLs = {1}
  OldFiles <- RmFiles
  None = none
  Torn = torn
  MaxTime = 2
  MaxPush = 0
INVARIANTS
  RmExact
  LsExact
CHECK_DEADLOCK FALSE
