SPECIFICATION FairSpec
CONSTANTS
  t1 = t1
  t2 = t2
  t3 = t3
  p1 = p1
  p2 = p2
  Tasks <- MCTasks
  Procs <- MCProcs
  ProcOf <- MCProcOf
  PidOf <- MCPidOf
  Nobody = Nobody
  MaxAlive = 1
  Timeout = 1
  StaleAge = 2
  BootIdKnown = TRUE
  TimelyBeats = FALSE
INVARIANTS
  TypeOK
  Exclusion
  NoLostUpdate
PROPERTIES
  CallsEnd
  DeadLockReclaimed
