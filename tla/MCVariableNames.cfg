CONSTANTS
  NJobs = 2
  Parallel = 2
  TasksPerWorker = 4
  Warm <- NoWarm
  MaxDeaths = 0
  Uri <- VarUris
  Path <- VarPaths
  Prog <- VarProg
  Verdict <- VarVerdict
SPECIFICATION Spec
INVARIANT
  SignedUnderAppendedName
