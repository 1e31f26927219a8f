CONSTANTS
  NJobs = 2
  Parallel = 2
  TasksPerWorker = 4
  Warm <- NoWarm
  MaxDeaths = 0
  Uri <- OneKeyUris
  Path <- OneKeyPaths
  Prog <- OneKeyProg
  Verdict <- OneKeyVerdict
SPECIFICATION Spec
INVARIANT
  RequestedObjectUsed
