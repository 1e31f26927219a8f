CONSTANTS
  NJobs = 4
  Parallel = 2
  TasksPerWorker = 4
  Warm <- DebWarm
  MaxDeaths = 0
  Uri <- DebUris
  Path <- DebPaths
  Prog <- DebProg
  Verdict <- DebVerdict
SPECIFICATION FairSpec
INVARIANTS
  TypeOK
  OneExportPerObject
  CertificateUsable
  RequestedObjectUsed
  NothingBeforePreflight
  OutputsKept
  OutputsInOrder
  ChunksAccounted
  WorkersGoneAtCleanup
PROPERTIES
  ImplementsRun
  Terminates
