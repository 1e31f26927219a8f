CONSTANTS
  NJobs = 4
  Parallel = 2
  TasksPerWorker = 1
  Warm <- NoWarm
  MaxDeaths = 1
  Uri <- EfiUris
  Path <- EfiPaths
  Prog <- EfiProg
  Verdict <- EfiVerdict
SPECIFICATION Spec
INVARIANTS
  IndInv
  OneExportPerObject
  CertificateUsable
PROPERTIES
  ImplementsRun
