SPECIFICATION Spec
CONSTANTS
  KeyId = {"k1", "k2", "k3"}
  Label = {"k1", "k2", "k3"}
  Variable = {"db", "KEK"}
  None = None
  NoUri = NoUri
  Proc = {"tty1"}
  Command <- MCCommand
  Listed = {"private", "public", "cert"}
  InitialWorld <- OwnWorlds
  MaxCommands = 2
  MaxFaults = 1
  MaxCrashes = 0
CHECK_DEADLOCK FALSE
INVARIANT
  GenkeyCertifies
