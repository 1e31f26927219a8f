SPECIFICATION Spec
CONSTANTS
  KeyId = {"k1", "k2"}
  Label = {"k1", "k2", "acme"}
  Variable = {"db", "KEK"}
  None = None
  NoUri = NoUri
  Proc = {"tty1"}
  Command <- PairCommand
  Listed = {"private", "public", "cert"}
  InitialWorld <- SharedWorlds
  MaxCommands = 2
  MaxFaults = 0
  MaxCrashes = 0
CHECK_DEADLOCK FALSE
INVARIANT
  ImportDone
