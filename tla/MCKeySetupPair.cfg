SPECIFICATION Spec
CONSTANTS
  KeyId = {"k1", "k2"}
  Label = {"k1", "k2", "acme"}
  Variable = {"db", "KEK"}
  None = None
  NoUri = NoUri
  Proc = {"tty1", "tty2"}
  Command <- PairCommand
  Listed = {"private", "public", "cert"}
  InitialWorld <- SharedWorlds
  MaxCommands = 3
  MaxFaults = 1
  MaxCrashes = 1
CHECK_DEADLOCK FALSE
INVARIANT
  ConfigLoads
PROPERTY
  PrivateKeysKept
