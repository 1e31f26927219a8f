SPECIFICATION SetupSpec
CONSTANTS
  KeyId = {"k1", "k2", "k3"}
  Label = {"k1", "k2", "k3"}
  Variable = {"db", "KEK"}
  None = None
  NoUri = NoUri
  Proc = {"tty1"}
  Command <- MCCommand
  Listed = {"private", "public", "cert"}
  InitialWorld <- MCWorlds
  FreshConfig <- MCFreshConfig
  MaxSetups = 2
  MaxStops = 1
  MaxCommands = 3
  MaxFaults = 1
  MaxCrashes = 1
CHECK_DEADLOCK FALSE
INVARIANTS
  SetupTypeOK
  ConfigLoads
  OneKeyPerLabel
  GenkeyDone
  DelkeyDone
  ImportDone
  KeysOnToken
  SetupDone
  OneLocalToken
  ToolsReady
PROPERTY
  PrivateKeysKept
  SettingsKept
  FilesUntouched
  ImplementsKeySetup
  ImplementsKeyStore
