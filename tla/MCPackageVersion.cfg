SPECIFICATION Spec
CONSTANTS
  Template = {"linux", "linux-rt", "boot"}
  Package = {"image", "systemd"}
  Version = {"1.0", "1.0+acme1"}
  Source = {"linux", "boot"}
  File = {"boot", "efi"}
  None = None
  Absent = Absent
  Partial = Partial
  Asked = "1.0+acme1"
  SourceOf <- MCSourceOf
  FilesJson <- OverridingFilesJson
  Command <- MCCommand
  InitialDest <- MCDest
  MaxCommands = 1
CHECK_DEADLOCK FALSE
INVARIANT
  SignedVersion
