SPECIFICATION Spec
CONSTANTS
  Template = {"linux", "linux-rt", "boot"}
  Package = {"image", "systemd"}
  Version = {"1.0", "1.0+acme1"}
  Source = {"linux", "boot"}
  File = {"boot", "efi"}
  None = None
  Absent = Absent
  Partial = Partial
  Asked = "1.0+acme1"
  SourceOf <- MCSourceOf
  FilesJson <- AgreeingFilesJson
  Command <- MCCommand
  InitialDest <- MCDest
  MaxCommands = 3
CHECK_DEADLOCK FALSE
INVARIANTS
  TypeOK
  Delivered
  SignedVersion
  MoveTargetFree
PROPERTIES
  UntouchedUntilSigned
  ImplementsDirectory
