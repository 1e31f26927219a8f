SPECIFICATION Spec
CONSTANTS
  Template <- MCTemplate
  Name <- MCName
  None = None
  Other <- MCOther
  Text <- MCText
  Absolute <- MCAbsolute
CHECK_DEADLOCK FALSE
INVARIANTS
  OutputConfigured
  Substituted
