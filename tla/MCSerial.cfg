SPECIFICATION Spec
CONSTANTS
  Char = {"x", "cr", "lf"}
  bufsz = 3
  AppModes <- MCAppModes
  Polite = TRUE
  Exclusive = TRUE
  QuietClose = TRUE
  MaxTyped = 3
  MaxWritten = 3
INVARIANTS RingInUse InputNoticed 
PROPERTY KeepsNewest
CHECK_DEADLOCK FALSE
