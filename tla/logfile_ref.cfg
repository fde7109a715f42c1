SPECIFICATION Spec
CONSTANTS
  NP = 1
  Cells <- Adjacent
  Sizes = {1}
  MaxWrites = 2
  MaxCalls = 2
  MaxSessions = 1
  MaxBytes = 8
  Header = 2
  Junk = {0}
  Disciplined = FALSE
  EmptyReads = FALSE
  Nothing = Nothing
  Garbage = Garbage
INVARIANT ReferencesDecoded
CHECK_DEADLOCK FALSE
