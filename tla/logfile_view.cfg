SPECIFICATION Spec
CONSTANTS
  NP = 2
  Cells <- OneCell
  Sizes = {1}
  MaxWrites = 1
  MaxCalls = 2
  MaxSessions = 1
  MaxBytes = 8
  Header = 2
  Junk = {0}
  Disciplined = TRUE
  EmptyReads = FALSE
  Nothing = Nothing
  Garbage = Garbage
INVARIANT MapFirst
CHECK_DEADLOCK FALSE
