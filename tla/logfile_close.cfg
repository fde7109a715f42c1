SPECIFICATION FairSpec
CONSTANTS
  NP = 2
  Cells <- OneCell
  Sizes = {1}
  MaxWrites = 1
  MaxCalls = 1
  MaxSessions = 1
  MaxBytes = 8
  Header = 2
  Junk = {0}
  Disciplined = FALSE
  EmptyReads = FALSE
  Nothing = Nothing
  Garbage = Garbage
PROPERTY CloseReturns
CHECK_DEADLOCK FALSE
