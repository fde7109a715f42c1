SPECIFICATION FairSpec
CONSTANTS
  NP = 2
  Cells <- Adjacent
  Sizes = {1}
  MaxWrites = 2
  MaxCalls = 2
  MaxSessions = 2
  MaxBytes = 8
  Header = 2
  Junk = {0}
  Disciplined = TRUE
  EmptyReads = FALSE
  Nothing = Nothing
  Garbage = Garbage
INVARIANTS CollectivesMatch CloseKeepsAll
PROPERTIES StoreSpec CallsReturn
