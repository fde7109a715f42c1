SPECIFICATION Spec
CONSTANTS
  NP = 2
  Cells <- AdjacentAndGap
  Sizes = {2}
  MaxWrites = 2
  MaxCalls = 3
  MaxSessions = 1
  MaxBytes = 8
  Header = 2
  Junk = {3}
  Disciplined = FALSE
  EmptyReads = TRUE
  Nothing = Nothing
  Garbage = Garbage
INVARIANTS TypeOK IndexSound NamesAgree FlagsAgree FlushedDataIntact SectionTable
CHECK_DEADLOCK FALSE
