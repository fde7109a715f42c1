SPECIFICATION Spec
CONSTANTS
  Extents <- AllExtents
  ESizes = {1, 2}
  WriteSpaces <- Writes
  ReadSpaces <- Reads
  MemSpaces <- Memories
  MaxWrites = 2
INVARIANTS TypeOK RowsTranslated PlanOrdered ReadsReturnWritten
