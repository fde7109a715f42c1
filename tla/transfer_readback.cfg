SPECIFICATION Spec
CONSTANTS
  Extents <- JustGrid
  ESizes = {1}
  WriteSpaces <- WholeDataset
  ReadSpaces <- WholeDataset
  MemSpaces <- InMemoryOrder
  MaxWrites = 1
INVARIANTS SelectionsReadBack
