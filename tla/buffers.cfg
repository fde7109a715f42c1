SPECIFICATION Spec
CONSTANTS
  Arrays = {a1}
  Values = {v1, v2}
  narrow = narrow
  same = same
  wide = wide
  Types = {narrow, same, wide}
  SizeOf <- Sizes
  FileType = same
  Lengths = {2}
  Pipelines <- SomePipelines
  MaxWrites = 3
INVARIANTS TypeOK RequestsHaveMemory WrittenAsPromised BusedCountsLive NothingLeftBehind
