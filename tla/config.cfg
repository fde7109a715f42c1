SPECIFICATION Spec
CONSTANTS
  Files = {f1, f2}
  Unset = unset
  Settings <- OneOfEach
  Zips <- SomeZips
  Encodings <- Few
  MaxEntries = 1
  MaxRefs = 6
SYMMETRY Symmetry
INVARIANTS TypeOK ConnectorCovers MpiEndedByItsOwner EncodedWithSteps
