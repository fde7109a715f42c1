SPECIFICATION Spec
CONSTANTS
  Files = {f1}
  Unset = unset
  Settings <- OneOfEach
  Zips <- SomeZips
  Encodings <- Few
  MaxEntries = 1
  MaxRefs = 4
INVARIANT SettingsOverwriteConfig
