SPECIFICATION Spec
CONSTANTS
  Handles = {h1, h2}
  Spaces <- TwoSpaces
  Extents <- Wider
  Selectable <- Pairs
  MaxDsets = 2
  MaxWrites = 2
  MaxSessions = 2
  Configs <- Every
  None = None
INVARIANTS TypeOK SelectionsRecovered BlocksTileData TableCoversEntries ReferencesStayInFlush
SYMMETRY Symmetric
