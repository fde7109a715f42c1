SPECIFICATION Spec
CONSTANTS
  Files = {f1, f2}
  Objs = {o1, o2, o3, o4}
  None = None
  MaxFails = 2
INVARIANTS TypeOK RefcntCountsHolders FileOutlivesObjects ClosedAfterLast DataspaceShared ConnectorHeld
SYMMETRY Symmetric
