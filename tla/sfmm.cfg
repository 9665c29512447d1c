CONSTANTS
  PageUnits = 7
  MaxPages = 2
  Sizes = {8, 36}
SPECIFICATION Spec
INVARIANTS SfmmTypeOK HeapTiled
PROPERTIES FreedBlockListed RegionsStayDisjoint
CHECK_DEADLOCK FALSE
