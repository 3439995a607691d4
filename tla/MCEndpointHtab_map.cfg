CONSTANTS
  Keys = {k1, k2}
  Vals <- MCVals
  MaxEntries = 1
  Zero <- EpZero
  NoEp = NoEp
  NoElem = NoElem
  None = None
SPECIFICATION Spec
INVARIANTS
  TypeOK
  
PROPERTIES
  MapRefinement
