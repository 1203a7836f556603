CONSTANTS
  Tasks = {t1, t2, t3}
  Main = Main
  None = None
  MaxDeps = 2
  StoreBuffers = TRUE
  SyncBeforeReturn = TRUE
SPECIFICATION Spec
SYMMETRY Symmetry
INVARIANT NoUseAfterFree
