CONSTANTS
  Tasks = {t1, t2, t3}
  Main = Main
  None = None
  MaxDeps = 2
  StoreBuffers = FALSE
  SyncBeforeReturn = FALSE
SPECIFICATION Spec
INVARIANT NoLostRelease
