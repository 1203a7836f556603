CONSTANTS
  Tasks = {1, 2, 3, 4}
  Main = Main
  None = None
  MaxDeps = 1
  StoreBuffers = TRUE
  SyncBeforeReturn = TRUE
  Workers = {w0, w1}
  Master = w0
  DequeSize = 1
SPECIFICATION PoolSpec
INVARIANTS PoolTypeOK OnePlace BodiesOwnTheirChildren NothingLeftBehind DequesLive
ACTION_CONSTRAINT InOrder
PROPERTIES LifeRefinement PoolQuiesces
