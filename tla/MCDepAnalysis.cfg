CONSTANTS
  NumTasks = 4
  MaxArgs = 2
  Arguments = 4
  Blocks = {1, 2}
  Extents <- Shapes
  None = None
SPECIFICATION Spec
INVARIANTS TypeOK WritersOrdered WaitsAreAcyclic FirstReaderOrdered ReadersOrderedWhenSimple
