CONSTANTS
  NumTasks = 3
  MaxArgs = 2
  Arguments = 4
  Blocks = {1, 2}
  Extents <- Shapes
  None = None
SPECIFICATION Spec
INVARIANT ReadersOrdered
