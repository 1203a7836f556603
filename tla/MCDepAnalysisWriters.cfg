CONSTANTS
  NumTasks = 4
  MaxArgs = 1
  Arguments = 4
  Blocks = {1}
  Extents <- OneBlock
  None = None
SPECIFICATION Spec
INVARIANT WritersAwaitReaders
