CONSTANTS
  BlockSize = 4
  GridBlocks = 8
  UpSize = 4
  DownSize = 2
  NULL = NULL
  Threads = {t1, t2}
  MaxCalls = 3
  Sizes = {1, 4, 14}
  MaxArgs = 2
  Shapes <- SmallShapes
  Elsewhere <- OtherAddresses
SPECIFICATION Spec
INVARIANTS TypeOK LoneSegmentsKept VisitedAreCovered TableIsFunction ArgumentRestored
CHECK_DEADLOCK FALSE
