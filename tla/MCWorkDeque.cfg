CONSTANTS
  Size = 2
  Thieves = {p1, p2}
  MaxTasks = 7
  NoTask = NoTask
SPECIFICATION Spec
CONSTRAINT UntilFooled
SYMMETRY Symmetry
INVARIANTS TypeOK ExactlyOnce
PROPERTY Refinement
