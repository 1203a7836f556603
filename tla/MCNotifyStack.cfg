CONSTANTS
  Pushers = {t1, t2, t3}
  Nodes = {n1, n2, n3}
  Null = Null
  Locked = Locked
SPECIFICATION Spec
INVARIANTS TypeOK DeliveredOnceIffAccepted NodesAccounted
PROPERTIES EveryoneServed Refinement
