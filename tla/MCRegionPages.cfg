CONSTANTS
  Threads = {t1, t2}
  Regions = {1, 2}
  Lists = {l1, l2}
  MaxPages = 2
  MaxObtained = 8
  Groups = {1, 2}
  None = None
SPECIFICATION Spec
INVARIANTS TypeOK OneHomeUntilStale CountsAgree
ACTION_CONSTRAINTS InOrder Growing
PROPERTY CallsReturn
