SPECIFICATION Spec
CONSTANTS
  HeapMax = 11
  NBALLOC = 5
  Sizes = {2, 3}
  Calls = {"kmalloc", "kfree"}
CHECK_DEADLOCK FALSE
INVARIANTS
  NoOverlap
