SPECIFICATION FairSpec
CONSTANTS
  HeapMax = 10
  NBALLOC = 4
  Sizes = {2, 3}
  Calls = {"kmalloc", "kfree", "krealloc"}
CHECK_DEADLOCK FALSE
CONSTRAINT NotAbsorbed
INVARIANTS
  TypeOK
  OnlyByMerge
PROPERTIES
  CallEndsUnlessMerged
