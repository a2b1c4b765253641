SPECIFICATION FairSpec
CONSTANTS
  o1 = o1
  o2 = o2
  NoObject = NoObject
  Keys <- MCKeys
  Objects <- MCObjects
  LIST_ALLOC_LIMIT = 2
INVARIANTS InBounds CyclicOnlyForDuplicates
PROPERTIES ImplementsDirectory EveryCallEnds
CHECK_DEADLOCK FALSE
