SPECIFICATION FairSpec
CONSTANTS
  Ids <- ThreeIds
  Boxes <- ManyBoxes
  W = 5
  H = 2
  SegW = 2
  SegH = 2
INVARIANTS ZonesAgree LookupsComplete EachVisitedOnce
PROPERTIES WalksEnd
