SPECIFICATION FairSpec
CONSTANTS
  StreamMax = 5
  DmrSeqMax = 1
  MaxBlocks = 2
  MaxPreambles = 2
  MaxBuffer = 5
INVARIANTS Contiguous AnnouncementsTrue
PROPERTIES LineSpec EveryDatagramLeaves
