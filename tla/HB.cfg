SPECIFICATION FairSpec
CONSTANTS
  Addresses = {"a", "b"}
  Ports = {1, 2}
  SeqMax = 2
  MaxSecond = 1
  MaxFrames = 2
  MaxBuffer = 3
INVARIANTS FramesContiguous AnnouncedIsPeer
PROPERTIES LineSpec EveryFrameLeaves
