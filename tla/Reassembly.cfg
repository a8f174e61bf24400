SPECIFICATION Spec
CONSTANTS
  Sources = {r1}
  Shapes <- MCShapes
  MaxAir = 2
  Channels <- MCChannels
INVARIANTS DecodedWhole CrashesOnlyOfItself OwnHeader
PROPERTIES Resynchronises
CHECK_DEADLOCK FALSE
