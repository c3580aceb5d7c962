SPECIFICATION Spec
CONSTANTS
  Pool <- TwoPools
  Dynamic = {1}
  Autosize = {}
  Bestfit = {2}
  Size = 4
  MinSize = 2
  AlignSize = 2
  Alignment = {2}
  Request = {1, 3}
  MaxChunks = 3
  MaxBlocks = 2
INVARIANTS TypeOK BlocksApart FreshZero ChunksHeld
CHECK_DEADLOCK FALSE
