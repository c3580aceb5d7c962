SPECIFICATION SpecReset
CONSTANTS
  Producer = {p1}
  Consumer = {c1, c2}
  Slots = 2
  NumConsumers = 1
  NumProducers = 1
  SeekPos <- AnyPos
  MaxSeq = 1
  MaxFree = 1
INVARIANTS TypeOK CursorExclusive AttachedInitialised
SYMMETRY ConsumerSymmetry
