CONSTANTS
  Key <- IntKeys
  Hash <- HashOfKeys
  Value = {v1, v2}
  NULL = NULL
  Byte = {0, 1, 2}
  KEY_LEN = 2
  WORD = 1
  Capacity = 2
  BUCKET_SIZE = 2
  Prealloc = 0
  MaxSlots = 4
  MaxDrift = 1
SPECIFICATION Spec
INVARIANTS TypeOK LookupAgrees EntriesExact IterComplete
SYMMETRY ValueSymmetry
