SPECIFICATION Spec
CONSTANTS
  Rec = {r1, r2}
  MaxPid = 2
  MaxCode = 1
INVARIANTS TypeOK ExitCodeExact ExitCodeGenuine WaitedGone
SYMMETRY RecSymmetry
