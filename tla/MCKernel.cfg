SPECIFICATION AllSpec
CONSTANTS
  NPROC = 3
  CPU = {c1, c2}
  MaxPid = 4
  sh = sh  left = left  right = right  helper = helper
  r1 = r1  r2 = r2
  Off = Off
SYMMETRY Symmetry
INVARIANTS OneCpu FamilyTree SwapFileKept WakeupNotMissed
  FreedLast HeapSound
PROPERTIES ImplementsByteQueue ImplementsLineDiscipline
CHECK_DEADLOCK FALSE
