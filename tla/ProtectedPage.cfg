SPECIFICATION Spec
CONSTANTS
  MAX_PYSC_PAGES = 3
  MAX_TOTAL_PAGES = 5
  Policy = "LIFO"
  ImagePages = 3
  Frames = {f1, f2, f3, f4}
  NoFrame = NoFrame
  Data = {0}
  Zero = 0
  MaxQueue = 8
PROPERTY ProtectionKept
SYMMETRY Symmetry
CHECK_DEADLOCK FALSE
