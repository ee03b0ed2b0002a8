SPECIFICATION SharedSpec
CONSTANTS
  MAX_PYSC_PAGES = 3
  MAX_TOTAL_PAGES = 5
  Policy = "SCFIFO"
  ImagePages = 3
  Frames = {f1, f2, f3, f4}
  NoFrame = NoFrame
  Data = {0, 1}
  Zero = 0
  MaxQueue = 8
INVARIANT DataIntact
SYMMETRY Symmetry
CHECK_DEADLOCK FALSE
