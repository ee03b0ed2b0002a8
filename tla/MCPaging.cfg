SPECIFICATION Spec
CONSTANTS
  MAX_PYSC_PAGES = 3
  MAX_TOTAL_PAGES = 5
  Policy = "LIFO"
  ImagePages = 3
  Frames = {f1, f2, f3, f4}
  NoFrame = NoFrame
  Data = {0, 1}
  Zero = 0
  MaxQueue = 6
INVARIANTS TypeOK MonitorsExact DataIntact FramesConserved PanicsExplained CountersAgree
PROPERTY ImplementsQueue
SYMMETRY Symmetry
CHECK_DEADLOCK FALSE
