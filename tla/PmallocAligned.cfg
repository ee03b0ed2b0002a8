SPECIFICATION Spec
CONSTANTS
  PGSIZE = 4
  NALLOC = 16
  Top = 40
  MaxLive = 3
  Requests = {2, 5, 18}
INVARIANT PmallocAligned
CHECK_DEADLOCK FALSE
