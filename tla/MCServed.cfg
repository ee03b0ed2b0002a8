SPECIFICATION AllFair
CONSTANTS
  Boot = c3
  AP = {c1, c2}
  Low <- LowPages
  High <- HighPages
  MaxHeld = 1
  g1 = g1  g2 = g2  g3 = g3  g4 = g4
  f1 = f1  f2 = f2  f3 = f3  f4 = f4
  NoFrame = NoFrame
  sh = sh  left = left  right = right  helper = helper
INVARIANT PagesExclusive
PROPERTIES PagingEnds SecondChanceQueue PipelineEnds
CHECK_DEADLOCK FALSE
