SPECIFICATION AllFair
CONSTANTS
  CPU = {c1, c2}
  Locks = {"cons", "ptable"}
  Class <- LockClass
  c1 = c1
  r1 = r1  r2 = r2
  p1 = p1  p2 = p2
  b1 = b1  b2 = b2
  NoBlock = NoBlock
  NoData = NoData
INVARIANTS LocksExclude NoSpinForEver
PROPERTIES KilledDies OrphansReaped LineServed CallsAdmitted
CHECK_DEADLOCK FALSE
