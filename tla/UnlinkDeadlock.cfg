SPECIFICATION Spec
CONSTANTS
  Proc = {p1, p2}
  Inum = {1, 2, 3}
  Name = {x}
  NFILE = 1
  Calls = {"creat", "unlink"}
INVARIANT NoDeadlock
CHECK_DEADLOCK FALSE
