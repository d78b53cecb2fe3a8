SPECIFICATION Spec
CONSTANTS
  Cards = {k1}
  Users = {u1, u2}
  Nodes = {n1, n2}
  Parts = {"card", "content"}
  QueueSize = 1
  Freq = 0
  Hour = 0
  MaxEdits = 2
  MaxTroubles = 1
  None = None
SYMMETRY MCSymmetry
INVARIANTS NotifierInv NothingForgotten ToldOnce
CHECK_DEADLOCK FALSE
