SPECIFICATION FairSpec
CONSTANTS
  Cards = {k1, k2}
  Users = {u1, u2}
  Nodes = {n1}
  Parts = {"content"}
  QueueSize = 1
  Freq = 1
  Hour = 1
  MaxEdits = 2
  MaxTroubles = 0
  None = None
PROPERTIES EventuallyTold
CHECK_DEADLOCK FALSE
