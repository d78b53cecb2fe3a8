SPECIFICATION QuSpec
CONSTANTS
  c1 = c1
  c2 = c2
  n1 = n1
  s1 = s1
  s2 = s2
  NoCallback = NoCallback
  Callbacks = {c1, c2, n1}
  Workers = {w1, w2}
  Stoppers = {s1, s2}
  QueueSize = 1
  Spawns <- MCSpawns
INVARIANTS QueueInv PoolExited NothingDropped
PROPERTY Progress
CHECK_DEADLOCK FALSE
