SPECIFICATION FairSpec
CONSTANTS
  add = add
  edit = edit
  move1 = move1
  move2 = move2
  drag = drag
  drop = drop
  None = None
  Ops = {add, edit, move1, move2}
  Inserts = {add}
  On <- MCOn
  Groups = {drag, drop}
  GroupOf <- MCGroupOf
  MaxCalls = 3
  MaxFaults = 1
INVARIANTS UndoInv GroupsKept
PROPERTY RunEnds
CHECK_DEADLOCK FALSE
