SPECIFICATION Spec
CONSTANTS
  add = add
  edit = edit
  move1 = move1
  move2 = move2
  drag = drag
  drop = drop
  None = None
  Ops = {add, edit}
  Inserts = {add}
  On <- MCOn
  Groups = {drop}
  GroupOf <- MCGroupOf
  MaxCalls = 4
  MaxFaults = 0
INVARIANTS RedoneIsBack
CHECK_DEADLOCK FALSE
