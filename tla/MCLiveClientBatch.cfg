SPECIFICATION LiveSpec
CONSTANTS
  page = page
  rhs = rhs
  card = card
  comment1 = comment1
  comment2 = comment2
  text = text
  NoTeam = NoTeam
  NoEntry = NoEntry
  Board = Board
  Comps = {page}
  Page = page
  Teams = {A}
  HomeTeam = A
  Kinds = {"block", "board"}
  Handles <- MCHandles
  MaxRetries = 1
  WsMaxFaults = 0
  MaxSwitches = 0
  Blocks = {comment1, comment2}
  KindOf <- MCKindOf
  ParentOf <- MCParentOf
  MaxChanges = 2
  MaxLoads = 1
INVARIANTS ReflectsEveryChange
CHECK_DEADLOCK FALSE
