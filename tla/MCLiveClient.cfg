SPECIFICATION FairLiveSpec
CONSTANTS
  page = page
  rhs = rhs
  card = card
  comment1 = comment1
  comment2 = comment2
  text = text
  NoTeam = NoTeam
  NoEntry = NoEntry
  Board = Board
  Comps = {page, rhs}
  Page = page
  Teams = {A, B}
  HomeTeam = A
  Kinds = {"block", "board"}
  Handles <- MCHandles
  MaxRetries = 1
  WsMaxFaults = 1
  MaxSwitches = 1
  Blocks = {text}
  KindOf <- MCKindOf
  ParentOf <- MCParentOf
  MaxChanges = 2
  MaxLoads = 1
INVARIANTS SubscriptionsInv ScreenInv
PROPERTIES ImplementsMirror SubscribesAgain
CHECK_DEADLOCK FALSE
