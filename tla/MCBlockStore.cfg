SPECIFICATION Spec
CONSTANTS
  Board = Board
  card1 = card1
  card2 = card2
  text = text
  None = None
  Blocks = {card1, card2, text}
  Parents <- MCTwoCards
  Requests = {r1, r2, r3, r4}
  MaxActive = 1
SYMMETRY MCSymmetry
INVARIANTS HistoryAgrees UndeleteSucceeds EditsKept
PROPERTIES RestoresDeleted
CHECK_DEADLOCK FALSE
