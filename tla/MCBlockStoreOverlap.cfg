SPECIFICATION Spec
CONSTANTS
  Board = Board
  card1 = card1
  card2 = card2
  text = text
  None = None
  Blocks = {card1, card2, text}
  Parents <- MCTwoCards
  Requests = {r1, r2}
  MaxActive = 2
SYMMETRY MCSymmetry
INVARIANTS StoreInv
CHECK_DEADLOCK FALSE
