----------------------------- MODULE BoardViews -----------------------------
(***************************************************************************)
(* The cards of a view as a board or a table shows them: filtered, sorted   *)
(* and put in columns, and what is done with them there: select, add,       *)
(* duplicate, delete and drag cards, hide, show and drag columns, sort and  *)
(* filter (webapp/src/components/centerPanel.tsx, kanban, table,            *)
(* viewHeader, boardUtils.ts and the selectors of store/cards.ts).          *)
(*                                                                          *)
(* A card's value is that of the property which groups the view; a column   *)
(* has the id of the value it collects.  Values, copies, deletions, new     *)
(* cards and the order of the view are written by requests that are         *)
(* answered in any order; the change of the server and the news of it are   *)
(* one step.  A change of the columns, the sort or the filter is answered   *)
(* before the next click.                                                   *)
(***************************************************************************)
EXTENDS Integers, Sequences, SequencesExt, FiniteSets

CONSTANTS
  BvValues,   \* values of the property, in the order of their names; the first two are options
  BvKeys,     \* BvKeys[n]: the id of the column of BvValues[n], written as a value, where it is not that value
  BvCards,    \* BvCards[n]: value and title (0: untitled) of the cards at first
  BvMaxOps,   \* bound: clicks
  BvMaxCards, \* bound: cards ever
  BvMaxAsked  \* bound: requests under way

ASSUME BvAssumption ==
  /\ BvValues \in Seq(STRING) /\ Len(BvValues) > 1 /\ "" \notin ToSet(BvValues)
  /\ BvKeys \in Seq(STRING) /\ Len(BvKeys) = Len(BvValues)
  /\ ToSet(BvKeys) \cap ({""} \cup ToSet(BvValues)) = {}
  /\ BvCards \in Seq([value : {""} \cup ToSet(BvValues), title : Nat])
  /\ BvMaxOps \in Nat /\ BvMaxCards \in Nat /\ BvMaxAsked \in Nat

VARIABLES
  bvCards,    \* the cards of the board: [value, title]
  bvOptions,  \* the options of the property, if it is a select
  bvSaved,    \* the view as the server has it
  bvView,     \* the view in the store
  bvSelected, \* selectedCardIds
  bvAsked,    \* requests under way
  bvCount,    \* how many cards were ever created
  bvOps,      \* clicks left
  bvDrop,     \* history: the column where cards were put last, and the cards to be seen there
  bvMixed     \* history: columns were dragged in a view that was not the server's

bvHistory == <<bvDrop, bvMixed>>
bvVars == <<bvCards, bvOptions, bvSaved, bvView, bvSelected, bvAsked, bvCount, bvOps, bvDrop, bvMixed>>

----------------------------------------------------------------------------
(***************************************************************************)
(* Arrays as JavaScript has them: positions from 0, -1 for none, and a      *)
(* negative position counts from the end.                                   *)
(***************************************************************************)
IndexIn(list, x) == SelectInSeq(list, LAMBDA y : y = x) - 1
Place(list, i) ==
  IF i >= 0 THEN IF i <= Len(list) THEN i ELSE Len(list)
  ELSE IF Len(list) + i > 0 THEN Len(list) + i ELSE 0
Splice(list, i, new) ==
  SubSeq(list, 1, Place(list, i)) \o new \o SubSeq(list, Place(list, i) + 1, Len(list))
CutOut(list, i, j) == SubSeq(list, Place(list, i) + 1, j)
Except(list, s) == SelectSeq(list, LAMBDA x : x \notin s)
Once(list) == FoldLeft(LAMBDA once, x : IF x \in ToSet(once) THEN once ELSE Append(once, x), <<>>, list)

----------------------------------------------------------------------------
(***************************************************************************)
(* What is shown.                                                           *)
(***************************************************************************)
Live == DOMAIN bvCards
Value(c) == bvCards[c].value
Grouped == bvView.grouped
IsOption(v) == v \in ToSet(bvOptions)

\* The filter of the view has at most one clause: the property includes a value.
Passes(c) == bvView.filter \in {"", Value(c)}
Passing == {c \in Live : Passes(c)}

\* The sign of these says which of two cards comes first.  Untitled cards come last.
TitleOrCreatedOrder(a, b) ==
  LET s == bvCards[a].title
      t == bvCards[b].title
  IN  CASE s = 0 /\ t = 0 -> a - b
        [] s = 0 -> 1
        [] t = 0 -> -1
        [] OTHER -> s - t

\* Of a card that is in the manual order and one that is not, each comes after
\* the other.
ManualOrder(a, b) ==
  LET i == IndexIn(bvView.order, a)
      j == IndexIn(bvView.order, b)
  IN  CASE i < 0 /\ j < 0 -> TitleOrCreatedOrder(a, b)
        [] i < 0 /\ j >= 0 -> 1
        [] OTHER -> i - j

\* The text by which a card is sorted: the name of the option, which is empty
\* for an option that was deleted, or the value.
SortText(c) ==
  IF bvView.type = "select" /\ ~IsOption(Value(c)) THEN -1 ELSE IndexIn(BvValues \o BvKeys, Value(c))

Reversed(order) == IF bvView.sort.reversed THEN -order ELSE order

\* No value comes last also in the reversed order.
PropertyOrder(a, b) ==
  CASE Value(a) = "" /\ Value(b) = "" -> TitleOrCreatedOrder(a, b)
    [] Value(a) = "" /\ Value(b) # "" -> 1
    [] Value(a) # "" /\ Value(b) = "" -> -1
    [] OTHER -> Reversed(IF SortText(a) = SortText(b) THEN TitleOrCreatedOrder(a, b)
                         ELSE SortText(a) - SortText(b))

SortOrder(a, b) ==
  CASE bvView.sort.by = "manual" -> ManualOrder(a, b)
    [] bvView.sort.by = "title" -> Reversed(TitleOrCreatedOrder(a, b))
    [] bvView.sort.by = "property" -> PropertyOrder(a, b)

\* Equal cards stay as they are in the store.
Before(a, b) == SortOrder(a, b) < 0 \/ (SortOrder(a, b) = 0 /\ a < b)

IsManualSort == bvView.sort.by = "manual"
Ordered == {c \in Passing : c \in ToSet(bvView.order)}

\* The orders in which the cards may be shown: where the comparison contradicts
\* itself, what sort makes of it is up to the browser.
Orders ==
  LET cards == SelectSeq([c \in 1..BvMaxCards |-> c], LAMBDA c : c \in Passing) IN
  IF IsManualSort /\ Ordered \notin {{}, Passing}
  THEN {[i \in DOMAIN cards |-> p[cards[i]]] : p \in Permutations(Passing)}
  ELSE {SortSeq(cards, Before)}

\* getVisibleAndHiddenGroups: the columns of a select are its options and one
\* for the cards that have none of them; those of the other properties are the
\* values that cards have.  A property with many values has one value for each
\* combination, a link to cards none for a text that is no link.
OptionColumn(c) == IF IsOption(Value(c)) THEN Value(c) ELSE ""
PersonColumn(c) == IF Value(c) = "" THEN "undefined" ELSE Value(c)
CombinedColumn(c) == Value(c)
LinkColumn(c) == IF Value(c) \in ToSet(BvValues) THEN Value(c) ELSE ""
ColumnOf(c) ==
  CASE bvView.type = "select" -> OptionColumn(c)
    [] bvView.type = "person" -> PersonColumn(c)
    [] bvView.type = "many" -> CombinedColumn(c)
    [] bvView.type = "card" -> LinkColumn(c)

AllVisible ==
  LET known == bvView.visible \o Except(bvOptions, ToSet(bvView.visible \o bvView.hidden)) IN
  IF "" \in ToSet(known \o bvView.hidden) THEN known ELSE <<"">> \o known

StillThere(list) == SelectSeq(list, LAMBDA o : o = "" \/ IsOption(o))
FoundColumns(shown) == Once([i \in DOMAIN shown |-> ColumnOf(shown[i])])

\* The column without a name cannot be hidden unless the property is a select:
\* find returns its name, which counts as not found.
VisibleColumns(shown) ==
  IF bvView.type = "select" THEN StillThere(AllVisible)
  ELSE Except(FoundColumns(shown), ToSet(bvView.hidden) \ {""})
HiddenColumns(shown) ==
  IF bvView.type = "select" THEN StillThere(bvView.hidden)
  ELSE SelectSeq(FoundColumns(shown), LAMBDA o : o # "" /\ o \in ToSet(bvView.hidden))

InColumn(shown, o) == SelectSeq(shown, LAMBDA c : ColumnOf(c) = o)

----------------------------------------------------------------------------
(***************************************************************************)
(* Requests.                                                                *)
(***************************************************************************)
Clicks == bvView.kind # "" /\ bvOps > 0 /\ bvOps' = bvOps - 1

\* Write the order of the view; set the value of some cards, and ask for more
\* when all are set; delete cards; copy cards; insert a card, for the view and
\* the selection at the time of the click.
OrderRequest(order) == [what |-> "order", order |-> order]
ValuesRequest(cards, value, next) == [what |-> "values", cards |-> cards, value |-> value, next |-> next]
DeleteRequest(cards) == [what |-> "delete", cards |-> cards, next |-> <<>>]
CopyRequest(cards, open) == [what |-> "copy", cards |-> cards, next |-> <<>>, deselect |-> open /\ bvSelected # <<>>]
InsertRequest(value, show) ==
  [what |-> "insert", value |-> value, show |-> show, view |-> bvView, deselect |-> bvSelected # <<>>]

Ask(requests) == Len(bvAsked) < BvMaxAsked /\ bvAsked' = bvAsked \o requests

\* changePropertyValue asks nothing for a card that has the value.
SetValues(cards, value, next) ==
  LET others == {c \in cards : Value(c) # value} IN
  IF others = {} THEN next ELSE <<ValuesRequest(others, value, next)>>

\* One card of a request is done; with the last one the request is answered.
BvDone(i, c) ==
  LET r == bvAsked[i] IN
  bvAsked' = IF r.cards = {c} THEN RemoveAt(bvAsked, i) \o r.next
             ELSE [bvAsked EXCEPT ![i].cards = @ \ {c}]

\* The news of the view bring the whole view to the store.
Saved(view) == bvSaved' = view /\ bvView' = view

OrderArrived(i) ==
  /\ bvAsked[i].what = "order"
  /\ Saved([bvSaved EXCEPT !.order = bvAsked[i].order])
  /\ bvAsked' = RemoveAt(bvAsked, i)
  /\ UNCHANGED <<bvCards, bvCount, bvSelected>>

MovedTo(cards, value) ==
  [c \in Live |-> IF c \in cards THEN [bvCards[c] EXCEPT !.value = value] ELSE bvCards[c]]

ValueArrived(i) ==
  /\ bvAsked[i].what = "values"
  /\ \E c \in bvAsked[i].cards : bvCards' = MovedTo({c}, bvAsked[i].value) /\ BvDone(i, c)
  /\ UNCHANGED <<bvSaved, bvView, bvCount, bvSelected>>

DeleteArrived(i) ==
  /\ bvAsked[i].what = "delete"
  /\ \E c \in bvAsked[i].cards : bvCards' = [x \in Live \ {c} |-> bvCards[x]] /\ BvDone(i, c)
  /\ UNCHANGED <<bvSaved, bvView, bvCount, bvSelected>>

WithCard(c, card) == [x \in Live \cup {c} |-> IF x = c THEN card ELSE bvCards[x]]

\* A copy is in no order of the view.  The copy made with the menu of the card
\* is opened, which ends the selection there was at the click.
CopyArrived(i) ==
  /\ bvAsked[i].what = "copy" /\ bvCount < BvMaxCards
  /\ \E c \in bvAsked[i].cards :
       /\ bvCount' = IF c \in Live THEN bvCount + 1 ELSE bvCount
       /\ bvCards' = IF c \in Live THEN WithCard(bvCount + 1, bvCards[c]) ELSE bvCards
       /\ bvSelected' = IF c \in Live /\ bvAsked[i].deselect THEN <<>> ELSE bvSelected
       /\ BvDone(i, c)
  /\ UNCHANGED <<bvSaved, bvView>>

OrderWith(order, c) == Append(order, c)

\* The new card is put at the end of the order that the view had at the click:
\* in the store at once if the card is shown, with all else of that view, and
\* on the server by another request.
InsertArrived(i) ==
  LET r == bvAsked[i]
      c == bvCount + 1
  IN
  /\ r.what = "insert" /\ bvCount < BvMaxCards /\ bvCount' = c
  /\ bvCards' = WithCard(c, [value |-> r.value, title |-> 0])
  /\ bvView' = IF r.show THEN [r.view EXCEPT !.order = OrderWith(@, c)] ELSE bvView
  /\ bvSelected' = IF r.show /\ r.deselect THEN <<>> ELSE bvSelected
  /\ bvAsked' = Append(RemoveAt(bvAsked, i), OrderRequest(OrderWith(r.view.order, c)))
  /\ UNCHANGED bvSaved

Arrived(i) ==
  /\ OrderArrived(i) \/ ValueArrived(i) \/ DeleteArrived(i) \/ CopyArrived(i) \/ InsertArrived(i)
  /\ UNCHANGED <<bvOptions, bvOps, bvHistory>>

----------------------------------------------------------------------------
NoDrop == [column |-> "none", cards |-> <<>>]
Elsewhere == bvDrop' = NoDrop /\ UNCHANGED bvMixed

\* Whether it is settled where cards that are put now will be seen.
IsSettled ==
  /\ Grouped /\ IsManualSort /\ bvView.filter = "" /\ bvAsked = <<>>
  /\ Ordered = Live
Expect(settled, column, cards) ==
  /\ bvDrop' = IF settled THEN [column |-> column, cards |-> cards] ELSE NoDrop
  /\ UNCHANGED bvMixed

(***************************************************************************)
(* Selecting cards, and what is done with the selected ones.                *)
(***************************************************************************)
\* Shift+click; Cmd+Shift+click extends the selection to the card.
CardClicked(shown) ==
  /\ Clicks /\ Elsewhere
  /\ \E c \in ToSet(shown) :
       \/ bvSelected' = IF c \in ToSet(bvSelected) THEN Except(bvSelected, {c}) ELSE Append(bvSelected, c)
       \/ /\ bvSelected # <<>>
          /\ LET src == IndexIn(shown, Last(bvSelected))
                 dst == IndexIn(shown, c)
             IN  bvSelected' = Once(bvSelected \o
                   (IF src < dst THEN CutOut(shown, src, dst + 1) ELSE CutOut(shown, dst, src + 1)))
  /\ UNCHANGED <<bvCards, bvOptions, bvSaved, bvView, bvAsked, bvCount>>

\* Escape, a click on the background, or a card is opened.
Deselect ==
  /\ Clicks /\ Elsewhere
  /\ bvSelected # <<>> /\ bvSelected' = <<>>
  /\ UNCHANGED <<bvCards, bvOptions, bvSaved, bvView, bvAsked, bvCount>>

SelectedShown == ToSet(bvSelected) \cap Passing

\* By a key: the selected cards that are shown.
DeleteSelected ==
  /\ Clicks /\ Elsewhere
  /\ SelectedShown # {} /\ bvSelected' = <<>> /\ Ask(<<DeleteRequest(SelectedShown)>>)
  /\ UNCHANGED <<bvCards, bvOptions, bvSaved, bvView, bvCount>>
DuplicateSelected ==
  /\ Clicks /\ Elsewhere
  /\ SelectedShown # {} /\ bvSelected' = <<>> /\ Ask(<<CopyRequest(SelectedShown, FALSE)>>)
  /\ UNCHANGED <<bvCards, bvOptions, bvSaved, bvView, bvCount>>

\* By the menu of a card: that card.
CardMenu ==
  /\ Clicks /\ Elsewhere
  /\ \E c \in Passing : Ask(<<DeleteRequest({c})>>) \/ Ask(<<CopyRequest({c}, TRUE)>>)
  /\ UNCHANGED <<bvCards, bvOptions, bvSaved, bvView, bvSelected, bvCount>>

(***************************************************************************)
(* A new card, of no default template: by the button of the header, in a    *)
(* column of the board or a group of the table, where it is not opened, or  *)
(* below a table without groups.  Without groups it has the value of the    *)
(* filter.                                                                  *)
(***************************************************************************)
Written(o) == IF bvView.type = "card" /\ o # "" THEN BvKeys[IndexIn(BvValues, o) + 1] ELSE o
NewValueIn(column) == IF Grouped THEN Written(column) ELSE bvView.filter

AddCard(shown) ==
  /\ Clicks
  /\ \E column \in {""} \cup ToSet(VisibleColumns(shown)), show \in BOOLEAN :
       /\ \/ column = "" /\ show
          \/ bvView.kind = "board" /\ show /\ column \in ToSet(VisibleColumns(shown))
          \/ bvView.kind = "table" /\ ~show
             /\ IF Grouped THEN column \in ToSet(VisibleColumns(shown)) ELSE column = ""
       /\ Ask(<<InsertRequest(NewValueIn(column), show)>>)
       /\ Expect(IsSettled /\ bvView.type = "select", column, Append(InColumn(shown, column), bvCount + 1))
  /\ UNCHANGED <<bvCards, bvOptions, bvSaved, bvView, bvSelected, bvCount>>

(***************************************************************************)
(* Dragging cards: the one that is dragged and the selected ones.           *)
(***************************************************************************)
Dragged(c) == Once(Append(bvSelected, c))

\* What is to be seen in a column: the dragged cards side by side next to a
\* card of it, or last.
Beside(column, cards, i) == Splice(column, i, cards)

\* orderAfterMoveToColumn
OrderAfterMoveToColumn(shown, cards, o) ==
  LET column == InColumn(shown, o)
      kept == Except(bvView.order, ToSet(cards))
  IN  IF o \notin ToSet(VisibleColumns(shown)) \/ column = <<>> THEN bvView.order
      ELSE Splice(kept, IndexIn(kept, Last(column)) + 1, cards)

\* The values and the order are asked for together.
MoveToColumn(shown, cards, o) ==
  LET column == InColumn(shown, o) IN
  /\ Ask(SetValues(ToSet(cards) \cap Passing, Written(o), <<>>)
         \o <<OrderRequest(OrderAfterMoveToColumn(shown, cards, o))>>)
  /\ Expect(/\ IsSettled /\ ToSet(cards) \subseteq Live /\ Written(o) = o
            /\ o \in ToSet(VisibleColumns(shown)) /\ column # <<>> /\ Last(column) \notin ToSet(cards),
            o, Except(column, ToSet(cards)) \o cards)

\* A column that is dragged while cards are selected takes them in, wherever it
\* is dropped.
DropToColumn(shown) ==
  /\ Clicks /\ bvView.kind = "board"
  /\ \/ \E c \in ToSet(shown), o \in ToSet(VisibleColumns(shown) \o HiddenColumns(shown)) :
          ColumnOf(c) \in ToSet(VisibleColumns(shown)) /\ MoveToColumn(shown, Dragged(c), o)
     \/ bvSelected # <<>> /\ \E o \in ToSet(VisibleColumns(shown)) : MoveToColumn(shown, bvSelected, o)
  /\ UNCHANGED <<bvCards, bvOptions, bvSaved, bvView, bvSelected, bvCount>>

OrderAfterDropToCardAbove(shown, cards, c, dst) ==
  LET kept == Except(shown, ToSet(cards)) IN Splice(kept, IndexIn(kept, dst), cards)

\* onDropToCard of the board: after the card if both have the same value and
\* the drag goes down, else before it.
OrderAfterDropToCard(shown, cards, c, dst) ==
  LET kept == Except(shown, ToSet(cards))
      down == IndexIn(shown, c) <= IndexIn(shown, dst)
  IN  Splice(kept, IndexIn(kept, dst) + (IF Value(c) = Value(dst) /\ down THEN 1 ELSE 0), cards)

\* The order is asked for when all values are set.
DropToCard(shown) ==
  /\ Clicks /\ bvView.kind = "board"
  /\ \E c, dst \in ToSet(shown) :
       LET cards == Dragged(c)
           column == Except(InColumn(shown, ColumnOf(dst)), ToSet(cards))
           below == Value(c) = Value(dst) /\ IndexIn(shown, c) < IndexIn(shown, dst)
       IN
       /\ c # dst
       /\ {ColumnOf(c), ColumnOf(dst)} \subseteq ToSet(VisibleColumns(shown))
       /\ Ask(SetValues(ToSet(cards) \cap Passing, Value(dst),
                        <<OrderRequest(OrderAfterDropToCard(shown, cards, c, dst))>>))
       /\ Expect(IsSettled /\ ToSet(cards) \subseteq Live /\ dst \notin ToSet(cards),
                 ColumnOf(dst), Beside(column, cards, IndexIn(column, dst) + (IF below THEN 1 ELSE 0)))
  /\ UNCHANGED <<bvCards, bvOptions, bvSaved, bvView, bvSelected, bvCount>>

\* onDropToGroup of the table: the value is set card by card, up to the first
\* one that is not shown, for which the loop throws.
SetBeforeThrow(cards) ==
  {cards[i] : i \in {j \in DOMAIN cards : \A k \in 1..j : cards[k] \in Passing}}

AllInOrder(shown) == Once(bvView.order \o shown)

\* Next to a card, whatever the column that the card is dragged from, or
\* before the first card of a group.
OrderAfterDropToRow(shown, cards, c, dst) ==
  LET all == AllInOrder(shown)
      kept == Except(all, ToSet(cards))
  IN  Splice(kept, IndexIn(kept, dst) + (IF IndexIn(all, c) <= IndexIn(all, dst) THEN 1 ELSE 0), cards)
OrderAfterDropToGroup(shown, cards, first) ==
  Splice(AllInOrder(shown), IndexIn(AllInOrder(shown), first), cards)

\* Without groups the value cannot be set either: groupByProperty is missing.
DropToRow(shown) ==
  /\ Clicks /\ bvView.kind = "table" /\ (IsManualSort \/ Grouped)
  /\ \E c, dst \in ToSet(shown) :
       LET cards == Dragged(c)
           column == Except(InColumn(shown, ColumnOf(dst)), ToSet(cards))
           below == IndexIn(shown, c) < IndexIn(shown, dst)
       IN
       /\ Grouped => {ColumnOf(c), ColumnOf(dst)} \subseteq ToSet(VisibleColumns(shown))
       /\ Ask((IF Grouped THEN SetValues(SetBeforeThrow(cards), Value(dst), <<>>) ELSE <<>>)
              \o (IF IsManualSort THEN <<OrderRequest(OrderAfterDropToRow(shown, cards, c, dst))>> ELSE <<>>))
       /\ Expect(IsSettled /\ ToSet(cards) \subseteq Live /\ dst \notin ToSet(cards),
                 ColumnOf(dst), Beside(column, cards, IndexIn(column, dst) + (IF below THEN 1 ELSE 0)))
  /\ UNCHANGED <<bvCards, bvOptions, bvSaved, bvView, bvSelected, bvCount>>

\* No card is found to be the first of the group without a value.
DropToGroup(shown) ==
  /\ Clicks /\ bvView.kind = "table" /\ Grouped
  /\ \E c \in ToSet(shown), o \in ToSet(VisibleColumns(shown)) :
       LET cards == Dragged(c)
           there == SelectSeq(shown, LAMBDA x : o # "" /\ Value(x) = o)
       IN
       /\ ColumnOf(c) \in ToSet(VisibleColumns(shown))
       /\ Ask(SetValues(SetBeforeThrow(cards), Written(o), <<>>)
              \o (IF IsManualSort /\ there # <<>>
                  THEN <<OrderRequest(OrderAfterDropToGroup(shown, cards, Head(there)))>> ELSE <<>>))
       /\ Elsewhere
  /\ UNCHANGED <<bvCards, bvOptions, bvSaved, bvView, bvSelected, bvCount>>

(***************************************************************************)
(* The columns.                                                             *)
(***************************************************************************)
ViewEdited == UNCHANGED <<bvCards, bvOptions, bvSelected, bvAsked, bvCount>>

\* A patch of the fields in which the new view differs.
Patch(view) ==
  /\ view # bvView
  /\ Saved([f \in DOMAIN view |-> IF view[f] = bvView[f] THEN bvSaved[f] ELSE view[f]])
  /\ ViewEdited

\* createBoardView copies the lists of the view, and createPatchesFromBlocks
\* takes a copy for a change: all but the group is written.
PatchOfCopy(view) ==
  /\ view # bvView
  /\ Saved([view EXCEPT !.grouped = bvSaved.grouped])
  /\ ViewEdited

\* hideViewColumns and unhideViewColumns
Hide(view, columns) ==
  IF ToSet(columns) \subseteq ToSet(view.hidden) THEN view
  ELSE [view EXCEPT !.visible = Except(@, ToSet(columns)), !.hidden = @ \o columns]
Unhide(view, columns) ==
  IF ToSet(columns) \subseteq ToSet(view.visible) THEN view
  ELSE [view EXCEPT !.visible = Except(@, ToSet(columns)) \o columns, !.hidden = Except(@, ToSet(columns))]

HideColumns(shown) ==
  /\ Clicks /\ Elsewhere /\ Grouped
  /\ LET visible == VisibleColumns(shown)
         empty == SelectSeq(visible, LAMBDA o : InColumn(shown, o) = <<>>)
     IN  \E columns \in {<<o>> : o \in ToSet(visible)} \cup (IF bvView.kind = "table" THEN {empty} ELSE {}) :
           PatchOfCopy(Hide(bvView, columns))

UnhideColumns(shown) ==
  /\ Clicks /\ Elsewhere /\ Grouped
  /\ LET hidden == HiddenColumns(shown) IN
     \E columns \in (IF bvView.kind = "table" THEN {hidden} ELSE {<<o>> : o \in ToSet(hidden)}) :
       PatchOfCopy(Unhide(bvView, columns))

\* A column is dropped on another and takes its place: that of src goes to at.
MoveColumn(shown, src, at) ==
  LET visible == VisibleColumns(shown) IN
  /\ Clicks /\ Grouped
  /\ Patch([bvView EXCEPT !.visible = Splice(RemoveAt(visible, src), at, <<visible[src]>>)])
  /\ bvDrop' = NoDrop /\ bvMixed' = (bvMixed \/ bvView # bvSaved)

\* Dropped on itself, a column of the board moves on.
DropColumn(shown) ==
  /\ bvView.kind = "board" /\ bvSelected = <<>>
  /\ \E src, dst \in DOMAIN VisibleColumns(shown) : MoveColumn(shown, src, IF src = dst THEN dst ELSE dst - 1)
DropGroup(shown) ==
  /\ bvView.kind = "table"
  /\ \E src, dst \in DOMAIN VisibleColumns(shown) : MoveColumn(shown, src, dst - 1)

OptionsEdited == UNCHANGED <<bvCards, bvSaved, bvView, bvSelected, bvAsked, bvCount>>

\* A new option is one that no card and no list of the view knows.
AddGroup ==
  /\ Clicks /\ Elsewhere /\ Grouped /\ bvView.kind = "board" /\ bvView.type = "select"
  /\ \E v \in ToSet(BvValues) :
       /\ v \notin ToSet(bvOptions \o bvView.visible \o bvView.hidden)
       /\ \A c \in Live : Value(c) # v
       /\ bvOptions' = Append(bvOptions, v)
  /\ OptionsEdited

DeleteOption(shown) ==
  /\ Clicks /\ Elsewhere /\ Grouped /\ bvView.type = "select"
  /\ \E o \in ToSet(VisibleColumns(shown)) \ {""} : bvOptions' = Except(bvOptions, {o})
  /\ OptionsEdited

\* Ungroup, or group by the property again.
GroupBy == Clicks /\ Elsewhere /\ bvView.kind = "table" /\ Patch([bvView EXCEPT !.grouped = ~@])

(***************************************************************************)
(* Sorting and filtering.                                                   *)
(***************************************************************************)
Manual == [by |-> "manual", reversed |-> FALSE]
SortChanged ==
  /\ Clicks /\ Elsewhere
  /\ \E by \in {"title", "property"} :
       Patch([bvView EXCEPT !.sort = [by |-> by, reversed |-> @.by = by /\ ~@.reversed]])
\* The order that is shown becomes the manual one.
ManualSort(shown) ==
  Clicks /\ Elsewhere /\ ~IsManualSort /\ Patch([bvView EXCEPT !.order = shown, !.sort = Manual])
RevertSort == Clicks /\ Elsewhere /\ ~IsManualSort /\ Patch([bvView EXCEPT !.sort = Manual])

SetFilter ==
  /\ Clicks /\ Elsewhere /\ bvView.type = "select"
  /\ \E v \in {""} \cup ToSet(bvOptions) : Patch([bvView EXCEPT !.filter = v])

(***************************************************************************)
(* Another user moves or deletes a card.                                    *)
(***************************************************************************)
OtherChangesCard ==
  /\ Clicks /\ Elsewhere
  /\ \E c \in Live :
       \/ \E v \in {""} \cup ToSet(bvOptions) : bvCards' = MovedTo({c}, v)
       \/ bvCards' = [x \in Live \ {c} |-> bvCards[x]]
  /\ UNCHANGED <<bvOptions, bvSaved, bvView, bvSelected, bvAsked, bvCount>>

----------------------------------------------------------------------------
BvInit ==
  /\ bvCards = BvCards /\ bvOptions = SubSeq(BvValues, 1, 2)
  /\ bvSaved = [kind |-> "", type |-> "select", grouped |-> TRUE, order |-> [n \in DOMAIN BvCards |-> n],
                visible |-> <<>>, hidden |-> <<>>, sort |-> Manual, filter |-> ""]
  /\ bvView = bvSaved
  /\ bvSelected = <<>> /\ bvAsked = <<>> /\ bvCount = Len(BvCards) /\ bvOps = BvMaxOps
  /\ bvDrop = NoDrop /\ bvMixed = FALSE

\* A view is opened: a board or a table, grouped by a property of some type.
OpenView ==
  /\ bvView.kind = ""
  /\ \E kind \in {"board", "table"}, type \in {"select", "person", "many", "card"} :
       Saved([bvView EXCEPT !.kind = kind, !.type = type])
  /\ UNCHANGED <<bvCards, bvOptions, bvSelected, bvAsked, bvCount, bvOps, bvHistory>>

OnShown(shown) ==
  \/ CardClicked(shown) \/ AddCard(shown)
  \/ DropToColumn(shown) \/ DropToCard(shown) \/ DropToRow(shown) \/ DropToGroup(shown)
  \/ HideColumns(shown) \/ UnhideColumns(shown) \/ DropColumn(shown) \/ DropGroup(shown)
  \/ DeleteOption(shown) \/ ManualSort(shown)

BvNext ==
  \/ OpenView
  \/ \E shown \in Orders : OnShown(shown)
  \/ Deselect \/ DeleteSelected \/ DuplicateSelected \/ CardMenu
  \/ \E i \in DOMAIN bvAsked : Arrived(i)
  \/ AddGroup \/ GroupBy \/ SortChanged \/ RevertSort \/ SetFilter \/ OtherChangesCard

BvSpec == BvInit /\ [][BvNext]_bvVars

----------------------------------------------------------------------------
(***************************************************************************)
(* Properties.                                                              *)
(***************************************************************************)
BvTypeOK ==
  /\ Live \subseteq 1..BvMaxCards /\ bvCount <= BvMaxCards
  /\ \A c \in Live : Value(c) \in {"", "undefined"} \cup ToSet(BvValues \o BvKeys)
  /\ ToSet(bvView.visible \o bvView.hidden) \subseteq {"", "undefined"} \cup ToSet(BvValues)
  /\ ToSet(bvSelected) \cup ToSet(bvView.order) \subseteq 1..bvCount
  /\ Len(bvAsked) <= BvMaxAsked + 1

\* However columns are hidden, shown, dragged, added and deleted and values
\* set, each card that the filter lets through is in one column, and only in
\* one, of the visible and the hidden ones: no card is lost from the board
\* when its option goes, none is shown twice.  The lists of the view keep the
\* ids of options that are gone, and columns in no list are visible.  Dragging
\* a column writes the list of the visible ones alone, which must then fit the
\* list of the hidden ones that the server has.
EachCardOnce ==
  bvView.kind # "" /\ Grouped /\ ~bvMixed =>
    \A shown \in Orders :
      LET columns == VisibleColumns(shown) \o HiddenColumns(shown) IN
      \A c \in Passing : Cardinality({i \in DOMAIN columns : columns[i] = ColumnOf(c)}) = 1

\* Cards that are dropped next to a card, or at the end of a column of a board,
\* or added are seen in that column, side by side at that place, and the other
\* cards of the column stay as they were: the order that is written is that
\* of the whole view, while the place is one of a column.
DropsLand ==
  bvDrop # NoDrop /\ bvAsked = <<>> => \A shown \in Orders : InColumn(shown, bvDrop.column) = bvDrop.cards

\* When no request is under way the store has the view of the server, although
\* a new card puts back the view of the click: the order that is asked for
\* with it brings the news.
ViewFollows == bvAsked = <<>> => bvView = bvSaved
=============================================================================
