------------------------------- MODULE Sidebar -------------------------------
(***************************************************************************)
(* The sidebar: webapp/src/store/sidebar.ts, the handlers of                *)
(* webapp/src/components/sidebar (sidebar.tsx, sidebarCategory.tsx,         *)
(* sidebarBoardItem.tsx) and the requests of octoClient.ts they make.       *)
(*                                                                          *)
(* Every user files boards in categories.  The store holds each category    *)
(* with its boards in order; dragging changes the store at once, and the    *)
(* server after two requests, either of which may be refused.  The server   *)
(* (app/category.go, app/category_boards.go) tells every tab of the user of *)
(* what it did, partly from goroutines of their own.                        *)
(***************************************************************************)
EXTENDS Naturals, Sequences, SequencesExt, FiniteSets, TLC

CONSTANTS
  SbBoards, SbCats,
  Default,        \* the category called "Boards"
  MaxSbOps,       \* bound: what the user does
  MaxSbFailures   \* bound: requests that fail for no reason of their own

ASSUME SbAssumption ==
  IsFiniteSet(SbBoards) /\ Default \in SbCats /\ MaxSbOps \in Nat /\ MaxSbFailures \in Nat

VARIABLES
  sbCats,     \* categoryAttributes: each with its id and its boards in order
  sbHidden,   \* hiddenBoardIDs
  sbLoaded,   \* the boards of the store
  sbCurrent,  \* the board that is open
  sbRow,      \* server: the category and the visibility of each board
  sbOrder,    \* server: the categories in order
  sbAlive,    \* server: the boards that are not deleted
  sbEvents,   \* what the server told and has yet to arrive
  sbCalls,    \* requests and their answers
  sbOps, sbFailures,
  sbTainted   \* history: boards whose place in the store may differ from the server's

sbServer == <<sbRow, sbOrder, sbAlive>>
sbStore == <<sbCats, sbHidden, sbLoaded, sbCurrent>>
sbVars == <<sbStore, sbServer, sbEvents, sbCalls, sbOps, sbFailures, sbTainted>>

----------------------------------------------------------------------------
(***************************************************************************)
(* Lists of boards, and the reducers of the store.                          *)
(***************************************************************************)
Meta(b, hidden) == [board |-> b, hidden |-> hidden]
BoardsIn(list) == {list[i].board : i \in DOMAIN list}
Dropped(list, boards) == SelectSeq(list, LAMBDA m : m.board \notin boards)
Inserted(list, i, m) == IF i > Len(list) THEN Append(list, m) ELSE InsertAt(list, i, m)

HasCat(cats, c) == \E i \in DOMAIN cats : cats[i].id = c
ListOf(cats, c) == cats[CHOOSE i \in DOMAIN cats : cats[i].id = c].boards
WithList(cats, c, list) ==
  [i \in DOMAIN cats |-> IF cats[i].id = c THEN [cats[i] EXCEPT !.boards = list] ELSE cats[i]]
HiddenIn(cats) ==
  {b \in SbBoards : \E i \in DOMAIN cats : Meta(b, TRUE) \in Range(cats[i].boards)}

\* A store of categories and of hidden boards, as the reducers take it.
Slice(cats, hidden) == [cats |-> cats, hidden |-> hidden]

\* updateCategories, for one category: a new one comes first, even if what
\* arrives is its deletion.
UpdateCategories(s, c, deleted) ==
  IF ~HasCat(s.cats, c) THEN [s EXCEPT !.cats = <<[id |-> c, boards |-> <<>>]>> \o @]
  ELSE IF deleted THEN [s EXCEPT !.cats = SelectSeq(@, LAMBDA k : k.id # c)]
  ELSE s

\* What an update of a board does to hiddenBoardIDs.
HiddenAfter(hidden, u) == IF u.hidden THEN hidden \cup {u.board} ELSE hidden \ {u.board}

\* updateBoardCategories: a board keeps its position in its category or comes
\* first, and leaves every other one.
UpdateBoardCategories(s, batch) ==
  LET Placed(list, u) ==
        IF u.board \in BoardsIn(list)
          THEN [j \in DOMAIN list |-> IF list[j].board = u.board THEN Meta(u.board, u.hidden) ELSE list[j]]
          ELSE <<Meta(u.board, u.hidden)>> \o list
      Step(t, u) ==
        IF t.cats = <<>> THEN t
        ELSE [t EXCEPT !.cats = [i \in DOMAIN @ |->
                [@[i] EXCEPT !.boards = IF t.cats[i].id = u.cat THEN Placed(@, u) ELSE Dropped(@, {u.board})]],
              !.hidden = HiddenAfter(@, u)]
  IN FoldLeft(Step, s, batch)

\* updateCategoryOrder: categories that the order leaves out are gone.
UpdateCategoryOrder(s, order) ==
  IF order = <<>> THEN s
  ELSE [s EXCEPT !.cats = [i \in DOMAIN SelectSeq(order, LAMBDA c : HasCat(s.cats, c)) |->
          LET c == SelectSeq(order, LAMBDA k : HasCat(s.cats, k))[i] IN
          [id |-> c, boards |-> ListOf(s.cats, c)]]]

\* updateCategoryBoardsOrder: an empty list is ignored.
UpdateCategoryBoardsOrder(s, c, list) ==
  IF list = <<>> \/ ~HasCat(s.cats, c) THEN s ELSE [s EXCEPT !.cats = WithList(@, c, list)]

\* removeBoardsFromAllCategories.
RemoveBoardsFromAllCategories(s, boards) ==
  LET cats == [i \in DOMAIN s.cats |-> [s.cats[i] EXCEPT !.boards = Dropped(@, boards)]] IN
  Slice(cats, HiddenIn(cats))

\* fetchSidebarCategories.fulfilled.
Fetched(cats) == Slice(cats, HiddenIn(cats))

----------------------------------------------------------------------------
(***************************************************************************)
(* What is on the screen.                                                   *)
(***************************************************************************)

\* getSortedCategoryBoards and isBoardVisible: the items of a category, each
\* dragged by its index among them.
Items(c) == SelectSeq(ListOf(sbCats, c), LAMBDA m : m.board \in sbLoaded /\ ~m.hidden)

\* The boards of the category that exist, hidden or not, and the others:
\* the indices of handleCategoryBoardDND count the former.
Active(list) == SelectSeq(list, LAMBDA m : m.board \in sbLoaded)
Others(list) == SelectSeq(list, LAMBDA m : m.board \notin sbLoaded)

CategoriesOf(cats, b) == {cats[i].id : i \in {j \in DOMAIN cats : b \in BoardsIn(cats[j].boards)}}

----------------------------------------------------------------------------
(***************************************************************************)
(* State.                                                                   *)
(***************************************************************************)
SbTypeOK ==
  /\ \A i \in DOMAIN sbCats : sbCats[i].id \in SbCats /\ BoardsIn(sbCats[i].boards) \subseteq SbBoards
  /\ sbHidden \subseteq SbBoards /\ sbLoaded \subseteq SbBoards
  /\ sbCurrent \in SbBoards \cup {"", "picker"}
  /\ sbRow \in [SbBoards -> [cat : SbCats, hidden : BOOLEAN]]
  /\ ToSet(sbOrder) \subseteq SbCats /\ IsInjective(sbOrder)
  /\ \A b \in SbBoards : sbRow[b].cat \in ToSet(sbOrder)

\* What the server answers to getSidebarCategories; the order in a category
\* is the one the store has, which only matters to the eye.
ServerCats ==
  [i \in DOMAIN sbOrder |->
     [id |-> sbOrder[i],
      boards |-> SetToSeq({Meta(b, sbRow[b].hidden) : b \in {x \in SbBoards : sbRow[x].cat = sbOrder[i]}})]]

\* Before the page is loaded.
SbInit ==
  /\ sbRow = [b \in SbBoards |-> [cat |-> Default, hidden |-> FALSE]]
  /\ sbOrder = SetToSeq(SbCats)
  /\ sbAlive = SbBoards /\ sbLoaded = SbBoards
  /\ sbCats = <<>> /\ sbHidden = {}
  /\ sbCurrent = ""
  /\ sbEvents = <<>> /\ sbCalls = {} /\ sbOps = 0 /\ sbFailures = 0
  /\ sbTainted = {}

\* The team is entered: its boards and categories are in the store, and one of
\* the boards is open.
OpenSidebar ==
  /\ sbCurrent = "" /\ sbCurrent' = CHOOSE b \in SbBoards : TRUE
  /\ sbRow' \in [SbBoards -> [cat : SbCats, hidden : {FALSE}]]
  /\ UNCHANGED <<sbHidden, sbLoaded, sbOrder, sbAlive, sbEvents, sbCalls, sbOps, sbFailures, sbTainted>>
  /\ sbCats' = ServerCats'

Keep(s) == sbCats' = s.cats /\ sbHidden' = s.hidden
SliceNow == Slice(sbCats, sbHidden)

\* The user starts something that sends a request.
Begins(call) == sbOps < MaxSbOps /\ sbOps' = sbOps + 1 /\ sbCalls' = sbCalls \cup {call}
Only(stores) == UNCHANGED <<sbServer, sbEvents, sbFailures, sbLoaded, stores>>

----------------------------------------------------------------------------
(***************************************************************************)
(* The user.                                                                *)
(***************************************************************************)

\* The same list with the item at src moved to dst, and what cannot be seen
\* of it at its end.
Redragged(list, src, dst) ==
  Inserted(RemoveAt(Active(list), src), dst, Active(list)[src]) \o Others(list)

\* handleCategoryBoardDND within a category.
DragWithin(c, src, dst) ==
  LET list == ListOf(sbCats, c)
      new == Redragged(list, src, dst) IN
  /\ src # dst
  /\ Begins([op |-> "reorder", at |-> "sent", cat |-> c, list |-> new, prev |-> list,
             src |-> src, dst |-> dst])
  /\ Keep(UpdateCategoryBoardsOrder(SliceNow, c, new))
  /\ UNCHANGED sbTainted /\ Only(sbCurrent)

\* handleCategoryBoardDND to another category: the board that is dragged is
\* the item, the board that moves in the store is looked up in the list.
DragAcross(from, to, src, dst) ==
  LET dragged == Items(from)[src].board
      meta == ListOf(sbCats, from)[src]
      prev == ListOf(sbCats, to)
      new == Inserted(prev, dst, meta)
      s1 == UpdateCategoryBoardsOrder(SliceNow, to, new) IN
  /\ Begins([op |-> "move", at |-> "sent", cat |-> to, from |-> from, board |-> dragged,
             meta |-> meta, list |-> new, prev |-> prev])
  /\ Keep(UpdateBoardCategories(s1, <<[board |-> meta.board, cat |-> to, hidden |-> meta.hidden]>>))
  /\ sbTainted' = IF meta.board = dragged THEN sbTainted ELSE sbTainted \cup {dragged, meta.board}
  /\ Only(sbCurrent)

\* onDragEnd of a board.
DragBoard ==
  \E from, to \in SbCats :
    /\ HasCat(sbCats, from) /\ HasCat(sbCats, to)
    /\ \E src \in 1..Len(Items(from)) :
         IF from = to THEN \E dst \in 1..Len(Items(to)) : DragWithin(from, src, dst)
         ELSE \E dst \in 1..Len(Items(to)) + 1 : DragAcross(from, to, src, dst)

\* handleCategoryDND.
DragCategory ==
  \E src, dst \in DOMAIN sbCats :
    LET ids == [i \in DOMAIN sbCats |-> sbCats[i].id]
        new == Inserted(RemoveAt(ids, src), dst, ids[src]) IN
    /\ src # dst
    /\ Begins([op |-> "catorder", at |-> "sent", order |-> new])
    /\ Keep(UpdateCategoryOrder(SliceNow, new))
    /\ UNCHANGED sbTainted /\ Only(sbCurrent)

\* The menu of a board: generateMoveToCategoryOptions, handleHideBoard.
MoveByMenu ==
  \E i, j \in DOMAIN sbCats : \E b \in BoardsIn(Items(sbCats[i].id)) :
    /\ i # j
    /\ Begins([op |-> "menumove", at |-> "sent", cat |-> sbCats[j].id, board |-> b])
    /\ UNCHANGED <<sbCats, sbHidden, sbTainted>> /\ Only(sbCurrent)

HideByMenu ==
  \E i \in DOMAIN sbCats : \E b \in BoardsIn(Items(sbCats[i].id)) :
    /\ Begins([op |-> "hide", at |-> "sent", cat |-> sbCats[i].id, board |-> b])
    /\ UNCHANGED <<sbCats, sbHidden, sbTainted>> /\ Only(sbCurrent)

\* The menu of a category: handleDeleteCategory, of a category that is not
\* the default one.
DeleteCategoryByMenu ==
  \E i \in DOMAIN sbCats :
    /\ sbCats[i].id # Default
    /\ Begins([op |-> "delcat", at |-> "sent", cat |-> sbCats[i].id])
    /\ UNCHANGED <<sbCats, sbHidden, sbTainted>> /\ Only(sbCurrent)

\* showBoard; the page unhides the board that it shows, if it knows the
\* category of it (handleUnhideBoard of boardPage.tsx).
ShowBoard(b) ==
  /\ sbOps < MaxSbOps /\ sbOps' = sbOps + 1
  /\ sbCurrent' = b
  /\ sbCalls' = sbCalls \cup
       {[op |-> "unhide", at |-> "sent", cat |-> c, board |-> b] :
          c \in IF b \in sbHidden THEN CategoriesOf(sbCats, b) ELSE {}}
  /\ UNCHANGED <<sbCats, sbHidden, sbTainted>> /\ Only(<<>>)

\* onDeleteBoard, up to the request.
DeleteBoard(b) ==
  /\ \E i \in DOMAIN sbCats : b \in BoardsIn(Items(sbCats[i].id))
       /\ Begins([op |-> "delboard", at |-> "sent", board |-> b,
                  boards |-> [j \in DOMAIN Active(sbCats[i].boards) |-> Active(sbCats[i].boards)[j].board]])
  /\ UNCHANGED <<sbCats, sbHidden, sbTainted>> /\ Only(sbCurrent)

\* The effect that files the open board: a board in no category goes to the
\* default one, unless that was asked for.
AdoptCurrent ==
  LET call == [op |-> "menumove", at |-> "sent", cat |-> Default, board |-> sbCurrent] IN
  /\ sbCats # <<>> /\ HasCat(sbCats, Default)
  /\ sbCurrent \in sbLoaded /\ CategoriesOf(sbCats, sbCurrent) = {}
  /\ call \notin sbCalls /\ Begins(call)
  /\ UNCHANGED <<sbCats, sbHidden, sbTainted>> /\ Only(sbCurrent)

\* The effect that fetches the categories when the team is entered again.
Reload ==
  /\ Begins([op |-> "fetch", at |-> "sent"])
  /\ UNCHANGED <<sbCats, sbHidden, sbTainted>> /\ Only(sbCurrent)

----------------------------------------------------------------------------
(***************************************************************************)
(* The server.  It executes a request and tells of it; an answer is on its  *)
(* way then.                                                                *)
(***************************************************************************)
Update(b, c, hidden) == [board |-> b, cat |-> c, hidden |-> hidden]

\* The payload of AddUpdateUserCategoryBoard: all boards of the category.
Contents(row, c) ==
  SetToSeq({Update(b, c, row[b].hidden) : b \in {x \in SbBoards : row[x].cat = c}})

Tell(e) == sbEvents' = Append(sbEvents, e)
Moved(row, c) == [kind |-> "moved", batch |-> Contents(row, c)]

Answered(call, at) == sbCalls' = (sbCalls \ {call}) \cup {[call EXCEPT !.at = at]}

\* Requests that change the category of a board.
ServeMove(call) ==
  /\ call.op \in {"move", "menumove"}
  /\ IF call.cat \in ToSet(sbOrder)
       THEN /\ sbRow' = [sbRow EXCEPT ![call.board].cat = call.cat]
            /\ Tell(Moved(sbRow', call.cat)) /\ Answered(call, "ok")
       ELSE UNCHANGED <<sbRow, sbEvents>> /\ Answered(call, "refused")
  /\ UNCHANGED <<sbOrder, sbAlive>>

\* History: the board of a request that names a category which it has left.
Strayed(call) ==
  IF call.op \in {"hide", "unhide"} /\ sbRow[call.board].cat # call.cat THEN {call.board} ELSE {}

\* SetBoardVisibility, which tells the category that the user saw the board in.
ServeHide(call) ==
  /\ call.op \in {"hide", "unhide"}
  /\ sbRow' = [sbRow EXCEPT ![call.board].hidden = IF sbRow[call.board].cat = call.cat
                                                     THEN call.op = "hide" ELSE @]
  /\ Tell([kind |-> "hidden", batch |-> <<Update(call.board, call.cat, call.op = "hide")>>])
  /\ Answered(call, "ok")
  /\ UNCHANGED <<sbOrder, sbAlive>>

\* ReorderCategoryBoards refuses a list of other boards than it has itself,
\* deleted ones included.
ServeReorder(call) ==
  /\ call.op \in {"reorder", "moveorder", "again"}
  /\ LET mine == {b \in SbBoards : sbRow[b].cat = call.cat} IN
     Answered(call, IF Len(call.list) = Cardinality(mine) /\ BoardsIn(call.list) \subseteq mine
                      THEN "ok" ELSE "refused")
  /\ UNCHANGED <<sbServer, sbEvents>>

\* ReorderCategories, likewise.
ServeCatOrder(call) ==
  /\ call.op = "catorder"
  /\ IF ToSet(call.order) = ToSet(sbOrder)
       THEN sbOrder' = call.order /\ Tell([kind |-> "order", order |-> call.order]) /\ Answered(call, "ok")
       ELSE UNCHANGED <<sbOrder, sbEvents>> /\ Answered(call, "refused")
  /\ UNCHANGED <<sbRow, sbAlive>>

\* DeleteCategory moves the boards to the default category first.
ServeDelCat(call) ==
  LET mine == {b \in SbBoards : sbRow[b].cat = call.cat} IN
  /\ call.op = "delcat"
  /\ sbOrder' = SelectSeq(sbOrder, LAMBDA c : c # call.cat)
  /\ sbRow' = [b \in SbBoards |-> IF b \in mine THEN [sbRow[b] EXCEPT !.cat = Default] ELSE sbRow[b]]
  /\ sbEvents' = sbEvents \o
       (IF mine = {} THEN <<>> ELSE <<Moved(sbRow', Default)>>) \o
       (IF call.cat \in ToSet(sbOrder) THEN <<[kind |-> "delcat", cat |-> call.cat]>> ELSE <<>>)
  /\ Answered(call, "ok")
  /\ UNCHANGED sbAlive

AnsweredWith(call, cats) == sbCalls' = (sbCalls \ {call}) \cup {[call EXCEPT !.at = "ok"] @@ [snap |-> cats]}

ServeFetch(call) ==
  /\ call.op \in {"fetch", "refetch"}
  /\ AnsweredWith(call, ServerCats)
  /\ UNCHANGED <<sbServer, sbEvents>>

\* A deleted board keeps its row.
ServeDelBoard(call) ==
  /\ call.op = "delboard"
  /\ sbAlive' = sbAlive \ {call.board}
  /\ Tell([kind |-> "gone", board |-> call.board])
  /\ Answered(call, "ok")
  /\ UNCHANGED <<sbRow, sbOrder>>

\* A request fails on its way, and fetch throws; or the server fails to read the
\* categories, which is told from a user without categories by nobody.
Fail(call) ==
  /\ sbFailures < MaxSbFailures /\ sbFailures' = sbFailures + 1
  /\ Answered(call, "thrown") \/ (call.op \in {"fetch", "refetch"} /\ AnsweredWith(call, <<>>))
  /\ UNCHANGED <<sbServer, sbEvents>>

Serve(call) ==
  /\ call \in sbCalls /\ call.at = "sent"
  /\ \/ /\ \/ ServeMove(call) \/ ServeHide(call) \/ ServeReorder(call) \/ ServeCatOrder(call)
           \/ ServeDelCat(call) \/ ServeFetch(call) \/ ServeDelBoard(call)
        /\ UNCHANGED sbFailures /\ sbTainted' = sbTainted \cup Strayed(call)
     \/ Fail(call) /\ UNCHANGED sbTainted
  /\ UNCHANGED <<sbStore, sbOps>>

----------------------------------------------------------------------------
(***************************************************************************)
(* Answers.                                                                 *)
(***************************************************************************)
Done(call) == sbCalls' = sbCalls \ {call}
Goes(call, next) == sbCalls' = (sbCalls \ {call}) \cup {next}
Fetch == [op |-> "fetch", at |-> "sent"]

\* History: a list that is put back brings the boards that went elsewhere since,
\* and drops those that came.
Disturbs(cats, c, list) ==
  LET now == ToSet(ListOf(cats, c))
      before == ToSet(list)
  IN IF list = <<>> \/ ~HasCat(cats, c) THEN {}
     ELSE {m.board : m \in (now \ before) \cup (before \ now)}
Taint(boards) == sbTainted' = sbTainted \cup boards

\* The catch of a drag within a category: the list is as it was before the drag,
\* until the categories are fetched.
TakeBack(call, s) ==
  /\ Goes(call, Fetch)
  /\ Keep(UpdateCategoryBoardsOrder(s, call.cat, call.prev))

\* After handleCategoryBoardDND within a category: refused, the categories
\* are fetched and the drag is made again; thrown, it is taken back.
ReorderAnswer(call) ==
  /\ call.op = "reorder"
  /\ \/ call.at = "ok" /\ Done(call) /\ UNCHANGED <<sbCats, sbHidden, sbTainted>>
     \/ call.at = "refused"
          /\ Goes(call, [call EXCEPT !.op = "refetch", !.at = "sent"])
          /\ UNCHANGED <<sbCats, sbHidden, sbTainted>>
     \/ call.at = "thrown"
          /\ TakeBack(call, SliceNow)
          /\ Taint(Disturbs(sbCats, call.cat, call.prev))
  /\ UNCHANGED <<sbLoaded, sbCurrent>>

\* Boards whose place an answer told differently, or an event has yet to.
Announced == UNION {IF e.kind \in {"moved", "hidden"} THEN BoardsIn(e.batch) ELSE {} : e \in ToSet(sbEvents)}
RowIn(cats, b) ==
  UNION {{[cat |-> c.id, hidden |-> m.hidden] : m \in {x \in ToSet(c.boards) : x.board = b}} : c \in ToSet(cats)}
Refreshed(cats) ==
  (sbTainted \cap Announced) \cup {b \in SbBoards : RowIn(cats, b) # {sbRow[b]}}

\* fetchSidebarCategories, and the second drag after it; if the category has
\* fewer boards now than the index of the first drag, the second one moves
\* undefined, which throws at once.  A fetch that throws changes nothing.
FetchAnswer(call) ==
  /\ call.op \in {"fetch", "refetch"}
  /\ \/ call.at = "thrown" /\ Done(call) /\ UNCHANGED <<sbCats, sbHidden, sbTainted>>
     \/ /\ call.at = "ok"
        /\ IF call.op = "fetch" \/ ~HasCat(call.snap, call.cat)
             THEN Done(call) /\ Keep(Fetched(call.snap)) /\ sbTainted' = Refreshed(call.snap)
           ELSE LET list == ListOf(call.snap, call.cat)
                    new == Redragged(list, call.src, call.dst) IN
           IF call.src <= Len(Active(list))
             THEN /\ Goes(call, [op |-> "again", at |-> "sent", cat |-> call.cat, list |-> new, prev |-> call.prev])
                  /\ Keep(UpdateCategoryBoardsOrder(Fetched(call.snap), call.cat, new))
                  /\ sbTainted' = Refreshed(call.snap)
             ELSE /\ TakeBack(call, Fetched(call.snap))
                  /\ sbTainted' = Refreshed(call.snap) \cup Disturbs(call.snap, call.cat, call.prev)
  /\ UNCHANGED <<sbLoaded, sbCurrent>>

\* Taking a move back gives its category the boards it had before, those that
\* went elsewhere since included; the board itself returns as it was, which
\* may be no longer what the server has.
MoveBack(call) == UpdateCategoryBoardsOrder(SliceNow, call.cat, call.prev)
Disturbed(call) ==
  (Disturbs(sbCats, call.cat, call.prev) \ {call.meta.board})
    \cup IF sbRow[call.board] = [cat |-> call.from, hidden |-> call.meta.hidden]
              /\ HasCat(sbCats, call.from) THEN {} ELSE {call.meta.board}

\* The rollback without its second half.
ReturnedNowhere(call) == MoveBack(call)

Returned(call) ==
  UpdateBoardCategories(MoveBack(call), <<Update(call.meta.board, call.from, call.meta.hidden)>>)

\* After handleCategoryBoardDND to another category: the move, then the order
\* of the new category.
MoveAnswer(call) ==
  /\ call.op = "move"
  /\ \/ call.at = "ok"
          /\ Goes(call, [call EXCEPT !.op = "moveorder", !.at = "sent"])
          /\ UNCHANGED <<sbCats, sbHidden, sbTainted>>
     \/ call.at # "ok" /\ Done(call)
          /\ Keep(Returned(call))
          /\ Taint(Disturbed(call))
  /\ UNCHANGED <<sbLoaded, sbCurrent>>

\* The order is refused when the server has other boards in the category: the
\* list is as before, and the board that was moved is in no category, until
\* the server's event says where it is.
MoveOrderAnswer(call) ==
  /\ call.op = "moveorder"
  /\ \/ call.at = "ok" /\ Done(call) /\ UNCHANGED <<sbCats, sbHidden, sbTainted>>
     \/ call.at = "refused" /\ Done(call)
          /\ Keep(MoveBack(call)) /\ Taint(Disturbs(sbCats, call.cat, call.prev))
     \/ call.at = "thrown" /\ Goes(call, Fetch)
          /\ Keep(Returned(call)) /\ Taint(Disturbed(call))
  /\ UNCHANGED <<sbLoaded, sbCurrent>>

\* handleHideBoard goes on whatever the status is: the board is hidden here,
\* and if it was open, the first board of the first category whose first
\* visible board is loaded is shown.
NextAfterHiding(cats, b) ==
  LET firsts == [i \in DOMAIN cats |->
                   SelectSeq(cats[i].boards, LAMBDA m : ~m.hidden /\ m.board # b)]
      fit == SelectSeq([i \in DOMAIN firsts |-> i],
                       LAMBDA i : firsts[i] # <<>> /\ firsts[i][1].board \in sbLoaded)
  IN IF fit = <<>> THEN "picker" ELSE firsts[fit[1]][1].board

HideAnswer(call) ==
  /\ call.op = "hide"
  /\ Done(call)
  /\ IF call.at = "thrown" THEN UNCHANGED <<sbCats, sbHidden, sbCurrent, sbTainted>>
     ELSE /\ Keep(UpdateBoardCategories(SliceNow, <<Update(call.board, call.cat, TRUE)>>))
          /\ sbCurrent' = IF sbCurrent = call.board THEN NextAfterHiding(sbCats, call.board) ELSE sbCurrent
          /\ sbTainted' = IF sbRow[call.board] = [cat |-> call.cat, hidden |-> TRUE] THEN sbTainted
                          ELSE sbTainted \cup {call.board}
  /\ UNCHANGED sbLoaded

\* onDeleteBoard after the request: the next board of the category as it was
\* is shown 120 ms later, but never the first one.
NextAfterDeleting(boards, b) ==
  LET i == CHOOSE j \in DOMAIN boards : boards[j] = b
      n == IF i = Len(boards) THEN i - 1 ELSE i + 1
  IN IF Len(boards) > 1 /\ n > 1 THEN {boards[n]} ELSE {}

DelBoardAnswer(call) ==
  /\ call.op = "delboard"
  /\ Done(call)
  /\ \/ \E n \in NextAfterDeleting(call.boards, call.board) : sbCurrent' = n /\ call.at = "ok"
     \/ (NextAfterDeleting(call.boards, call.board) = {} \/ call.at # "ok") /\ UNCHANGED sbCurrent
  /\ UNCHANGED <<sbCats, sbHidden, sbLoaded, sbTainted>>

\* Nobody looks at the answer of the second drag, unless it throws.
AgainAnswer(call) ==
  /\ call.op = "again"
  /\ \/ call.at # "thrown" /\ Done(call) /\ UNCHANGED <<sbCats, sbHidden, sbTainted>>
     \/ call.at = "thrown"
          /\ TakeBack(call, SliceNow)
          /\ Taint(Disturbs(sbCats, call.cat, call.prev))
  /\ UNCHANGED <<sbLoaded, sbCurrent>>

\* Nobody looks at the other answers.
OtherAnswer(call) ==
  /\ call.op \in {"menumove", "unhide", "catorder", "delcat"}
  /\ Done(call)
  /\ UNCHANGED <<sbCats, sbHidden, sbLoaded, sbCurrent, sbTainted>>

Answer(call) ==
  /\ call \in sbCalls /\ call.at # "sent"
  /\ \/ ReorderAnswer(call) \/ FetchAnswer(call) \/ MoveAnswer(call) \/ MoveOrderAnswer(call)
     \/ HideAnswer(call) \/ DelBoardAnswer(call)
     \/ AgainAnswer(call) \/ OtherAnswer(call)
  /\ UNCHANGED <<sbServer, sbEvents, sbOps, sbFailures>>

----------------------------------------------------------------------------
(***************************************************************************)
(* Events.  Those of one kind arrive in order; the callback queue and the   *)
(* goroutines may let one of another kind overtake them.                    *)
(***************************************************************************)
Arrive(i) ==
  LET e == sbEvents[i]
      overtaken == UNION {IF sbEvents[j].kind \in {"moved", "hidden"} THEN BoardsIn(sbEvents[j].batch) ELSE {} : j \in 1..i-1}
  IN
  /\ \A j \in 1..i-1 : sbEvents[j].kind # e.kind
  /\ sbEvents' = RemoveAt(sbEvents, i)
  /\ CASE e.kind \in {"moved", "hidden"} -> Keep(UpdateBoardCategories(SliceNow, e.batch)) /\ UNCHANGED sbLoaded
       [] e.kind = "delcat" -> Keep(UpdateCategories(SliceNow, e.cat, TRUE)) /\ UNCHANGED sbLoaded
       [] e.kind = "order" -> Keep(UpdateCategoryOrder(SliceNow, e.order)) /\ UNCHANGED sbLoaded
       [] e.kind = "gone" -> Keep(RemoveBoardsFromAllCategories(SliceNow, {e.board}))
                               /\ sbLoaded' = sbLoaded \ {e.board}
  /\ sbTainted' = sbTainted \cup
       (IF e.kind \in {"moved", "hidden"} THEN BoardsIn(e.batch) \cap overtaken
        ELSE IF e.kind = "delcat" THEN overtaken ELSE {})
  /\ UNCHANGED <<sbCurrent, sbServer, sbCalls, sbOps, sbFailures>>

InSidebar ==
  \/ DragBoard \/ DragCategory \/ MoveByMenu \/ HideByMenu \/ DeleteCategoryByMenu
  \/ (\E b \in sbLoaded : ShowBoard(b) \/ DeleteBoard(b))
  \/ AdoptCurrent \/ Reload
  \/ \E call \in sbCalls : Serve(call) \/ Answer(call)
  \/ \E i \in DOMAIN sbEvents : Arrive(i)
SbNext == OpenSidebar \/ (sbCurrent # "" /\ InSidebar)

SbSpec == SbInit /\ [][SbNext]_sbVars

----------------------------------------------------------------------------
(***************************************************************************)
(* What the sidebar guarantees.                                             *)
(***************************************************************************)
Still == sbCurrent # "" /\ sbCalls = {} /\ sbEvents = <<>>

\* A board that exists is in the sidebar where the server filed it, hidden or
\* not, once all requests are answered and all events are in: unless its place
\* was changed between a drag and the drag's rollback, a drag meant another board,
\* its visibility was set in a category it had left, or events overtook each other.
SidebarSettles ==
  Still => \A b \in sbAlive \ sbTainted : RowIn(sbCats, b) = {sbRow[b]}

\* A board is in one category of the sidebar at most, whatever the drags, the
\* answers and the events, which arrive in any order: two draggable items of
\* one id break the list.
FiledOnce ==
  \A b \in SbBoards \ sbTainted :
    Cardinality({i \in DOMAIN sbCats : b \in BoardsIn(sbCats[i].boards)}) <= 1

\* hiddenBoardIDs and the categories tell the same of a board.
HiddenAgrees ==
  Still => \A b \in sbAlive \ sbTainted : b \in sbHidden <=> b \in HiddenIn(sbCats)
==============================================================================
