----------------------------- MODULE ClientStore -----------------------------
(***************************************************************************)
(* The part of the redux store that holds a board and its blocks:           *)
(* webapp/src/store (cards.ts, views.ts, comments.ts, contents.ts,          *)
(* attachments.ts, boards.ts, initialLoad.ts), and the handler of           *)
(* webapp/src/pages/boardPage/boardPage.tsx that feeds it.                  *)
(*                                                                          *)
(* A block is its id and a version, 0 standing for a block that is not      *)
(* there.  Comments, attachments and contents are kept twice, by id and in  *)
(* a list per card, which is what the cards show.                           *)
(***************************************************************************)
EXTENDS Naturals, Sequences, SequencesExt

CONSTANTS
  Board,
  Blocks,
  KindOf,     \* "view", "card", "template", "comment", "attachment" or "text"
  ParentOf,   \* the card of a comment, an attachment or a text, else the board
  NoEntry     \* no entry of a list

BlockKinds == {"view", "card", "template", "comment", "attachment", "text"}

ASSUME KindOfAssumption == KindOf \in [Blocks -> BlockKinds]
ASSUME ParentOfAssumption == DOMAIN ParentOf = Blocks
ASSUME NoEntryAssumption == NoEntry \notin [id : Blocks, ver : Nat]

Holders == {ParentOf[b] : b \in Blocks}

\* What the server sends of a block: a deletion says the id, not the type.
Update == [id : Blocks, ver : Nat, gone : BOOLEAN]

\* The list of a card that never had one.
NoList == {NoEntry}

Nothing == [b \in Blocks |-> 0]
NoLists == [p \in Holders |-> NoList]
EmptySlice == [byId |-> Nothing, lists |-> NoLists]

\* The store before anything is loaded.
EmptyStore ==
  [board |-> 0, views |-> Nothing, cards |-> Nothing, templates |-> Nothing,
   comments |-> EmptySlice, attachments |-> EmptySlice, contents |-> EmptySlice]

----------------------------------------------------------------------------
(***************************************************************************)
(* Reducers.  A batch is a sequence of updates of different objects, so     *)
(* that what a loop makes of one of them does not depend on the others,     *)
(* but for the ones that a return inside the loop leaves out.               *)
(***************************************************************************)
VersionIn(u) == IF u.gone THEN 0 ELSE u.ver

\* A map by id after some updates.
Updated(map, us) ==
  [b \in Blocks |-> IF \E u \in us : u.id = b THEN VersionIn(CHOOSE u \in us : u.id = b)
                                             ELSE map[b]]

\* A deletion has no type, and goes to every reducer.
Concerns(u, kinds) == u.gone \/ KindOf[u.id] \in kinds
OfKind(batch, kinds) == {u \in ToSet(batch) : Concerns(u, kinds)}

\* updateCards: a template and a card are in different maps, a deletion is
\* made in both.
UpdateCards(st, batch) ==
  [st EXCEPT !.cards = Updated(@, OfKind(batch, {"card"})),
             !.templates = Updated(@, OfKind(batch, {"template"}))]

\* updateViews; smartViewUpdate keeps the old fields where they are equal.
UpdateViews(st, batch) == [st EXCEPT !.views = Updated(@, OfKind(batch, {"view"}))]

----------------------------------------------------------------------------
(***************************************************************************)
(* Reducers with lists.                                                     *)
(***************************************************************************)
Entry(u) == [id |-> u.id, ver |-> u.ver]
Listed(slice, b) ==
  LET list == slice.lists[ParentOf[b]] IN list # NoList /\ \E e \in list : e.id = b

\* A return inside the loop: the first block of a card makes its list and ends
\* the loop; so does a deletion of a block that is not in the map, or of one
\* whose card has no list.
Ends(slice, u) == slice.lists[ParentOf[u.id]] = NoList \/ (u.gone /\ slice.byId[u.id] = 0)

\* The loop of updateComments: replacing a comment ends it as well.
EndsComments(slice, u) == Ends(slice, u) \/ (~u.gone /\ Listed(slice, u.id))

\* The updates of a batch that a loop gets to, when some of them end it.
Reached(batch, kinds, ending) ==
  LET mine == {i \in DOMAIN batch : Concerns(batch[i], kinds)} IN
  {batch[n] : n \in {i \in mine : \A m \in mine : m < i => batch[m] \notin ending}}

\* The list of a card after some updates of its blocks.
Relisted(list, us) ==
  LET entries == {Entry(u) : u \in {x \in us : ~x.gone}} IN
  IF list = NoList THEN (IF entries = {} THEN NoList ELSE entries)
  ELSE {e \in list : \A u \in us : u.id # e.id} \cup entries

\* A slice after the updates us, of which the lists take the ones in listing; a
\* deletion of a block that is not in the map leaves the lists alone.
UpdateSlice(slice, us, listing) ==
  LET taken == {u \in listing : u.gone => slice.byId[u.id] # 0} IN
  [byId |-> Updated(slice.byId, us),
   lists |-> [p \in Holders |->
                Relisted(slice.lists[p], {u \in taken : ParentOf[u.id] = p})]]

UpdateComments(slice, batch) ==
  LET us == Reached(batch, {"comment"}, {u \in ToSet(batch) : EndsComments(slice, u)})
  IN UpdateSlice(slice, us, us)

UpdateContents(slice, batch) ==
  LET us == Reached(batch, {"text"}, {u \in ToSet(batch) : Ends(slice, u)})
  IN UpdateSlice(slice, us, us)

\* updateAttachments: an attachment that is listed stays as it was there.
UpdateAttachments(slice, batch) ==
  LET us == Reached(batch, {"attachment"}, {u \in ToSet(batch) : Ends(slice, u)})
  IN UpdateSlice(slice, us, {u \in us : u.gone \/ ~Listed(slice, u.id)})

----------------------------------------------------------------------------
(***************************************************************************)
(* The handlers of the board page.                                          *)
(***************************************************************************)

\* incrementalBlockUpdate.
IncrementalBlockUpdate(st, batch) ==
  [UpdateCards(UpdateViews(st, batch), batch)
     EXCEPT !.comments = UpdateComments(@, batch),
            !.attachments = UpdateAttachments(@, batch),
            !.contents = UpdateContents(@, batch)]

\* updateBoards of incrementalBoardUpdate, for the one board.
IncrementalBoardUpdate(st, batch) ==
  [st EXCEPT !.board = IF batch = <<>> THEN @ ELSE VersionIn(batch[Len(batch)])]

\* The maps that a load of blocks makes: snap is the version of each block.
LoadedMap(snap, kinds) == [b \in Blocks |-> IF KindOf[b] \in kinds THEN snap[b] ELSE 0]

LoadedSlice(snap, kinds) ==
  LET Of(p) == {b \in Blocks : KindOf[b] \in kinds /\ ParentOf[b] = p /\ snap[b] # 0} IN
  [byId |-> LoadedMap(snap, kinds),
   lists |-> [p \in Holders |->
                IF Of(p) = {} THEN NoList ELSE {[id |-> b, ver |-> snap[b]] : b \in Of(p)}]]

\* loadBoardData.fulfilled in the cards, views, comments, attachments and
\* contents; everything but views and comments is taken for a content.
BoardDataLoaded(st, snap) ==
  [st EXCEPT !.views = LoadedMap(snap, {"view"}),
             !.cards = LoadedMap(snap, {"card"}),
             !.templates = LoadedMap(snap, {"template"}),
             !.comments = LoadedSlice(snap, {"comment"}),
             !.attachments = LoadedSlice(snap, {"attachment"}),
             !.contents = LoadedSlice(snap, {"text", "attachment", "card", "template"})]

\* initialLoad.fulfilled that takes the store to its initial state first.
BoardsLoadedClearing(st, ver) == [EmptyStore EXCEPT !.board = ver]

\* initialLoad.fulfilled in the boards: the boards of the team, no blocks.
BoardsLoaded(st, ver) == [st EXCEPT !.board = ver]

----------------------------------------------------------------------------
(***************************************************************************)
(* What the screen shows: getCard, getView, getCardComments,                *)
(* getCardAttachments and getCardContents.                                  *)
(***************************************************************************)
ListVersions(slice, b) ==
  LET list == slice.lists[ParentOf[b]] IN
  IF list = NoList THEN {} ELSE {e.ver : e \in {x \in list : x.id = b}}

\* The versions of a block on the screen: none, one, or several by mistake.
ShownVersions(st, b) ==
  LET One(v) == IF v = 0 THEN {} ELSE {v} IN
  CASE KindOf[b] = "view" -> One(st.views[b])
    [] KindOf[b] = "card" -> One(st.cards[b])
    [] KindOf[b] = "template" -> One(st.templates[b])
    [] KindOf[b] = "comment" -> ListVersions(st.comments, b)
    [] KindOf[b] = "attachment" -> ListVersions(st.attachments, b)
    [] KindOf[b] = "text" -> ListVersions(st.contents, b)
==============================================================================
