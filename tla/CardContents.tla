---------------------------- MODULE CardContents ----------------------------
(***************************************************************************)
(* The contents of an open card: adding, deleting, dragging and undoing     *)
(* (components/cardDetail, contentBlock.tsx, blocksEditor,                  *)
(* store/contents.ts and server/app/content_blocks.go).                     *)
(*                                                                          *)
(* The contents are blocks of their own; the card keeps their order, whose  *)
(* items are ids or rows of ids.  An operation of the user sends requests   *)
(* one after the other, made from the order that the store had when it      *)
(* began; the store follows the server by the news of the websocket.        *)
(***************************************************************************)
EXTENDS Integers, Sequences, SequencesExt, FiniteSets

CONSTANTS
  CcFirst,   \* the order at first, of lists of ids: one of several is a row
  CcFresh,   \* ids for new contents, in the order they are given out
  CcMaxOps   \* bound: operations; none is begun after one that was not alone

ASSUME CcAssumption == IsInjective(FlattenSeq(CcFirst) \o CcFresh) /\ CcMaxOps \in Nat

VARIABLES
  ccEditor,  \* "classic" or "blocks" (the feature flag newBoardsEditor); "" before the card is open
  ccServer,  \* [order, live]: the order kept in the card, and the contents that exist
  ccStore,   \* the same as the client knows them
  ccNews,    \* websocket messages under way: what was done, as requests
  ccCalls,   \* the operations under way: what is left of the requests of each
  ccUndo,    \* the operations to undo, the last one last: [undo, order, live]
  ccFree,    \* ids not given out yet
  ccAuto,    \* the content that Enter in a checkbox added last, "" for none
  ccHist,    \* history: [apart, drop, back]
  ccOps      \* operations left

ccVars == <<ccEditor, ccServer, ccStore, ccNews, ccCalls, ccUndo, ccFree, ccAuto, ccHist, ccOps>>

----------------------------------------------------------------------------
(***************************************************************************)
(* Orders.                                                                  *)
(***************************************************************************)
Item(id) == [row |-> FALSE, ids |-> <<id>>]
RowOf(ids) == [row |-> TRUE, ids |-> ids]
IdsOf(order) == FlattenSeq([i \in DOMAIN order |-> order[i].ids])
Plain(order) == [i \in DOMAIN order |-> IF order[i].row THEN "" ELSE order[i].ids[1]]

\* Positions count from 0; an insertion behind the end is one at the end.
PutAt(s, x, e) == LET n == IF x > Len(s) THEN Len(s) ELSE x IN SubSeq(s, 1, n) \o <<e>> \o SubSeq(s, n + 1, Len(s))
CutAt(s, x) == IF x >= Len(s) THEN s ELSE RemoveAt(s, x + 1)
ArrayMove(s, x, y) == PutAt(CutAt(s, x), y, s[x + 1])

\* getCardContents: contents that the store lacks are left out, rows stay.
Shown ==
  LET there(item) == IF item.row THEN [item EXCEPT !.ids = SelectSeq(@, LAMBDA id : id \in ccStore.live)] ELSE item
      kept == SelectSeq(ccStore.order, LAMBDA item : item.row \/ item.ids[1] \in ccStore.live)
  IN  [i \in DOMAIN kept |-> there(kept[i])]

\* The places of the contents that are shown: y is -1 outside of rows.
Places ==
  LET shown == Shown IN
  UNION {IF shown[i].row THEN {[x |-> i - 1, y |-> k - 1] : k \in DOMAIN shown[i].ids} ELSE {[x |-> i - 1, y |-> -1]}
         : i \in DOMAIN shown}
IdAt(p) == Shown[p.x + 1].ids[IF p.y = -1 THEN 1 ELSE p.y + 1]

----------------------------------------------------------------------------
(***************************************************************************)
(* dragAndDropRearrange                                                     *)
(***************************************************************************)
\* The source leaves; of a row of two the other one stays, as a row if the
\* destination is in it.
WithoutSource(order, src, dst) ==
  IF src.y = -1 THEN CutAt(order, src.x)
  ELSE LET left == CutAt(order[src.x + 1].ids, src.y) IN
       [order EXCEPT ![src.x + 1] = IF Len(left) = 1 /\ src.x # dst.x THEN Item(left[1]) ELSE RowOf(left)]

RowAfter(src, dst) == IF src.y = -1 /\ dst.x > src.x THEN dst.x - 1 ELSE dst.x
ColumnAfterAsBefore(src, dst) == dst.y
ColumnAfter(src, dst) == IF dst.x = src.x /\ dst.y > src.y /\ src.y > -1 THEN dst.y - 1 ELSE dst.y

Rearranged(order, id, src, dstId, dst, moveTo) ==
  LET left == WithoutSource(order, src, dst)
      x == RowAfter(src, dst)
      y == ColumnAfter(src, dst)
      beside == IF moveTo = "right" THEN 1 ELSE 0
  IN
  CASE moveTo \in {"left", "right"} /\ dst.y > -1 -> [left EXCEPT ![x + 1].ids = PutAt(@, y + beside, id)]
    [] moveTo = "right" /\ dst.y = -1 -> [left EXCEPT ![x + 1] = RowOf(<<dstId, id>>)]
    [] moveTo = "left" /\ dst.y = -1 -> [left EXCEPT ![x + 1] = RowOf(<<id, dstId>>)]
    [] moveTo = "aboveRow" -> PutAt(left, x, Item(id))
    [] moveTo = "belowRow" -> PutAt(left, x + 1, Item(id))

\* MoveContentBlock of the server looks at ids outside of rows only.
MovedBlock(order, id, dst, where) ==
  LET rest == SelectSeq(order, LAMBDA item : item.row \/ item.ids[1] # id)
      at == SelectInSeq(rest, LAMBDA item : ~item.row /\ item.ids[1] = dst)
  IN  PutAt(rest, IF where = "after" THEN at ELSE at - 1, Item(id))
CanMove(server, id, dst) == id # dst /\ {id, dst} \subseteq ToSet(Plain(server.order)) \cap server.live

----------------------------------------------------------------------------
(***************************************************************************)
(* Requests and news.                                                       *)
(***************************************************************************)
CcRequest(do, id) == [do |-> do, id |-> id, order |-> <<>>, dst |-> "", where |-> ""]
PatchOrder(order) == [CcRequest("order", "") EXCEPT !.order = order]
MoveTo(id, dst, where) == [CcRequest("move", id) EXCEPT !.dst = dst, !.where = where]

\* What a request makes of the card and its contents.
CcDone(server, r) ==
  CASE r.do \in {"insert", "undelete"} -> [server EXCEPT !.live = @ \cup {r.id}]
    [] r.do = "delete" -> [server EXCEPT !.live = @ \ {r.id}]
    [] r.do = "order" -> [server EXCEPT !.order = r.order]
    [] r.do = "move" /\ CanMove(server, r.id, r.dst) -> [server EXCEPT !.order = MovedBlock(@, r.id, r.dst, r.where)]
    [] OTHER -> server

CcServe(r) ==
  /\ ccServer' = CcDone(ccServer, r)
  /\ ccNews' = IF ccServer' = ccServer THEN ccNews
               ELSE Append(ccNews, IF r.do = "move" THEN PatchOrder(ccServer'.order) ELSE r)

\* An answer lets the next request go; the blocks editor puts what it added
\* into the store itself, and so do pasted images.
CcSendNext ==
  \E i \in DOMAIN ccCalls :
    LET r == Head(ccCalls[i]) IN
    /\ CcServe(r)
    /\ ccCalls' = IF Len(ccCalls[i]) = 1 THEN RemoveAt(ccCalls, i) ELSE [ccCalls EXCEPT ![i] = Tail(@)]
    /\ ccStore' = IF r.where = "local" THEN CcDone(ccStore, r) ELSE ccStore
    /\ UNCHANGED <<ccEditor, ccUndo, ccFree, ccAuto, ccHist, ccOps>>

CcGetNews ==
  /\ ccNews # <<>>
  /\ ccStore' = CcDone(ccStore, Head(ccNews)) /\ ccNews' = Tail(ccNews)
  /\ UNCHANGED <<ccEditor, ccServer, ccCalls, ccUndo, ccFree, ccAuto, ccHist, ccOps>>

CcSettled == ccNews = <<>> /\ ccCalls = <<>>
NoDrag == [src |-> "", dst |-> "", moveTo |-> ""]

\* An operation with its requests and those that undo it.
CcPerform(requests, undo, fresh, auto, drop, loses) ==
  /\ ccOps > 0 /\ ccOps' = (IF CcSettled /\ ~loses THEN ccOps - 1 ELSE 0) /\ Len(ccCalls) < 2
  /\ ccCalls' = Append(ccCalls, requests)
  /\ ccUndo' = Append(ccUndo, [undo |-> undo, order |-> ccServer.order, live |-> ccServer.live])
  /\ ccFree' = IF fresh THEN Tail(ccFree) ELSE ccFree
  /\ ccAuto' = auto
  /\ ccHist' = [apart |-> ccHist.apart \/ ~CcSettled \/ loses, drop |-> drop, back |-> <<>>]
  /\ UNCHANGED <<ccEditor, ccServer, ccStore, ccNews>>

\* What undoes a deletion, a group whose parts are undone backwards.
UndoDeletion(id) == <<PatchOrder(ccStore.order), CcRequest("undelete", id)>>

\* changeCardContentOrder
Reorder(order, drop) == CcPerform(<<PatchOrder(order)>>, <<PatchOrder(ccStore.order)>>, FALSE, ccAuto, drop, FALSE)

\* insertBlock, with the order patched after it, and before it is undone.  What
\* is marked "local" is put into the store with the answer.
InsertContent(x, mark, auto) ==
  /\ ccFree # <<>>
  /\ LET id == Head(ccFree) IN
     CcPerform(<<[CcRequest("insert", id) EXCEPT !.where = mark], [PatchOrder(PutAt(ccStore.order, x, Item(id))) EXCEPT !.where = mark]>>,
             <<PatchOrder(ccStore.order), CcRequest("delete", id)>>, TRUE, auto, NoDrag, FALSE)

DeleteAndReorder(id, order, loses) ==
  CcPerform(<<CcRequest("delete", id), PatchOrder(order)>>, UndoDeletion(id), FALSE, ccAuto, NoDrag, loses)

----------------------------------------------------------------------------
(***************************************************************************)
(* The classic editor.  Its indexes are those of the rows that are shown.   *)
(***************************************************************************)
Classic == ccEditor = "classic"
\* addTextBlock, from the editor that is there when nothing is shown, and the
\* menu "Add content"
AddContent == Classic /\ InsertContent(Len(ccStore.order), "", "")
\* "Insert above"
InsertAbove == Classic /\ \E p \in Places : InsertContent(p.x, "", ccAuto)
\* Enter in a checkbox
AddElement == Classic /\ \E p \in Places : ccFree # <<>> /\ InsertContent(p.x + 1, "", Head(ccFree))

MoveUp == Classic /\ \E p \in Places : p.x > 0 /\ Reorder(ArrayMove(ccStore.order, p.x, p.x - 1), NoDrag)
MoveDown == Classic /\ \E p \in Places : p.x < Len(ccStore.order) - 1 /\ Reorder(ArrayMove(ccStore.order, p.x, p.x + 1), NoDrag)

DeletedAt(order, p) ==
  IF p.y = -1 THEN CutAt(order, p.x)
  ELSE LET left == CutAt(order[p.x + 1].ids, p.y) IN
       [order EXCEPT ![p.x + 1] = IF Len(left) = 1 THEN Item(left[1]) ELSE RowOf(left)]
DeleteContent ==
  Classic /\ \E p \in Places :
    /\ p.y > -1 => ccStore.order[p.x + 1].row
    /\ DeleteAndReorder(IdAt(p), DeletedAt(ccStore.order, p), FALSE)

\* The checkbox that was added by Enter is left empty: the whole row leaves the
\* order.
DeleteElement ==
  Classic /\ \E p \in Places :
    /\ IdAt(p) = ccAuto
    /\ DeleteAndReorder(IdAt(p), CutAt(ccStore.order, p.x), p.y > -1)

\* A content at the place, of a whole row one that is not dragged.
IdBeside(p, src) ==
  IF p.y = -1 /\ Shown[p.x + 1].row
  THEN LET others == SelectSeq(Shown[p.x + 1].ids, LAMBDA id : id # src) IN IF others = <<>> THEN "" ELSE others[1]
  ELSE IdAt(p)

\* The zones above every row and below the last one, and beside the contents;
\* "left" is there for the first content of a row only.
DropContent ==
  LET shown == Shown
      at(p) == shown[p.x + 1].ids[IF p.y = -1 THEN 1 ELSE p.y + 1]
  IN
  Classic /\ \E src \in Places, moveTo \in {"left", "right", "aboveRow", "belowRow"} :
    /\ src.y > -1 => ccStore.order[src.x + 1].row
    /\ \E dst \in IF moveTo \in {"left", "right"} THEN Places ELSE {[x |-> i - 1, y |-> -1] : i \in DOMAIN shown} :
         /\ moveTo = "left" => dst.y < 1
         /\ moveTo = "belowRow" => dst.x = Len(shown) - 1
         /\ moveTo \in {"aboveRow", "belowRow"} /\ ~shown[dst.x + 1].row => at(dst) # at(src)
         /\ moveTo \in {"left", "right"} => at(dst) # at(src) /\ (dst.y > -1 => ccStore.order[dst.x + 1].row)
         /\ LET dstId == IF moveTo \in {"aboveRow", "belowRow"} /\ shown[dst.x + 1].row THEN "" ELSE at(dst) IN
            Reorder(Rearranged(ccStore.order, at(src), src, dstId, dst, moveTo),
                    [src |-> at(src), dst |-> IdBeside(dst, at(src)), moveTo |-> moveTo])

\* useImagePaste: the order of when the image was pasted is used when it has
\* been uploaded.
PasteImage ==
  /\ ccFree # <<>>
  /\ LET id == Head(ccFree) IN
     CcPerform(<<CcRequest("upload", ""), [CcRequest("insert", id) EXCEPT !.where = "local"], PatchOrder(Append(ccStore.order, Item(id)))>>,
             <<PatchOrder(ccStore.order), CcRequest("delete", id)>>, TRUE, ccAuto, NoDrag, FALSE)

----------------------------------------------------------------------------
(***************************************************************************)
(* The blocks editor.                                                       *)
(***************************************************************************)
Blocks == ccEditor = "blocks"
IndexOfId(order, id) == SelectInSeq(order, LAMBDA item : ~item.row /\ item.ids[1] = id) - 1
\* onBlockCreated, after a block or at the end
CreateBlock ==
  Blocks /\ (\/ InsertContent(Len(ccStore.order), "local", ccAuto)
             \/ \E i \in DOMAIN Shown :
                  ~Shown[i].row /\ InsertContent(IndexOfId(ccStore.order, Shown[i].ids[1]) + 1, "local", ccAuto))
\* onBlockModified with an empty text: the id stays in the order.
EmptyBlock ==
  Blocks /\ \E i \in DOMAIN Shown :
    Shown[i].ids # <<>> /\ CcPerform(<<CcRequest("delete", Shown[i].ids[1])>>, <<CcRequest("undelete", Shown[i].ids[1])>>, FALSE, ccAuto, NoDrag, FALSE)

\* onBlockMoved, dropped on a block that is after it or before it.  To undo,
\* it goes back behind the block it was behind, or before the second one.
\* That may be a row, of which the server knows nothing.
MoveBlock ==
  Blocks /\ \E i, j \in DOMAIN Shown :
    /\ i # j /\ Shown[i].ids # <<>> /\ Shown[j].ids # <<>>
    /\ LET order == Plain(ccStore.order)
           id == Shown[i].ids[1]
           dst == Shown[j].ids[1]
           idx == IndexOfId(ccStore.order, id)
       IN  /\ idx # -1
           /\ CcPerform(<<MoveTo(id, dst, IF i < j THEN "after" ELSE "before")>>,
                      <<IF idx = 0 THEN MoveTo(id, order[2], "before") ELSE MoveTo(id, order[idx], "after")>>,
                      FALSE, ccAuto, IF Shown[j].row THEN NoDrag ELSE [src |-> id, dst |-> dst, moveTo |-> IF i < j THEN "belowRow" ELSE "aboveRow"],
                      FALSE)

----------------------------------------------------------------------------
\* Undo of the last operation, when its requests are through.
UndoLast ==
  /\ ccUndo # <<>> /\ ccOps > 0 /\ ccCalls = <<>>
  /\ ccOps' = IF CcSettled THEN ccOps - 1 ELSE 0
  /\ ccCalls' = <<Last(ccUndo).undo>>
  /\ ccHist' = [apart |-> ccHist.apart \/ ~CcSettled, drop |-> NoDrag, back |-> <<[order |-> Last(ccUndo).order, live |-> Last(ccUndo).live]>>]
  /\ ccUndo' = Front(ccUndo)
  /\ UNCHANGED <<ccEditor, ccServer, ccStore, ccNews, ccFree, ccAuto>>

\* Another user deletes a content, as this one would, in two requests.
OtherDeletes ==
  /\ ccOps > 0 /\ ccOps' = 0 /\ Len(ccCalls) < 2
  /\ \E id \in ccServer.live \cap ToSet(Plain(ccServer.order)) :
       ccCalls' = Append(ccCalls, <<CcRequest("delete", id), PatchOrder(SelectSeq(ccServer.order, LAMBDA item : item.row \/ item.ids[1] # id))>>)
  /\ ccHist' = [apart |-> TRUE, drop |-> NoDrag, back |-> <<>>]
  /\ UNCHANGED <<ccEditor, ccServer, ccStore, ccNews, ccUndo, ccFree, ccAuto>>

CcInit ==
  LET card == [order |-> [i \in DOMAIN CcFirst |-> IF Len(CcFirst[i]) = 1 THEN Item(CcFirst[i][1]) ELSE RowOf(CcFirst[i])],
               live |-> ToSet(FlattenSeq(CcFirst))]
  IN
  /\ ccEditor = "" /\ ccServer = card /\ ccStore = card /\ ccNews = <<>> /\ ccCalls = <<>> /\ ccUndo = <<>>
  /\ ccFree = CcFresh /\ ccAuto = "" /\ ccOps = CcMaxOps
  /\ ccHist = [apart |-> FALSE, drop |-> NoDrag, back |-> <<>>]

OpenCard ==
  /\ ccEditor = "" /\ ccEditor' \in {"classic", "blocks"}
  /\ UNCHANGED <<ccServer, ccStore, ccNews, ccCalls, ccUndo, ccFree, ccAuto, ccHist, ccOps>>

InClassic == AddContent \/ InsertAbove \/ AddElement \/ MoveUp \/ MoveDown \/ DeleteContent \/ DeleteElement \/ DropContent
InBlocks == CreateBlock \/ EmptyBlock \/ MoveBlock
CcNext ==
  \/ OpenCard
  \/ InClassic
  \/ InBlocks
  \/ ccEditor # "" /\ (PasteImage \/ UndoLast \/ OtherDeletes)
  \/ CcSendNext \/ CcGetNews
CcSpec == CcInit /\ [][CcNext]_ccVars

----------------------------------------------------------------------------
(***************************************************************************)
(* Properties.                                                              *)
(***************************************************************************)
CcTypeOK ==
  /\ ccEditor \in {"", "classic", "blocks"} /\ ccOps \in 0..CcMaxOps
  /\ ccServer.live \cup ccStore.live \subseteq ToSet(FlattenSeq(CcFirst) \o CcFresh)
  /\ \A order \in {ccServer.order, ccStore.order} :
       ToSet(IdsOf(order)) \subseteq ToSet(FlattenSeq(CcFirst) \o CcFresh) /\ \A i \in DOMAIN order : ~order[i].row => Len(order[i].ids) = 1

\* For a user who works alone and lets each operation end: every content is in
\* the order once and only once, whatever was dragged where, deleted or undone;
\* and the classic editor leaves no id behind.  (A row from which an element
\* deleted itself is left out, see DeleteElement.)
EachContentOnce ==
  CcSettled /\ ~ccHist.apart =>
    /\ IsInjective(IdsOf(ccServer.order))
    /\ ccServer.live \subseteq ToSet(IdsOf(ccServer.order))
    /\ Classic => ToSet(IdsOf(ccServer.order)) = ccServer.live

RowWith(order, id) == CHOOSE i \in DOMAIN order : id \in ToSet(order[i].ids)
IsLeftOf(order, a, b) ==
  LET ids == order[RowWith(order, a)].ids IN \E i \in 1..(Len(ids) - 1) : ids[i] = a /\ ids[i + 1] = b
\* What was dragged is where it was dropped: right beside the content, or in a
\* row of its own right above it or below it.
ContentsLand ==
  LET d == ccHist.drop
      order == ccServer.order
  IN
  CcSettled /\ ~ccHist.apart /\ d.dst # "" =>
    CASE d.moveTo = "right" -> IsLeftOf(order, d.dst, d.src)
      [] d.moveTo = "left" -> IsLeftOf(order, d.src, d.dst)
      [] d.moveTo = "aboveRow" -> RowWith(order, d.src) + 1 = RowWith(order, d.dst) /\ ~order[RowWith(order, d.src)].row
      [] d.moveTo = "belowRow" -> RowWith(order, d.src) = RowWith(order, d.dst) + 1 /\ ~order[RowWith(order, d.src)].row

\* Undo of the last operation, also several times, brings the contents and
\* their order back, if nobody else was at work and no id in the order was
\* one of a deleted content.
ContentsUndone ==
  CcSettled /\ ~ccHist.apart /\ ccHist.back # <<>> =>
    LET back == ccHist.back[1] IN
    ToSet(IdsOf(back.order)) = back.live => ccServer = back
=============================================================================
