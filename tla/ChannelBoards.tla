--------------------------- MODULE ChannelBoards ---------------------------
(***************************************************************************)
(* The panel beside a channel, which lists the boards that are linked to it *)
(* and the cards of one of them, and the dialog that links boards to the    *)
(* channel.  The panel follows Mattermost's channel; its lists come from    *)
(* requests, from the websocket's news of boards, and from the copies that  *)
(* the dialog patches.  Requests are answered in any order.                 *)
(*                                                                          *)
(* Members of boards and deleted boards are left out.                       *)
(***************************************************************************)
EXTENDS Integers, Sequences, SequencesExt

CONSTANTS
  CbBoards,      \* the boards of the team that the user may link
  CbChannels,    \* the channels of the team
  CbMatches,     \* search text |-> the boards it finds
  CbMaxClicks,   \* bound: what the user does
  CbMaxOthers,   \* bound: what others do, and requests that fail
  CbMaxRaces     \* bound: the requests sent while others are not answered

ASSUME CbAssumption ==
  /\ "" \notin CbChannels \cup CbBoards /\ CbChannels # {}
  /\ "" \in DOMAIN CbMatches /\ CbMatches[""] = CbBoards
  /\ \A text \in DOMAIN CbMatches : CbMatches[text] \subseteq CbBoards

VARIABLES
  cbServer,  \* board |-> [id, title, channel, rev]; rev counts the changes of the channel
  cbStore,   \* the boards in the client's store
  cbPanel,   \* [channel, loaded, selected, cards]; cards: whose cards are in the store
  cbDialog,  \* [link, confirm, results, query, timer]
  cbReqs,    \* the requests that are not answered
  cbNews,    \* the websocket's news of boards that are under way
  cbUndo,    \* what the last patch replaced
  cbPast     \* history and counters

cbVars == <<cbServer, cbStore, cbPanel, cbDialog, cbReqs, cbNews, cbUndo, cbPast>>

NoBoard == ""
Closed == [link |-> "", confirm |-> <<>>, results |-> {}, query |-> "", timer |-> <<>>]

----------------------------------------------------------------------------
(***************************************************************************)
(* Requests.                                                                *)
(***************************************************************************)

Asking(kind, what) == [kind |-> kind, what |-> what, status |-> "sent", answer |-> <<>>]
Loading == Asking("boards", "")
Searching(query) == Asking("search", query)

\* What the user does: it sends requests or none.
Click(rs) ==
  /\ cbPast.clicks < CbMaxClicks
  /\ cbReqs # <<>> /\ rs # <<>> => cbPast.races < CbMaxRaces
  /\ cbReqs' = cbReqs \o rs
  /\ cbPast' = [cbPast EXCEPT !.clicks = @ + 1, !.races = IF cbReqs = <<>> \/ rs = <<>> THEN @ ELSE @ + 1]

----------------------------------------------------------------------------
(***************************************************************************)
(* The panel.                                                               *)
(***************************************************************************)

\* The panel appears, and the dialog with it: hidden, with a first search.
OpenPanel ==
  /\ ~cbPast.open
  /\ cbReqs' = <<Loading, Searching("")>>
  /\ cbPast' = [cbPast EXCEPT !.open = TRUE]
  /\ UNCHANGED <<cbServer, cbStore, cbPanel, cbDialog, cbNews, cbUndo>>

\* The user goes to another channel: the boards are loaded anew and the panel
\* leaves the cards of a board.
SetChannel ==
  /\ cbPast.open
  /\ \E c \in CbChannels \ {cbPanel.channel} :
       cbPanel' = [cbPanel EXCEPT !.channel = c, !.selected = NoBoard]
  /\ Click(<<Loading>>)
  /\ UNCHANGED <<cbServer, cbStore, cbDialog, cbNews, cbUndo>>

ChannelBoards ==
  IF cbPanel.loaded /\ cbPanel.selected = NoBoard
  THEN {b \in DOMAIN cbStore : cbStore[b].channel = cbPanel.channel} ELSE {}

ClickBoard ==
  \E b \in ChannelBoards :
    /\ cbPanel' = [cbPanel EXCEPT !.selected = b]
    /\ Click(<<Asking("cards", b)>>)
    /\ UNCHANGED <<cbServer, cbStore, cbDialog, cbNews, cbUndo>>

\* What the panel shows of the board: its cards, or that there are none, or
\* that they are being loaded, which it takes an empty store for.
PanelShows ==
  IF cbPanel.cards = NoBoard THEN "loading"
  ELSE IF cbPanel.cards = cbPanel.selected THEN "cards" ELSE "none"

ShowBoardsList ==
  /\ cbPanel.selected # NoBoard
  /\ cbPanel' = [cbPanel EXCEPT !.selected = NoBoard]
  /\ Click(<<>>)
  /\ UNCHANGED <<cbServer, cbStore, cbDialog, cbNews, cbUndo>>

----------------------------------------------------------------------------
(***************************************************************************)
(* The dialog.                                                              *)
(***************************************************************************)

\* The dialog opens for the channel of the panel and searches for all boards.
SetLinkToChannel ==
  /\ cbDialog.link = "" /\ cbPanel.loaded /\ cbPanel.selected = NoBoard
  /\ cbDialog' = [cbDialog EXCEPT !.link = cbPanel.channel, !.query = ""]
  /\ Click(<<Searching("")>>)
  /\ UNCHANGED <<cbServer, cbStore, cbPanel, cbNews, cbUndo>>

\* A text waits for 200 ms, the empty one is searched for at once; it does not
\* stop the text that waits.
HandleSearchChange ==
  /\ cbDialog.link # "" /\ cbDialog.confirm = <<>>
  /\ \E text \in DOMAIN CbMatches :
       IF text = ""
       THEN /\ cbDialog' = [cbDialog EXCEPT !.query = ""]
            /\ Click(<<Searching("")>>)
       ELSE /\ cbDialog' = [cbDialog EXCEPT !.timer = <<text>>]
            /\ Click(<<>>)
  /\ UNCHANGED <<cbServer, cbStore, cbPanel, cbNews, cbUndo>>

\* The wait is over, though the dialog may be closed by now.
SearchHandler ==
  /\ cbDialog.timer # <<>>
  /\ cbDialog' = [cbDialog EXCEPT !.query = cbDialog.timer[1], !.timer = <<>>]
  /\ Click(<<Searching(cbDialog.timer[1])>>)
  /\ UNCHANGED <<cbServer, cbStore, cbPanel, cbNews, cbUndo>>

\* updateBoard: a copy of a board, and the copy it is to become.  The patch has
\* what differs between them.
LinkPatch(id, old, new, of) == Asking("patch", [id |-> id, old |-> old, new |-> new, of |-> of])

UpdateBoard(id, old, new, of) == Click(<<LinkPatch(id, old, new, of)>>)

\* The button beside a result is "Unlink" if it is linked to the channel.
OffersUnlink(r) == r.channel = cbDialog.link

\* "Link" asks first, "Yes, link board" patches the copy in the results.
LinkBoard ==
  /\ cbDialog.link # ""
  /\ \/ /\ cbDialog.confirm = <<>>
        /\ \E r \in cbDialog.results :
             ~OffersUnlink(r) /\ cbDialog' = [cbDialog EXCEPT !.confirm = <<r>>]
        /\ Click(<<>>)
     \/ /\ cbDialog.confirm # <<>>
        /\ LET old == cbDialog.confirm[1] IN
             UpdateBoard(old.id, old, [old EXCEPT !.channel = cbDialog.link], "dialog")
        /\ UNCHANGED cbDialog
  /\ UNCHANGED <<cbServer, cbStore, cbPanel, cbNews, cbUndo>>

UnlinkBoard ==
  /\ cbDialog.link # "" /\ cbDialog.confirm = <<>>
  /\ \E r \in cbDialog.results :
       OffersUnlink(r) /\ UpdateBoard(r.id, r, [r EXCEPT !.channel = ""], "unlink")
  /\ UNCHANGED <<cbServer, cbStore, cbPanel, cbDialog, cbNews, cbUndo>>

\* The panel's own "Unlink board".
OnUnlinkBoard ==
  /\ \E b \in ChannelBoards : UpdateBoard(b, cbStore[b], [cbStore[b] EXCEPT !.channel = ""], "unlink")
  /\ UNCHANGED <<cbServer, cbStore, cbPanel, cbDialog, cbNews, cbUndo>>

\* Closing forgets the results; a search under way still brings some.
CloseDialog ==
  /\ cbDialog.link # ""
  /\ cbDialog' = [Closed EXCEPT !.timer = cbDialog.timer]
  /\ Click(<<>>)
  /\ UNCHANGED <<cbServer, cbStore, cbPanel, cbNews, cbUndo>>

CancelConfirm ==
  /\ cbDialog.confirm # <<>>
  /\ cbDialog' = [cbDialog EXCEPT !.confirm = <<>>]
  /\ Click(<<>>)
  /\ UNCHANGED <<cbServer, cbStore, cbPanel, cbNews, cbUndo>>

Undo ==
  /\ cbUndo # <<>>
  /\ UpdateBoard(cbUndo[1].id, cbUndo[1].new, cbUndo[1].old, "undo")
  /\ cbUndo' = <<>>
  /\ UNCHANGED <<cbServer, cbStore, cbPanel, cbDialog, cbNews>>

----------------------------------------------------------------------------
(***************************************************************************)
(* The server.                                                              *)
(***************************************************************************)

\* The fields that differ, and the channel's next revision when it is one.
PatchedBy(board, old, new) ==
  [board EXCEPT !.title = IF new.title # old.title THEN new.title ELSE @,
                !.channel = IF new.channel # old.channel THEN new.channel ELSE @,
                !.rev = IF new.channel # old.channel THEN @ + 1 ELSE @]

AnswerTo(r) ==
  CASE r.kind = "boards" -> cbServer
    [] r.kind = "search" -> {cbServer[b] : b \in CbMatches[r.what]}
    [] r.kind = "cards"  -> r.what
    [] r.kind = "patch"  -> PatchedBy(cbServer[r.what.id], r.what.old, r.what.new)

\* A request is taken, in any order, or it fails: a list is empty then, and a
\* patch throws.
ServeRequest ==
  /\ \E i \in DOMAIN cbReqs :
       LET r == cbReqs[i] IN
       /\ r.status = "sent"
       /\ \/ /\ cbReqs' = [cbReqs EXCEPT ![i].status = "ok", ![i].answer = AnswerTo(r)]
             /\ IF r.kind = "patch"
                THEN /\ cbServer' = [cbServer EXCEPT ![r.what.id] = AnswerTo(r)]
                     /\ cbNews' = Append(cbNews, AnswerTo(r))
                ELSE UNCHANGED <<cbServer, cbNews>>
             /\ UNCHANGED cbPast
          \/ /\ cbPast.others < CbMaxOthers
             /\ cbReqs' = [cbReqs EXCEPT ![i].status = "failed"]
             /\ cbPast' = [cbPast EXCEPT !.failed = TRUE, !.others = @ + 1]
             /\ UNCHANGED <<cbServer, cbNews>>
  /\ UNCHANGED <<cbStore, cbPanel, cbDialog, cbUndo>>

\* Somebody else renames a board or links it.
OtherLinks ==
  /\ cbPast.open /\ cbPast.others < CbMaxOthers
  /\ \E b \in CbBoards :
       LET old == cbServer[b] IN
       \E new \in {[old EXCEPT !.title = @ + 1]}
                    \cup {[old EXCEPT !.channel = c, !.rev = @ + 1] : c \in (CbChannels \cup {""}) \ {old.channel}} :
         /\ cbServer' = [cbServer EXCEPT ![b] = new]
         /\ cbNews' = Append(cbNews, new)
         /\ cbPast' = [cbPast EXCEPT !.others = @ + 1, !.titles[b] = new.title]
  /\ UNCHANGED <<cbStore, cbPanel, cbDialog, cbReqs, cbUndo>>

----------------------------------------------------------------------------
(***************************************************************************)
(* Answers and news.                                                        *)
(***************************************************************************)

\* The history notes an older copy that takes the place of a newer one.
Older(new, old) == \E b \in DOMAIN new \cap DOMAIN old : new[b].rev < old[b].rev
OlderResult(new, board) == \E r \in new : r.id = board.id /\ r.rev < board.rev

\* An answer that comes after that of a later request of its kind.
Late(i) == \E j \in DOMAIN cbReqs : j < i /\ cbReqs[j].kind = cbReqs[i].kind

ArriveBoards(r) ==
  /\ cbStore' = r.answer
  /\ cbPanel' = [cbPanel EXCEPT !.loaded = TRUE]
  /\ UNCHANGED <<cbDialog, cbUndo>>

ArriveSearch(r) ==
  /\ cbDialog' = [cbDialog EXCEPT !.results = IF r.status = "ok" THEN r.answer ELSE {}]
  /\ UNCHANGED <<cbStore, cbPanel, cbUndo>>

\* loadBoardData puts the cards of its board in the place of all others.
ArriveCards(r) ==
  /\ cbPanel' = [cbPanel EXCEPT !.cards = IF r.status = "ok" THEN r.answer ELSE NoBoard]
  /\ UNCHANGED <<cbStore, cbDialog, cbUndo>>

\* A copy of a board takes the place of the one in the store.
PutBoard(board) ==
  [b \in DOMAIN cbStore \cup {board.id} |-> IF b = board.id THEN board ELSE cbStore[b]]

\* The copy that was patched goes into the store, and the dialog closes.
ArrivePatch(r) ==
  /\ IF r.status = "ok"
     THEN /\ cbStore' = PutBoard([r.what.new EXCEPT !.rev = r.answer.rev])
          /\ cbDialog' = IF r.what.of = "dialog" THEN [Closed EXCEPT !.timer = cbDialog.timer] ELSE cbDialog
          /\ cbUndo' = IF r.what.of = "undo" THEN cbUndo ELSE <<r.what>>
     ELSE UNCHANGED <<cbStore, cbDialog, cbUndo>>
  /\ UNCHANGED cbPanel

ArriveAnswer ==
  /\ \E i \in DOMAIN cbReqs :
       LET r == cbReqs[i] IN
       /\ r.status # "sent"
       /\ cbReqs' = RemoveAt(cbReqs, i)
       /\ CASE r.kind = "boards" -> ArriveBoards(r)
            [] r.kind = "search" -> ArriveSearch(r)
            [] r.kind = "cards"  -> ArriveCards(r)
            [] r.kind = "patch"  -> ArrivePatch(r)
       /\ cbPast' = [cbPast EXCEPT !.swapped = @ \/ Late(i),
                       !.overtaken = @ \/ Older(cbStore', cbStore)]
  /\ UNCHANGED <<cbServer, cbNews>>

OnChangeOfResults ==   \* the dialog's handler alone
  /\ cbNews # <<>> /\ cbNews' = Tail(cbNews)
  /\ cbDialog' = [cbDialog EXCEPT !.results = {IF r.id = Head(cbNews).id THEN Head(cbNews) ELSE r : r \in @}]
  /\ UNCHANGED <<cbServer, cbStore, cbPanel, cbReqs, cbUndo, cbPast>>

\* The news of a board goes into the store and into the results that have it.
OnChangeBoardHandler ==
  /\ cbNews # <<>>
  /\ LET board == Head(cbNews) IN
       /\ cbStore' = PutBoard(board)
       /\ cbDialog' = [cbDialog EXCEPT !.results =
            {IF r.id = board.id THEN board ELSE r : r \in @}]
       /\ cbPast' = [cbPast EXCEPT
            !.overtaken = @ \/ \E i \in DOMAIN cbReqs :
              cbReqs[i].kind = "search" /\ cbReqs[i].status = "ok" /\ OlderResult(cbReqs[i].answer, board)]
  /\ cbNews' = Tail(cbNews)
  /\ UNCHANGED <<cbServer, cbPanel, cbReqs, cbUndo>>

\* The boards are linked to the channel that the user is in at first.
FirstChannel == CHOOSE c \in CbChannels : TRUE

CbInit ==
  /\ cbServer = [b \in CbBoards |-> [id |-> b, title |-> 0, channel |-> FirstChannel, rev |-> 0]]
  /\ cbStore = [b \in {} |-> <<>>]
  /\ cbPanel = [channel |-> FirstChannel, loaded |-> FALSE, selected |-> NoBoard, cards |-> NoBoard]
  /\ cbDialog = Closed /\ cbReqs = <<>> /\ cbNews = <<>> /\ cbUndo = <<>>
  /\ cbPast = [open |-> FALSE, races |-> 0, clicks |-> 0, others |-> 0, failed |-> FALSE,
               swapped |-> FALSE, overtaken |-> FALSE, titles |-> [b \in CbBoards |-> 0]]

CbNext ==
  \/ OpenPanel \/ SetChannel \/ ClickBoard \/ ShowBoardsList
  \/ SetLinkToChannel \/ HandleSearchChange \/ SearchHandler
  \/ LinkBoard \/ UnlinkBoard \/ OnUnlinkBoard \/ CloseDialog \/ CancelConfirm \/ Undo
  \/ ServeRequest \/ OtherLinks \/ ArriveAnswer \/ OnChangeBoardHandler

CbSpec == CbInit /\ [][CbNext]_cbVars

----------------------------------------------------------------------------
(***************************************************************************)
(* Properties.                                                              *)
(***************************************************************************)

CbTypeOK ==
  /\ DOMAIN cbServer = CbBoards /\ DOMAIN cbStore \subseteq CbBoards
  /\ \A b \in CbBoards : cbServer[b].channel \in CbChannels \cup {""}
  /\ cbPanel.channel \in CbChannels /\ cbPanel.selected \in CbBoards \cup {NoBoard}
  /\ cbDialog.link \in CbChannels \cup {""} /\ cbDialog.query \in DOMAIN CbMatches

CbSettled == cbReqs = <<>> /\ cbNews = <<>> /\ ~cbPast.failed /\ ~cbPast.overtaken

\* Once all is answered the panel lists the boards that are linked to its
\* channel at the server, whoever linked them and from where, unless an answer
\* was overtaken by news.
PanelListsLinked ==
  CbSettled /\ cbPast.open =>
    \A b \in CbBoards : b \in DOMAIN cbStore /\ cbStore[b].channel = cbServer[b].channel

\* The results are those of the text that was searched for last, and offer to
\* link exactly what is not linked.
ResultsAreFor ==
  CbSettled /\ ~cbPast.swapped /\ cbDialog.link # "" =>
    /\ {r.id : r \in cbDialog.results} = CbMatches[cbDialog.query]
    /\ \A r \in cbDialog.results : r.channel = cbServer[r.id].channel

\* Linking from an old copy of a board, and undoing it, undoes nothing that
\* somebody else has done to the board.
LinkKeepsOthers == \A b \in CbBoards : cbServer[b].title = cbPast.titles[b]

\* The panel shows the cards of its board, which has some, once its request is
\* answered.
CardsOfSelected ==
  cbReqs = <<>> /\ ~cbPast.failed /\ ~cbPast.swapped /\ cbPanel.selected # NoBoard => PanelShows = "cards"
=============================================================================
