----------------------------- MODULE Navigation -----------------------------
(***************************************************************************)
(* From a click to a board on the screen: the router and its redirects, the *)
(* effects of BoardPage, the requests they send, whose answers arrive in    *)
(* any order, the last board and view that localStorage remembers, and the  *)
(* menu of views, which adds views and shows them once they should be there *)
(* (webapp/src/router.tsx, pages/boardPage, components/workspace.tsx,       *)
(* components/viewMenu.tsx, userSettings.ts, the boards and views slices).  *)
(*                                                                          *)
(* React runs the effects of a render before anything else can happen, so   *)
(* every other action waits for them (Rendered).                            *)
(***************************************************************************)
EXTENDS Naturals, Sequences, SequencesExt, FiniteSets

CONSTANTS
  NaBoards,     \* the boards of the team, all in one category, in this order
  NaViews,      \* NaViews[b]: how many views b has, in the order of their titles
  NaMaxClicks,  \* bound: clicks, reloads and steps back
  NaMaxFaults   \* bound: changes by other users and failed requests

ASSUME NaAssumption ==
  /\ NaBoards \in Seq(STRING) /\ NaViews \in [Range(NaBoards) -> Nat \ {0}]
  /\ NaMaxClicks \in Nat /\ NaMaxFaults \in Nat

VARIABLES
  naHistory,  \* the URLs of the browser's history; the last one is open
  naSettings, \* localStorage: [board, views]
  naStore,    \* the boards, views, sidebar and globalError slices; last: what can be undone
  naDialog,   \* showJoinBoardDialog
  naPage,     \* the URL for which the effects of BoardPage ran last; NoPage
  naRan,      \* what the redirect's effect saw when it last ran
  naAsked,    \* requests, events and timers under way
  naServer,   \* [boards: those I may open, mine: those I am a member of, views]
  naMay,      \* the user administers the team; "" before the tab opens
  naLeft,     \* what is left of each bound
  naOvertaken \* history: the answer for another board came last, a request failed, others made a change,
              \* or a board lost its last view

naVars == <<naHistory, naSettings, naStore, naDialog, naPage, naRan, naAsked, naServer, naMay, naLeft,
            naOvertaken>>

----------------------------------------------------------------------------
(***************************************************************************)
(* URLs, settings, store.                                                   *)
(***************************************************************************)
None == ""
AllBoards == Range(NaBoards)
NoView == <<None, 0>>
View(b, n) == <<b, n>>
ViewsOn(views, b) == {v \in views : v[1] = b}
First(views) == CHOOSE v \in views : \A w \in views : v[2] <= w[2]

Home == [page |-> "home", board |-> None, view |-> NoView]
Team(b, v) == [page |-> "team", board |-> b, view |-> v]
ErrorUrl == [page |-> "error", board |-> None, view |-> NoView]
Url == Last(naHistory)
Pushed(u) == IF u = Url THEN naHistory ELSE Append(naHistory, u)
Replaced(u) == Append(Front(naHistory), u)

NoCommand == [view |-> NoView]

EmptyStore ==
  [board |-> None, view |-> NoView, boards |-> {}, mine |-> {}, views |-> {},
   cats |-> FALSE, loading |-> FALSE, last |-> NoCommand]

\* getCurrentBoardViews
CurrentViews == ViewsOn(naStore.views, naStore.board)

\* The dependencies of the effect of TeamToBoardAndViewRedirect.
Seen ==
  [board |-> Url.board, view |-> Url.view, cats |-> naStore.cats,
   views |-> Cardinality(CurrentViews), current |-> naStore.board]

NeverRan == [board |-> "?", view |-> NoView, cats |-> FALSE, views |-> 0, current |-> None]
NoPage == Home

\* The error page keeps nothing of the board page; the dialog keeps it, but
\* not the component that redirects.
Unmounts ==
  LET gone == Last(naHistory').page # "team" IN
  /\ naPage' = IF gone THEN NoPage ELSE naPage
  /\ naRan' = IF gone \/ naDialog' THEN NeverRan ELSE naRan

\* Effects that are due: first those of the component that redirects, which
\* is the inner one.
RedirectDue == naMay # None /\ Url.page = "team" /\ ~naDialog /\ naRan # Seen
PageDue == naMay # None /\ Url.page = "team" /\ ~RedirectDue /\ naPage # Url
Rendered == naMay # None /\ ~RedirectDue /\ ~PageDue /\ Url.page # "home"

(***************************************************************************)
(* What CenterContent and Workspace show.                                   *)
(***************************************************************************)
Screen ==
  CASE naDialog -> <<"dialog">>
    [] Url.page # "team" -> <<Url.page>>
    [] OTHER ->
         IF naStore.board \in naStore.boards
           THEN IF naStore.view \in naStore.views THEN <<"board", naStore.board, naStore.view>> ELSE <<"blank">>
           ELSE IF naStore.loading THEN <<"blank">> ELSE <<"selector">>

----------------------------------------------------------------------------
(***************************************************************************)
(* The effects of BoardPage for what changed in the URL; all of them if the *)
(* page was not there before.                                               *)
(***************************************************************************)
Request(kind, b) == [kind |-> kind, board |-> b]
DataRequest(b) == Request("data", b)

\* The view is only set if the URL has one.
OpenedKeeping(store, u) ==
  IF u.board = None THEN store
  ELSE [store EXCEPT !.board = u.board, !.view = IF u.view = NoView THEN @ ELSE u.view]

\* The effect with initialLoad: it sets the current board and view, even to
\* none, and remembers the view.
Opened(store, u) ==
  IF u.board = None THEN store
  ELSE [store EXCEPT !.board = u.board, !.view = u.view]

\* initialLoad and loadOrJoinBoard.  An initialLoad that is under way already
\* brings what a second one would.
AsksAt(u, mounted, changed) ==
  naAsked
    \o SelectSeq(<<Request("init", None)>>, LAMBDA r : r \notin Range(naAsked))
    \o (IF mounted THEN <<Request("cats", None)>> ELSE <<>>)
    \o (IF changed THEN <<DataRequest(u.board)>> ELSE <<>>)

PageEffects ==
  LET u == Url
      mounted == naPage = NoPage
      changed == u.board # None /\ (mounted \/ u.board # naPage.board)
  IN
  /\ PageDue
  /\ naPage' = u
  /\ naStore' = [Opened(naStore, u) EXCEPT !.loading = @ \/ changed]
  /\ naSettings' = IF u.board = None \/ u.view = NoView THEN naSettings
                   ELSE [naSettings EXCEPT !.views[u.board] = u.view]
  /\ naAsked' = AsksAt(u, mounted, changed)
  /\ UNCHANGED <<naHistory, naDialog, naRan, naServer, naMay, naLeft, naOvertaken>>

Clicked ==
  /\ naLeft.clicks > 0
  /\ naLeft' = [naLeft EXCEPT !.clicks = @ - 1]

----------------------------------------------------------------------------
(***************************************************************************)
(* Actions: the user.                                                       *)
(***************************************************************************)
\* The tab opens at the home page or at a bookmark of a board.  The plugin
\* may have loaded the boards already for the channel's sidebar.
Enter(admin, home, warm, last) ==
  /\ naMay' = admin
  /\ naHistory' = <<IF home THEN Home ELSE Team(NaBoards[1], NoView)>>
  /\ naSettings' = [naSettings EXCEPT !.board = last]
  /\ naStore' = IF warm THEN [naStore EXCEPT !.boards = naServer.boards, !.mine = naServer.mine] ELSE naStore
  /\ UNCHANGED <<naDialog, naRan, naPage, naAsked, naServer, naLeft, naOvertaken>>

\* A click that goes to a URL.
GoesTo(history) ==
  /\ Clicked
  /\ naHistory' = history
  /\ Unmounts
  /\ UNCHANGED <<naSettings, naStore, naAsked, naServer, naMay, naOvertaken>>

\* Utils.showBoard: of the same board, the open view stays.
GoToBoard(b) ==
  /\ Url.page = "team" /\ ~naDialog /\ UNCHANGED naDialog
  /\ b \in naStore.boards \cap naStore.mine
  /\ GoesTo(Pushed(IF b = Url.board THEN Url ELSE Team(b, NoView)))

\* showView of the sidebar and of the menu of views.
ShowView(v) ==
  /\ Url.page = "team" /\ ~naDialog /\ UNCHANGED naDialog
  /\ v \in CurrentViews /\ naStore.board \in naStore.boards
  /\ GoesTo(Pushed(Team(v[1], v)))

\* The browser's back button, and onClose of the dialog, which calls it.
GoBack ==
  /\ Len(naHistory) > 1
  /\ naDialog' = FALSE
  /\ GoesTo(Front(naHistory))

\* ErrorPage: the button of board-not-found goes to '/'.
LeaveError ==
  /\ Url.page = "error" /\ UNCHANGED naDialog
  /\ GoesTo(Append(naHistory, Home))

\* The tab is loaded again: only the settings are kept.
ReloadTab ==
  /\ Url.page = "team" /\ Clicked
  /\ naStore' = EmptyStore
  /\ naAsked' = <<>>
  /\ naDialog' = FALSE
  /\ naRan' = NeverRan /\ naPage' = NoPage
  /\ UNCHANGED <<naHistory, naSettings, naServer, naMay, naOvertaken>>

----------------------------------------------------------------------------
(***************************************************************************)
(* Actions: the menu of views, and the undo of its last command, a record   *)
(* [add, the view it adds or deletes, the view shown before it].            *)
(***************************************************************************)
ViewRequest(kind, command) == [kind |-> kind, board |-> command.view[1], command |-> command]
ViewRequests == {"add", "delete", "unadd", "undelete"}

\* A click or a key: the request is sent, and the page goes on to history.
AsksView(kind, command, history) ==
  /\ Clicked
  /\ naAsked' = Append(naAsked, ViewRequest(kind, command))
  /\ naHistory' = history
  /\ UNCHANGED <<naSettings, naDialog, naRan, naPage, naServer, naMay, naOvertaken>>

ToView(b, v) == Append(naHistory, Team(b, v))

\* handleDuplicateView and handleAddViewBoard, -Table, -Gallery and -Calendar:
\* nothing is shown before the answer.
AddView ==
  LET v == View(naStore.board, NaViews[naStore.board] + naLeft.clicks) IN
  /\ Screen[1] = "board" /\ UNCHANGED naStore
  /\ AsksView("add", [add |-> TRUE, view |-> v, before |-> naStore.view], naHistory)

\* handleDeleteView: the next view is shown at once.
DeleteView ==
  LET v == naStore.view
      next == First(CurrentViews \ {v})
  IN
  /\ Screen[1] = "board" /\ Cardinality(CurrentViews) > 1 /\ UNCHANGED naStore
  /\ AsksView("delete", [add |-> FALSE, view |-> v, before |-> v], ToView(Url.board, next))

\* The key of undo, on any board page.  The undo of an added view first goes
\* back to the view that was open before.
UndoView ==
  LET last == naStore.last IN
  /\ Url.page = "team" /\ last # NoCommand
  /\ naStore' = [naStore EXCEPT !.last = NoCommand]
  /\ AsksView(IF last.add THEN "unadd" ELSE "undelete", last, IF last.add THEN ToView(last.view[1], last.before) ELSE naHistory)

----------------------------------------------------------------------------
(***************************************************************************)
(* Actions: redirects.                                                      *)
(***************************************************************************)
\* HomeToCurrentTeam: the last board if it is one of mine, else the first
\* board of the sidebar, else the team.
HomeRedirect ==
  LET last == naSettings.board
      valid == naStore.boards \cap naStore.mine
      visible == IF naStore.cats THEN SelectSeq(NaBoards, LAMBDA b : b \in valid) ELSE <<>>
      board == IF last = None \/ last \in valid THEN last
               ELSE IF visible # <<>> THEN visible[1] ELSE None
      view == IF board # None /\ board = last THEN naSettings.views[board] ELSE NoView
  IN
  /\ naMay # None /\ Url.page = "home"
  /\ naHistory' = Replaced(Team(board, view))
  /\ naSettings' = [naSettings EXCEPT !.board = board]
  /\ UNCHANGED <<naDialog, naStore, naRan, naPage, naAsked, naServer, naMay, naLeft, naOvertaken>>

\* The views are those of the board of the URL.
ViewsAreHere == naStore.board # None /\ naStore.board = Url.board /\ CurrentViews # {}

\* TeamToBoardAndViewRedirect: the last board of the team, else the first one
\* of the last category that has one; the last view of the board, else its
\* first.
TeamRedirect ==
  LET fallback == IF naStore.cats THEN SelectSeq(NaBoards, LAMBDA b : b \in naStore.boards) ELSE <<>>
      board == IF naSettings.board # None THEN naSettings.board
               ELSE IF fallback # <<>> THEN fallback[1] ELSE None
      last == naSettings.views[Url.board]
      view == IF last # NoView THEN last ELSE First(CurrentViews)
  IN
  /\ RedirectDue
  /\ naRan' = Seen
  /\ CASE Url.board = None /\ board # None ->
            naHistory' = Replaced(Team(board, NoView)) /\ UNCHANGED <<naStore, naSettings>>
       [] Url.board # None /\ Url.view = NoView /\ ViewsAreHere ->
            /\ naHistory' = Replaced(Team(Url.board, view))
            /\ naStore' = [naStore EXCEPT !.view = view]
            /\ naSettings' = [naSettings EXCEPT !.views[Url.board] = view]
       [] OTHER -> UNCHANGED <<naHistory, naStore, naSettings>>
  /\ UNCHANGED <<naDialog, naPage, naAsked, naServer, naMay, naLeft, naOvertaken>>

----------------------------------------------------------------------------
(***************************************************************************)
(* Actions: answers.                                                        *)
(***************************************************************************)
NaAnswered(i, more) == RemoveAt(naAsked, i) \o more

\* initialLoad and fetchSidebarCategories.
InitAnswer(i) ==
  /\ naAsked[i].kind \in {"init", "cats"}
  /\ naStore' = IF naAsked[i].kind = "cats" THEN [naStore EXCEPT !.cats = TRUE]
                ELSE [naStore EXCEPT !.boards = naServer.boards, !.mine = naServer.mine]
  /\ naAsked' = NaAnswered(i, <<>>)
  /\ UNCHANGED <<naHistory, naSettings, naDialog, naOvertaken>>

\* initialLoad.rejected: the global error opens the error page in place of
\* this one.
InitFails(i) ==
  /\ naAsked[i].kind = "init"
  /\ naHistory' = Replaced(ErrorUrl)
  /\ naDialog' = FALSE
  /\ naAsked' = NaAnswered(i, <<>>)
  /\ naOvertaken' = TRUE
  /\ UNCHANGED <<naStore, naSettings>>

\* setLastBoardID
Remembered(settings, b) == [settings EXCEPT !.board = b]

Loaded(store, views) == [store EXCEPT !.views = views, !.loading = FALSE]

\* loadOrJoinBoard: without blocks, the board has to be joined first; with
\* some it is the last board.  joinBoard then loads the data again.  Views of
\* another board replace those of the open one.
DataAnswer(i, ok) ==
  LET r == naAsked[i]
      views == IF ok /\ r.board \in naServer.mine THEN ViewsOn(naServer.views, r.board) ELSE {}
  IN
  /\ r.kind \in {"data", "joined"}
  /\ naStore' = Loaded(naStore, views)
  /\ naSettings' = IF views = {} THEN naSettings ELSE Remembered(naSettings, r.board)
  /\ naAsked' = NaAnswered(i, IF views = {} /\ r.kind = "data" THEN <<Request("join", r.board)>> ELSE <<>>)
  /\ naOvertaken' = (naOvertaken \/ ~ok \/ (r.board # Url.board /\ DataRequest(Url.board) \notin Range(naAsked)))
  /\ UNCHANGED <<naHistory, naDialog>>

\* loadBoardData.rejected: the page fails on the missing answer and does nothing more.
DataRejected(i) ==
  /\ naAsked[i].kind \in {"data", "joined"}
  /\ naStore' = [naStore EXCEPT !.loading = FALSE]
  /\ naAsked' = NaAnswered(i, <<>>)
  /\ naOvertaken' = TRUE
  /\ UNCHANGED <<naHistory, naSettings, naDialog>>

\* joinBoard.  An administrator is asked; anybody else gets the error page,
\* whatever page is open by then.
JoinAnswer(i) ==
  LET r == naAsked[i] IN
  /\ r.kind = "join"
  /\ IF r.board \in naServer.boards
       THEN /\ naServer' = [naServer EXCEPT !.mine = @ \union {r.board}]
            /\ naAsked' = NaAnswered(i, <<Request("joined", r.board)>>)
            /\ naStore' = [naStore EXCEPT !.loading = TRUE, !.mine = @ \union {r.board}]
            /\ UNCHANGED <<naHistory, naSettings, naDialog>>
       ELSE /\ naAsked' = NaAnswered(i, <<>>)
            /\ UNCHANGED <<naServer, naStore>>
            /\ IF naMay = "admin"
                 THEN /\ naDialog' = (Url.page = "team")
                      /\ UNCHANGED <<naHistory, naSettings>>
                 ELSE /\ naSettings' = [naSettings EXCEPT !.board = None, !.views[r.board] = NoView]
                      /\ naHistory' = Replaced(ErrorUrl)
                      /\ naDialog' = FALSE

\* The server carries out the request of a command, if it does not refuse it;
\* the event, and the timer that shows an added view, come after the answer.
\* The answer to a refused insertion has no block to show, or to undo.
ViewAnswer(i, ok) ==
  LET r == naAsked[i]
      v == r.command.view
      adds == r.kind \in {"add", "undelete"}
      done == ok /\ r.board \in naServer.mine /\ adds # (v \in naServer.views)
      event == [kind |-> "event", board |-> r.board, view |-> v, there |-> adds]
      timer == [kind |-> "timer", board |-> r.board, view |-> v]
  IN
  /\ r.kind \in ViewRequests
  /\ naServer' = IF ~done THEN naServer
                 ELSE [naServer EXCEPT !.views = IF adds THEN @ \union {v} ELSE @ \ {v}]
  /\ naAsked' = NaAnswered(i, IF ~done THEN <<>> ELSE IF r.kind = "add" THEN <<event, timer>> ELSE <<event>>)
  /\ naStore' = [naStore EXCEPT !.last = IF r.kind = "delete" \/ (r.kind = "add" /\ done) THEN r.command ELSE NoCommand]
  /\ naOvertaken' = (naOvertaken \/ (done /\ ViewsOn(naServer'.views, r.board) = {}))
  /\ UNCHANGED <<naHistory, naSettings, naDialog>>

\* updateViews, in the order of the events; nobody listens on the error page.
ViewEvent(i) ==
  LET r == naAsked[i]
      views == IF r.there THEN naStore.views \union {r.view} ELSE naStore.views \ {r.view}
  IN
  /\ r.kind = "event" /\ \A j \in 1..(i - 1) : naAsked[j].kind # "event"
  /\ naStore' = IF Url.page = "team" THEN [naStore EXCEPT !.views = views] ELSE naStore
  /\ naAsked' = NaAnswered(i, <<>>)
  /\ UNCHANGED <<naHistory, naSettings, naDialog, naOvertaken>>

\* showView 120 ms later, whatever page is open by then.
ViewTimer(i) ==
  /\ naAsked[i].kind = "timer"
  /\ naHistory' = ToView(naAsked[i].board, naAsked[i].view)
  /\ naAsked' = NaAnswered(i, <<>>)
  /\ UNCHANGED <<naStore, naSettings, naDialog, naOvertaken>>

Answers ==
  /\ \E i \in DOMAIN naAsked :
       \/ InitAnswer(i) /\ UNCHANGED <<naServer, naLeft>>
       \/ DataAnswer(i, TRUE) /\ UNCHANGED <<naServer, naLeft>>
       \/ ViewEvent(i) /\ UNCHANGED <<naServer, naLeft>>
       \/ ViewTimer(i) /\ UNCHANGED <<naServer, naLeft>>
       \/ ViewAnswer(i, TRUE) /\ UNCHANGED naLeft
       \/ /\ naLeft.faults > 0
          /\ naLeft' = [naLeft EXCEPT !.faults = @ - 1]
          /\ \/ (InitFails(i) \/ DataAnswer(i, FALSE) \/ DataRejected(i)) /\ UNCHANGED naServer
             \/ ViewAnswer(i, FALSE)
       \/ JoinAnswer(i) /\ UNCHANGED <<naLeft, naOvertaken>>
  /\ Unmounts
  /\ UNCHANGED <<naMay>>

\* onConfirmJoin: the dialog closes without waiting for the answer.
ConfirmJoin ==
  /\ naDialog /\ Clicked
  /\ naAsked' = Append(naAsked, Request("join", Url.board))
  /\ naDialog' = FALSE
  /\ UNCHANGED <<naHistory, naSettings, naStore, naRan, naPage, naServer, naMay, naOvertaken>>

----------------------------------------------------------------------------
(***************************************************************************)
(* Actions: other users, with the events the page gets at once.             *)
(***************************************************************************)
NaOthers ==
  /\ naLeft.faults > 0
  /\ naLeft' = [naLeft EXCEPT !.faults = @ - 1]
  /\ naOvertaken' = TRUE
  /\ UNCHANGED <<naHistory, naSettings, naDialog, naRan, naPage, naAsked, naMay>>

\* updateBoards drops the board.
OtherDeletesBoard(b) ==
  /\ NaOthers /\ b \in naServer.boards
  /\ naServer' = [naServer EXCEPT !.boards = @ \ {b}, !.mine = @ \ {b}, !.views = @ \ ViewsOn(@, b)]
  /\ naStore' = [naStore EXCEPT !.boards = @ \ {b}]

\* updateViews drops the view; the menu keeps the last view of a board.
OtherDeletesView(v) ==
  /\ NaOthers /\ v \in naServer.views /\ Cardinality(ViewsOn(naServer.views, v[1])) > 1
  /\ naServer' = [naServer EXCEPT !.views = @ \ {v}]
  /\ naStore' = [naStore EXCEPT !.views = @ \ {v}]

\* addMyBoardMemberships; the board stays in the store.
OtherRemovesMe(b) ==
  /\ NaOthers /\ b \in naServer.mine
  /\ naServer' = [naServer EXCEPT !.mine = @ \ {b}]
  /\ naStore' = [naStore EXCEPT !.mine = @ \ {b}]

----------------------------------------------------------------------------
NaInit ==
  /\ naHistory = <<Home>>
  /\ naSettings = [board |-> None, views |-> [b \in AllBoards \union {None} |-> NoView]]
  /\ naStore = EmptyStore
  /\ naDialog = FALSE /\ naRan = NeverRan /\ naPage = NoPage /\ naAsked = <<>>
  /\ naServer = [boards |-> AllBoards, mine |-> AllBoards,
                 views |-> UNION {{View(b, n) : n \in 1..NaViews[b]} : b \in AllBoards}]
  /\ naMay = None
  /\ naLeft = [clicks |-> NaMaxClicks, faults |-> NaMaxFaults]
  /\ naOvertaken = FALSE

NaNext ==
  \/ /\ naMay = None
     /\ \E admin \in {"admin", "member"}, home, warm \in BOOLEAN, last \in {None, NaBoards[1]} :
          Enter(admin, home, warm, last)
  \/ HomeRedirect \/ TeamRedirect \/ PageEffects
  \/ /\ Rendered
     /\ \/ \E b \in AllBoards : GoToBoard(b) \/ OtherDeletesBoard(b) \/ OtherRemovesMe(b)
        \/ \E v \in naServer.views \union naStore.views : ShowView(v) \/ OtherDeletesView(v)
        \/ GoBack \/ LeaveError \/ ReloadTab \/ ConfirmJoin \/ Answers
        \/ AddView \/ DeleteView \/ UndoView

NaSpec == NaInit /\ [][NaNext]_naVars

----------------------------------------------------------------------------
(***************************************************************************)
(* Properties.                                                              *)
(***************************************************************************)
NaTypeOK ==
  /\ naStore.boards \subseteq AllBoards /\ naServer.mine \subseteq naServer.boards
  /\ naServer.boards \subseteq AllBoards /\ naStore.board \in AllBoards \union {None}
  /\ \A i \in DOMAIN naAsked : naAsked[i].board \in AllBoards \union {None}
  /\ naHistory # <<>>

Quiet == Rendered /\ naAsked = <<>> /\ ~naDialog /\ Url.page = "team"

\* Once everything has been answered, the page shows the board and the view
\* of its URL: no click, step back, reload, redirect, added, deleted or undone
\* view, in any order with the answers, the events and the timers, leaves an
\* empty page or another board's view behind.  Excepted are an answer that was
\* overtaken, a failure, other users' deletions, a board all of whose views were
\* deleted (the menu counts those of the store, which the event of a deletion
\* updates), and a URL of a view that was deleted since.
PageSettles ==
  Quiet /\ ~naOvertaken /\ Url.board # None /\ Url.view \in naServer.views \union {NoView} =>
    Screen = <<"board", Url.board, Url.view>>

\* The board that '/' goes back to is the one on the screen, once everything
\* has been answered.
LastBoardRemembered ==
  Quiet /\ ~naOvertaken /\ Screen[1] = "board" => naSettings.board = Screen[2]

\* The page never shows one board with a view of another.
ViewOfBoard == Screen[1] = "board" => Screen[3][1] = Screen[2]
=============================================================================
