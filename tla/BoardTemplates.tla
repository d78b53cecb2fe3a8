--------------------------- MODULE BoardTemplates ---------------------------
(***************************************************************************)
(* Boards made from templates: the selector with its preview, the question  *)
(* in Mattermost's "new channel" dialog, and the undo history of both.  To  *)
(* make a board and to link it to its channel are two commands, and between *)
(* them the user goes on.                                                   *)
(*                                                                          *)
(* A request of such a chain and its answer are one step here; the requests *)
(* of the preview are answered in any order.  The interleavings of a running *)
(* undo are in UndoManager.tla; what others do, new templates and the ways  *)
(* between the boards are left out.                                         *)
(***************************************************************************)
EXTENDS Integers, Sequences, SequencesExt

\* Instead of a template: a board without one, or a box that was not ticked.
Empty == "empty"
NotAsked == "none"

CONSTANTS
  BtGlobal,     \* the global templates, in the order of their titles
  BtTeam,       \* the team's own, in the order in which they were made
  BtChannels,   \* channels that exist
  BtNew,        \* the channels that the dialog makes, in their order, up to a bound
  BtMaxBoards,  \* bound: the boards that are made
  BtMaxClicks,  \* bound: what the user does
  BtMaxFaults   \* bound: the requests that fail

ASSUME BtAssumption ==
  /\ BtGlobal \in Seq(ToSet(BtGlobal)) /\ BtTeam \in Seq(ToSet(BtTeam)) /\ BtNew \in Seq(ToSet(BtNew))
  /\ {"", Empty, NotAsked} \cap (ToSet(BtGlobal) \cup ToSet(BtTeam)) = {}
  /\ IsInjective(BtNew) /\ ToSet(BtNew) \cap (BtChannels \cup {""}) = {} /\ "" \notin BtChannels

VARIABLES
  btBoards,    \* the boards made, in their order: [of, channel, alive]
  btTeam,      \* the team's templates that are not deleted
  btGlobal,    \* the global templates in the store: none until they are fetched
  btSelector,  \* [open, channel, active, preview]
  btReqs,      \* requests for the preview or the global templates
  btPage,      \* the board on the page, or 0: none, or a template
  btTasks,     \* the handlers that wait for an answer
  btUndo,      \* [done, undone, stuck]: the commands
  btModal,     \* the dialog: [open, add, template, mayCreate]
  btPast       \* history and counters

btVars == <<btBoards, btTeam, btGlobal, btSelector, btReqs, btPage, btTasks, btUndo, btModal, btPast>>

AllTemplates == btGlobal \cup btTeam
NoModal == [open |-> FALSE, add |-> FALSE, template |-> "", mayCreate |-> TRUE]

BtClick ==
  /\ btPast.clicks < BtMaxClicks
  /\ btPast' = [btPast EXCEPT !.clicks = @ + 1]

\* A request is refused or lost, up to the bound.
BtMayFail == btPast.faults < BtMaxFaults

----------------------------------------------------------------------------
(***************************************************************************)
(* The selector.                                                            *)
(***************************************************************************)

\* A template becomes the active one: the preview is emptied and its blocks
\* are asked for.  Of the requests before, none is listened to any more.
Unsubscribed(rs) == [i \in DOMAIN rs |-> [rs[i] EXCEPT !.heard = FALSE]]
PreviewOf(t) == [kind |-> "preview", of |-> t, heard |-> TRUE]
SetActiveTemplate(sel, t) == [sel EXCEPT !.active = t, !.preview = ""]

\* The first of some templates, in the order of a list of all.
FirstOf(list, templates) ==
  LET at == {i \in DOMAIN list : list[i] \in templates} IN
  IF at = {} THEN "" ELSE list[Min(at)]

\* The selector and the dialog fetch the global templates when there are none.
FetchGlobal == IF btGlobal = {} THEN <<[kind |-> "global", of |-> "", heard |-> TRUE]>> ELSE <<>>

\* The first of all templates is active.
OpenSelector ==
  /\ ~btSelector.open /\ ~btModal.open
  /\ \E c \in IF btPage = 0 THEN BtChannels \cup {""} ELSE {""} :   \* over a board it is a dialog
       btSelector' = [open |-> TRUE, channel |-> c, active |-> FirstOf(BtGlobal \o BtTeam, AllTemplates), preview |-> ""]
  /\ btReqs' = btReqs \o (IF btSelector'.active = "" THEN <<>> ELSE <<PreviewOf(btSelector'.active)>>) \o FetchGlobal
  /\ BtClick
  /\ UNCHANGED <<btBoards, btTeam, btGlobal, btPage, btTasks, btUndo, btModal>>

Select ==
  /\ btSelector.open
  /\ \E t \in AllTemplates \ {btSelector.active} :
       /\ btSelector' = SetActiveTemplate(btSelector, t)
       /\ btReqs' = Append(Unsubscribed(btReqs), PreviewOf(t))
  /\ BtClick
  /\ UNCHANGED <<btBoards, btTeam, btGlobal, btPage, btTasks, btUndo, btModal>>

\* The dialog can be closed; what is on a page of its own cannot.
CloseSelector ==
  /\ btSelector.open /\ btPage # 0
  /\ btSelector' = [btSelector EXCEPT !.open = FALSE]
  /\ btReqs' = Unsubscribed(btReqs)
  /\ BtClick
  /\ UNCHANGED <<btBoards, btTeam, btGlobal, btPage, btTasks, btUndo, btModal>>

\* Blocks that are refused, as those of a deleted template, read as none.
ArrivePreview ==
  /\ \E i \in DOMAIN btReqs, found \in BOOLEAN :
       LET r == btReqs[i] IN
       /\ r.kind = "preview" /\ btReqs' = RemoveAt(btReqs, i)
       /\ found => r.of \in AllTemplates
       /\ btSelector' = IF r.heard /\ found THEN [btSelector EXCEPT !.preview = r.of] ELSE btSelector
       /\ IF ~found /\ r.of \in AllTemplates
          THEN BtMayFail /\ btPast' = [btPast EXCEPT !.faults = @ + 1] ELSE UNCHANGED btPast
  /\ UNCHANGED <<btBoards, btTeam, btGlobal, btPage, btTasks, btUndo, btModal>>

\* A list that is refused reads as empty.  If no template is active, the first of
\* the team's and then of the others becomes active.
ArriveGlobal ==
  /\ \E i \in DOMAIN btReqs :
       LET rest == RemoveAt(btReqs, i) IN
       /\ btReqs[i].kind = "global"
       /\ \/ btGlobal' = ToSet(BtGlobal) /\ UNCHANGED btPast
          \/ BtMayFail /\ btGlobal' = {} /\ btPast' = [btPast EXCEPT !.faults = @ + 1]
       /\ IF btSelector.open /\ btSelector.active = ""
          THEN /\ btSelector' = SetActiveTemplate(btSelector, FirstOf(BtTeam \o BtGlobal, btTeam \cup btGlobal'))
               /\ btReqs' = IF btSelector'.active = "" THEN rest ELSE Append(rest, PreviewOf(btSelector'.active))
          ELSE btReqs' = rest /\ UNCHANGED btSelector
  /\ UNCHANGED <<btBoards, btTeam, btPage, btTasks, btUndo, btModal>>

----------------------------------------------------------------------------
(***************************************************************************)
(* The handlers: a board is made, then it is linked.                        *)
(***************************************************************************)

\* The page shows a board, and the selector is gone.
ShowMade(id) ==
  /\ btPage' = id
  /\ btSelector' = [btSelector EXCEPT !.open = FALSE]
  /\ btReqs' = Unsubscribed(btReqs)

Task(of, channel, from) ==
  [of |-> of, channel |-> channel, from |-> from, board |-> 0, before |-> btPage]

\* "Use this template" takes the active one, deleted or not; there is always a
\* button for an empty board.
HandleUseTemplate ==
  /\ btSelector.open
  /\ \E of \in {btSelector.active, Empty} \ {""} :
       btTasks' = Append(btTasks, Task(of, btSelector.channel, "selector"))
  /\ BtClick
  /\ UNCHANGED <<btBoards, btTeam, btGlobal, btSelector, btReqs, btPage, btUndo, btModal>>

\* The button on a template shows it on the page.
EditTemplate ==
  /\ btSelector.open /\ btTeam # {}
  /\ ShowMade(0)
  /\ BtClick
  /\ UNCHANGED <<btBoards, btTeam, btGlobal, btTasks, btUndo, btModal>>

Exists(of) == of = Empty \/ of \in ToSet(BtGlobal) \cup btTeam

\* A command is registered unless an undo hangs; what could be redone is gone.
Registered(command) ==
  IF btUndo.stuck THEN btUndo ELSE [btUndo EXCEPT !.done = Append(@, command), !.undone = <<>>]

CreateCommand(task, id) == [kind |-> "create", board |-> id, of |-> task.of, channel |-> "", task |-> task]
LinkCommand(id, channel) == [kind |-> "link", board |-> id, of |-> "", channel |-> channel, task |-> <<>>]

\* The board is made, and the page shows it if the selector asked for it.
Make(i) ==
  LET task == btTasks[i]
      id   == Len(btBoards) + 1 IN
  /\ id <= BtMaxBoards
  /\ btBoards' = Append(btBoards, [of |-> task.of, channel |-> "", alive |-> TRUE])
  /\ btTasks' = [btTasks EXCEPT ![i].board = id]
  /\ btUndo' = Registered(CreateCommand(task, id))
  /\ IF task.from = "selector" THEN ShowMade(id) ELSE UNCHANGED <<btPage, btSelector, btReqs>>
  /\ btPast' = [btPast EXCEPT !.asked = Append(@, task.channel),
                   !.unlisted = IF btUndo.stuck THEN @ \cup {id} ELSE @]

\* The handler ends without a board.
MakeNothing(i) ==
  /\ btTasks' = RemoveAt(btTasks, i)
  /\ btPast' = [btPast EXCEPT !.faults = IF Exists(btTasks[i].of) THEN @ + 1 ELSE @,
                   !.lost = @ \cup {btTasks[i].channel}]
  /\ UNCHANGED <<btBoards, btPage, btSelector, btReqs>>

\* A copy that is refused leaves a command of no board; one that is lost throws,
\* and leaves none.
DuplicateBoard(i) ==
  \/ Exists(btTasks[i].of) /\ Make(i)
  \/ /\ BtMayFail \/ ~Exists(btTasks[i].of)
     /\ MakeNothing(i) /\ btUndo' = Registered(CreateCommand(btTasks[i], 0))
  \/ BtMayFail /\ Exists(btTasks[i].of) /\ MakeNothing(i) /\ UNCHANGED btUndo

\* Whatever goes wrong with an empty board throws.
AddEmptyBoard(i) ==
  \/ Make(i)
  \/ BtMayFail /\ MakeNothing(i) /\ UNCHANGED btUndo

CreateBoard ==
  /\ \E i \in DOMAIN btTasks :
       /\ btTasks[i].board = 0
       /\ IF btTasks[i].of = Empty THEN AddEmptyBoard(i) ELSE DuplicateBoard(i)
  /\ UNCHANGED <<btTeam, btGlobal, btModal>>

\* updateBoard: a patch, of nothing when there is no channel.  It throws if the
\* board was removed meanwhile, and is not registered.
LinkBoardTo ==
  /\ \E i \in DOMAIN btTasks :
       LET task == btTasks[i] IN
       /\ task.board # 0
       /\ btTasks' = RemoveAt(btTasks, i)
       /\ \/ /\ btBoards[task.board].alive
             /\ btBoards' = [btBoards EXCEPT ![task.board].channel = task.channel]
             /\ btUndo' = Registered(LinkCommand(task.board, task.channel))
             /\ UNCHANGED btPast
          \/ /\ BtMayFail \/ ~btBoards[task.board].alive
             /\ btPast' = [btPast EXCEPT !.faults = IF btBoards[task.board].alive THEN @ + 1 ELSE @,
                              !.lost = @ \cup {task.channel}]
             /\ UNCHANGED <<btBoards, btUndo>>
  /\ UNCHANGED <<btTeam, btGlobal, btSelector, btReqs, btPage, btModal>>

DeleteCommand(t) == [kind |-> "delete", board |-> 0, of |-> t, channel |-> "", task |-> <<>>]

\* A team's template is deleted; it stays active, and in the preview.  Whether the
\* server did delete it is not looked at.
OnBoardTemplateDelete ==
  /\ btSelector.open
  /\ \E t \in btTeam :
       /\ \/ btTeam' = btTeam \ {t} /\ BtClick
          \/ /\ BtMayFail /\ btPast.clicks < BtMaxClicks /\ UNCHANGED btTeam
             /\ btPast' = [btPast EXCEPT !.clicks = @ + 1, !.faults = @ + 1]
       /\ btUndo' = Registered(DeleteCommand(t))
  /\ UNCHANGED <<btBoards, btGlobal, btSelector, btReqs, btPage, btTasks, btModal>>

----------------------------------------------------------------------------
(***************************************************************************)
(* Mattermost's dialog for a new channel.                                   *)
(***************************************************************************)

OpenChannelDialog ==
  /\ ~btModal.open /\ ~btSelector.open
  /\ btModal' = [NoModal EXCEPT !.open = TRUE]
  /\ btReqs' = btReqs \o FetchGlobal
  /\ BtClick
  /\ UNCHANGED <<btBoards, btTeam, btGlobal, btSelector, btPage, btTasks, btUndo>>

CancelDialog ==
  /\ btModal.open /\ btModal' = NoModal
  /\ BtClick
  /\ UNCHANGED <<btBoards, btTeam, btGlobal, btSelector, btReqs, btPage, btTasks, btUndo>>

\* After every change: a board that is to be made needs a template.
SetCanCreate(modal) == [modal EXCEPT !.mayCreate = ~modal.add \/ modal.template # ""]

\* The box shows and hides the list; the template chosen last is kept, though
\* the list that appears again shows none.
ShowNewBoardTemplateSelector ==
  /\ btModal.open
  /\ btModal' = SetCanCreate([btModal EXCEPT !.add = ~@])
  /\ BtClick
  /\ UNCHANGED <<btBoards, btTeam, btGlobal, btSelector, btReqs, btPage, btTasks, btUndo>>

ChooseTemplate ==
  /\ btModal.open /\ btModal.add
  /\ \E t \in (AllTemplates \cup {Empty}) \ {btModal.template} :
       btModal' = SetCanCreate([btModal EXCEPT !.template = t])
  /\ BtClick
  /\ UNCHANGED <<btBoards, btTeam, btGlobal, btSelector, btReqs, btPage, btTasks, btUndo>>

\* addBoardToChannel looks at the box and the list as they are when the channel
\* is there, though it was handed over when the dialog appeared.
AddBoardToChannel ==
  /\ btModal.open /\ btModal.mayCreate
  /\ Len(btPast.channels) < Len(BtNew)
  /\ LET channel == BtNew[Len(btPast.channels) + 1] IN
       /\ btTasks' = IF btModal.add /\ btModal.template # ""
                     THEN Append(btTasks, Task(btModal.template, channel, "dialog")) ELSE btTasks
       /\ btModal' = NoModal
       /\ btPast.clicks < BtMaxClicks
       /\ btPast' = [btPast EXCEPT !.clicks = @ + 1,
            !.channels = Append(@, IF btModal.add THEN btModal.template ELSE NotAsked)]
  /\ UNCHANGED <<btBoards, btTeam, btGlobal, btSelector, btReqs, btPage, btUndo>>

----------------------------------------------------------------------------
(***************************************************************************)
(* Undo and redo.                                                           *)
(***************************************************************************)

\* What throws leaves the manager executing for ever: it neither undoes nor
\* registers again.
Hang == btUndo' = [btUndo EXCEPT !.stuck = TRUE]

\* The creation is undone with the page on the board that was there before,
\* the link with no channel, the deletion with the template on the page.
BeforeUndo(command) ==
  IF command.task.from = "selector" THEN ShowMade(command.task.before)
  ELSE UNCHANGED <<btPage, btSelector, btReqs>>

Back(command) == [btUndo EXCEPT !.done = Front(@), !.undone = <<command>> \o @]

\* A deletion that the server refuses goes unnoticed, and a patch throws.
Undone(command, fails) ==
  \/ /\ command.kind = "create"
     /\ BeforeUndo(command)
     /\ IF command.board = 0 THEN Hang /\ UNCHANGED btBoards
        ELSE btUndo' = Back(command) /\ btBoards' = [btBoards EXCEPT ![command.board].alive = fails]
     /\ UNCHANGED btTeam
  \/ /\ command.kind = "link"
     /\ IF fails THEN Hang /\ UNCHANGED btBoards
        ELSE btUndo' = Back(command)
             /\ btBoards' = [btBoards EXCEPT ![command.board].channel = IF command.channel = "" THEN @ ELSE ""]
     /\ UNCHANGED <<btTeam, btPage, btSelector, btReqs>>
  \/ /\ command.kind = "delete"
     /\ btUndo' = Back(command)
     /\ btTeam' = IF fails THEN btTeam ELSE btTeam \cup {command.of}
     /\ ShowMade(0)
     /\ UNCHANGED btBoards

UndoCommand ==
  /\ btUndo.done # <<>> /\ ~btUndo.stuck /\ ~btModal.open /\ btPast.clicks < BtMaxClicks
  /\ \E fails \in BOOLEAN :
       LET command == Last(btUndo.done) IN
       /\ fails => BtMayFail
       /\ Undone(command, fails)
       /\ btPast' = [btPast EXCEPT !.clicks = @ + 1, !.faults = IF fails THEN @ + 1 ELSE @,
                        !.overtaken = @ \/ btTasks # <<>>,
                        !.unlisted = IF fails /\ command.kind = "create" THEN @ \cup {command.board} ELSE @,
                        !.unlinked = IF command.kind = "link" /\ ~fails THEN @ \cup {command.board} ELSE @]
  /\ UNCHANGED <<btGlobal, btTasks, btModal>>

\* The creation is redone with a board of another id, which its command keeps;
\* the link is redone on the board that it was made for.
RemadeAsBefore(command, id) == command   \* the value is not stored
Remade(command, id) == [command EXCEPT !.board = id]
Forward(command) == [btUndo EXCEPT !.undone = Tail(@), !.done = Append(@, command)]

\* A copy that is refused is a command of no board; an empty board throws.
Redone(command, fails) ==
  LET id == Len(btBoards) + 1 IN
  \/ /\ command.kind = "create"
     /\ IF ~fails /\ Exists(command.of)
        THEN /\ id <= BtMaxBoards
             /\ btBoards' = Append(btBoards, [of |-> command.of, channel |-> "", alive |-> TRUE])
             /\ btUndo' = Forward(Remade(command, id))
             /\ IF command.task.from = "selector" THEN ShowMade(id) ELSE UNCHANGED <<btPage, btSelector, btReqs>>
        ELSE /\ IF command.of = Empty THEN Hang ELSE btUndo' = Forward(Remade(command, 0))
             /\ UNCHANGED <<btBoards, btPage, btSelector, btReqs>>
     /\ UNCHANGED btTeam
  \/ /\ command.kind = "link"
     /\ IF ~fails /\ btBoards[command.board].alive
        THEN btUndo' = Forward(command) /\ btBoards' = [btBoards EXCEPT ![command.board].channel = command.channel]
        ELSE Hang /\ UNCHANGED btBoards
     /\ UNCHANGED <<btTeam, btPage, btSelector, btReqs>>
  \/ /\ command.kind = "delete"
     /\ btUndo' = Forward(command)
     /\ btTeam' = IF fails THEN btTeam ELSE btTeam \ {command.of}
     /\ UNCHANGED <<btBoards, btPage, btSelector, btReqs>>

RedoCommand ==
  /\ btUndo.undone # <<>> /\ ~btUndo.stuck /\ ~btModal.open /\ btPast.clicks < BtMaxClicks
  /\ \E fails \in BOOLEAN :
       /\ fails => BtMayFail
       /\ Redone(Head(btUndo.undone), fails)
       /\ btPast' = [btPast EXCEPT !.clicks = @ + 1, !.faults = IF fails THEN @ + 1 ELSE @, !.redone = TRUE,
                        !.asked = IF Len(btBoards') > Len(btBoards) THEN Append(@, "") ELSE @]
  /\ UNCHANGED <<btGlobal, btTasks, btModal>>

BtInit ==
  /\ btBoards = <<>> /\ btTeam = ToSet(BtTeam) /\ btGlobal = {}
  /\ btSelector = [open |-> FALSE, channel |-> "", active |-> "", preview |-> ""]
  /\ btReqs = <<>> /\ btPage = 0 /\ btTasks = <<>>
  /\ btUndo = [done |-> <<>>, undone |-> <<>>, stuck |-> FALSE]
  /\ btModal = NoModal
  /\ btPast = [clicks |-> 0, faults |-> 0, asked |-> <<>>, channels |-> <<>>, redone |-> FALSE,
               overtaken |-> FALSE, lost |-> {}, unlisted |-> {}, unlinked |-> {}]

BtNext ==
  \/ OpenSelector \/ Select \/ CloseSelector \/ EditTemplate \/ ArrivePreview \/ ArriveGlobal
  \/ HandleUseTemplate \/ CreateBoard \/ LinkBoardTo \/ OnBoardTemplateDelete
  \/ OpenChannelDialog \/ CancelDialog \/ ShowNewBoardTemplateSelector \/ ChooseTemplate
  \/ AddBoardToChannel \/ UndoCommand \/ RedoCommand

BtSpec == BtInit /\ [][BtNext]_btVars

----------------------------------------------------------------------------
(***************************************************************************)
(* Properties.                                                              *)
(***************************************************************************)

BtTypeOK ==
  /\ btTeam \subseteq ToSet(BtTeam) /\ btGlobal \subseteq ToSet(BtGlobal)
  /\ btSelector.active \in ToSet(BtGlobal) \cup ToSet(BtTeam) \cup {""}
  /\ btPage \in 0..Len(btBoards) /\ btUndo.stuck \in BOOLEAN
  /\ Len(btPast.asked) = Len(btBoards)

\* The preview is that of the template that "Use this template" would use,
\* however the answers to its requests come.
PreviewOfActive == btSelector.open /\ btSelector.preview # "" => btSelector.preview = btSelector.active

\* A board is linked to the channel for which it was asked, wherever the user
\* has gone meanwhile: once its handler is through, and until that is undone.
BoardForChannel ==
  \A id \in DOMAIN btBoards :
    LET board == btBoards[id]
        linked == \E i \in DOMAIN btUndo.done : btUndo.done[i].kind = "link" /\ btUndo.done[i].board = id
    IN board.channel # "" \/ linked => board.channel = btPast.asked[id]

\* A channel from the dialog has one board, of the template that was chosen,
\* if the box was ticked, unless a request failed or the board was taken back; and
\* else none.
ChannelAsked ==
  btTasks = <<>> /\ ~btPast.redone =>
    \A c \in DOMAIN btPast.channels :
      LET chosen == btPast.channels[c]
          made   == {id \in DOMAIN btBoards : btBoards[id].channel = BtNew[c]}
          undone == \E id \in btPast.unlinked \cup {b \in DOMAIN btBoards : ~btBoards[b].alive} : btPast.asked[id] = BtNew[c]
      IN
      IF chosen = NotAsked \/ undone THEN made = {}
      ELSE BtNew[c] \notin btPast.lost => \E id \in made : made = {id} /\ btBoards[id].of = chosen

\* Every board that was made can be taken back: it is the board of a command
\* that is done, also after a redo has made it anew.
UndoRemoves ==
  \A id \in DOMAIN btBoards :
    btBoards[id].alive /\ id \notin btPast.unlisted =>
      \E i \in DOMAIN btUndo.done : btUndo.done[i].kind = "create" /\ btUndo.done[i].board = id

\* Undoing a creation never leaves the page on a board that was removed, unless
\* an undo came while a board was being made.
ShownExists == btPage # 0 /\ ~btPast.redone /\ ~btPast.overtaken => btBoards[btPage].alive
=============================================================================
