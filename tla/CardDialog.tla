----------------------------- MODULE CardDialog -----------------------------
(***************************************************************************)
(* The dialog of one card: its title is edited while others change it,     *)
(* files are uploaded to it, it is deleted or made a template of.  What    *)
(* the requests change comes back as news on the websocket, several at a   *)
(* time, when the dialog may have been closed or show another card.        *)
(*                                                                         *)
(* The contents of the card are in CardContents.tla, its dates in          *)
(* CardDates.tla.                                                          *)
(***************************************************************************)
EXTENDS Integers, Sequences, SequencesExt, FiniteSets

CONSTANTS
  DgCards,        \* the cards that there are
  DgTemplate,     \* the one that "New template from card" makes
  DgTitles,       \* the titles that the user types and others give
  DgFirstTitle,   \* the one that every card has
  DgMaxSteps,     \* bound: what the user does
  DgMaxOthers,    \* bound: what others do
  DgMaxFiles      \* bound: the files, of all users

ASSUME DgAssumption ==
  /\ DgTemplate \notin DgCards /\ DgFirstTitle \in DgTitles /\ "" \notin DgCards \cup DgTitles \cup {DgTemplate}
  /\ {DgMaxSteps, DgMaxOthers, DgMaxFiles} \subseteq Nat

VARIABLES
  dgServer,    \* the cards: [title, live, files]
  dgStore,     \* what the store has of them: [title, live]
  dgLists,     \* and of their attachments: [list, listed]
  dgDialog,    \* [card, mounted, title, serverTitle]
  dgUploads,   \* the files that are on their way: [card, file, failed]
  dgRequests,  \* the requests: [kind, card, what, served]
  dgNews,      \* what the websocket has not brought yet: [card, kind, what]
  dgPast       \* history and counters

dgVars == <<dgServer, dgStore, dgLists, dgDialog, dgUploads, dgRequests, dgNews, dgPast>>

DgAll == DgCards \cup {DgTemplate}
NoDialog == [card |-> "", mounted |-> FALSE, title |-> DgFirstTitle, serverTitle |-> DgFirstTitle]

DgStep(step) == dgPast.steps < DgMaxSteps /\ dgPast' = [step EXCEPT !.steps = @ + 1]

CardRequest(kind, card, what) == [kind |-> kind, card |-> card, what |-> what, served |-> FALSE]

----------------------------------------------------------------------------
(***************************************************************************)
(* The title.  The field keeps what the user types; while it is as the     *)
(* card's title was, it follows the card's title.                          *)
(***************************************************************************)

\* The effect after a change of the title, of the field or of the card.
FollowTitle(field, title) ==
  [field EXCEPT !.title = IF field.serverTitle = field.title THEN title ELSE @, !.serverTitle = title]

Mounted(card) ==
  IF card # "" /\ dgStore[card].live
  THEN [card |-> card, mounted |-> TRUE, title |-> dgStore[card].title, serverTitle |-> dgStore[card].title]
  ELSE [NoDialog EXCEPT !.card = card]

\* saveTitle, and the effect that runs it when the card leaves the screen.
TitleSaves(field) ==
  IF field.mounted /\ field.title # dgStore[field.card].title
  THEN <<CardRequest("title", field.card, field.title)>>
  ELSE <<>>
UnmountForgets(field) == <<>>   \* closes without the effect
UnmountSaves(field) == TitleSaves(field)

Sent(requests) == { r \in ToSet(requests) : r.kind = "title" }
NoteSaves(past, requests) ==
  [past EXCEPT !.echoed = @ \/ \E r \in Sent(requests) : r.what # past.typed[r.card]]

Show(card) == /\ dgDialog' = Mounted(card)
              /\ dgRequests' = dgRequests \o UnmountSaves(dgDialog)

OpenCardDialog ==
  /\ dgDialog.card = ""
  /\ \E k \in DgAll : dgStore[k].live /\ Show(k)
  /\ DgStep(dgPast)
  /\ UNCHANGED <<dgServer, dgStore, dgLists, dgUploads, dgNews>>

CloseCard ==
  /\ dgDialog.card # "" /\ Show("")
  /\ dgPast' = NoteSaves(dgPast, UnmountSaves(dgDialog))
  /\ UNCHANGED <<dgServer, dgStore, dgLists, dgUploads, dgNews>>

TypeTitle ==
  /\ dgDialog.mounted
  /\ \E t \in DgTitles \ {dgDialog.title} :
       LET card == dgDialog.card IN
       /\ dgDialog' = FollowTitle([dgDialog EXCEPT !.title = t], dgStore[card].title)
       /\ DgStep([dgPast EXCEPT !.typed[card] = t])
  /\ UNCHANGED <<dgServer, dgStore, dgLists, dgUploads, dgRequests, dgNews>>

\* Enter, Escape, or a click elsewhere.
SaveTitle ==
  /\ dgDialog.mounted /\ TitleSaves(dgDialog) # <<>>
  /\ dgRequests' = dgRequests \o TitleSaves(dgDialog)
  /\ DgStep(NoteSaves(dgPast, TitleSaves(dgDialog)))
  /\ UNCHANGED <<dgServer, dgStore, dgLists, dgDialog, dgUploads, dgNews>>

----------------------------------------------------------------------------
(***************************************************************************)
(* Attachments.                                                            *)
(***************************************************************************)

\* updateAttachments: what becomes of the list of a card.
AddAttachments(card, new) == [card EXCEPT !.listed = @ \/ new # {}, !.list = @ \cup new]
KeepAttachments(card, gone) == card   \* the list keeps what was deleted
RemoveAttachments(card, gone) == [card EXCEPT !.list = @ \ gone]

\* A file is chosen: it is listed as being uploaded.  One that is too large is
\* taken from the list at once.
ChooseFile ==
  /\ dgDialog.mounted /\ dgPast.files < DgMaxFiles
  /\ LET card == dgDialog.card
         n    == dgPast.files + 1 IN
       /\ dgUploads' = Append(dgUploads, [card |-> card, file |-> n, failed |-> FALSE])
       /\ dgLists' = [dgLists EXCEPT ![card] = AddAttachments(@, {<<"uploading", n>>})]
       /\ DgStep([dgPast EXCEPT !.files = n, !.chosen = Append(@, card)])
  /\ UNCHANGED <<dgServer, dgStore, dgDialog, dgRequests, dgNews>>

\* The upload is answered.  A file that was stored becomes an attachment of the
\* card whose dialog was open; after another answer it stays in the list.
ShownTarget(upload) == IF dgDialog.card = "" THEN upload.card ELSE dgDialog.card
UploadTarget(upload) == upload.card

EndUpload ==
  /\ \E i \in DOMAIN dgUploads :
       LET u == dgUploads[i] IN
       /\ ~u.failed
       /\ \/ /\ dgUploads' = RemoveAt(dgUploads, i)
             /\ dgLists' = [dgLists EXCEPT ![u.card] = RemoveAttachments(@, {<<"uploading", u.file>>})]
             /\ dgRequests' = Append(dgRequests, CardRequest("attach", UploadTarget(u), u.file))
          \/ /\ dgUploads' = [dgUploads EXCEPT ![i].failed = TRUE]
             /\ UNCHANGED <<dgLists, dgRequests>>
  /\ UNCHANGED <<dgServer, dgStore, dgDialog, dgNews, dgPast>>

DeleteAttachment ==
  /\ dgDialog.mounted
  /\ \E f \in 1..DgMaxFiles :
       /\ <<"file", f>> \in dgLists[dgDialog.card].list
       /\ dgRequests' = Append(dgRequests, CardRequest("detach", dgDialog.card, f))
  /\ DgStep(dgPast)
  /\ UNCHANGED <<dgServer, dgStore, dgLists, dgDialog, dgUploads, dgNews>>

----------------------------------------------------------------------------
(***************************************************************************)
(* Deletion and templates.                                                 *)
(***************************************************************************)

\* handleDeleteCard, after a confirmation unless the card is empty.
DeleteCard ==
  /\ dgDialog.mounted
  /\ dgRequests' = Append(dgRequests, CardRequest("delete", dgDialog.card, ""))
  /\ DgStep(dgPast)
  /\ UNCHANGED <<dgServer, dgStore, dgLists, dgDialog, dgUploads, dgNews>>

MakeTemplate ==
  /\ dgDialog.mounted /\ dgDialog.card # DgTemplate
  /\ \A r \in ToSet(dgRequests) : r.kind # "template"
  /\ ~dgServer[DgTemplate].live /\ ~dgStore[DgTemplate].live
  /\ dgRequests' = Append(dgRequests, CardRequest("template", dgDialog.card, ""))
  /\ DgStep(dgPast)
  /\ UNCHANGED <<dgServer, dgStore, dgLists, dgDialog, dgUploads, dgNews>>

\* The answers go on where the dialog was: that of the deletion closes it, that
\* of the template shows the template, whatever card is shown by now.
AnswerDialog ==
  /\ \E i \in DOMAIN dgRequests :
       LET r == dgRequests[i]
           saves == UnmountSaves(dgDialog) IN
       /\ r.served
       /\ dgRequests' = RemoveAt(dgRequests, i) \o saves
       /\ dgPast' = NoteSaves(dgPast, saves)
       /\ IF r.kind = "template"
          THEN /\ dgStore' = [dgStore EXCEPT ![DgTemplate] = [live |-> TRUE, title |-> DgFirstTitle]]
               /\ dgDialog' = [card |-> DgTemplate, mounted |-> TRUE,
                    title |-> dgStore'[DgTemplate].title, serverTitle |-> dgStore'[DgTemplate].title]
          ELSE dgDialog' = NoDialog /\ UNCHANGED dgStore
  /\ UNCHANGED <<dgServer, dgLists, dgUploads, dgNews>>

----------------------------------------------------------------------------
(***************************************************************************)
(* The server and its news.                                                *)
(***************************************************************************)

News(card, kind, what) == Append(dgNews, [card |-> card, kind |-> kind, what |-> what])

Retitle(card, title) ==
  /\ dgServer' = [dgServer EXCEPT ![card].title = title]
  /\ dgNews' = News(card, "title", title)
Drop(card) ==
  /\ dgServer' = [dgServer EXCEPT ![card].live = FALSE]
  /\ dgNews' = News(card, "gone", "")
Attach(card, file) ==
  /\ dgServer' = [dgServer EXCEPT ![card].files = @ \cup {file}]
  /\ dgNews' = News(card, "attached", file)
Detach(card, file) ==
  /\ dgServer' = [dgServer EXCEPT ![card].files = @ \ {file}]
  /\ dgNews' = News(card, "detached", file)

NoteSeen(card, title) == dgPast' = [dgPast EXCEPT !.seen[card] = @ \cup {title}]

AnsweredAtOnce(i) == dgRequests' = RemoveAt(dgRequests, i)
AwaitAnswer(i) == dgRequests' = [dgRequests EXCEPT ![i].served = TRUE]

\* One of the requests is served; a change of what is deleted is refused.
ServeCardRequest ==
  /\ \E i \in DOMAIN dgRequests :
       LET r  == dgRequests[i]
           s  == dgServer[r.card] IN
       /\ ~r.served
       /\ \/ r.kind = "title" /\ s.live /\ Retitle(r.card, r.what) /\ NoteSeen(r.card, r.what) /\ AnsweredAtOnce(i)
          \/ r.kind = "title" /\ ~s.live /\ AnsweredAtOnce(i) /\ UNCHANGED <<dgServer, dgNews>>
             /\ dgPast' = [dgPast EXCEPT !.refused = @ \cup {r.card}]
          \/ r.kind = "attach" /\ Attach(r.card, r.what) /\ AnsweredAtOnce(i) /\ UNCHANGED dgPast
          \/ r.kind = "detach" /\ r.what \in s.files /\ Detach(r.card, r.what) /\ AnsweredAtOnce(i) /\ UNCHANGED dgPast
          \/ r.kind = "detach" /\ r.what \notin s.files /\ AnsweredAtOnce(i) /\ UNCHANGED <<dgServer, dgNews, dgPast>>
          \/ r.kind = "delete" /\ s.live /\ Drop(r.card) /\ AwaitAnswer(i) /\ UNCHANGED dgPast
          \/ r.kind = "delete" /\ ~s.live /\ AwaitAnswer(i) /\ UNCHANGED <<dgServer, dgNews, dgPast>>
          \/ /\ r.kind = "template" /\ s.live /\ AwaitAnswer(i)
             /\ dgServer' = [dgServer EXCEPT ![DgTemplate] = [@ EXCEPT !.live = TRUE]]
             /\ dgNews' = News(DgTemplate, "title", DgFirstTitle) /\ UNCHANGED dgPast
          \/ r.kind = "template" /\ ~s.live /\ AnsweredAtOnce(i) /\ UNCHANGED <<dgServer, dgNews, dgPast>>
  /\ UNCHANGED <<dgStore, dgLists, dgDialog, dgUploads>>

\* Another user gives a title, attaches a file, or deletes a card.
OthersChange ==
  /\ dgPast.others < DgMaxOthers
  /\ \E k \in DgCards :
       /\ dgServer[k].live
       /\ \/ \E t \in DgTitles \ {dgServer[k].title} :
               /\ Retitle(k, t)
               /\ dgPast' = [dgPast EXCEPT !.others = @ + 1, !.seen[k] = @ \cup {t}]
          \/ /\ dgPast.files < DgMaxFiles /\ Attach(k, dgPast.files + 1)
             /\ dgPast' = [dgPast EXCEPT !.others = @ + 1, !.files = @ + 1, !.chosen = Append(@, k)]
          \/ Drop(k) /\ dgPast' = [dgPast EXCEPT !.others = @ + 1]
  /\ UNCHANGED <<dgStore, dgLists, dgDialog, dgUploads, dgRequests>>

\* The store takes a batch of news: the newest of each card, then the newest of
\* each attachment.
LastNews(k, batch) ==
  LET About(m) == batch[m].card = k /\ batch[m].kind \in {"title", "gone"} IN
  { m \in DOMAIN batch : About(m) /\ \A o \in DOMAIN batch : o > m => ~About(o) }
CardNews(k, batch) ==
  IF LastNews(k, batch) = {} THEN dgStore[k]
  ELSE LET news == batch[CHOOSE m \in LastNews(k, batch) : TRUE] IN
       IF news.kind = "title" THEN [title |-> news.what, live |-> TRUE] ELSE [dgStore[k] EXCEPT !.live = FALSE]
\* Deletions of cards are among the attachments.  The first attachment of a card
\* and the deletion of one that is unknown end the batch.
ForAttachments(news) == news.kind \in {"attached", "detached", "gone"}
Unlisted(news) ==
  \/ news.kind = "gone"
  \/ news.kind = "attached" /\ ~dgLists[news.card].listed
  \/ news.kind = "detached" /\ <<"file", news.what>> \notin dgLists[news.card].list
Subject(news) == IF news.kind \in {"title", "gone"} THEN <<news.card>> ELSE <<news.card, news.what>>
Newest(batch) ==
  { m \in DOMAIN batch : \A o \in DOMAIN batch : o > m => Subject(batch[o]) # Subject(batch[m]) }
Reached(batch) == { m \in Newest(batch) : \A o \in Newest(batch) : o < m => ~Unlisted(batch[o]) }
FilesIn(batch, kind, k) ==
  { <<"file", batch[m].what>> : m \in { o \in Reached(batch) : batch[o].kind = kind /\ batch[o].card = k } }
AttachmentNews(k, batch) ==
  RemoveAttachments(AddAttachments(dgLists[k], FilesIn(batch, "attached", k)), FilesIn(batch, "detached", k))

DeliverNews ==
  /\ \E n \in DOMAIN dgNews :
       LET batch == SubSeq(dgNews, 1, n)
           files == { m \in DOMAIN batch : ForAttachments(batch[m]) }
           saves == UnmountSaves(dgDialog)
           card  == dgDialog.card
           past  == [dgPast EXCEPT !.cut = @ \/ Cardinality(files) > 1] IN
       /\ dgNews' = SubSeq(dgNews, n + 1, Len(dgNews))
       /\ dgStore' = [k \in DgAll |-> CardNews(k, batch)]
       /\ dgLists' = [k \in DgAll |-> AttachmentNews(k, batch)]
       /\ IF ~dgDialog.mounted
          THEN UNCHANGED <<dgDialog, dgRequests>> /\ dgPast' = past
          ELSE IF dgStore'[card].live
          THEN /\ dgDialog' = FollowTitle(dgDialog, dgStore'[card].title)
               /\ UNCHANGED dgRequests /\ dgPast' = past
          ELSE /\ dgDialog' = [NoDialog EXCEPT !.card = card]
               /\ dgRequests' = dgRequests \o saves /\ dgPast' = NoteSaves(past, saves)
  /\ UNCHANGED <<dgServer, dgUploads>>

DgInit ==
  /\ dgServer = [k \in DgAll |-> [title |-> DgFirstTitle, live |-> k \in DgCards, files |-> {}]]
  /\ dgStore = [k \in DgAll |-> [title |-> DgFirstTitle, live |-> k \in DgCards]]
  /\ dgLists = [k \in DgAll |-> [list |-> {}, listed |-> FALSE]]
  /\ dgDialog = NoDialog
  /\ dgUploads = <<>> /\ dgRequests = <<>> /\ dgNews = <<>>
  /\ dgPast = [steps |-> 0, others |-> 0, files |-> 0, chosen |-> <<>>, typed |-> [k \in DgAll |-> ""],
               seen |-> [k \in DgAll |-> {DgFirstTitle}], refused |-> {}, echoed |-> FALSE, cut |-> FALSE]

DgNext ==
  \/ OpenCardDialog \/ CloseCard \/ TypeTitle \/ SaveTitle
  \/ ChooseFile \/ EndUpload \/ DeleteAttachment \/ DeleteCard \/ MakeTemplate \/ AnswerDialog
  \/ ServeCardRequest \/ OthersChange \/ DeliverNews

DgSpec == DgInit /\ [][DgNext]_dgVars

----------------------------------------------------------------------------
(***************************************************************************)
(* Properties.                                                             *)
(***************************************************************************)

DgTypeOK ==
  /\ \A k \in DgAll : dgServer[k].title \in DgTitles /\ dgServer[k].files \subseteq 1..DgMaxFiles
  /\ dgDialog.card \in DgAll \cup {""} /\ (dgDialog.mounted => dgDialog.card # "" /\ dgStore[dgDialog.card].live)
  /\ \A u \in ToSet(dgUploads) : u.card \in DgAll /\ u.file \in 1..DgMaxFiles
  /\ \A r \in ToSet(dgRequests) : r.kind \in {"title", "attach", "detach", "delete", "template"}

\* A title is saved only if the user typed it for that card: a dialog that is
\* closed, by whatever it is, never puts an old title over one that another
\* user gave.
OnlyTypedIsSaved == ~dgPast.echoed

\* When a card has left the dialog and all is saved, the title that the user
\* typed last for it has been the card's title, unless the card was deleted.
TypedIsSaved ==
  \A k \in DgAll \ dgPast.refused :
    dgDialog.card # k /\ (\A i \in DOMAIN dgRequests : ~(dgRequests[i].kind = "title" /\ dgRequests[i].card = k)) =>
      dgPast.typed[k] \in dgPast.seen[k] \cup {""}

\* A file becomes an attachment of the card for which it was chosen, also when
\* the dialog is closed or shows another card by the time it is uploaded.
FilesOfCard == \A k \in DgAll : \A f \in dgServer[k].files : dgPast.chosen[f] = k

\* When all news have come, no two deletions or attachments at a time, a card lists
\* its attachments and the uploads that are under way or were refused.
AttachmentsListed ==
  dgNews = <<>> /\ ~dgPast.cut =>
    \A k \in DgAll :
      dgLists[k].list = { <<"file", f>> : f \in dgServer[k].files }
        \cup { <<"uploading", u.file>> : u \in { v \in ToSet(dgUploads) : v.card = k } }

\* A title is saved if it was typed for that card, and only then.
TitlesKept == OnlyTypedIsSaved /\ TypedIsSaved

\* Types are kept, the dialog shows no deleted card, and cards list their
\* attachments.
DialogAgrees == DgTypeOK /\ AttachmentsListed
=============================================================================
