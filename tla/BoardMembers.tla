---------------------------- MODULE BoardMembers ----------------------------
(***************************************************************************)
(* The members of one board: the handlers of server/app/boards.go that      *)
(* change them or the board's link to a channel, on the board_members and   *)
(* boards tables of server/services/store/sqlstore/board.go, and what the   *)
(* callbacks they enqueue tell the users' clients.                          *)
(*                                                                          *)
(* A handler makes one store call per step and other handlers run between   *)
(* its steps.  DeleteBoard, UndeleteBoard and PatchBoard of the store are   *)
(* transactions; SaveMember and DeleteMember are not, and make two.         *)
(***************************************************************************)
EXTENDS Naturals, FiniteSets

CONSTANTS
  Users,
  Guests,        \* the users that get no synthetic membership
  ChannelUsers,  \* the members of the channel the board may be linked to
  Requests,      \* the calls of the handlers
  None

ASSUME UsersAssumption == Guests \subseteq Users /\ ChannelUsers \subseteq Users

Roles == {"admin", "editor", "viewer"}
ASSUME RolesAssumption == None \notin Roles

MemberOps == {"add", "update", "remove"}
BoardOps == {"link", "unlink", "delete", "undelete"}

Call == [op : MemberOps \cup BoardOps, user : Users, role : Roles]

VARIABLES
  live,       \* is the board in the boards table?
  linked,     \* has it a channel_id? (kept in the history row once deleted)
  rows,       \* the explicit members: scheme of each row of board_members
  history,    \* last action of each user in board_members_history
  view,       \* the membership each user's client knows of
  unaware,    \* the members at a deletion of the board that were not told
  pc, call,   \* the step each request is at, and its arguments
  isNew,      \* saveMember found no old member
  olds,       \* the synthetic members PatchBoard read before unlinking
  stale,      \* history: a row changed since the request began
  unsettled   \* history: users that overlapping or failing requests concern

store == <<live, linked, rows, history>>
clients == <<view, unaware>>
vars == <<live, linked, rows, history, view, unaware, pc, call, isNew, olds,
          stale, unsettled>>

----------------------------------------------------------------------------
(***************************************************************************)
(* The store's reads.                                                       *)
(***************************************************************************)

Synthetic ==
  IF live /\ linked THEN {u \in ChannelUsers \ Guests : rows[u] = None} ELSE {}

\* getMemberForBoard; getMembersForBoard returns the same for every user.
MemberOf(u) == IF u \in Synthetic THEN "editor" ELSE rows[u]

Members == {u \in Users : MemberOf(u) # None}

Admins == {u \in Users : rows[u] = "admin"}

\* Mutant of IsLastAdmin: counts the user in question.
IsLastAdminWithSelf(u) == Admins = {}

\* isLastAdmin
IsLastAdmin(u) == Admins \ {u} = {}

----------------------------------------------------------------------------
Steps == {"idle", "member", "admins", "save", "upsert", "drop", "record",
          "category", "patch", "queued", "done"}

TypeOK ==
  /\ live \in BOOLEAN /\ linked \in BOOLEAN
  /\ rows \in [Users -> Roles \cup {None}]
  /\ history \in [Users -> {"none", "created", "deleted"}]
  /\ view \in [Users -> Roles \cup {None}]
  /\ unaware \in SUBSET Users
  /\ pc \in [Requests -> Steps]
  /\ call \in [Requests -> Call \cup {None}]
  /\ \A r \in Requests : pc[r] # "idle" => call[r] \in Call
  /\ isNew \in [Requests -> BOOLEAN]
  /\ olds \in [Requests -> SUBSET Users]
  /\ stale \in SUBSET Requests
  /\ unsettled \in SUBSET Users

\* CreateBoard has made its user the admin, and the board may have got more.
Init ==
  /\ live = TRUE
  /\ linked \in BOOLEAN
  /\ \E A \in SUBSET Users \ {{}} :
       /\ rows = [u \in Users |-> IF u \in A THEN "admin" ELSE None]
       /\ history = [u \in Users |-> IF u \in A THEN "created" ELSE "none"]
  /\ view = [u \in Users |-> MemberOf(u)]
  /\ unaware = {}
  /\ pc = [r \in Requests |-> "idle"]
  /\ call = [r \in Requests |-> None]
  /\ isNew = [r \in Requests |-> FALSE]
  /\ olds = [r \in Requests |-> {}]
  /\ stale = {}
  /\ unsettled = {}

----------------------------------------------------------------------------
Active == {r \in Requests : pc[r] \notin {"idle", "done"}}

At(r, step, op) == pc[r] = step /\ call[r].op = op
Goto(r, step) == pc' = [pc EXCEPT ![r] = step]

\* The users that requests c and d both concern.
Shared(c, d) ==
  IF c.op \in BoardOps \/ d.op \in BoardOps THEN Users ELSE {c.user} \cap {d.user}

\* A row of board_members changes: what the others read may be out of date.
WriteRow(r, u, role) ==
  /\ rows' = [rows EXCEPT ![u] = role]
  /\ stale' = IF rows' = rows THEN stale ELSE stale \cup (Active \ {r})

(***************************************************************************)
(* A request arrives and makes its first read: GetBoard, which ends it if   *)
(* the board is not there; the members before PatchBoard unlinks; the board *)
(* history, which is never empty, for UndeleteBoard.                        *)
(***************************************************************************)
Begin(r, c) ==
  /\ pc[r] = "idle"
  /\ c.op = "update" /\ c.user \in Guests => c.role # "admin"
  /\ c.op \in BoardOps \cup {"remove"} => c.role = "viewer"
  /\ call' = [call EXCEPT ![r] = c]
  /\ olds' = [olds EXCEPT ![r] = IF c.op = "unlink" THEN Synthetic ELSE {}]
  /\ Goto(r, IF ~live /\ c.op # "undelete" THEN "done"
             ELSE IF c.op \in MemberOps THEN "member" ELSE "patch")
  /\ unsettled' = unsettled \cup UNION {Shared(c, call[q]) : q \in Active}
  /\ UNCHANGED <<store, clients, isNew, stale>>

\* Mutant of ReadMember: AddMemberToBoard saves over an explicit member.
ReadMemberAddOver(r) ==
  /\ pc[r] = "member"
  /\ Goto(r, IF call[r].op = "remove" THEN "drop" ELSE "save")
  /\ UNCHANGED <<store, clients, call, isNew, olds, stale, unsettled>>

\* GetMemberForBoard, and where the handler goes from what it finds.
ReadMember(r) ==
  LET c == call[r]
      old == MemberOf(c.user)
  IN /\ pc[r] = "member"
     /\ Goto(r, CASE c.op = "add" -> IF rows[c.user] # None THEN "done" ELSE "save"
                  [] c.op = "update" -> IF old = None THEN "done"
                                        ELSE IF old = "admin" /\ c.role # "admin" THEN "admins"
                                        ELSE "save"
                  [] OTHER -> IF old = None THEN "done"
                              ELSE IF old = "admin" THEN "admins" ELSE "drop")
     /\ UNCHANGED <<store, clients, call, isNew, olds, stale, unsettled>>

\* isLastAdmin: the request is refused, or goes on to the write.
CheckAdmins(r) ==
  /\ pc[r] = "admins"
  /\ Goto(r, IF IsLastAdmin(call[r].user) THEN "done"
             ELSE IF call[r].op = "update" THEN "save" ELSE "drop")
  /\ UNCHANGED <<store, clients, call, isNew, olds, stale, unsettled>>

\* saveMember looks for an old member, for the history only ...
SaveRead(r) ==
  /\ pc[r] = "save"
  /\ isNew' = [isNew EXCEPT ![r] = MemberOf(call[r].user) = None]
  /\ Goto(r, "upsert")
  /\ UNCHANGED <<store, clients, call, olds, stale, unsettled>>

\* ... inserts the row or overwrites the one that is there ...
SaveUpsert(r) ==
  /\ pc[r] = "upsert"
  /\ WriteRow(r, call[r].user, call[r].role)
  /\ Goto(r, IF isNew[r] THEN "record"
             ELSE IF call[r].op = "add" THEN "category" ELSE "queued")
  /\ UNCHANGED <<live, linked, history, clients, call, isNew, olds, unsettled>>

\* ... and records the creation.
SaveRecord(r) ==
  /\ pc[r] = "record"
  /\ call[r].op # "remove"
  /\ history' = [history EXCEPT ![call[r].user] = "created"]
  /\ Goto(r, IF call[r].op = "add" THEN "category" ELSE "queued")
  /\ UNCHANGED <<live, linked, rows, clients, call, isNew, olds, stale, unsettled>>

\* deleteMember: the history records what removed a row.
DropRow(r) ==
  /\ pc[r] = "drop"
  /\ Goto(r, IF rows[call[r].user] # None THEN "record" ELSE "queued")
  /\ WriteRow(r, call[r].user, None)
  /\ UNCHANGED <<live, linked, history, clients, call, isNew, olds, unsettled>>

DropRecord(r) ==
  /\ At(r, "record", "remove")
  /\ history' = [history EXCEPT ![call[r].user] = "deleted"]
  /\ Goto(r, "queued")
  /\ UNCHANGED <<live, linked, rows, clients, call, isNew, olds, stale, unsettled>>

\* addBoardsToDefaultCategory, before the broadcast of AddMemberToBoard.
AddToCategory(r) ==
  /\ pc[r] = "category"
  /\ Goto(r, "queued")
  /\ UNCHANGED <<store, clients, call, isNew, olds, stale, unsettled>>

\* The insert in the history (whose key holds the time in milliseconds) or
\* the update of the category fails: the row is written, the caller gets an
\* error and nothing is broadcast.
FailAfterWrite(r) ==
  /\ pc[r] \in {"record", "category"}
  /\ Goto(r, "done")
  /\ unsettled' = unsettled \cup {call[r].user}
  /\ UNCHANGED <<store, clients, call, isNew, olds, stale>>

----------------------------------------------------------------------------
(***************************************************************************)
(* The transactions on the board.  deleteBoard leaves board_members alone.  *)
(***************************************************************************)

PatchLink(r) ==
  /\ pc[r] = "patch" /\ call[r].op \in {"link", "unlink"}
  /\ IF live
     THEN linked' = (call[r].op = "link") /\ Goto(r, "queued")
     ELSE UNCHANGED linked /\ Goto(r, "done")
  /\ UNCHANGED <<live, rows, history, clients, call, isNew, olds, stale, unsettled>>

DeleteBoard(r) ==
  /\ At(r, "patch", "delete")
  /\ live' = FALSE
  /\ unaware' = IF live THEN Members ELSE unaware
  /\ Goto(r, IF live THEN "queued" ELSE "done")
  /\ UNCHANGED <<linked, rows, history, view, call, isNew, olds, stale, unsettled>>

\* undeleteBoard puts the board back with an empty channel_id: who was a
\* member through the channel no longer is, and is not told.
UndeleteBoard(r) ==
  /\ At(r, "patch", "undelete")
  /\ live' = TRUE
  /\ linked' = (live /\ linked)
  /\ unaware' = IF live THEN unaware ELSE {}
  /\ Goto(r, "queued")
  /\ unsettled' = IF ~live /\ linked THEN unsettled \cup ChannelUsers ELSE unsettled
  /\ UNCHANGED <<rows, history, view, call, isNew, olds, stale>>

----------------------------------------------------------------------------
(***************************************************************************)
(* The callbacks: the queue's ten threads run them in any order.  A message *)
(* about a member always goes to that member, one about the board to those  *)
(* that are members when it is sent.                                        *)
(***************************************************************************)

Told(r, ops, views) ==
  /\ pc[r] = "queued"
  /\ call[r].op \in ops
  /\ view' = views
  /\ Goto(r, "done")
  /\ UNCHANGED <<store, call, isNew, olds, stale, unsettled>>

\* AddMemberToBoard and UpdateBoardMember: the member as it was requested.
TellChange(r) ==
  /\ Told(r, {"add", "update"}, [view EXCEPT ![call[r].user] = call[r].role])
  /\ UNCHANGED unaware

\* Mutant of TellRemoval: the removed user is told that nothing is left.
TellRemovalBlindly(r) ==
  /\ Told(r, {"remove"}, [view EXCEPT ![call[r].user] = None])
  /\ UNCHANGED unaware

\* DeleteBoardMember: the member as it now is, synthetic or gone.
TellRemoval(r) ==
  /\ Told(r, {"remove"}, [view EXCEPT ![call[r].user] = MemberOf(call[r].user)])
  /\ UNCHANGED unaware

\* PatchBoard: the board, then those who are synthetic members now ...
TellLink(r) ==
  /\ Told(r, {"link"}, [u \in Users |-> IF u \in Synthetic THEN "editor" ELSE view[u]])
  /\ UNCHANGED unaware

\* ... or were before the channel was unlinked.
TellUnlink(r) ==
  /\ Told(r, {"unlink"}, [u \in Users |-> IF u \in olds[r] THEN None ELSE view[u]])
  /\ UNCHANGED unaware

\* Mutant of TellDeletion: only who is a member through the channel.
TellDeletionToSynthetic(r) ==
  /\ Told(r, {"delete"}, view)
  /\ unaware' = unaware \ Synthetic

\* DeleteBoard: the message says that the board is deleted.
TellDeletion(r) ==
  /\ Told(r, {"delete"}, view)
  /\ unaware' = unaware \ Members

TellUndeletion(r) ==
  /\ Told(r, {"undelete"}, view)
  /\ UNCHANGED unaware

----------------------------------------------------------------------------
Handler(r) ==
  \/ ReadMember(r) \/ CheckAdmins(r)
  \/ SaveRead(r) \/ SaveUpsert(r) \/ SaveRecord(r)
  \/ DropRow(r) \/ DropRecord(r)
  \/ AddToCategory(r)
  \/ PatchLink(r) \/ DeleteBoard(r) \/ UndeleteBoard(r)

Tell(r) ==
  \/ TellChange(r) \/ TellRemoval(r) \/ TellLink(r)
  \/ TellUnlink(r) \/ TellDeletion(r) \/ TellUndeletion(r)

Next ==
  \E r \in Requests :
    \/ \E c \in Call : Begin(r, c)
    \/ Handler(r)
    \/ FailAfterWrite(r)
    \/ Tell(r)

Spec == Init /\ [][Next]_vars

----------------------------------------------------------------------------
Quiet == Active = {}

\* "we need to check that there is at least still another admin on the board":
\* a handler that nothing overtook, from its first read to its write, never
\* takes the last admin away, whoever else is at work (UpdateBoardMember,
\* DeleteBoardMember, AddMemberToBoard).
LastAdminKept ==
  [][ Admins # {} /\ Admins' = {} =>
        \E r \in stale : pc[r] \in {"upsert", "drop"} /\ pc'[r] # pc[r] ]_vars

\* AddMemberToBoard returns an explicit member as it is: a join that nothing
\* overtook never changes somebody's role.
AddNeverDemotes ==
  [][ \A r \in Requests \ stale :
        At(r, "upsert", "add") /\ pc'[r] # "upsert" => rows[call[r].user] = None ]_vars

\* When everything has settled every user's client agrees with the tables on
\* the user's membership, be it explicit or through the channel, unless two
\* requests about it overlapped, one of them failed half way, or the board was
\* undeleted without the channel it had.
ViewsSettle ==
  Quiet /\ live => \A u \in Users \ unsettled : view[u] = MemberOf(u)

\* The history never calls a user a member who has no row (saveMember writes
\* "created" after the row, deleteMember "deleted" when it removed one).
HistoryMatches ==
  Quiet => \A u \in Users \ unsettled : history[u] = "created" => rows[u] # None

\* The recipients of a deletion are computed when it has happened: the members
\* through the channel miss it, but nobody who has a row does (DeleteBoard,
\* getUserIDsForTeamAndBoard).
DeletionReachesMembers ==
  Quiet /\ ~live => \A u \in unaware \ unsettled : rows[u] = None

----------------------------------------------------------------------------
(***************************************************************************)
(* What a comment of the code says, and overlapping requests refute.        *)
(***************************************************************************)

\* "there is at least still another admin on the board"
AnotherAdminRemains == Admins # {}

\* Types are kept; when all is quiet the clients and the history agree with the
\* tables, but for overlaps and failures.
MembersInv == TypeOK /\ ViewsSettle /\ HistoryMatches
=============================================================================
