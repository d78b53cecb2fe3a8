------------------------------ MODULE Sharing ------------------------------
(***************************************************************************)
(* The dialog "Share board" (components/shareBoard): members and their      *)
(* roles, the minimum role, the linked channel and the public link, with    *)
(* the permission hooks (hooks/permissions.tsx), the part of the store they  *)
(* read (store/boards.ts, store/users.ts) and the handlers of the server.   *)
(*                                                                          *)
(* A request takes effect at the server in one step (BoardMembers.tla has   *)
(* the steps of a membership request).  The server tells the clients by     *)
(* the websocket, before or after it answers; the client follows it by      *)
(* these news and, after news of the board, by fetching the members.        *)
(* Templates, guests and team admins are left out.                          *)
(***************************************************************************)
EXTENDS Integers, Sequences, SequencesExt, FiniteSets

CONSTANTS
  ShUsers,     \* users of the team
  ShMe,        \* the user of this client, a board admin at first
  ShAnn,       \* another board admin, at work elsewhere
  ShChannels,  \* channel |-> its members; the channels of ShMe
  ShLinked,    \* the channel that is linked at first, or ""
  ShMaxOps,    \* bound: operations; none is begun after one that was not alone
  ShMaxFaults  \* bound: requests about the public link that fail

ASSUME ShAssumption ==
  /\ IsFiniteSet(ShUsers) /\ {ShMe, ShAnn} \subseteq ShUsers /\ ShMe # ShAnn
  /\ \A c \in DOMAIN ShChannels : ShMe \in ShChannels[c] /\ ShChannels[c] \subseteq ShUsers
  /\ "" \notin DOMAIN ShChannels /\ ShLinked \in DOMAIN ShChannels \cup {""} /\ ShMaxOps \in Nat /\ ShMaxFaults \in Nat

VARIABLES
  shServer,   \* [rows: user |-> flags, channel, min, link]
  shClient,   \* [members: user |-> record, mine, users, channel, min, link, open];
              \* mine: the flags of this user, which follow the news only
  shCalls,    \* operations under way: what is left of the requests of each
  shNews,     \* websocket messages under way
  shFetches,  \* the members are being fetched
  shUndo,     \* what undoes the last operation: <<[undo, was]>> or <<>>; was: the server
              \* before it, unless the other admin has been at work since
  shTokens,   \* tokens made so far
  shHist,     \* history: [apart, crossed, undone, kept, back]
  shOps, shFaults

shVars == <<shServer, shClient, shCalls, shNews, shFetches, shUndo, shTokens, shHist, shOps, shFaults>>

----------------------------------------------------------------------------
(***************************************************************************)
(* Roles.                                                                   *)
(***************************************************************************)
Role == {"admin", "editor", "commenter", "viewer"}
Minimum == {"", "viewer", "commenter", "editor"}
NoMember == [flags |-> {}, min |-> "", synthetic |-> FALSE]

\* HasPermissionToBoard: the minimum role is a flag like the others.
ServerFlags(flags, min) == IF flags = {} THEN {} ELSE flags \cup ({min} \ {""})
ServerCan(flags, min) ==
  LET all == ServerFlags(flags, min) IN
  (IF "admin" \in all THEN {"manage"} ELSE {}) \cup (IF all \cap {"admin", "editor"} # {} THEN {"cards"} ELSE {})
    \cup (IF all \cap {"admin", "editor", "commenter"} # {} THEN {"comment"} ELSE {}) \cup (IF all # {} THEN {"view"} ELSE {})

\* useHasPermissions
ClientCan(flags, min) ==
  IF flags = {} THEN {}
  ELSE (IF "admin" \in flags THEN {"manage"} ELSE {})
         \cup (IF flags \cap {"admin", "editor"} # {} \/ min = "editor" THEN {"cards"} ELSE {})
         \cup (IF flags \cap {"admin", "editor", "commenter"} # {} \/ min \in {"commenter", "editor"} THEN {"comment"} ELSE {})
         \cup {"view"}

\* The role that the row of a member shows.
RoleShown(member) ==
  IF "admin" \in member.flags THEN "admin"
  ELSE IF "editor" \in member.flags \/ member.min = "editor" THEN "editor"
  ELSE IF "commenter" \in member.flags \/ member.min = "commenter" THEN "commenter"
  ELSE "viewer"
CanAs(role) == ServerCan({role}, "")

\* The menu of a row has no role below the minimum.
RolesOffered(min) ==
  {"admin", "editor"} \cup (IF min \in {"", "viewer"} THEN {"viewer"} ELSE {})
    \cup (IF min \in {"", "viewer", "commenter"} THEN {"commenter"} ELSE {})

\* onUpdateBoardMember, and addUser with the minimum role
FlagsFor(role) == IF role = "admin" THEN {"admin", "editor"} ELSE {role}
HasAlready(flags, role) ==
  CASE role = "admin" -> "admin" \in flags
    [] role = "editor" -> "admin" \notin flags /\ "editor" \in flags
    [] role = "commenter" -> flags \cap {"admin", "editor"} = {} /\ "commenter" \in flags
    [] role = "viewer" -> flags \cap {"admin", "editor", "commenter"} = {} /\ "viewer" \in flags
FlagsToJoin(min) ==
  CASE min = "editor" -> {"editor", "commenter", "viewer"} [] min = "commenter" -> {"commenter", "viewer"} [] OTHER -> {"viewer"}

----------------------------------------------------------------------------
(***************************************************************************)
(* The server.                                                              *)
(***************************************************************************)
\* getMemberForBoard, getMembersForBoard: a row, or the linked channel.
InChannel(server, u) == server.channel # "" /\ u \in ShChannels[server.channel]
MemberAt(server, u) ==
  CASE server.rows[u] # {} -> [flags |-> server.rows[u], min |-> server.min, synthetic |-> FALSE]
    [] server.rows[u] = {} /\ InChannel(server, u) -> [flags |-> {"editor"}, min |-> "", synthetic |-> TRUE]
    [] OTHER -> NoMember
Can(server, u) == ServerCan(MemberAt(server, u).flags, MemberAt(server, u).min)
Allowed(server, u, what) == what \in Can(server, u)
OnlyAdmin(server, u) == \A v \in ShUsers \ {u} : "admin" \notin server.rows[v]

Told(u, flags, synthetic) == [about |-> "member", user |-> u, flags |-> flags, synthetic |-> synthetic]
BoardTold(server) == [about |-> "board", channel |-> server.channel, min |-> server.min]

\* What a request makes of the server, and the news of it.
NothingDone(server) == [server |-> server, news |-> <<>>]
Added(server, r) ==
  IF server.rows[r.user] # {} THEN NothingDone(server)
  ELSE [server |-> [server EXCEPT !.rows[r.user] = r.flags], news |-> <<Told(r.user, r.flags, FALSE)>>]
Updated(server, r) ==
  LET old == MemberAt(server, r.user).flags IN
  IF old = {} \/ ("admin" \in old \ r.flags /\ OnlyAdmin(server, r.user)) THEN NothingDone(server)
  ELSE [server |-> [server EXCEPT !.rows[r.user] = r.flags], news |-> <<Told(r.user, r.flags, FALSE)>>]
\* The one who was removed may be a member by the channel.
RemovedBlindly(server, r) ==
  LET left == [server EXCEPT !.rows[r.user] = {}] IN
  IF MemberAt(server, r.user).flags = {} \/ ("admin" \in server.rows[r.user] /\ OnlyAdmin(server, r.user)) THEN NothingDone(server)
  ELSE [server |-> left, news |-> <<Told(r.user, {}, FALSE)>>]
Removed(server, r) ==
  LET left == [server EXCEPT !.rows[r.user] = {}]
      now == MemberAt(left, r.user)
  IN
  IF MemberAt(server, r.user).flags = {} \/ ("admin" \in server.rows[r.user] /\ OnlyAdmin(server, r.user)) THEN NothingDone(server)
  ELSE [server |-> left, news |-> <<Told(r.user, now.flags, now.synthetic)>>]
SynthOf(server) == {u \in ShUsers : MemberAt(server, u).synthetic}
ToldOfAll(server, flags) ==
  LET of == SetToSeq(SynthOf(server)) IN [i \in DOMAIN of |-> Told(of[i], flags, flags # {})]

\* A patch of a board has the one field that changes.
NoBoardPatch == [field |-> "", to |-> ""]
BoardOf(it) == [channel |-> it.channel, min |-> it.min]
WithPatch(board, patch) ==
  CASE patch.field = "channel" -> [board EXCEPT !.channel = patch.to]
    [] patch.field = "min" -> [board EXCEPT !.min = patch.to]
    [] patch.field = "" -> board

\* PatchBoard: those who are members by a channel are told too.  Linking, and
\* going private or public, take a requester from the channel.
MayPatch(server, r) ==
  LET new == WithPatch(server, r.patch) IN
  new.channel # server.channel \/ (new.min = "") # (server.min = "") =>
    LET c == IF new.channel # "" THEN new.channel ELSE server.channel IN c # "" => r.by \in ShChannels[c]
PatchedBoard(server, r) ==
  LET new == WithPatch(server, r.patch) IN
  IF ~MayPatch(server, r) THEN NothingDone(server)
  ELSE [server |-> new,
        news |-> <<BoardTold(new)>> \o
                 (CASE r.patch.field # "channel" -> <<>>
                    [] r.patch.field = "channel" /\ new.channel # "" -> ToldOfAll(new, {"editor"})
                    [] OTHER -> ToldOfAll(server, {}))]
Refused(server, r) == ~Allowed(server, r.by, "manage") \/ (r.op = "patch" /\ ~MayPatch(server, r))
Served(server, r) ==
  IF ~Allowed(server, r.by, "manage") THEN NothingDone(server)
  ELSE CASE r.op = "add" -> Added(server, r) [] r.op = "update" -> Updated(server, r) [] r.op = "remove" -> Removed(server, r)
         [] r.op = "patch" -> PatchedBoard(server, r) [] r.op = "share" -> [server |-> [server EXCEPT !.link = r.link], news |-> <<>>]

----------------------------------------------------------------------------
(***************************************************************************)
(* Requests, answers and news.                                              *)
(***************************************************************************)
NoLink == [known |-> FALSE, on |-> FALSE, token |-> 0]
ShNoBoard == [channel |-> "", min |-> ""]

\* "after" is what the client does at the answer.
ShRequest(op, by, user, flags) ==
  [op |-> op, by |-> by, user |-> user, flags |-> flags, patch |-> NoBoardPatch, board |-> ShNoBoard, link |-> NoLink, after |-> ""]
PatchBoard(by, field, to) == [ShRequest("patch", by, by, {}) EXCEPT !.patch = [field |-> field, to |-> to]]
\* With the board that comes into the store: the one of the click, before or after it.
ShPutBoard(field, to, board) == [PatchBoard(ShMe, field, to) EXCEPT !.board = board, !.after = "put"]
SetSharing(link) == [ShRequest("share", ShMe, ShMe, {}) EXCEPT !.link = link]
GetSharing == ShRequest("load", ShMe, ShMe, {})

ShSettled == shCalls = <<>> /\ shNews = <<>> /\ ~shFetches
Rest(i) == IF Len(shCalls[i]) = 1 THEN RemoveAt(shCalls, i) ELSE [shCalls EXCEPT ![i] = Tail(@)]

\* The server executes the next request of an operation.  Where the client does
\* something at the answer this comes later, after the news perhaps; the link is
\* read by nothing but its own answer.
LinkRead(r) ==
  IF r.op = "load" THEN [shClient EXCEPT !.link = IF Allowed(shServer, ShMe, "manage") THEN shServer.link ELSE NoLink]
  ELSE shClient
Throws(r) == r.after = "put" /\ Refused(shServer, r)
ShSendNext ==
  \E i \in DOMAIN shCalls :
    LET r == Head(shCalls[i])
        done == IF r.op = "load" THEN NothingDone(shServer) ELSE Served(shServer, r)
    IN
    /\ r.op # "answer" /\ ~Throws(r)
    /\ shServer' = done.server /\ shNews' = shNews \o done.news
    /\ shCalls' = IF r.after = "" THEN Rest(i) ELSE [shCalls EXCEPT ![i] = <<[r EXCEPT !.op = "answer"]>>]
    /\ shClient' = LinkRead(r)
    /\ UNCHANGED <<shFetches, shUndo, shTokens, shHist, shOps, shFaults>>

\* mutator.updateBoard puts its board into the store, mutator.deleteBoardMember
\* takes the user out and, undone, back in.
Stored(r) ==
  CASE r.after = "put" -> [shClient EXCEPT !.channel = r.board.channel, !.min = r.board.min]
    [] r.after = "drop" -> [shClient EXCEPT !.users = @ \ {r.user}]
    [] r.after = "add" -> [shClient EXCEPT !.users = @ \cup {r.user}]
ShAnswer ==
  \E i \in DOMAIN shCalls :
    LET r == Head(shCalls[i]) IN
    /\ r.op = "answer"
    /\ shClient' = Stored(r) /\ shCalls' = Rest(i)
    /\ UNCHANGED <<shServer, shNews, shFetches, shUndo, shTokens, shHist, shOps, shFaults>>

\* patchBoard throws when it is refused: the store does not learn of it, and an
\* undo that throws hangs the undo manager.  What the user does after that is left out.
ShThrow ==
  \E i \in DOMAIN shCalls :
    /\ Head(shCalls[i]).op # "answer" /\ Throws(Head(shCalls[i]))
    /\ shCalls' = Rest(i) /\ shOps' = 0
    /\ UNCHANGED <<shServer, shClient, shNews, shFetches, shUndo, shTokens, shHist, shFaults>>

\* A request about the link fails: its answer is not looked at, and a link that
\* was not loaded counts as none.
FailNext ==
  /\ shFaults > 0 /\ shFaults' = shFaults - 1
  /\ \E i \in DOMAIN shCalls :
       LET r == Head(shCalls[i]) IN
       /\ r.op \in {"share", "load"} /\ shCalls' = Rest(i)
       /\ shClient' = IF r.op = "load" THEN [shClient EXCEPT !.link = NoLink] ELSE shClient
       /\ shHist' = IF r.op = "load" THEN [shHist EXCEPT !.kept = 0] ELSE shHist
  /\ UNCHANGED <<shServer, shNews, shFetches, shUndo, shTokens, shOps>>

\* incrementalBoardUpdate; and updateMembersEnsuringBoardsAndUsers, with
\* updateMembersHandler.  The news of a member do not have the minimum role.
\* Once this user is no member the board leaves the page.
ShGetNews ==
  /\ shNews # <<>> /\ shNews' = Tail(shNews)
  /\ LET n == Head(shNews) IN
     IF n.about = "board"
     THEN /\ shClient' = [shClient EXCEPT !.channel = n.channel, !.min = n.min]
          /\ shFetches' = TRUE
          /\ shHist' = [shHist EXCEPT !.crossed = @ /\ shCalls # <<>>]
     ELSE /\ shClient' = [shClient EXCEPT !.members[n.user] = [flags |-> n.flags, min |-> "", synthetic |-> n.synthetic],
                                          !.mine = IF n.user = ShMe THEN n.flags ELSE @,
                                          !.users = IF n.flags = {} THEN @ \ {n.user} ELSE @ \cup {n.user},
                                          !.open = @ /\ ~(n.user = ShMe /\ n.flags = {})]
          /\ UNCHANGED <<shFetches, shHist>>
  /\ UNCHANGED <<shServer, shCalls, shUndo, shTokens, shOps, shFaults>>

\* fetchBoardMembers; the list and the users are one request here.
FetchMembers ==
  /\ shFetches /\ shFetches' = FALSE
  /\ LET all == [u \in ShUsers |-> MemberAt(shServer, u)] IN
     shClient' = IF Allowed(shServer, ShMe, "view")
                 THEN [shClient EXCEPT !.members = all, !.users = {u \in ShUsers : all[u].flags # {}}]
                 ELSE shClient
  /\ UNCHANGED <<shServer, shCalls, shNews, shUndo, shTokens, shHist, shOps, shFaults>>

----------------------------------------------------------------------------
(***************************************************************************)
(* The dialog.                                                              *)
(***************************************************************************)
MayManage == shClient.open /\ "manage" \in ClientCan(shClient.mine, shClient.min)
Rows == {u \in shClient.users : shClient.members[u].flags # {} /\ ~shClient.members[u].synthetic}
IsLastAdmin == Cardinality({u \in ShUsers : "admin" \in shClient.members[u].flags}) < 2

Begin(requests, undo) ==
  /\ shOps > 0 /\ Len(shCalls) < 2 /\ shOps' = IF ShSettled THEN shOps - 1 ELSE 0
  /\ shCalls' = Append(shCalls, requests)
  /\ shUndo' = undo
  /\ shHist' = [shHist EXCEPT !.apart = @ \/ ~ShSettled, !.back = <<>>]
  /\ UNCHANGED <<shServer, shNews, shFetches, shFaults>>
Operate(do, back) ==
  /\ MayManage /\ UNCHANGED <<shClient, shTokens>>
  /\ Begin(<<do>>, <<[undo |-> back, was |-> IF shHist.crossed THEN <<>> ELSE <<shServer>>]>>)

AddUser ==
  \E u \in ShUsers :
    /\ shClient.members[u].flags = {} \/ shClient.members[u].synthetic
    /\ Operate(ShRequest("add", ShMe, u, FlagsToJoin(shClient.min)), ShRequest("remove", ShMe, u, {}))
UpdateMember ==
  \E u \in Rows, role \in Role :
    /\ role \in RolesOffered(shClient.min)
    /\ ~(u = ShMe /\ IsLastAdmin) /\ ~HasAlready(shClient.members[u].flags, role)
    /\ Operate(ShRequest("update", ShMe, u, FlagsFor(role)), ShRequest("update", ShMe, u, shClient.members[u].flags))
\* To undo, the member comes back as it was, and the user is read again.
FlagsBack(u) == shClient.members[u].flags
RemoveMember ==
  \E u \in Rows :
    /\ ~(u = ShMe /\ IsLastAdmin)
    /\ Operate([ShRequest("remove", ShMe, u, {}) EXCEPT !.after = "drop"],
               [ShRequest("add", ShMe, u, FlagsBack(u)) EXCEPT !.after = "add"])
\* TeamPermissionsRow; Link, and Unlink of ChannelPermissionsRow
BoardNow == BoardOf(shClient)
SetMinimum ==
  \E min \in Minimum \ {shClient.min} :
    Operate(ShPutBoard("min", min, [BoardNow EXCEPT !.min = min]), ShPutBoard("min", shClient.min, BoardNow))
LinkChannel ==
  \E c \in DOMAIN ShChannels \cup {""} :
    /\ c # shClient.channel
    /\ Operate(ShPutBoard("channel", c, [BoardNow EXCEPT !.channel = c]), ShPutBoard("channel", shClient.channel, BoardNow))

\* History: the board that an undo puts back misses what the other admin changed.
Crosses(r) == r.after = "put" /\ r.board # BoardOf(WithPatch(shServer, r.patch))
UndoShare ==
  /\ shUndo # <<>> /\ shClient.open /\ shCalls = <<>>
  /\ shOps > 0 /\ shOps' = IF ShSettled THEN shOps - 1 ELSE 0
  /\ shCalls' = <<<<shUndo[1].undo>>>> /\ shUndo' = <<>>
  /\ shHist' = [shHist EXCEPT !.apart = @ \/ ~ShSettled, !.undone = TRUE, !.crossed = @ \/ Crosses(shUndo[1].undo),
                              !.back = IF Allowed(shServer, ShMe, "manage") THEN shUndo[1].was ELSE <<>>]
  /\ UNCHANGED <<shServer, shClient, shNews, shFetches, shTokens, shFaults>>

\* The link: what the switch and the button change they change in the object
\* that is shown, then they send it and load it again.
LinkMadeAnew(on) == [known |-> TRUE, on |-> on, token |-> shTokens + 1]
LinkFor(on) == IF shClient.link.known THEN [shClient.link EXCEPT !.on = on] ELSE LinkMadeAnew(on)
LinkShown == shClient.open /\ shClient.link.known /\ shClient.link.on
SendLink(link) ==
  /\ MayManage
  /\ shClient' = IF shClient.link.known THEN [shClient EXCEPT !.link = link] ELSE shClient
  /\ shTokens' = IF link.token > shTokens THEN link.token ELSE shTokens
  /\ Begin(<<SetSharing(link), GetSharing>>, shUndo)
ShareChanged == SendLink(LinkFor(~LinkShown))
RegenerateToken ==
  /\ LinkShown /\ MayManage
  /\ LET link == [shClient.link EXCEPT !.token = shTokens + 1] IN
     /\ shOps > 0 /\ ShSettled /\ shOps' = shOps - 1 /\ shTokens' = shTokens + 1
     /\ shClient' = [shClient EXCEPT !.link = link]
     /\ shCalls' = <<<<SetSharing(link), GetSharing>>>>
     /\ shHist' = [shHist EXCEPT !.kept = 0, !.back = <<>>]
     /\ UNCHANGED <<shServer, shNews, shFetches, shUndo, shFaults>>
CopyLink ==
  /\ LinkShown /\ ShSettled /\ shHist.kept # shClient.link.token
  /\ shHist' = [shHist EXCEPT !.kept = shClient.link.token]
  /\ UNCHANGED <<shServer, shClient, shCalls, shNews, shFetches, shUndo, shTokens, shOps, shFaults>>

\* The other admin changes or removes a member, this user perhaps, or the
\* minimum role, with the same dialog.
AnnWorks ==
  LET undo == [i \in DOMAIN shUndo |-> [shUndo[i] EXCEPT !.was = <<>>]]
      can(r) == Allowed(shServer, ShAnn, "manage") /\ Begin(<<r>>, undo) /\ UNCHANGED <<shClient, shTokens>>
  IN
  \/ \E u \in ShUsers, role \in RolesOffered(shServer.min) :
       shServer.rows[u] # {} /\ ~HasAlready(shServer.rows[u], role) /\ can(ShRequest("update", ShAnn, u, FlagsFor(role)))
  \/ \E u \in ShUsers : shServer.rows[u] # {} /\ can(ShRequest("remove", ShAnn, u, {}))
  \/ \E min \in Minimum \ {shServer.min} : can(PatchBoard(ShAnn, "min", min))

ShInit ==
  LET rows == [u \in ShUsers |-> IF u \in {ShMe, ShAnn} THEN {"admin", "editor"} ELSE {}]
      server == [rows |-> rows, channel |-> ShLinked, min |-> "", link |-> NoLink]
      members == [u \in ShUsers |-> MemberAt(server, u)]
  IN
  /\ shServer = server
  /\ shClient = [members |-> members, mine |-> members[ShMe].flags, users |-> {u \in ShUsers : members[u].flags # {}},
                 channel |-> ShLinked, min |-> "", link |-> NoLink, open |-> TRUE]
  /\ shCalls = <<>> /\ shNews = <<>> /\ shFetches = FALSE /\ shUndo = <<>> /\ shTokens = 0
  /\ shHist = [apart |-> FALSE, crossed |-> FALSE, undone |-> FALSE, kept |-> 0, back |-> <<>>]
  /\ shOps = ShMaxOps /\ shFaults = ShMaxFaults

InDialog == AddUser \/ UpdateMember \/ RemoveMember \/ SetMinimum \/ LinkChannel \/ ShareChanged \/ RegenerateToken \/ CopyLink
ShNext ==
  \/ InDialog \/ UndoShare \/ AnnWorks
  \/ ShSendNext \/ ShAnswer \/ ShThrow \/ FailNext \/ ShGetNews \/ FetchMembers
ShSpec == ShInit /\ [][ShNext]_shVars

----------------------------------------------------------------------------
(***************************************************************************)
(* Properties.                                                              *)
(***************************************************************************)
ShTypeOK ==
  /\ shServer.rows \in [ShUsers -> SUBSET Role] /\ shServer.channel \in DOMAIN ShChannels \cup {""} /\ shServer.min \in Minimum
  /\ shClient.channel \in DOMAIN ShChannels \cup {""} /\ shClient.min \in Minimum /\ shClient.mine \subseteq Role /\ shClient.users \subseteq ShUsers
  /\ shOps \in 0..ShMaxOps /\ shFaults \in 0..ShMaxFaults /\ Len(shCalls) <= 2

Alone == ShSettled /\ ~shHist.apart /\ shClient.open

\* When each operation was let end before the next, the dialog lists the members
\* that the server has, those by the channel as such, with a row for each other
\* one, and it knows the channel and the minimum role; also after a member of
\* the channel was added and removed again.  (An undo puts the board of the click
\* back.  If the other admin has changed it since, and if the news of the undo come
\* before its answer, the store is wrong until the next news of the board.)
MembersFollow ==
  Alone =>
    /\ \A u \in ShUsers :
         LET m == MemberAt(shServer, u) IN shClient.members[u].flags = m.flags /\ shClient.members[u].synthetic = m.synthetic
    /\ Rows = {u \in ShUsers : shServer.rows[u] # {}}
    /\ ~shHist.crossed => BoardOf(shClient) = BoardOf(shServer)

\* The role that a row shows is the one that the server applies, and the dialog
\* offers this user what the server allows.  (Undone changes of members are
\* left out: their news lack the minimum role.)
RolesAgree ==
  Alone /\ ~shHist.crossed =>
    /\ ClientCan(shClient.mine, shClient.min) = Can(shServer, ShMe)
    /\ ~shHist.undone => \A u \in Rows : CanAs(RoleShown(shClient.members[u])) = Can(shServer, u)

\* Undo brings rows, minimum role and channel back, if this user may still do it.
MembershipUndone ==
  Alone /\ shHist.back # <<>> =>
    LET was == shHist.back[1] IN shServer.rows = was.rows /\ shServer.channel = was.channel /\ shServer.min = was.min

\* A public link that is shown works; and one that was copied has the token of
\* the board, through switching off and on, until the token is made anew or the
\* link could not be loaded.
LinkWorks ==
  /\ Alone /\ LinkShown => shServer.link = shClient.link
  /\ ~shHist.apart /\ shHist.kept # 0 => shServer.link.token = shHist.kept
=============================================================================
