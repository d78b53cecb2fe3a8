---------------------------- MODULE SharingProofs ----------------------------
(***************************************************************************)
(* Lemmas about the dialog "Share board" by itself, for any users, channels *)
(* and numbers of operations.  The theorem is in WebAppProofs.              *)
(***************************************************************************)
EXTENDS Sharing, FiniteSetTheorems, SequenceTheorems, TLAPS

----------------------------------------------------------------------------
(***************************************************************************)
(* The dialog "Share board": SharingAgrees.                                 *)
(*                                                                          *)
(* Of operations that wait for each other one is under way, with a request  *)
(* or an answer.  Its news say what the server has, and of every member     *)
(* either the record is that of the server, or news of it come, or the      *)
(* members will be fetched.  What comes into the store at the answer is the *)
(* board that the server made, unless an undo crossed the other admin.  The *)
(* request that undoes an operation leads back to the board before it.      *)
(***************************************************************************)
ShChans    == DOMAIN ShChannels \cup {""}
ShFlags    == SUBSET Role
ShLinks    == [known : BOOLEAN, on : BOOLEAN, token : Nat]
ShServers  == [rows : [ShUsers -> ShFlags], channel : ShChans, min : Minimum, link : ShLinks]
ShMembers  == [flags : ShFlags, min : Minimum, synthetic : BOOLEAN]
ShClients  == [members : [ShUsers -> ShMembers], mine : ShFlags, users : SUBSET ShUsers, channel : ShChans,
               min : Minimum, link : ShLinks, open : BOOLEAN]
ShPatches  == [field : {"channel"}, to : ShChans] \cup [field : {"min"}, to : Minimum] \cup {NoBoardPatch}
ShBoards   == [channel : ShChans, min : Minimum]
ShOpNames  == {"add", "update", "remove", "patch", "share", "load", "answer"}
ShAfters   == {"", "put", "drop", "add"}
ShReqRecs  == [op : ShOpNames, by : {ShMe, ShAnn}, user : ShUsers, flags : ShFlags, patch : ShPatches, board : ShBoards,
               link : ShLinks, after : ShAfters]
ShNewsRecs == [about : {"member"}, user : ShUsers, flags : ShFlags, synthetic : BOOLEAN]
                \cup [about : {"board"}, channel : ShChans, min : Minimum]
ShUndos    == [undo : ShReqRecs, was : Seq(ShServers)]
ShPasts    == [apart : BOOLEAN, crossed : BOOLEAN, undone : BOOLEAN, kept : Nat, back : Seq(ShServers)]

\* What no request asks: a member without flags, a link of another user, or that
\* the other admin links a channel.
Sensible(r) ==
  /\ r.op \in {"add", "update"} => r.flags # {}
  /\ r.op \in {"share", "load"} => r.by = ShMe
  /\ r.op = "share" => r.link.known
  /\ r.by = ShAnn => r.patch.field # "channel"
  /\ r.after = "drop" => r.op \in {"remove", "answer"}
  /\ r.op \in {"share", "load"} => r.after = ""
  /\ r.after = "put" => r.op \in {"patch", "answer"}
  /\ r.op = "answer" => r.after # ""

\* A call is one request, or sends the link and loads it again.
OneCall(c) == Len(c) = 1 /\ c[1].op # "share"
LinkCall(c) == Len(c) = 2 /\ c[1].op = "share" /\ c[2].op = "load"

CallsFit ==
  /\ shCalls \in Seq(Seq(ShReqRecs)) /\ Len(shCalls) <= 2
  /\ \A i \in DOMAIN shCalls : \A j \in DOMAIN shCalls[i] : Sensible(shCalls[i][j])
  /\ \A i \in DOMAIN shCalls : OneCall(shCalls[i]) \/ LinkCall(shCalls[i])
Undoing(r) == r.by = ShMe /\ r.op \notin {"share", "load", "answer"} /\ Sensible(r) /\ r.after # "drop"
UndoFits ==
  /\ shUndo \in Seq(ShUndos)
  /\ \A i \in DOMAIN shUndo : Undoing(shUndo[i].undo)

ShTypes ==
  /\ shServer \in ShServers /\ shClient \in ShClients
  /\ CallsFit
  /\ shNews \in Seq(ShNewsRecs) /\ shFetches \in BOOLEAN
  /\ UndoFits
  /\ shTokens \in Nat /\ shHist \in ShPasts /\ shOps \in 0..ShMaxOps /\ shFaults \in 0..ShMaxFaults

\* Flags that read the same with the minimum role and without it.
ReadAlike(flags, min) == CanAs(RoleShown([flags |-> flags, min |-> "", synthetic |-> FALSE])) = ServerCan(flags, min)

\* What a request finds when it is sent, and what holds at its answer.
Promised(r) ==
  /\ r.after = "drop" \/ r.op \in {"share", "load"} => Allowed(shServer, r.by, "manage")
  /\ r.after = "drop" => shServer.rows[r.user] # {} /\ ~("admin" \in shServer.rows[r.user] /\ OnlyAdmin(shServer, r.user))
  /\ r.after = "put" /\ ~shHist.crossed => r.board = BoardOf(WithPatch(shServer, r.patch))
  /\ ~shHist.undone /\ r.op \in {"add", "update"} => ReadAlike(r.flags, shServer.min)
ShareHolds(r) ==
  /\ r.after = "drop" => shServer.rows[r.user] = {}
  /\ r.after = "put" /\ ~shHist.crossed => r.board = BoardOf(shServer)
ShareAsks == \E i \in DOMAIN shCalls : \E j \in DOMAIN shCalls[i] : shCalls[i][j].op # "answer"

CallsInv ==
  /\ Len(shCalls) <= 1
  /\ ShareAsks => shNews = <<>> /\ ~shFetches
  /\ \A i \in DOMAIN shCalls : \A j \in DOMAIN shCalls[i] :
       IF shCalls[i][j].op = "answer" THEN ShareHolds(shCalls[i][j]) ELSE Promised(shCalls[i][j])
  /\ shHist.crossed => shHist.undone

\* News of the server's state.
IsTrue(n) ==
  IF n.about = "board" THEN n.channel = shServer.channel /\ n.min = shServer.min
  ELSE LET m == MemberAt(shServer, n.user) IN
       /\ n.flags = m.flags /\ n.synthetic = m.synthetic
       /\ ~shHist.undone /\ n.flags # {} /\ ~n.synthetic => ReadAlike(n.flags, shServer.min)
NewsAbout(u) == \E i \in DOMAIN shNews : shNews[i].about = "member" /\ shNews[i].user = u
NewsOfBoard == \E i \in DOMAIN shNews : shNews[i].about = "board"
ToFetch == shFetches \/ NewsOfBoard

NewsInv ==
  /\ \A i \in DOMAIN shNews : IsTrue(shNews[i])
  /\ ToFetch => ~NewsAbout(ShMe)

\* The records of the client, and this user's flags.
Matches(u) ==
  LET m == MemberAt(shServer, u) IN
  /\ shClient.members[u].flags = m.flags /\ shClient.members[u].synthetic = m.synthetic
  /\ m.flags # {} /\ ~m.synthetic => u \in shClient.users
  /\ ~shHist.undone /\ m.flags # {} /\ ~m.synthetic => CanAs(RoleShown(shClient.members[u])) = ServerCan(m.flags, shServer.min)
MirrorInv ==
  shClient.open =>
    /\ \A u \in ShUsers : Matches(u) \/ NewsAbout(u) \/ ToFetch
    /\ shClient.mine = MemberAt(shServer, ShMe).flags \/ NewsAbout(ShMe)
    /\ ~shHist.crossed => (shClient.channel = shServer.channel /\ shClient.min = shServer.min) \/ NewsOfBoard
    /\ shClient.mine # {}

Linking == \E i \in DOMAIN shCalls : \E j \in DOMAIN shCalls[i] : shCalls[i][j].op \in {"share", "load"}
ShareLinkInv ==
  /\ shClient.link.known /\ ~Linking => shClient.link = shServer.link
  /\ shHist.kept # 0 =>
       /\ shClient.link.known /\ shServer.link.known
       /\ shClient.link.token = shHist.kept /\ shServer.link.token = shHist.kept
       /\ \A i \in DOMAIN shCalls : \A j \in DOMAIN shCalls[i] :
            shCalls[i][j].op = "share" => shCalls[i][j].link.token = shHist.kept

\* What the request under way makes of the board.
SameBoard(s, t) == s.rows = t.rows /\ s.channel = t.channel /\ s.min = t.min
Outcome(server, r) == IF r.op \in {"load", "answer"} THEN server ELSE Served(server, r).server
Coming == IF shCalls = <<>> THEN shServer ELSE Outcome(shServer, shCalls[1][1])
UndoneInv ==
  /\ \A i \in DOMAIN shUndo : \A j \in DOMAIN shUndo[i].was :
       Allowed(Coming, ShMe, "manage") => SameBoard(Served(Coming, shUndo[i].undo).server, shUndo[i].was[j])
  /\ \A j \in DOMAIN shHist.back : SameBoard(Coming, shHist.back[j])

ShInv == ShTypes /\ (~shHist.apart => CallsInv /\ NewsInv /\ MirrorInv /\ ShareLinkInv /\ UndoneInv)

\* Which permissions the server gives.
LEMMA ServerCanOf ==
  ASSUME NEW flags \in ShFlags, NEW min \in Minimum, NEW w
  PROVE  w \in ServerCan(flags, min) <=>
           /\ flags # {}
           /\ \/ w = "manage" /\ "admin" \in flags
              \/ w = "cards" /\ ("admin" \in flags \/ "editor" \in flags \/ min = "editor")
              \/ w = "comment" /\ ("admin" \in flags \/ "editor" \in flags \/ "commenter" \in flags \/ min = "editor" \/ min = "commenter")
              \/ w = "view"
<1> DEFINE all == ServerFlags(flags, min)
<1>1. flags = {} => all = {}
  BY DEF ServerFlags
<1>2. flags # {} => all # {} /\ \A x : x \in all <=> x \in flags \/ (x = min /\ x # "")
  BY DEF ServerFlags
<1>3. \A x \in flags : x = "admin" \/ x = "editor" \/ x = "commenter" \/ x = "viewer"
  BY DEF ShFlags, Role
<1>4. min = "" \/ min = "viewer" \/ min = "commenter" \/ min = "editor"
  BY DEF Minimum
<1>5. w \in ServerCan(flags, min) <=>
        \/ w = "manage" /\ "admin" \in all
        \/ w = "cards" /\ ("admin" \in all \/ "editor" \in all)
        \/ w = "comment" /\ ("admin" \in all \/ "editor" \in all \/ "commenter" \in all)
        \/ w = "view" /\ all # {}
  <2> HIDE DEF all
  <2>1. ServerCan(flags, min) =
          (IF "admin" \in all THEN {"manage"} ELSE {}) \cup (IF all \cap {"admin", "editor"} # {} THEN {"cards"} ELSE {})
            \cup (IF all \cap {"admin", "editor", "commenter"} # {} THEN {"comment"} ELSE {}) \cup (IF all # {} THEN {"view"} ELSE {})
    BY DEF ServerCan, all
  <2> QED BY <2>1
<1> HIDE DEF all
<1>6. CASE flags = {}
  BY <1>1, <1>5, <1>6
<1>7. CASE flags # {}
  <2>0. min # "admin" /\ (min = "editor" => min # "") /\ (min = "commenter" => min # "")
    BY <1>4
  <2>3. \A x : x \in all <=> x \in flags \/ (x = min /\ x # "")
    BY <1>2, <1>7
  <2>1. /\ "admin" \in all <=> "admin" \in flags
        /\ "editor" \in all <=> "editor" \in flags \/ min = "editor"
        /\ "commenter" \in all <=> "commenter" \in flags \/ min = "commenter"
    BY <2>0, <2>3
  <2>2. all # {}
    BY <1>2, <1>7
  <2> HIDE <1>2, <1>4
  <2> QED BY <2>1, <2>2, <1>5, <1>7
<1> QED BY <1>6, <1>7

\* Those that the hooks of the client assume.
LEMMA ClientCanOf ==
  ASSUME NEW flags \in ShFlags, NEW min \in Minimum, NEW w
  PROVE  w \in ClientCan(flags, min) <=>
           /\ flags # {}
           /\ \/ w = "manage" /\ "admin" \in flags
              \/ w = "cards" /\ ("admin" \in flags \/ "editor" \in flags \/ min = "editor")
              \/ w = "comment" /\ ("admin" \in flags \/ "editor" \in flags \/ "commenter" \in flags \/ min = "editor" \/ min = "commenter")
              \/ w = "view"
BY DEF ClientCan

LEMMA CanTheSame ==
  ASSUME NEW flags \in ShFlags, NEW min \in Minimum
  PROVE  ClientCan(flags, min) = ServerCan(flags, min)
<1>1. \A w : w \in ClientCan(flags, min) <=> w \in ServerCan(flags, min)
  BY ClientCanOf, ServerCanOf
<1> QED BY <1>1

\* An editor by the channel has no minimum role, and needs none.
LEMMA EditorCan ==
  ASSUME NEW min \in Minimum
  PROVE  ServerCan({"editor"}, min) = ServerCan({"editor"}, "")
<1>1. {"editor"} \in ShFlags /\ "" \in Minimum
  BY DEF ShFlags, Role, Minimum
<1>2. \A w : w \in ServerCan({"editor"}, min) <=> w \in ServerCan({"editor"}, "")
  BY <1>1, ServerCanOf
<1> QED BY <1>2

\* What the role that a row shows permits.
LEMMA CanAsOf ==
  ASSUME NEW flags \in ShFlags, NEW min \in Minimum, NEW synthetic, NEW w
  PROVE  w \in CanAs(RoleShown([flags |-> flags, min |-> min, synthetic |-> synthetic])) <=>
           \/ w = "manage" /\ "admin" \in flags
           \/ w = "cards" /\ ("admin" \in flags \/ "editor" \in flags \/ min = "editor")
           \/ w = "comment" /\ ("admin" \in flags \/ "editor" \in flags \/ "commenter" \in flags \/ min = "editor" \/ min = "commenter")
           \/ w = "view"
<1> DEFINE role == RoleShown([flags |-> flags, min |-> min, synthetic |-> synthetic])
<1>1. role = IF "admin" \in flags THEN "admin" ELSE IF "editor" \in flags \/ min = "editor" THEN "editor"
             ELSE IF "commenter" \in flags \/ min = "commenter" THEN "commenter" ELSE "viewer"
  BY DEF RoleShown
<1>2. CanAs(role) = ServerCan({role}, "")
  BY DEF CanAs
<1> HIDE DEF role
<1>3. {role} \in ShFlags /\ "" \in Minimum /\ {role} # {}
  BY <1>1 DEF ShFlags, Role, Minimum
<1>4. w \in ServerCan({role}, "") <=>
        \/ w = "manage" /\ role = "admin"
        \/ w = "cards" /\ (role = "admin" \/ role = "editor")
        \/ w = "comment" /\ (role = "admin" \/ role = "editor" \/ role = "commenter")
        \/ w = "view"
  <2> DEFINE f == {role}
             none == ""
  <2>1. f \in ShFlags /\ none \in Minimum /\ f # {} /\ none # "editor" /\ none # "commenter" /\ \A x : x \in f <=> x = role
    BY <1>3
  <2> HIDE DEF f, none
  <2>2. w \in ServerCan(f, none) <=>
          \/ w = "manage" /\ role = "admin"
          \/ w = "cards" /\ (role = "admin" \/ role = "editor")
          \/ w = "comment" /\ (role = "admin" \/ role = "editor" \/ role = "commenter")
          \/ w = "view"
    BY <2>1, ServerCanOf
  <2> QED BY <2>2 DEF f, none
<1> QED BY <1>1, <1>2, <1>4 DEF role

\* The row of a member that was loaded shows the role that the server applies.
LEMMA LoadedReads ==
  ASSUME NEW flags \in ShFlags, NEW min \in Minimum, NEW synthetic, flags # {}
  PROVE  CanAs(RoleShown([flags |-> flags, min |-> min, synthetic |-> synthetic])) = ServerCan(flags, min)
<1>1. \A w : w \in CanAs(RoleShown([flags |-> flags, min |-> min, synthetic |-> synthetic])) <=> w \in ServerCan(flags, min)
  BY CanAsOf, ServerCanOf
<1> QED BY <1>1

\* Flags that are not below the minimum role read the same without it.
LEMMA AboveReads ==
  ASSUME NEW flags \in ShFlags, NEW min \in Minimum, flags # {},
         min = "editor" => "admin" \in flags \/ "editor" \in flags,
         min = "commenter" => "admin" \in flags \/ "editor" \in flags \/ "commenter" \in flags
  PROVE  ReadAlike(flags, min)
<1> DEFINE none == ""
           as == CanAs(RoleShown([flags |-> flags, min |-> none, synthetic |-> FALSE]))
<1>1. none \in Minimum /\ none # "editor" /\ none # "commenter"
  BY DEF Minimum
<1> HIDE DEF none
<1>2. ASSUME NEW w
      PROVE  w \in as <=> w \in ServerCan(flags, min)
  BY <1>1, CanAsOf, ServerCanOf
<1>3. as = ServerCan(flags, min)
  BY <1>2
<1> QED BY <1>3 DEF ReadAlike, none

\* So do those of the roles that a row offers,
LEMMA OfferedReads ==
  ASSUME NEW min \in Minimum, NEW role \in RolesOffered(min)
  PROVE  FlagsFor(role) \in ShFlags /\ FlagsFor(role) # {} /\ ReadAlike(FlagsFor(role), min)
<1>1. role \in Role
  BY DEF RolesOffered, Role
<1>2. FlagsFor(role) \in ShFlags /\ FlagsFor(role) # {} /\ role \in FlagsFor(role)
  BY <1>1 DEF FlagsFor, ShFlags, Role
<1>3. min = "editor" => role = "admin" \/ role = "editor"
  BY DEF RolesOffered
<1>4. min = "commenter" => role = "admin" \/ role = "editor" \/ role = "commenter"
  BY DEF RolesOffered
<1> QED BY <1>2, <1>3, <1>4, AboveReads

\* and those of a new member, who is no admin.
LEMMA JoinReads ==
  ASSUME NEW min \in Minimum
  PROVE  FlagsToJoin(min) \in ShFlags /\ FlagsToJoin(min) # {} /\ ReadAlike(FlagsToJoin(min), min) /\ "admin" \notin FlagsToJoin(min)
<1>1. FlagsToJoin(min) \in ShFlags /\ FlagsToJoin(min) # {} /\ "admin" \notin FlagsToJoin(min)
  BY DEF FlagsToJoin, ShFlags, Role, Minimum
<1>2. min = "editor" => "editor" \in FlagsToJoin(min)
  BY DEF FlagsToJoin
<1>3. min = "commenter" => "commenter" \in FlagsToJoin(min)
  BY DEF FlagsToJoin
<1> QED BY <1>1, <1>2, <1>3, AboveReads

\* A member is one by a row or by the channel.
LEMMA MemberOf ==
  ASSUME NEW s \in ShServers, NEW u \in ShUsers
  PROVE  /\ MemberAt(s, u) \in ShMembers
         /\ s.rows[u] \in ShFlags
         /\ s.rows[u] # {} => MemberAt(s, u) = [flags |-> s.rows[u], min |-> s.min, synthetic |-> FALSE]
         /\ s.rows[u] = {} /\ InChannel(s, u) => MemberAt(s, u) = [flags |-> {"editor"}, min |-> "", synthetic |-> TRUE]
         /\ s.rows[u] = {} /\ ~InChannel(s, u) => MemberAt(s, u) = NoMember
         /\ MemberAt(s, u).synthetic => s.rows[u] = {} /\ InChannel(s, u) /\ MemberAt(s, u).flags = {"editor"}
         /\ MemberAt(s, u).flags # {} /\ ~MemberAt(s, u).synthetic => MemberAt(s, u).flags = s.rows[u]
         /\ "admin" \in MemberAt(s, u).flags <=> "admin" \in s.rows[u]
<1> DEFINE none == ""
<1>1. s.rows[u] \in ShFlags /\ s.min \in Minimum /\ none \in Minimum
  BY DEF ShServers, Minimum
<1>2. {"editor"} \in ShFlags /\ {} \in ShFlags
  BY DEF ShFlags, Role
<1>3. MemberAt(s, u) = CASE s.rows[u] # {} -> [flags |-> s.rows[u], min |-> s.min, synthetic |-> FALSE]
                         [] s.rows[u] = {} /\ InChannel(s, u) -> [flags |-> {"editor"}, min |-> none, synthetic |-> TRUE]
                         [] OTHER -> [flags |-> {}, min |-> none, synthetic |-> FALSE]
  BY DEF MemberAt, NoMember
<1>4. NoMember = [flags |-> {}, min |-> none, synthetic |-> FALSE]
  BY DEF NoMember
<1>5. {"editor"} # {} /\ "admin" \notin {"editor"}
  OBVIOUS
<1> HIDE DEF none
<1>6. ASSUME s.rows[u] # {}
      PROVE  MemberAt(s, u) = [flags |-> s.rows[u], min |-> s.min, synthetic |-> FALSE]
  BY <1>3, <1>6, Zenon
<1>7. ASSUME s.rows[u] = {}, InChannel(s, u)
      PROVE  MemberAt(s, u) = [flags |-> {"editor"}, min |-> none, synthetic |-> TRUE]
  BY <1>3, <1>7, Zenon
<1>8. ASSUME s.rows[u] = {}, ~InChannel(s, u)
      PROVE  MemberAt(s, u) = [flags |-> {}, min |-> none, synthetic |-> FALSE]
  BY <1>3, <1>8, Zenon
<1> DEFINE m == MemberAt(s, u)
<1> HIDE DEF m
<1>9. CASE s.rows[u] # {}
  <2>1. m = [flags |-> s.rows[u], min |-> s.min, synthetic |-> FALSE]
    BY <1>6, <1>9 DEF m
  <2>2. m \in ShMembers /\ m.flags = s.rows[u] /\ m.synthetic = FALSE
    BY <2>1, <1>1 DEF ShMembers
  <2> QED BY <2>1, <2>2, <1>1, <1>9, Zenon DEF m
<1>10. CASE s.rows[u] = {} /\ InChannel(s, u)
  <2>1. m = [flags |-> {"editor"}, min |-> none, synthetic |-> TRUE]
    BY <1>7, <1>10 DEF m
  <2>2. m \in ShMembers /\ m.flags = {"editor"} /\ m.synthetic = TRUE
    BY <2>1, <1>1, <1>2 DEF ShMembers
  <2> QED BY <2>1, <2>2, <1>1, <1>5, <1>10, Zenon DEF m, none
<1>11. CASE s.rows[u] = {} /\ ~InChannel(s, u)
  <2>1. m = [flags |-> {}, min |-> none, synthetic |-> FALSE]
    BY <1>8, <1>11 DEF m
  <2>2. m \in ShMembers /\ m.flags = {} /\ m.synthetic = FALSE
    BY <2>1, <1>1, <1>2 DEF ShMembers
  <2>3. "admin" \notin {}
    OBVIOUS
  <2> QED BY <2>1, <2>2, <2>3, <1>1, <1>4, <1>11, Zenon DEF m
<1> QED BY <1>9, <1>10, <1>11

\* Who manages the board has a row of an admin.
LEMMA ManagerOf ==
  ASSUME NEW s \in ShServers, NEW u \in ShUsers
  PROVE  /\ Allowed(s, u, "manage") <=> "admin" \in s.rows[u]
         /\ Allowed(s, u, "view") <=> MemberAt(s, u).flags # {}
         /\ Can(s, u) = ServerCan(MemberAt(s, u).flags, s.min)
<1>1. /\ MemberAt(s, u) \in ShMembers /\ s.min \in Minimum
      /\ "admin" \in MemberAt(s, u).flags <=> "admin" \in s.rows[u]
  BY MemberOf DEF ShServers
<1>2. MemberAt(s, u).flags \in ShFlags /\ MemberAt(s, u).min \in Minimum
  BY <1>1 DEF ShMembers
<1>3. /\ "manage" \in ServerCan(MemberAt(s, u).flags, MemberAt(s, u).min) <=> "admin" \in MemberAt(s, u).flags
      /\ "view" \in ServerCan(MemberAt(s, u).flags, MemberAt(s, u).min) <=> MemberAt(s, u).flags # {}
  BY <1>2, ServerCanOf
<1>4. ServerCan(MemberAt(s, u).flags, MemberAt(s, u).min) = ServerCan(MemberAt(s, u).flags, s.min)
  <2>1. CASE s.rows[u] # {}
    <3>1. MemberAt(s, u) = [flags |-> s.rows[u], min |-> s.min, synthetic |-> FALSE]
      BY <2>1, MemberOf
    <3>2. MemberAt(s, u).min = s.min
      BY <3>1
    <3> QED BY <3>2, Zenon
  <2>2. CASE s.rows[u] = {} /\ InChannel(s, u)
    <3> DEFINE none == ""
    <3>1. MemberAt(s, u) = [flags |-> {"editor"}, min |-> none, synthetic |-> TRUE]
      BY <2>2, MemberOf
    <3>3. ServerCan({"editor"}, s.min) = ServerCan({"editor"}, none)
      BY <1>1, EditorCan
    <3> HIDE DEF none
    <3>2. MemberAt(s, u).flags = {"editor"} /\ MemberAt(s, u).min = none
      BY <3>1
    <3> QED BY <3>2, <3>3, Zenon
  <2>3. CASE s.rows[u] = {} /\ ~InChannel(s, u)
    <3>1. MemberAt(s, u).flags = {}
      BY <2>3, MemberOf DEF NoMember
    <3>2. \A min : ServerCan({}, min) = {}
      BY DEF ServerCan, ServerFlags
    <3> QED BY <3>1, <3>2, Zenon
  <2> QED BY <2>1, <2>2, <2>3
<1> QED BY <1>1, <1>3, <1>4 DEF Allowed, Can

\* The set of those who are told is put in some order.
LEMMA InSomeOrder ==
  ASSUME NEW S, IsFiniteSet(S)
  PROVE  SetToSeq(S) \in Seq(S)
<1>1. Cardinality(S) \in Nat /\ ExistsBijection(1..Cardinality(S), S)
  BY FS_CardinalityType
<1>2. PICK f \in [1..Cardinality(S) -> S] : IsInjective(f)
  BY <1>1 DEF ExistsBijection, Bijection, Injection, IsInjective
<1>3. SetToSeq(S) \in [1..Cardinality(S) -> S]
  BY <1>2 DEF SetToSeq
<1> QED BY <1>1, <1>3

\* One row of the table.
WithRow(s, u, flags) == [s EXCEPT !.rows[u] = flags]

LEMMA RowWritten ==
  ASSUME NEW s \in ShServers, NEW u \in ShUsers, NEW x \in ShFlags
  PROVE  LET t == WithRow(s, u, x) IN
         /\ t \in ShServers /\ t.rows[u] = x /\ \A v \in ShUsers : v # u => t.rows[v] = s.rows[v]
         /\ t.channel = s.channel /\ t.min = s.min /\ t.link = s.link
         /\ \A v \in ShUsers : v # u => MemberAt(t, v) = MemberAt(s, v)
<1> DEFINE t == WithRow(s, u, x)
<1>1. /\ t \in ShServers /\ t.rows[u] = x /\ \A v \in ShUsers : v # u => t.rows[v] = s.rows[v]
      /\ t.channel = s.channel /\ t.min = s.min /\ t.link = s.link
  BY DEF WithRow, ShServers
<1> HIDE DEF t
<1>2. \A v \in ShUsers : InChannel(t, v) <=> InChannel(s, v)
  BY <1>1 DEF InChannel
<1>3. ASSUME NEW v \in ShUsers, v # u
      PROVE  MemberAt(t, v) = MemberAt(s, v)
  <2>1. t.rows[v] = s.rows[v] /\ t.min = s.min /\ (InChannel(t, v) <=> InChannel(s, v))
    BY <1>1, <1>2, <1>3
  <2>2. CASE s.rows[v] # {}
    <3>1. MemberAt(s, v) = [flags |-> s.rows[v], min |-> s.min, synthetic |-> FALSE]
      BY <2>2, MemberOf
    <3>2. MemberAt(t, v) = [flags |-> t.rows[v], min |-> t.min, synthetic |-> FALSE]
      BY <1>1, <2>1, <2>2, MemberOf
    <3> QED BY <2>1, <3>1, <3>2
  <2>3. CASE s.rows[v] = {} /\ InChannel(s, v)
    <3> DEFINE m == [flags |-> {"editor"}, min |-> "", synthetic |-> TRUE]
    <3>1. s.rows[v] = {} /\ InChannel(s, v) => MemberAt(s, v) = m
      BY MemberOf, Zenon
    <3>2. t.rows[v] = {} /\ InChannel(t, v) => MemberAt(t, v) = m
      BY <1>1, MemberOf, Zenon
    <3> HIDE DEF m
    <3> QED BY <2>1, <2>3, <3>1, <3>2, Zenon
  <2>4. CASE s.rows[v] = {} /\ ~InChannel(s, v)
    <3>1. MemberAt(s, v) = NoMember
      BY <2>4, MemberOf, Zenon
    <3>2. t.rows[v] = {} /\ ~InChannel(t, v) => MemberAt(t, v) = NoMember
      BY <1>1, MemberOf, Zenon
    <3> QED BY <2>1, <2>4, <3>1, <3>2, Zenon
  <2> QED BY <2>2, <2>3, <2>4
<1> QED BY <1>1, <1>3 DEF t

LEMMA Patchwork ==
  ASSUME NEW s \in ShServers, NEW p \in ShPatches
  PROVE  LET t == WithPatch(s, p) IN
         /\ t \in ShServers /\ t.rows = s.rows /\ t.link = s.link
         /\ t.channel = (IF p.field = "channel" THEN p.to ELSE s.channel)
         /\ t.min = (IF p.field = "min" THEN p.to ELSE s.min)
<1>0. \/ p.field = "channel" /\ p.to \in ShChans
      \/ p.field = "min" /\ p.to \in Minimum
      \/ p.field = ""
  <2>1. CASE p \in [field : {"channel"}, to : ShChans]
    BY <2>1
  <2>2. CASE p \in [field : {"min"}, to : Minimum]
    BY <2>2
  <2>3. CASE p = NoBoardPatch
    BY <2>3 DEF NoBoardPatch
  <2> QED BY <2>1, <2>2, <2>3 DEF ShPatches
<1>1. CASE p.field = "channel"
  <2>1. p.to \in ShChans
    BY <1>0, <1>1
  <2>2. WithPatch(s, p) = [s EXCEPT !.channel = p.to]
    BY <1>1 DEF WithPatch
  <2> QED BY <1>1, <2>1, <2>2 DEF ShServers
<1>2. CASE p.field = "min"
  <2>1. p.to \in Minimum
    BY <1>0, <1>2
  <2>2. WithPatch(s, p) = [s EXCEPT !.min = p.to]
    BY <1>2 DEF WithPatch
  <2> QED BY <1>2, <2>1, <2>2 DEF ShServers
<1>3. CASE p.field # "channel" /\ p.field # "min"
  <2>1. p.field = ""
    BY <1>0, <1>3
  <2>2. WithPatch(s, p) = s
    BY <2>1 DEF WithPatch
  <2> QED BY <1>3, <2>2
<1> QED BY <1>1, <1>2, <1>3

\* Those who are told are members by the channel.
LEMMA ToldAre ==
  ASSUME NEW s \in ShServers, NEW flags \in ShFlags
  PROVE  /\ ToldOfAll(s, flags) \in Seq(ShNewsRecs)
         /\ \A i \in DOMAIN ToldOfAll(s, flags) : \E u \in ShUsers :
              MemberAt(s, u).synthetic /\ ToldOfAll(s, flags)[i] = Told(u, flags, flags # {})
<1> DEFINE of == SetToSeq(SynthOf(s))
<1>1. IsFiniteSet(ShUsers) /\ SynthOf(s) \subseteq ShUsers
  BY ShAssumption DEF SynthOf
<1>2. of \in Seq(SynthOf(s))
  BY <1>1, FS_Subset, InSomeOrder
<1> HIDE DEF of
<1>3. ToldOfAll(s, flags) = [i \in DOMAIN of |-> Told(of[i], flags, flags # {})]
  BY DEF ToldOfAll, of
<1>4. \A i \in DOMAIN of : of[i] \in ShUsers /\ MemberAt(s, of[i]).synthetic
  BY <1>2 DEF SynthOf
<1>5. \A u \in ShUsers : Told(u, flags, flags # {}) \in ShNewsRecs
  BY DEF Told, ShNewsRecs
<1>6. DOMAIN of = 1..Len(of) /\ Len(of) \in Nat
  BY <1>2
<1> DEFINE q == ToldOfAll(s, flags)
<1>7. q = [i \in 1..Len(of) |-> Told(of[i], flags, flags # {})]
  BY <1>3, <1>6
<1> HIDE DEF q
<1>8. q \in Seq(ShNewsRecs)
  BY <1>4, <1>5, <1>6, <1>7
<1>9. \A i \in DOMAIN q : q[i] = Told(of[i], flags, flags # {}) /\ i \in DOMAIN of
  BY <1>6, <1>7
<1> QED BY <1>4, <1>8, <1>9 DEF q

----------------------------------------------------------------------------
(***************************************************************************)
(* What a request makes of the server.                                      *)
(***************************************************************************)
\* What a request made of a server, and the news of it: nothing; a row, of which
\* its member is told; a patch, of which those are told who are members by the
\* channel; or the link.
ServedNone(s, d) == d = NothingDone(s)
ServedRow(s, r, d) ==
  /\ r.op \in {"add", "update", "remove"}
  /\ \E x \in ShFlags :
       /\ d.server = WithRow(s, r.user, x)
       /\ x # {} => x = r.flags /\ r.op \in {"add", "update"}
  /\ \E m \in ShMembers : m = MemberAt(d.server, r.user) /\ d.news = <<Told(r.user, m.flags, m.synthetic)>>
ServedBoard(s, r, d) ==
  /\ r.op = "patch" /\ d.server = WithPatch(s, r.patch)
  /\ \E q \in Seq(ShNewsRecs) :
       /\ d.news = <<BoardTold(d.server)>> \o q
       /\ r.patch.field # "channel" => q = <<>>
       /\ \A i \in DOMAIN q : \E u \in ShUsers, m \in ShMembers :
            /\ s.rows[u] = {} /\ m = MemberAt(d.server, u) /\ q[i] = Told(u, m.flags, m.synthetic)
            /\ m.flags = {} \/ m.synthetic
ServedLink(s, r, d) == r.op = "share" /\ d.server = [s EXCEPT !.link = r.link] /\ d.news = <<>>

LEMMA AddedIs ==
  ASSUME NEW s \in ShServers, NEW r \in ShReqRecs, Sensible(r), r.op = "add"
  PROVE  ServedNone(s, Added(s, r)) \/ ServedRow(s, r, Added(s, r))
<1>1. CASE s.rows[r.user] # {}
  BY <1>1 DEF Added, ServedNone
<1>2. CASE s.rows[r.user] = {}
  <2> DEFINE t == WithRow(s, r.user, r.flags)
             m == MemberAt(t, r.user)
  <2>1. Added(s, r) = [server |-> t, news |-> <<Told(r.user, r.flags, FALSE)>>]
    BY <1>2 DEF Added, WithRow
  <2>2. r.user \in ShUsers /\ r.flags \in ShFlags /\ r.flags # {}
    BY DEF ShReqRecs, Sensible
  <2>3. t \in ShServers /\ t.rows[r.user] = r.flags
    BY <2>2, RowWritten
  <2> HIDE DEF t
  <2>4. m \in ShMembers /\ m.flags = r.flags /\ m.synthetic = FALSE
    <3>1. m \in ShMembers /\ m = [flags |-> t.rows[r.user], min |-> t.min, synthetic |-> FALSE]
      BY <2>2, <2>3, MemberOf
    <3> QED BY <3>1, <2>3
  <2>5. Added(s, r).server = t /\ Added(s, r).news = <<Told(r.user, m.flags, m.synthetic)>>
    <3> DEFINE n == <<Told(r.user, r.flags, FALSE)>>
    <3>1. Added(s, r) = [server |-> t, news |-> n]
      BY <2>1
    <3> HIDE DEF n
    <3>2. Added(s, r).server = t /\ Added(s, r).news = n
      BY <3>1
    <3> QED BY <2>4, <3>2, Zenon DEF n
  <2> HIDE DEF m
  <2> QED BY <2>2, <2>4, <2>5 DEF ServedRow, t, m
<1> QED BY <1>1, <1>2

LEMMA UpdatedIs ==
  ASSUME NEW s \in ShServers, NEW r \in ShReqRecs, Sensible(r), r.op = "update"
  PROVE  ServedNone(s, Updated(s, r)) \/ ServedRow(s, r, Updated(s, r))
<1> DEFINE old == MemberAt(s, r.user).flags
           no == old = {} \/ ("admin" \in old \ r.flags /\ OnlyAdmin(s, r.user))
<1>1. CASE no
  BY <1>1 DEF Updated, ServedNone
<1>2. CASE ~no
  <2> DEFINE t == WithRow(s, r.user, r.flags)
             m == MemberAt(t, r.user)
  <2>1. Updated(s, r) = [server |-> t, news |-> <<Told(r.user, r.flags, FALSE)>>]
    BY <1>2 DEF Updated, WithRow
  <2>2. r.user \in ShUsers /\ r.flags \in ShFlags /\ r.flags # {}
    BY DEF ShReqRecs, Sensible
  <2>3. t \in ShServers /\ t.rows[r.user] = r.flags
    BY <2>2, RowWritten
  <2> HIDE DEF t
  <2>4. m \in ShMembers /\ m.flags = r.flags /\ m.synthetic = FALSE
    <3>1. m \in ShMembers /\ m = [flags |-> t.rows[r.user], min |-> t.min, synthetic |-> FALSE]
      BY <2>2, <2>3, MemberOf
    <3> QED BY <3>1, <2>3
  <2>5. Updated(s, r).server = t /\ Updated(s, r).news = <<Told(r.user, m.flags, m.synthetic)>>
    <3> DEFINE n == <<Told(r.user, r.flags, FALSE)>>
    <3>1. Updated(s, r) = [server |-> t, news |-> n]
      BY <2>1
    <3> HIDE DEF n
    <3>2. Updated(s, r).server = t /\ Updated(s, r).news = n
      BY <3>1
    <3> QED BY <2>4, <3>2, Zenon DEF n
  <2> HIDE DEF m
  <2> QED BY <2>2, <2>4, <2>5 DEF ServedRow, t, m
<1> QED BY <1>1, <1>2

LEMMA RemovedIs ==
  ASSUME NEW s \in ShServers, NEW r \in ShReqRecs, Sensible(r), r.op = "remove"
  PROVE  ServedNone(s, Removed(s, r)) \/ ServedRow(s, r, Removed(s, r))
<1> DEFINE no == MemberAt(s, r.user).flags = {} \/ ("admin" \in s.rows[r.user] /\ OnlyAdmin(s, r.user))
<1>1. CASE no
  BY <1>1 DEF Removed, ServedNone
<1>2. CASE ~no
  <2> DEFINE t == WithRow(s, r.user, {})
             m == MemberAt(t, r.user)
  <2>1. Removed(s, r) = [server |-> t, news |-> <<Told(r.user, m.flags, m.synthetic)>>]
    BY <1>2 DEF Removed, WithRow
  <2>2. r.user \in ShUsers /\ {} \in ShFlags
    BY DEF ShReqRecs, ShFlags
  <2>3. t \in ShServers
    BY <2>2, RowWritten
  <2> HIDE DEF t
  <2>4. m \in ShMembers
    BY <2>2, <2>3, MemberOf
  <2> HIDE DEF m
  <2>5. Removed(s, r).server = t /\ Removed(s, r).news = <<Told(r.user, m.flags, m.synthetic)>>
    BY <2>1
  <2> QED BY <2>2, <2>4, <2>5 DEF ServedRow, t, m
<1> QED BY <1>1, <1>2

LEMMA PatchedIs ==
  ASSUME NEW s \in ShServers, NEW r \in ShReqRecs, r.op = "patch"
  PROVE  IF MayPatch(s, r) THEN ServedBoard(s, r, PatchedBoard(s, r)) ELSE ServedNone(s, PatchedBoard(s, r))
<1> DEFINE t == WithPatch(s, r.patch)
           d == PatchedBoard(s, r)
           q == CASE r.patch.field # "channel" -> <<>>
                  [] r.patch.field = "channel" /\ t.channel # "" -> ToldOfAll(t, {"editor"})
                  [] OTHER -> ToldOfAll(s, {})
<1>1. CASE ~MayPatch(s, r)
  BY <1>1 DEF PatchedBoard, ServedNone
<1>2. CASE MayPatch(s, r)
  <2>1. d = [server |-> t, news |-> <<BoardTold(t)>> \o q]
    BY <1>2 DEF PatchedBoard
  <2>2. r.patch \in ShPatches
    BY DEF ShReqRecs
  <2>3. t \in ShServers /\ t.rows = s.rows
    BY <2>2, Patchwork
  <2>4. {"editor"} \in ShFlags /\ {} \in ShFlags /\ {"editor"} # {}
    BY DEF ShFlags, Role
  <2> DEFINE none == ""
             q1 == ToldOfAll(t, {"editor"})
             q2 == ToldOfAll(s, {})
  <2>5. /\ r.patch.field # "channel" => q = <<>>
        /\ r.patch.field = "channel" /\ t.channel # none => q = q1
        /\ r.patch.field = "channel" /\ t.channel = none => q = q2
    OBVIOUS
  <2> HIDE DEF none, t, d, q, q1, q2
  <2>6. ASSUME NEW i \in DOMAIN q1
        PROVE  \E u \in ShUsers, m \in ShMembers :
                 /\ s.rows[u] = {} /\ m = MemberAt(t, u) /\ q1[i] = Told(u, m.flags, m.synthetic)
                 /\ m.flags = {} \/ m.synthetic
    <3>1. PICK u \in ShUsers : MemberAt(t, u).synthetic /\ q1[i] = Told(u, {"editor"}, {"editor"} # {})
      BY <2>3, <2>4, ToldAre DEF q1
    <3>2. MemberAt(t, u) \in ShMembers /\ t.rows[u] = {} /\ MemberAt(t, u).flags = {"editor"}
      BY <2>3, <3>1, MemberOf
    <3>3. MemberAt(t, u).synthetic = TRUE /\ ({"editor"} # {}) = TRUE
      BY <2>4, <3>1, <3>2 DEF ShMembers
    <3>4. q1[i] = Told(u, MemberAt(t, u).flags, MemberAt(t, u).synthetic)
      BY <3>1, <3>2, <3>3, Zenon
    <3> QED BY <2>3, <3>2, <3>3, <3>4
  <2>7. ASSUME t.channel = none, NEW i \in DOMAIN q2
        PROVE  \E u \in ShUsers, m \in ShMembers :
                 /\ s.rows[u] = {} /\ m = MemberAt(t, u) /\ q2[i] = Told(u, m.flags, m.synthetic)
                 /\ m.flags = {} \/ m.synthetic
    <3>1. PICK u \in ShUsers : MemberAt(s, u).synthetic /\ q2[i] = Told(u, {}, {} # {})
      BY <2>4, ToldAre DEF q2
    <3>2. s.rows[u] = {} /\ t.rows[u] = {}
      BY <2>3, <3>1, MemberOf
    <3>3. ~InChannel(t, u)
      BY <2>7 DEF InChannel, none
    <3>4. MemberAt(t, u) = NoMember /\ MemberAt(t, u) \in ShMembers
      BY <2>3, <3>2, <3>3, MemberOf
    <3>5. MemberAt(t, u).flags = {} /\ MemberAt(t, u).synthetic = FALSE
      <4>1. NoMember.flags = {} /\ NoMember.synthetic = FALSE
        BY DEF NoMember
      <4> QED BY <3>4, <4>1, Zenon
    <3>7. ({} # {}) = FALSE
      OBVIOUS
    <3>6. q2[i] = Told(u, MemberAt(t, u).flags, MemberAt(t, u).synthetic)
      BY <3>1, <3>5, <3>7, Zenon
    <3> QED BY <3>2, <3>4, <3>5, <3>6
  <2>8. q1 \in Seq(ShNewsRecs) /\ q2 \in Seq(ShNewsRecs) /\ <<>> \in Seq(ShNewsRecs) /\ DOMAIN <<>> = {}
    BY <2>3, <2>4, ToldAre DEF q1, q2
  <2> DEFINE Right(p) ==
               /\ p \in Seq(ShNewsRecs)
               /\ \A i \in DOMAIN p : \E u \in ShUsers, m \in ShMembers :
                    /\ s.rows[u] = {} /\ m = MemberAt(t, u) /\ p[i] = Told(u, m.flags, m.synthetic)
                    /\ m.flags = {} \/ m.synthetic
  <2>9. Right(<<>>) /\ Right(q1) /\ (t.channel = none => Right(q2))
    BY <2>6, <2>7, <2>8, Zenon
  <2> HIDE DEF Right
  <2>10. d.server = t /\ d.news = <<BoardTold(t)>> \o q
    BY <2>1
  <2>11. Right(q)
    BY <2>5, <2>9, Zenon
  <2>12. ServedBoard(s, r, d)
    <3>1. d.server = WithPatch(s, r.patch) /\ d.news = <<BoardTold(d.server)>> \o q /\ (r.patch.field # "channel" => q = <<>>)
      BY <2>5, <2>10, Zenon DEF t
    <3>2. q \in Seq(ShNewsRecs)
      BY <2>11, Zenon DEF Right
    <3>3. \A i \in DOMAIN q : \E u \in ShUsers, m \in ShMembers :
            /\ s.rows[u] = {} /\ m = MemberAt(d.server, u) /\ q[i] = Told(u, m.flags, m.synthetic)
            /\ m.flags = {} \/ m.synthetic
      BY <2>10, <2>11, Zenon DEF Right
    <3> QED BY <3>1, <3>2, <3>3, Zenon DEF ServedBoard
  <2> QED BY <1>2, <2>12 DEF d
<1> QED BY <1>1, <1>2

LEMMA ServedIs ==
  ASSUME NEW s \in ShServers, NEW r \in ShReqRecs, Sensible(r), r.op \notin {"load", "answer"}
  PROVE  \/ ServedNone(s, Served(s, r)) \/ ServedRow(s, r, Served(s, r))
         \/ ServedBoard(s, r, Served(s, r)) \/ ServedLink(s, r, Served(s, r))
<1>1. CASE ~Allowed(s, r.by, "manage")
  BY <1>1 DEF Served, ServedNone
<1>2. CASE Allowed(s, r.by, "manage")
  <2>1. r.op \in {"add", "update", "remove", "patch", "share"}
    BY DEF ShReqRecs, ShOpNames
  <2>2. CASE r.op = "add"
    <3>1. Served(s, r) = Added(s, r)
      BY <1>2, <2>2 DEF Served
    <3> QED BY <2>2, <3>1, AddedIs
  <2>3. CASE r.op = "update"
    <3>1. Served(s, r) = Updated(s, r)
      BY <1>2, <2>3 DEF Served
    <3> QED BY <2>3, <3>1, UpdatedIs
  <2>4. CASE r.op = "remove"
    <3>1. Served(s, r) = Removed(s, r)
      BY <1>2, <2>4 DEF Served
    <3> QED BY <2>4, <3>1, RemovedIs
  <2>5. CASE r.op = "patch"
    <3>1. Served(s, r) = PatchedBoard(s, r)
      BY <1>2, <2>5 DEF Served
    <3> QED BY <2>5, <3>1, PatchedIs
  <2>6. CASE r.op = "share"
    <3>1. Served(s, r) = [server |-> [s EXCEPT !.link = r.link], news |-> <<>>]
      BY <1>2, <2>6 DEF Served
    <3> QED BY <2>6, <3>1 DEF ServedLink
  <2> QED BY <2>1, <2>2, <2>3, <2>4, <2>5, <2>6
<1> QED BY <1>1, <1>2

LEMMA ToldIs ==
  ASSUME NEW u, NEW flags, NEW synthetic
  PROVE  /\ Told(u, flags, synthetic).about = "member" /\ Told(u, flags, synthetic).user = u
         /\ Told(u, flags, synthetic).flags = flags /\ Told(u, flags, synthetic).synthetic = synthetic
BY DEF Told

\* The news of a request are true, and a member whom they do not mention is as before,
\* unless they are of the board.
Truth(s, r, t, news) ==
  /\ t \in ShServers /\ news \in Seq(ShNewsRecs)
  /\ \A i \in DOMAIN news :
       /\ news[i].about = "board" => i = 1 /\ r.op = "patch" /\ news[i].channel = t.channel /\ news[i].min = t.min
       /\ news[i].about = "member" =>
            /\ news[i].user \in ShUsers
            /\ news[i].flags = MemberAt(t, news[i].user).flags /\ news[i].synthetic = MemberAt(t, news[i].user).synthetic
            /\ news[i].flags # {} /\ ~news[i].synthetic => r.op \in {"add", "update"} /\ news[i].flags = r.flags /\ t.min = s.min
            /\ r.op = "patch" => s.rows[news[i].user] = {} /\ r.patch.field = "channel"
  /\ (\A i \in DOMAIN news : news[i].about # "board") =>
       /\ t.channel = s.channel /\ t.min = s.min
       /\ \A u \in ShUsers : (\A i \in DOMAIN news : news[i].about = "member" => news[i].user # u) => MemberAt(t, u) = MemberAt(s, u)
  /\ r.op # "share" => t.link = s.link
  /\ r.op = "patch" => t.rows = s.rows /\ (r.patch.field # "channel" => t.channel = s.channel)

LEMMA NoneIsTrue ==
  ASSUME NEW s \in ShServers, NEW r, NEW d, ServedNone(s, d), r.op # "share"
  PROVE  Truth(s, r, d.server, d.news)
<1>1. d.server = s /\ d.news = <<>>
  BY DEF ServedNone, NothingDone
<1>2. <<>> \in Seq(ShNewsRecs) /\ DOMAIN <<>> = {}
  OBVIOUS
<1> QED BY <1>1, <1>2, Zenon DEF Truth

LEMMA LinkIsTrue ==
  ASSUME NEW s \in ShServers, NEW r \in ShReqRecs, NEW d, ServedLink(s, r, d)
  PROVE  /\ Truth(s, r, d.server, d.news) /\ d.server.link = r.link /\ d.server.rows = s.rows
         /\ d.news = <<>>
<1> DEFINE t == d.server
<1>1. t = [s EXCEPT !.link = r.link] /\ d.news = <<>> /\ r.op = "share"
  BY DEF ServedLink
<1>2. r.link \in ShLinks
  BY DEF ShReqRecs
<1> HIDE DEF t
<1>3. t \in ShServers /\ t.rows = s.rows /\ t.channel = s.channel /\ t.min = s.min /\ t.link = r.link
  BY <1>1, <1>2 DEF ShServers
<1>4. \A u \in ShUsers : MemberAt(t, u) = MemberAt(s, u)
  <2>1. \A u : InChannel(t, u) <=> InChannel(s, u)
    BY <1>3 DEF InChannel
  <2> SUFFICES ASSUME NEW u \in ShUsers  PROVE MemberAt(t, u) = MemberAt(s, u)
    OBVIOUS
  <2>2. t.rows[u] = s.rows[u] /\ t.min = s.min /\ (InChannel(t, u) <=> InChannel(s, u))
    BY <1>3, <2>1
  <2> QED BY <2>2, Zenon DEF MemberAt
<1>5. <<>> \in Seq(ShNewsRecs) /\ DOMAIN <<>> = {} /\ "share" # "patch"
  OBVIOUS
<1> QED BY <1>1, <1>3, <1>4, <1>5, Zenon DEF Truth, t

LEMMA RowIsTrue ==
  ASSUME NEW s \in ShServers, NEW r \in ShReqRecs, NEW d, ServedRow(s, r, d)
  PROVE  Truth(s, r, d.server, d.news)
<1> DEFINE t == d.server
           news == d.news
<1>1. PICK x \in ShFlags : t = WithRow(s, r.user, x) /\ (x # {} => x = r.flags /\ r.op \in {"add", "update"})
  BY DEF ServedRow
<1>2. PICK m \in ShMembers : m = MemberAt(t, r.user) /\ news = <<Told(r.user, m.flags, m.synthetic)>>
  BY DEF ServedRow
<1>3. r.op # "patch" /\ r.op # "share" /\ r.user \in ShUsers
  BY DEF ServedRow, ShReqRecs
<1> HIDE DEF t, news
<1>4. /\ t \in ShServers /\ t.rows[r.user] = x /\ t.channel = s.channel /\ t.min = s.min /\ t.link = s.link
      /\ \A v \in ShUsers : v # r.user => MemberAt(t, v) = MemberAt(s, v)
  BY <1>1, <1>3, RowWritten
<1> DEFINE n == Told(r.user, m.flags, m.synthetic)
<1>5. n \in ShNewsRecs
  BY <1>3 DEF Told, ShNewsRecs, ShMembers
<1>6. n.about = "member" /\ n.user = r.user /\ n.flags = m.flags /\ n.synthetic = m.synthetic
  BY ToldIs
<1> HIDE DEF n
<1>7. news \in Seq(ShNewsRecs) /\ DOMAIN news = {1} /\ news[1] = n
  BY <1>2, <1>5 DEF n
<1>8. n.flags # {} /\ ~n.synthetic => n.flags = r.flags /\ r.op \in {"add", "update"}
  <2>1. m.flags # {} /\ ~m.synthetic => m.flags = t.rows[r.user]
    BY Zenon, <1>2, <1>3, <1>4, MemberOf
  <2> QED BY Zenon, <1>1, <1>4, <1>6, <2>1
<1>9. "member" # "board"
  OBVIOUS
<1>10. \A i \in DOMAIN news : news[i] = n
  BY <1>7
<1>11. \A u \in ShUsers : (\A i \in DOMAIN news : news[i].about = "member" => news[i].user # u) => MemberAt(t, u) = MemberAt(s, u)
  BY <1>4, <1>6, <1>7
<1> HIDE <1>7
<1>12. news \in Seq(ShNewsRecs)
  BY <1>7
<1> QED BY <1>2, <1>3, <1>4, <1>6, <1>8, <1>9, <1>10, <1>11, <1>12, Zenon DEF Truth, t, news

LEMMA BoardIsTrue ==
  ASSUME NEW s \in ShServers, NEW r \in ShReqRecs, NEW d, ServedBoard(s, r, d)
  PROVE  Truth(s, r, d.server, d.news)
<1> DEFINE t == d.server
           news == d.news
<1>1. t = WithPatch(s, r.patch) /\ r.op = "patch"
  BY DEF ServedBoard
<1>2. PICK q \in Seq(ShNewsRecs) :
        /\ news = <<BoardTold(t)>> \o q
        /\ r.patch.field # "channel" => q = <<>>
        /\ \A i \in DOMAIN q : \E u \in ShUsers, m \in ShMembers :
             /\ s.rows[u] = {} /\ m = MemberAt(t, u) /\ q[i] = Told(u, m.flags, m.synthetic)
             /\ m.flags = {} \/ m.synthetic
  BY Zenon DEF ServedBoard
<1>3. r.patch \in ShPatches
  BY DEF ShReqRecs
<1> HIDE DEF t, news
<1>4. t \in ShServers /\ t.rows = s.rows /\ t.link = s.link /\ (r.patch.field # "channel" => t.channel = s.channel)
  BY <1>1, <1>3, Patchwork
<1> DEFINE b == BoardTold(t)
<1>5. b \in ShNewsRecs /\ b.about = "board" /\ b.channel = t.channel /\ b.min = t.min
  BY <1>4 DEF BoardTold, ShNewsRecs, ShServers
<1> HIDE DEF b
<1>6. /\ news \in Seq(ShNewsRecs) /\ 1 \in DOMAIN news /\ news[1] = b
      /\ \A i \in DOMAIN news : i = 1 \/ \E j \in DOMAIN q : news[i] = q[j]
  <2>1. news = <<b>> \o q /\ <<b>> \in Seq(ShNewsRecs)
    BY <1>2, <1>5 DEF b
  <2>2. news \in Seq(ShNewsRecs) /\ Len(news) = 1 + Len(q) /\ news[1] = b /\ Len(q) \in Nat
    BY <2>1
  <2>3. ASSUME NEW i \in DOMAIN news, i # 1
        PROVE  \E j \in DOMAIN q : news[i] = q[j]
    <3>1. i \in 1 .. 1 + Len(q)
      BY <2>2
    <3>2. i - 1 \in DOMAIN q /\ news[i] = q[i - 1]
      BY <2>1, <2>3, <3>1
    <3> QED BY <3>2
  <2> QED BY <2>2, <2>3
<1>7. ASSUME NEW i \in DOMAIN news, i # 1
      PROVE  \E u \in ShUsers, m \in ShMembers :
               /\ s.rows[u] = {} /\ m = MemberAt(t, u) /\ news[i] = Told(u, m.flags, m.synthetic)
               /\ m.flags = {} \/ m.synthetic
  <2>1. PICK j \in DOMAIN q : news[i] = q[j]
    BY <1>6, <1>7
  <2>2. PICK u \in ShUsers, m \in ShMembers :
          /\ s.rows[u] = {} /\ m = MemberAt(t, u) /\ q[j] = Told(u, m.flags, m.synthetic)
          /\ m.flags = {} \/ m.synthetic
    BY <1>2, Zenon
  <2> QED BY <2>1, <2>2, Zenon
<1>8. ASSUME NEW i \in DOMAIN news
      PROVE  /\ news[i].about = "board" => i = 1 /\ news[i].channel = t.channel /\ news[i].min = t.min
             /\ news[i].about = "member" =>
                  /\ news[i].user \in ShUsers
                  /\ news[i].flags = MemberAt(t, news[i].user).flags /\ news[i].synthetic = MemberAt(t, news[i].user).synthetic
                  /\ ~(news[i].flags # {} /\ ~news[i].synthetic)
                  /\ s.rows[news[i].user] = {} /\ r.patch.field = "channel"
  <2>1. CASE i = 1
    BY <1>5, <1>6, <2>1
  <2>2. CASE i # 1
    <3>1. PICK u \in ShUsers, m \in ShMembers :
               /\ s.rows[u] = {} /\ m = MemberAt(t, u) /\ news[i] = Told(u, m.flags, m.synthetic)
               /\ m.flags = {} \/ m.synthetic
      BY <1>7, <2>2, Zenon
    <3> DEFINE n == Told(u, m.flags, m.synthetic)
    <3>4. n.about = "member" /\ n.user = u /\ n.flags = m.flags /\ n.synthetic = m.synthetic
      BY ToldIs
    <3>5. news[i] = n
      BY <3>1, Zenon
    <3> HIDE DEF n
    <3>2. news[i].about = "member" /\ news[i].user = u /\ news[i].flags = m.flags /\ news[i].synthetic = m.synthetic
      BY <3>4, <3>5
    <3>3. "member" # "board"
      OBVIOUS
    <3>6. PICK j \in DOMAIN q : news[i] = q[j]
      BY <1>6, <2>2
    <3>7. r.patch.field = "channel"
      <4>1. q # <<>>
        BY <3>6
      <4> QED BY <1>2, <4>1, Zenon
    <3> QED BY <3>1, <3>2, <3>3, <3>7, Zenon
  <2> QED BY <2>1, <2>2
<1>9. "patch" # "share"
  OBVIOUS
<1> QED BY <1>1, <1>4, <1>5, <1>6, <1>8, <1>9, Zenon DEF Truth, t, news

\* What serving a request does.
LEMMA ServedIsTrue ==
  ASSUME NEW s \in ShServers, NEW r \in ShReqRecs, Sensible(r), r.op # "load", r.op # "share", r.op # "answer"
  PROVE  Truth(s, r, Served(s, r).server, Served(s, r).news)
<1>1. r.op \notin {"load", "answer"}
  OBVIOUS
<1> QED BY <1>1, ServedIs, NoneIsTrue, RowIsTrue, BoardIsTrue, Zenon DEF ServedLink

LEMMA LinkServed ==
  ASSUME NEW s \in ShServers, NEW r \in ShReqRecs, r.op = "share"
  PROVE  /\ Truth(s, r, Served(s, r).server, Served(s, r).news)
         /\ Served(s, r).server.rows = s.rows /\ Served(s, r).news = <<>>
         /\ Served(s, r).server.channel = s.channel /\ Served(s, r).server.min = s.min
         /\ Allowed(s, r.by, "manage") => Served(s, r).server.link = r.link
         /\ ~Allowed(s, r.by, "manage") => Served(s, r).server.link = s.link
<1>1. CASE ~Allowed(s, r.by, "manage")
  <2>1. Served(s, r) = NothingDone(s)
    BY <1>1 DEF Served
  <2>2. Served(s, r).server = s /\ Served(s, r).news = <<>>
    BY <2>1 DEF NothingDone
  <2>3. <<>> \in Seq(ShNewsRecs) /\ DOMAIN <<>> = {} /\ "share" # "patch"
    OBVIOUS
  <2> QED BY <1>1, <2>2, <2>3, Zenon DEF Truth
<1>2. CASE Allowed(s, r.by, "manage")
  <2>1. Served(s, r) = [server |-> [s EXCEPT !.link = r.link], news |-> <<>>]
    BY <1>2 DEF Served
  <2>2. ServedLink(s, r, Served(s, r))
    BY <2>1 DEF ServedLink
  <2>3. Served(s, r).server.channel = s.channel /\ Served(s, r).server.min = s.min
    BY <2>1 DEF ShServers
  <2> QED BY <1>2, <2>2, <2>3, LinkIsTrue
<1> QED BY <1>1, <1>2

----------------------------------------------------------------------------
(***************************************************************************)
(* The calls under way.                                                     *)
(***************************************************************************)
\* What is left of the calls when one of them has ended.
LEMMA LeftOver ==
  ASSUME NEW S, NEW s \in Seq(S), NEW i \in DOMAIN s
  PROVE  /\ RemoveAt(s, i) \in Seq(S) /\ Len(RemoveAt(s, i)) = Len(s) - 1
         /\ \A j \in 1..Len(RemoveAt(s, i)) : RemoveAt(s, i)[j] = IF j < i THEN s[j] ELSE s[j + 1]
<1> DEFINE t == RemoveAt(s, i)
<1>1. t = SubSeq(s, 1, i - 1) \o SubSeq(s, i + 1, Len(s))
  BY DEF RemoveAt
<1>2. Len(t) = Len(s) - 1 /\ \A j \in 1..Len(t) : t[j] = IF j < i THEN s[j] ELSE s[j + 1]
  <2> DEFINE a == SubSeq(s, 1, i - 1)
             b == SubSeq(s, i + 1, Len(s))
  <2>1. i \in 1..Len(s) /\ Len(s) \in Nat
    OBVIOUS
  <2>2. a \in Seq(S) /\ Len(a) = i - 1 /\ \A j \in 1..(i - 1) : a[j] = s[j]
    BY <2>1
  <2>3. b \in Seq(S) /\ Len(b) = Len(s) - i /\ \A j \in 1..(Len(s) - i) : b[j] = s[i + j]
    BY <2>1
  <2> HIDE DEF a, b
  <2>4. t = a \o b
    BY <1>1 DEF a, b
  <2>7. a \in Seq(S) /\ b \in Seq(S)
    BY <2>2, <2>3
  <2>5. Len(a \o b) = Len(a) + Len(b)
    BY <2>7
  <2>6. ASSUME NEW j \in 1..(Len(s) - 1) PROVE (a \o b)[j] = IF j < i THEN s[j] ELSE s[j + 1]
    <3>1. Len(a) = i - 1 /\ Len(b) = Len(s) - i
      BY <2>2, <2>3
    <3>2. j \in 1..(Len(a) + Len(b))
      BY <2>1, <3>1
    <3>3. (a \o b)[j] = IF j <= Len(a) THEN a[j] ELSE b[j - Len(a)]
      BY Zenon, <2>7, <3>2, ConcatProperties
    <3>4. CASE j < i
      <4>1. j <= Len(a) /\ j \in 1..(i - 1)
        BY <2>1, <3>1, <3>4
      <4> QED BY <2>2, <3>3, <3>4, <4>1
    <3>5. CASE ~(j < i)
      <4>1. ~(j <= Len(a)) /\ j - Len(a) \in 1..(Len(s) - i) /\ i + (j - Len(a)) = j + 1
        BY <2>1, <3>1, <3>5
      <4>2. b[j - Len(a)] = s[i + (j - Len(a))]
        BY <2>3, <4>1
      <4> QED BY <3>3, <3>5, <4>1, <4>2
    <3> QED BY <3>4, <3>5
  <2>8. Len(a \o b) = Len(s) - 1
    BY <2>1, <2>2, <2>3, <2>5
  <2> QED BY <2>4, <2>6, <2>8
<1>3. t \in Seq(S)
  BY DEF RemoveAt
<1> QED BY <1>2, <1>3

\* Sequences of one or two.
LEMMA TailOfTwo ==
  ASSUME NEW S, NEW c \in Seq(S), Len(c) = 2
  PROVE  Tail(c) = <<c[2]>> /\ Tail(c) \in Seq(S) /\ 2 \in DOMAIN c /\ c[2] \in S
<1> DEFINE t == Tail(c)
<1>1. DOMAIN c = 1..2 /\ \A i \in 1..2 : c[i] \in S
  BY LenProperties
<1>2. c # <<>>
  OBVIOUS
<1>3. t \in Seq(S) /\ Len(t) = 1 /\ t[1] = c[2]
  BY <1>2, HeadTailProperties
<1> HIDE DEF t
<1>4. t = <<t[1]>>
  <2>1. DOMAIN t = 1..1
    BY <1>3, LenProperties
  <2> QED BY <1>3, <2>1
<1> QED BY <1>1, <1>3, <1>4 DEF t

LEMMA OnlyOne ==
  ASSUME NEW S, NEW s \in Seq(S), Len(s) <= 1, NEW i \in DOMAIN s
  PROVE  i = 1 /\ Len(s) = 1 /\ Len(s) \in Nat
<1>1. DOMAIN s = 1..Len(s) /\ Len(s) \in Nat
  BY LenProperties
<1> QED BY <1>1

LEMMA OneLess ==
  ASSUME NEW S, NEW s \in Seq(S), Len(s) = 1
  PROVE  RemoveAt(s, 1) = <<>>
<1>1. 1 \in DOMAIN s
  BY LenProperties
<1>2. RemoveAt(s, 1) \in Seq(S) /\ Len(RemoveAt(s, 1)) = 0
  BY <1>1, LeftOver
<1> QED BY <1>2, EmptySeq

LEMMA OneReplaced ==
  ASSUME NEW S, NEW s \in Seq(S), Len(s) = 1, NEW x \in S
  PROVE  [s EXCEPT ![1] = x] \in Seq(S) /\ Len([s EXCEPT ![1] = x]) = 1 /\ [s EXCEPT ![1] = x][1] = x
         /\ 1 \in DOMAIN [s EXCEPT ![1] = x]
BY ExceptSeq, LenProperties

\* The requests of the calls under way.
LEMMA CallOf ==
  ASSUME ShTypes, NEW i \in DOMAIN shCalls
  PROVE  /\ shCalls[i] \in Seq(ShReqRecs) /\ Len(shCalls[i]) \in 1..2
         /\ Head(shCalls[i]) = shCalls[i][1] /\ 1 \in DOMAIN shCalls[i]
         /\ shCalls[i][1] \in ShReqRecs /\ Sensible(shCalls[i][1])
         /\ OneCall(shCalls[i]) \/ LinkCall(shCalls[i])
         /\ \A j \in DOMAIN shCalls[i] : Sensible(shCalls[i][j])
<1>1. /\ shCalls \in Seq(Seq(ShReqRecs))
      /\ \A k \in DOMAIN shCalls : \A j \in DOMAIN shCalls[k] : Sensible(shCalls[k][j])
      /\ \A k \in DOMAIN shCalls : OneCall(shCalls[k]) \/ LinkCall(shCalls[k])
  BY Zenon DEF ShTypes, CallsFit
<1>2. shCalls[i] \in Seq(ShReqRecs)
  BY <1>1
<1>3. OneCall(shCalls[i]) \/ LinkCall(shCalls[i])
  BY <1>1
<1>4. Len(shCalls[i]) \in 1..2
  BY <1>3 DEF OneCall, LinkCall
<1>5. Head(shCalls[i]) = shCalls[i][1] /\ 1 \in DOMAIN shCalls[i] /\ shCalls[i][1] \in ShReqRecs
  BY <1>2, <1>4
<1> QED BY <1>1, <1>2, <1>3, <1>4, <1>5

\* What is left when the first request of a call was served.
LEMMA RestIs ==
  ASSUME ShTypes, NEW i \in DOMAIN shCalls
  PROVE  /\ Rest(i) \in Seq(Seq(ShReqRecs)) /\ Len(Rest(i)) <= Len(shCalls)
         /\ \A k \in DOMAIN Rest(i) :
              \/ \E h \in DOMAIN shCalls : Rest(i)[k] = shCalls[h]
              \/ LinkCall(shCalls[i]) /\ Rest(i)[k] = <<shCalls[i][2]>>
         /\ \A k \in DOMAIN Rest(i) : \A j \in DOMAIN Rest(i)[k] :
              \E h \in DOMAIN shCalls : \E g \in DOMAIN shCalls[h] : Rest(i)[k][j] = shCalls[h][g]
<1> DEFINE c == shCalls[i]
<1>1. /\ c \in Seq(ShReqRecs) /\ Len(c) \in 1..2 /\ (OneCall(c) \/ LinkCall(c))
      /\ shCalls \in Seq(Seq(ShReqRecs))
  BY CallOf DEF ShTypes, CallsFit
<1>2. CASE Len(c) = 1
  <2>1. Rest(i) = RemoveAt(shCalls, i)
    BY <1>2 DEF Rest
  <2>2. Rest(i) \in Seq(Seq(ShReqRecs)) /\ Len(Rest(i)) = Len(shCalls) - 1
    BY <1>1, <2>1, LeftOver
  <2>3. ASSUME NEW k \in DOMAIN Rest(i)
        PROVE  \E h \in DOMAIN shCalls : Rest(i)[k] = shCalls[h]
    <3>1. k \in 1..Len(RemoveAt(shCalls, i)) /\ Len(RemoveAt(shCalls, i)) = Len(shCalls) - 1
      BY <2>1, <2>2
    <3>2. Rest(i)[k] = IF k < i THEN shCalls[k] ELSE shCalls[k + 1]
      BY <1>1, <2>1, <3>1, LeftOver
    <3>3. Len(shCalls) \in Nat /\ DOMAIN shCalls = 1..Len(shCalls)
      BY <1>1
    <3>4. k \in DOMAIN shCalls /\ k + 1 \in DOMAIN shCalls
      BY <3>1, <3>3
    <3> QED BY <3>2, <3>4
  <2>4. Len(shCalls) \in Nat
    BY <1>1
  <2> QED BY <2>2, <2>3, <2>4
<1>3. CASE Len(c) = 2
  <2>1. Rest(i) = [shCalls EXCEPT ![i] = Tail(@)]
    BY <1>3 DEF Rest
  <2>2. LinkCall(c) /\ Tail(c) = <<c[2]>> /\ Tail(c) \in Seq(ShReqRecs) /\ 2 \in DOMAIN c
    <3>1. Len(c) = 2 /\ ~OneCall(c)
      BY <1>3 DEF OneCall
    <3> QED BY <1>1, <3>1, TailOfTwo, Zenon
  <2> DEFINE q == Rest(i)
  <2>3. q \in Seq(Seq(ShReqRecs)) /\ Len(q) = Len(shCalls) /\ DOMAIN q = DOMAIN shCalls /\ q[i] = Tail(c)
        /\ \A k \in DOMAIN shCalls : k # i => q[k] = shCalls[k]
    BY <1>1, <2>1, <2>2
  <2> HIDE DEF q, c
  <2>4. ASSUME NEW k \in DOMAIN q
        PROVE  \/ \E h \in DOMAIN shCalls : q[k] = shCalls[h]
               \/ q[k] = <<c[2]>>
    BY <2>2, <2>3
  <2>5. ASSUME NEW k \in DOMAIN q, NEW j \in DOMAIN q[k]
        PROVE  \E h \in DOMAIN shCalls : \E g \in DOMAIN shCalls[h] : q[k][j] = shCalls[h][g]
    <3>1. CASE k = i
      <4>1. q[k][j] = c[2]
        BY <2>2, <2>3, <3>1
      <4> QED BY <2>2, <4>1 DEF c
    <3>2. CASE k # i
      BY <2>3, <3>2
    <3> QED BY <3>1, <3>2
  <2>6. Len(shCalls) \in Nat
    BY <1>1
  <2> QED BY <2>2, <2>3, <2>4, <2>5, <2>6 DEF q, c
<1> QED BY <1>1, <1>2, <1>3

LEMMA RestTypes ==
  ASSUME ShTypes, NEW i \in DOMAIN shCalls
  PROVE  /\ Rest(i) \in Seq(Seq(ShReqRecs)) /\ Len(Rest(i)) <= 2
         /\ \A k \in DOMAIN Rest(i) : \A j \in DOMAIN Rest(i)[k] : Sensible(Rest(i)[k][j])
         /\ \A k \in DOMAIN Rest(i) : OneCall(Rest(i)[k]) \/ LinkCall(Rest(i)[k])
<1>1. Len(shCalls) <= 2 /\ Len(shCalls) \in Nat
  BY DEF ShTypes, CallsFit
<1>2. /\ Rest(i) \in Seq(Seq(ShReqRecs)) /\ Len(Rest(i)) <= Len(shCalls)
      /\ \A k \in DOMAIN Rest(i) :
              \/ \E h \in DOMAIN shCalls : Rest(i)[k] = shCalls[h]
              \/ LinkCall(shCalls[i]) /\ Rest(i)[k] = <<shCalls[i][2]>>
      /\ \A k \in DOMAIN Rest(i) : \A j \in DOMAIN Rest(i)[k] :
              \E h \in DOMAIN shCalls : \E g \in DOMAIN shCalls[h] : Rest(i)[k][j] = shCalls[h][g]
  BY RestIs
<1>3. Len(Rest(i)) <= 2
  <2>1. Len(Rest(i)) \in Nat
    BY <1>2
  <2> QED BY <1>1, <1>2, <2>1
<1>4. \A k \in DOMAIN Rest(i) : \A j \in DOMAIN Rest(i)[k] : Sensible(Rest(i)[k][j])
  BY <1>2, CallOf, Zenon
<1>5. ASSUME NEW k \in DOMAIN Rest(i)
      PROVE  OneCall(Rest(i)[k]) \/ LinkCall(Rest(i)[k])
  <2>1. CASE \E h \in DOMAIN shCalls : Rest(i)[k] = shCalls[h]
    BY <2>1, CallOf, Zenon
  <2>2. CASE LinkCall(shCalls[i]) /\ Rest(i)[k] = <<shCalls[i][2]>>
    <3> DEFINE r == shCalls[i][2]
    <3>1. r.op = "load"
      BY <2>2 DEF LinkCall
    <3> HIDE DEF r
    <3>2. Len(<<r>>) = 1 /\ <<r>>[1] = r
      OBVIOUS
    <3> QED BY <2>2, <3>1, <3>2 DEF OneCall, r
  <2> QED BY <1>2, <2>1, <2>2
<1> QED BY <1>2, <1>3, <1>4, <1>5

\* When there is one call at most, what is left is nothing, or the load of the link.
LEMMA RestAlone ==
  ASSUME ShTypes, Len(shCalls) <= 1, NEW i \in DOMAIN shCalls
  PROVE  /\ i = 1 /\ Len(Rest(i)) <= 1
         /\ Rest(i) = <<>> \/ (LinkCall(shCalls[i]) /\ 1 \in DOMAIN Rest(i) /\ Rest(i)[1] = <<shCalls[i][2]>>)
         /\ OneCall(shCalls[i]) => Rest(i) = <<>>
<1>1. shCalls \in Seq(Seq(ShReqRecs)) /\ Len(shCalls) \in Nat /\ i = 1 /\ Len(shCalls) = 1
  <2>1. shCalls \in Seq(Seq(ShReqRecs))
    BY Zenon DEF ShTypes, CallsFit
  <2> QED BY <2>1, OnlyOne, Zenon
<1>2. OneCall(shCalls[i]) \/ LinkCall(shCalls[i])
  BY CallOf
<1>3. CASE OneCall(shCalls[i])
  <2>1. Rest(i) = RemoveAt(shCalls, i)
    BY <1>3 DEF Rest, OneCall
  <2>2. Rest(i) = <<>>
    BY <1>1, <2>1, OneLess, Zenon
  <2>3. Len(<<>>) <= 1
    OBVIOUS
  <2> QED BY <1>1, <2>2, <2>3, Zenon
<1>4. CASE LinkCall(shCalls[i])
  <2>1. Rest(i) = [shCalls EXCEPT ![i] = Tail(@)] /\ ~OneCall(shCalls[i])
    BY <1>4 DEF Rest, LinkCall, OneCall
  <2>2. shCalls[i] \in Seq(ShReqRecs) /\ Len(shCalls[i]) = 2
    BY <1>4, CallOf DEF LinkCall
  <2>3. Tail(shCalls[i]) = <<shCalls[i][2]>> /\ Tail(shCalls[i]) \in Seq(ShReqRecs)
    BY <2>2, TailOfTwo, Zenon
  <2> DEFINE q == Rest(i)
  <2>4. q = [shCalls EXCEPT ![1] = Tail(shCalls[i])]
    BY <1>1, <2>1
  <2>5. Len(q) = 1 /\ q[1] = Tail(shCalls[i]) /\ 1 \in DOMAIN q
    <3> DEFINE t == Tail(shCalls[i])
    <3>1. t \in Seq(ShReqRecs)
      BY <2>3
    <3> HIDE DEF t
    <3>2. \A S : shCalls \in Seq(S) /\ t \in S =>
            Len([shCalls EXCEPT ![1] = t]) = 1 /\ [shCalls EXCEPT ![1] = t][1] = t /\ 1 \in DOMAIN [shCalls EXCEPT ![1] = t]
      BY <1>1, OneReplaced
    <3>3. q = [shCalls EXCEPT ![1] = t]
      BY <2>4 DEF t
    <3> QED BY <1>1, <3>1, <3>2, <3>3, Zenon DEF t
  <2> HIDE DEF q
  <2>6. Len(q) <= 1
    BY <2>5
  <2> QED BY Zenon, <1>1, <1>4, <2>1, <2>3, <2>5, <2>6 DEF q
<1> QED BY <1>2, <1>3, <1>4

----------------------------------------------------------------------------
(***************************************************************************)
(* What is asked, and what takes it back.                                   *)
(***************************************************************************)
\* The requests.
Asks(r, op, by, user, flags) ==
  /\ r \in ShReqRecs /\ r.op = op /\ r.by = by /\ r.user = user /\ r.flags = flags
  /\ r.patch = NoBoardPatch /\ r.link = NoLink /\ r.after = ""

LEMMA RequestIs ==
  ASSUME NEW op \in ShOpNames, NEW by \in {ShMe, ShAnn}, NEW user \in ShUsers, NEW flags \in ShFlags
  PROVE  Asks(ShRequest(op, by, user, flags), op, by, user, flags)
<1> DEFINE none == ""
           after == ""
           off == NoLink
<1>1. NoBoardPatch \in ShPatches
  BY DEF ShPatches
<1>2. NoLink \in ShLinks
  BY DEF NoLink, ShLinks
<1>3. after \in ShAfters
  BY DEF ShAfters
<1> DEFINE np == NoBoardPatch
           as == ShAfters
           bd == ShNoBoard
<1>4. ShRequest(op, by, user, flags) = [op |-> op, by |-> by, user |-> user, flags |-> flags, patch |-> np, board |-> bd, link |-> off, after |-> after]
  BY DEF ShRequest
<1>5. ShReqRecs = [op : ShOpNames, by : {ShMe, ShAnn}, user : ShUsers, flags : ShFlags, patch : ShPatches, board : ShBoards, link : ShLinks, after : as]
  BY Zenon DEF ShReqRecs
<1>6. np \in ShPatches /\ off \in ShLinks /\ after \in as /\ bd \in ShBoards
  <2>1. bd \in ShBoards
    BY DEF ShNoBoard, ShBoards, ShChans, Minimum
  <2> QED BY <1>1, <1>2, <1>3, <2>1
<1>7. np = NoBoardPatch /\ off = NoLink /\ after = ""
  OBVIOUS
<1> HIDE DEF np, off, after, as, bd
<1> DEFINE r == [op |-> op, by |-> by, user |-> user, flags |-> flags, patch |-> np, board |-> bd, link |-> off, after |-> after]
<1>8. /\ r \in [op : ShOpNames, by : {ShMe, ShAnn}, user : ShUsers, flags : ShFlags, patch : ShPatches, board : ShBoards, link : ShLinks, after : as]
      /\ r.op = op /\ r.by = by /\ r.user = user /\ r.flags = flags /\ r.patch = np /\ r.link = off /\ r.after = after
  BY <1>6
<1> HIDE DEF r
<1>9. ShRequest(op, by, user, flags) = r
  BY Zenon, <1>4 DEF r
<1> QED BY Zenon, <1>5, <1>7, <1>8, <1>9 DEF Asks

\* A field of a request set anew.
LEMMA RequestWith ==
  ASSUME NEW r \in ShReqRecs
  PROVE  /\ \A p \in ShPatches : [r EXCEPT !.patch = p] \in ShReqRecs /\ [r EXCEPT !.patch = p].patch = p
                                  /\ [r EXCEPT !.patch = p].op = r.op /\ [r EXCEPT !.patch = p].by = r.by
                                  /\ [r EXCEPT !.patch = p].user = r.user /\ [r EXCEPT !.patch = p].after = r.after
         /\ \A l \in ShLinks : [r EXCEPT !.link = l] \in ShReqRecs /\ [r EXCEPT !.link = l].link = l
                                  /\ [r EXCEPT !.link = l].op = r.op /\ [r EXCEPT !.link = l].by = r.by
                                  /\ [r EXCEPT !.link = l].patch = r.patch /\ [r EXCEPT !.link = l].after = r.after
         /\ \A b \in ShBoards : \A a \in ShAfters :
              LET x == [r EXCEPT !.board = b, !.after = a] IN
              /\ x \in ShReqRecs /\ x.board = b /\ x.after = a
              /\ x.op = r.op /\ x.by = r.by /\ x.user = r.user /\ x.flags = r.flags /\ x.patch = r.patch
         /\ \A o \in ShOpNames :
              LET x == [r EXCEPT !.op = o] IN
              /\ x \in ShReqRecs /\ x.op = o
              /\ x.by = r.by /\ x.user = r.user /\ x.flags = r.flags /\ x.patch = r.patch /\ x.board = r.board
              /\ x.link = r.link /\ x.after = r.after
         /\ \A a \in ShAfters : [r EXCEPT !.after = a] \in ShReqRecs /\ [r EXCEPT !.after = a].after = a
                                  /\ [r EXCEPT !.after = a].op = r.op /\ [r EXCEPT !.after = a].by = r.by
                                  /\ [r EXCEPT !.after = a].user = r.user /\ [r EXCEPT !.after = a].flags = r.flags
                                  /\ [r EXCEPT !.after = a].patch = r.patch /\ [r EXCEPT !.after = a].link = r.link
<1> DEFINE as == ShAfters
<1>1. r \in [op : ShOpNames, by : {ShMe, ShAnn}, user : ShUsers, flags : ShFlags, patch : ShPatches, board : ShBoards, link : ShLinks, after : as]
  BY Zenon DEF ShReqRecs
<1>2. ShReqRecs = [op : ShOpNames, by : {ShMe, ShAnn}, user : ShUsers, flags : ShFlags, patch : ShPatches, board : ShBoards, link : ShLinks, after : as]
  BY Zenon DEF ShReqRecs
<1> HIDE DEF as
<1> DEFINE R == [op : ShOpNames, by : {ShMe, ShAnn}, user : ShUsers, flags : ShFlags, patch : ShPatches, board : ShBoards, link : ShLinks, after : as]
<1>3. \A p \in ShPatches : [r EXCEPT !.patch = p] \in R /\ [r EXCEPT !.patch = p].patch = p
                             /\ [r EXCEPT !.patch = p].op = r.op /\ [r EXCEPT !.patch = p].by = r.by
                             /\ [r EXCEPT !.patch = p].user = r.user /\ [r EXCEPT !.patch = p].after = r.after
  BY <1>1
<1>4. \A l \in ShLinks : [r EXCEPT !.link = l] \in R /\ [r EXCEPT !.link = l].link = l
                             /\ [r EXCEPT !.link = l].op = r.op /\ [r EXCEPT !.link = l].by = r.by
                             /\ [r EXCEPT !.link = l].patch = r.patch /\ [r EXCEPT !.link = l].after = r.after
  BY <1>1
<1>5. \A a \in as : [r EXCEPT !.after = a] \in R /\ [r EXCEPT !.after = a].after = a
                             /\ [r EXCEPT !.after = a].op = r.op /\ [r EXCEPT !.after = a].by = r.by
                             /\ [r EXCEPT !.after = a].user = r.user /\ [r EXCEPT !.after = a].flags = r.flags
                             /\ [r EXCEPT !.after = a].patch = r.patch /\ [r EXCEPT !.after = a].link = r.link
  BY <1>1
<1>7. \A b \in ShBoards : \A a \in as :
        LET x == [r EXCEPT !.board = b, !.after = a] IN
        /\ x \in R /\ x.board = b /\ x.after = a
        /\ x.op = r.op /\ x.by = r.by /\ x.user = r.user /\ x.flags = r.flags /\ x.patch = r.patch
  BY <1>1
<1>8. \A o \in ShOpNames :
        LET x == [r EXCEPT !.op = o] IN
        /\ x \in R /\ x.op = o
        /\ x.by = r.by /\ x.user = r.user /\ x.flags = r.flags /\ x.patch = r.patch /\ x.board = r.board
        /\ x.link = r.link /\ x.after = r.after
  BY <1>1
<1>6. ShReqRecs = R
  BY Zenon, <1>2
<1> HIDE DEF R
<1> QED BY Zenon, <1>3, <1>4, <1>5, <1>6, <1>7, <1>8 DEF as

AsksPatch(r, by, field, to) ==
  /\ r \in ShReqRecs /\ r.op = "patch" /\ r.by = by /\ r.after \notin {"put", "drop"}
  /\ r.patch.field = field /\ r.patch.to = to
  /\ by = ShMe \/ field # "channel" => Sensible(r)

LEMMA BoardPatchIs ==
  ASSUME NEW by \in {ShMe, ShAnn}, NEW field, NEW to,
         \/ field = "channel" /\ to \in ShChans
         \/ field = "min" /\ to \in Minimum
  PROVE  AsksPatch(PatchBoard(by, field, to), by, field, to)
<1> DEFINE p == [field |-> field, to |-> to]
           q == ShRequest("patch", by, by, {})
           r == PatchBoard(by, field, to)
<1>1. p \in ShPatches /\ p.field = field /\ p.to = to
  <2>1. CASE field = "channel" /\ to \in ShChans
    <3>1. p \in [field : {"channel"}, to : ShChans]
      BY <2>1
    <3> QED BY <3>1 DEF ShPatches
  <2>2. CASE field = "min" /\ to \in Minimum
    <3>1. p \in [field : {"min"}, to : Minimum]
      BY <2>2
    <3> QED BY <3>1 DEF ShPatches
  <2> QED BY <2>1, <2>2
<1>2. q \in ShReqRecs /\ q.op = "patch" /\ q.by = by /\ q.after \notin {"put", "drop"}
  <2>1. "patch" \in ShOpNames /\ by \in ShUsers /\ {} \in ShFlags
    BY ShAssumption DEF ShOpNames, ShFlags
  <2>2. \A u \in ShUsers, f \in ShFlags, y \in ShOpNames : Asks(ShRequest(y, by, u, f), y, by, u, f)
    BY RequestIs
  <2>3. Asks(q, "patch", by, by, {})
    BY Zenon, <2>1, <2>2
  <2> DEFINE none == ""
  <2>4. none \notin {"put", "drop"}
    OBVIOUS
  <2>5. q \in ShReqRecs /\ q.op = "patch" /\ q.by = by /\ q.after = none
    BY Zenon, <2>3 DEF Asks
  <2> HIDE DEF q, none
  <2> QED BY <2>4, <2>5
<1> HIDE DEF p, q
<1>3. r = [q EXCEPT !.patch = p]
  BY DEF PatchBoard, p, q
<1>4. r \in ShReqRecs /\ r.op = "patch" /\ r.by = by /\ r.patch = p /\ r.after \notin {"put", "drop"}
  <2> HIDE DEF r
  <2>1. r \in ShReqRecs /\ r.op = q.op /\ r.by = q.by /\ r.patch = p /\ r.after = q.after
    <3>1. \A x \in ShPatches : [q EXCEPT !.patch = x] \in ShReqRecs /\ [q EXCEPT !.patch = x].patch = x
                                  /\ [q EXCEPT !.patch = x].op = q.op /\ [q EXCEPT !.patch = x].by = q.by
                                  /\ [q EXCEPT !.patch = x].user = q.user /\ [q EXCEPT !.patch = x].after = q.after
      BY Zenon, <1>2, RequestWith
    <3> QED BY Zenon, <1>1, <1>3, <3>1
  <2> QED BY <1>2, <2>1
<1> HIDE DEF r
<1>5. by = ShMe \/ field # "channel" => Sensible(r)
  <2>1. ShMe # ShAnn
    BY ShAssumption
  <2>2. r.op \notin {"add", "update", "share", "load"} /\ r.op # "share" /\ r.after # "drop" /\ r.after # "put" /\ r.op # "answer"
    BY <1>4
  <2>3. r.op \notin {"add", "update"} /\ r.op \notin {"share", "load"}
    BY <2>2
  <2> QED BY Zenon, <1>1, <1>4, <2>1, <2>2, <2>3 DEF Sensible
<1>6. r.patch.field = field /\ r.patch.to = to
  BY <1>1, <1>4
<1> QED BY Zenon, <1>4, <1>5, <1>6 DEF r, AsksPatch

\* The patch that puts a board into the store.
LEMMA PutBoardIs ==
  ASSUME NEW field, NEW to, NEW board \in ShBoards,
         \/ field = "channel" /\ to \in ShChans
         \/ field = "min" /\ to \in Minimum
  PROVE  LET r == ShPutBoard(field, to, board) IN
         /\ r \in ShReqRecs /\ r.op = "patch" /\ r.by = ShMe /\ r.after = "put" /\ r.board = board
         /\ r.patch.field = field /\ r.patch.to = to /\ Sensible(r)
<1> DEFINE q == PatchBoard(ShMe, field, to)
           r == ShPutBoard(field, to, board)
<1>1. AsksPatch(q, ShMe, field, to)
  BY BoardPatchIs
<1> HIDE DEF q
<1>2. r = [q EXCEPT !.board = board, !.after = "put"]
  BY DEF ShPutBoard, q
<1>3. "put" \in ShAfters
  BY DEF ShAfters
<1>4. q \in ShReqRecs /\ q.op = "patch" /\ q.by = ShMe /\ q.patch.field = field /\ q.patch.to = to
  BY Zenon, <1>1 DEF AsksPatch
<1>5. /\ r \in ShReqRecs /\ r.board = board /\ r.after = "put" /\ r.op = q.op /\ r.by = q.by /\ r.patch = q.patch
  <2>1. \A b \in ShBoards : \A a \in ShAfters :
          LET x == [q EXCEPT !.board = b, !.after = a] IN
          /\ x \in ShReqRecs /\ x.board = b /\ x.after = a
          /\ x.op = q.op /\ x.by = q.by /\ x.user = q.user /\ x.flags = q.flags /\ x.patch = q.patch
    BY Zenon, <1>4, RequestWith
  <2> HIDE DEF r
  <2> QED BY Zenon, <1>2, <1>3, <2>1
<1> HIDE DEF r
<1>6. Sensible(r)
  <2>1. ShMe # ShAnn
    BY Zenon, ShAssumption
  <2>2. r.op = "patch" /\ r.after = "put" /\ r.by = ShMe
    BY <1>4, <1>5
  <2>3. r.op \notin {"add", "update"} /\ r.op \notin {"share", "load"} /\ r.op # "share" /\ r.after # "drop" /\ r.op # "answer"
        /\ r.op \in {"patch", "answer"}
    BY <2>2
  <2> QED BY Zenon, <2>1, <2>2, <2>3 DEF Sensible
<1> QED BY <1>4, <1>5, <1>6 DEF r

LEMMA ShareIs ==
  ASSUME NEW link \in ShLinks, link.known
  PROVE  LET c == <<SetSharing(link), GetSharing>> IN
         /\ c \in Seq(ShReqRecs) /\ LinkCall(c) /\ \A j \in DOMAIN c : Sensible(c[j])
         /\ c[1] = SetSharing(link) /\ c[2] = GetSharing
         /\ c[1].op = "share" /\ c[1].link = link /\ c[1].after = "" /\ c[1].by = ShMe
         /\ c[2].op = "load" /\ c[2].after = "" /\ c[2].by = ShMe
         /\ DOMAIN c = {1, 2}
<1> DEFINE q == ShRequest("share", ShMe, ShMe, {})
           a == SetSharing(link)
           b == GetSharing
<1>1. "share" \in ShOpNames /\ "load" \in ShOpNames /\ ShMe \in ShUsers /\ {} \in ShFlags /\ ShMe # ShAnn
  BY ShAssumption DEF ShOpNames, ShFlags
<1>2. Asks(q, "share", ShMe, ShMe, {}) /\ Asks(b, "load", ShMe, ShMe, {})
  <2>1. \A u \in ShUsers, f \in ShFlags, y \in ShOpNames : Asks(ShRequest(y, ShMe, u, f), y, ShMe, u, f)
    BY RequestIs
  <2> QED BY Zenon, <1>1, <2>1 DEF GetSharing
<1> HIDE DEF q, b
<1>3. /\ q \in ShReqRecs /\ q.op = "share" /\ q.by = ShMe /\ q.after = ""
      /\ b \in ShReqRecs /\ b.op = "load" /\ b.by = ShMe /\ b.after = ""
  BY Zenon, <1>2 DEF Asks
<1>4. a = [q EXCEPT !.link = link]
  BY DEF SetSharing, q
<1>5. a \in ShReqRecs /\ a.op = "share" /\ a.by = ShMe /\ a.after = "" /\ a.link = link
  <2> HIDE DEF a
  <2>1. a \in ShReqRecs /\ a.link = link /\ a.op = q.op /\ a.by = q.by /\ a.after = q.after
    <3>1. \A l \in ShLinks : [q EXCEPT !.link = l] \in ShReqRecs /\ [q EXCEPT !.link = l].link = l
                               /\ [q EXCEPT !.link = l].op = q.op /\ [q EXCEPT !.link = l].by = q.by
                               /\ [q EXCEPT !.link = l].patch = q.patch /\ [q EXCEPT !.link = l].after = q.after
      BY <1>3, RequestWith, Zenon
    <3> QED BY Zenon, <1>4, <3>1
  <2> QED BY Zenon, <1>3, <2>1
<1> HIDE DEF a
<1>6. Sensible(a) /\ Sensible(b)
  <2>1. a.op \notin {"add", "update"} /\ b.op \notin {"add", "update"} /\ b.op # "share" /\ a.after # "drop" /\ b.after # "drop"
        /\ a.after # "put" /\ b.after # "put" /\ a.op # "answer" /\ b.op # "answer"
    <3> DEFINE none == ""
    <3>1. a.after = none /\ b.after = none /\ none # "drop" /\ none # "put"
      BY <1>3, <1>5
    <3>2. a.op = "share" /\ b.op = "load"
      BY Zenon, <1>3, <1>5
    <3> HIDE DEF none
    <3> QED BY <3>1, <3>2
  <2> QED BY Zenon, <1>1, <1>3, <1>5, <2>1 DEF Sensible
<1> DEFINE c == <<a, b>>
<1>7. c \in Seq(ShReqRecs) /\ Len(c) = 2 /\ c[1] = a /\ c[2] = b /\ DOMAIN c = {1, 2}
  <2>1. a \in ShReqRecs /\ b \in ShReqRecs
    BY Zenon, <1>3, <1>5
  <2> QED BY <2>1
<1> HIDE DEF c
<1>8. LinkCall(c)
  BY <1>3, <1>5, <1>7 DEF LinkCall
<1>9. \A j \in DOMAIN c : Sensible(c[j])
  BY <1>6, <1>7
<1> QED BY Zenon, <1>3, <1>5, <1>7, <1>8, <1>9 DEF a, b, c

\* A request about a member.
LEMMA PlainIsSensible ==
  ASSUME NEW r, NEW op \in {"add", "update", "remove"}, NEW by, NEW user, NEW flags,
         Asks(r, op, by, user, flags), op # "remove" => flags # {}
  PROVE  /\ Sensible(r) /\ r.after \notin {"put", "drop"} /\ r.op \notin {"share", "load", "answer"} /\ r \in ShReqRecs
         /\ r.op = op /\ r.by = by /\ r.user = user /\ r.flags = flags
<1> DEFINE none == ""
           np == NoBoardPatch
<1>1. /\ r \in ShReqRecs /\ r.op = op /\ r.by = by /\ r.user = user /\ r.flags = flags
      /\ r.patch = np /\ r.after = none
  BY Zenon DEF Asks
<1>2. np.field = none /\ none # "channel" /\ none # "drop" /\ none # "put"
  BY DEF NoBoardPatch
<1> HIDE DEF none, np
<1>3. r.op \notin {"share", "load", "answer"} /\ r.op # "share" /\ r.op \notin {"share", "load"} /\ r.op # "answer"
  BY <1>1
<1>4. r.op \in {"add", "update"} => r.flags # {}
  BY <1>1
<1>5. r.after # "drop" /\ r.after # "put" /\ r.after \notin {"put", "drop"} /\ r.patch.field # "channel"
  BY <1>1, <1>2
<1> QED BY Zenon, <1>1, <1>3, <1>4, <1>5 DEF Sensible

\* One request is a call.
LEMMA OneIsCall ==
  ASSUME NEW r \in ShReqRecs, r.op # "share"
  PROVE  /\ <<r>> \in Seq(ShReqRecs) /\ OneCall(<<r>>) /\ <<r>>[1] = r /\ DOMAIN <<r>> = {1}
         /\ Sensible(r) => \A j \in DOMAIN <<r>> : Sensible(<<r>>[j])
<1> DEFINE c == <<r>>
<1>1. c \in Seq(ShReqRecs) /\ c[1] = r /\ DOMAIN c = {1} /\ Len(c) = 1
  OBVIOUS
<1> HIDE DEF c
<1>2. OneCall(c)
  BY <1>1 DEF OneCall
<1>3. Sensible(r) => \A j \in DOMAIN c : Sensible(c[j])
  BY <1>1
<1> QED BY Zenon, <1>1, <1>2, <1>3 DEF c

LEMMA CallsAppended ==
  ASSUME NEW S, NEW s \in Seq(S), NEW x \in S
  PROVE  /\ Append(s, x) \in Seq(S) /\ Len(Append(s, x)) = Len(s) + 1
         /\ \A i \in DOMAIN Append(s, x) : Append(s, x)[i] = x \/ (i \in DOMAIN s /\ Append(s, x)[i] = s[i])
<1>1. /\ Append(s, x) \in Seq(S) /\ Len(Append(s, x)) = Len(s) + 1
      /\ \A i \in 1..Len(s) : Append(s, x)[i] = s[i]
      /\ Append(s, x)[Len(s) + 1] = x
  BY AppendProperties
<1>2. DOMAIN Append(s, x) = 1..(Len(s) + 1) /\ Len(s) \in Nat /\ DOMAIN s = 1..Len(s)
  BY <1>1, LenProperties
<1>3. ASSUME NEW i \in 1..(Len(s) + 1)  PROVE i = Len(s) + 1 \/ i \in 1..Len(s)
  BY <1>2
<1> QED BY <1>1, <1>2, <1>3

LEMMA BeginTypes ==
  ASSUME ShTypes, NEW c \in Seq(ShReqRecs), OneCall(c) \/ LinkCall(c), \A j \in DOMAIN c : Sensible(c[j]),
         NEW u, Begin(c, u)
  PROVE  /\ CallsFit' /\ shHist' \in ShPasts /\ shOps' \in 0..ShMaxOps
         /\ shServer' = shServer /\ shNews' = shNews /\ shFetches' = shFetches /\ shFaults' = shFaults /\ shUndo' = u
<1>1. /\ shServer' = shServer /\ shNews' = shNews /\ shFetches' = shFetches /\ shFaults' = shFaults /\ shUndo' = u
      /\ shCalls' = Append(shCalls, c) /\ Len(shCalls) < 2 /\ shOps > 0
      /\ shOps' = (IF ShSettled THEN shOps - 1 ELSE 0)
      /\ shHist' = [shHist EXCEPT !.apart = @ \/ ~ShSettled, !.back = <<>>]
  BY Zenon DEF Begin
<1>2. CallsFit /\ shHist \in ShPasts /\ shOps \in 0..ShMaxOps
  BY Zenon DEF ShTypes
<1>3. shOps' \in 0..ShMaxOps
  <2>1. ShMaxOps \in Nat
    BY Zenon, ShAssumption
  <2>2. shOps' = shOps - 1 \/ shOps' = 0
    BY Zenon, <1>1
  <2> QED BY <1>1, <1>2, <2>1, <2>2
<1>4. shHist' \in ShPasts
  <2> DEFINE a == shHist.apart \/ ~ShSettled
  <2>1. shHist' = [shHist EXCEPT !.apart = a, !.back = <<>>]
    BY <1>1
  <2>2. a \in BOOLEAN /\ <<>> \in Seq(ShServers)
    BY DEF ShSettled
  <2> HIDE DEF a
  <2> QED BY <1>2, <2>1, <2>2 DEF ShPasts
<1>5. /\ shCalls \in Seq(Seq(ShReqRecs)) /\ Len(shCalls) <= 2
      /\ \A i \in DOMAIN shCalls : \A j \in DOMAIN shCalls[i] : Sensible(shCalls[i][j])
      /\ \A i \in DOMAIN shCalls : OneCall(shCalls[i]) \/ LinkCall(shCalls[i])
  BY Zenon, <1>2 DEF CallsFit
<1>6. /\ shCalls' \in Seq(Seq(ShReqRecs)) /\ Len(shCalls') = Len(shCalls) + 1
      /\ \A i \in DOMAIN shCalls' : shCalls'[i] = c \/ (i \in DOMAIN shCalls /\ shCalls'[i] = shCalls[i])
  <2>1. \A S : shCalls \in Seq(S) /\ c \in S =>
            /\ Append(shCalls, c) \in Seq(S) /\ Len(Append(shCalls, c)) = Len(shCalls) + 1
            /\ \A i \in DOMAIN Append(shCalls, c) : Append(shCalls, c)[i] = c \/ (i \in DOMAIN shCalls /\ Append(shCalls, c)[i] = shCalls[i])
    BY CallsAppended
  <2> QED BY Zenon, <1>1, <1>5, <2>1
<1>7. Len(shCalls') <= 2
  <2>1. Len(shCalls) \in Nat
    BY <1>5, LenProperties
  <2> QED BY <1>1, <1>6, <2>1
<1>8. CallsFit'
  BY Zenon, <1>5, <1>6, <1>7 DEF CallsFit
<1> QED BY Zenon, <1>1, <1>3, <1>4, <1>8

\* What is asked in the dialog, and the request that undoes it.
PlainRequest(do) == do \in ShReqRecs /\ do.op \notin {"share", "load", "answer"} /\ Sensible(do)

LEMMA OperateTypes ==
  ASSUME ShTypes, NEW do, NEW back, PlainRequest(do), back \in ShReqRecs, Undoing(back), Operate(do, back)
  PROVE  ShTypes'
<1> DEFINE u == <<[undo |-> back, was |-> IF shHist.crossed THEN <<>> ELSE <<shServer>>]>>
<1>1. Begin(<<do>>, u) /\ shClient' = shClient /\ shTokens' = shTokens
  BY Zenon DEF Operate
<1>2. /\ shServer \in ShServers /\ shClient \in ShClients /\ shNews \in Seq(ShNewsRecs) /\ shFetches \in BOOLEAN
      /\ shTokens \in Nat /\ shFaults \in 0..ShMaxFaults
  BY Zenon DEF ShTypes
<1>3. u \in Seq(ShUndos) /\ \A i \in DOMAIN u : u[i].undo = back
  <2> DEFINE w == IF shHist.crossed THEN <<>> ELSE <<shServer>>
  <2>1. w \in Seq(ShServers)
    BY <1>2
  <2>2. u = <<[undo |-> back, was |-> w]>>
    OBVIOUS
  <2> HIDE DEF w, u
  <2> QED BY <2>1, <2>2 DEF ShUndos
<1>4. do \in ShReqRecs /\ do.op # "share" /\ Sensible(do)
  BY DEF PlainRequest
<1> HIDE DEF u
<1>5. /\ <<do>> \in Seq(ShReqRecs) /\ OneCall(<<do>>) /\ \A j \in DOMAIN <<do>> : Sensible(<<do>>[j])
  BY Zenon, <1>4, OneIsCall
<1>6. /\ CallsFit' /\ shHist' \in ShPasts /\ shOps' \in 0..ShMaxOps
      /\ shServer' = shServer /\ shNews' = shNews /\ shFetches' = shFetches /\ shFaults' = shFaults /\ shUndo' = u
  BY Zenon, <1>1, <1>5, BeginTypes
<1>7. UndoFits'
  BY Zenon, <1>3, <1>6 DEF UndoFits
<1> QED BY Zenon, <1>1, <1>2, <1>6, <1>7 DEF ShTypes

\* The request that undoes another leads back to the board before it.
LeadsBack(s, do, back) ==
  LET t == Served(s, do).server IN Allowed(t, ShMe, "manage") => SameBoard(Served(t, back).server, s)

LEMMA RowBack ==
  ASSUME NEW s \in ShServers, NEW u \in ShUsers, NEW x \in ShFlags
  PROVE  SameBoard(WithRow(WithRow(s, u, x), u, s.rows[u]), s)
<1> DEFINE t == WithRow(s, u, x)
           v == WithRow(t, u, s.rows[u])
<1>1. s.rows[u] \in ShFlags /\ s.rows \in [ShUsers -> ShFlags]
  BY DEF ShServers
<1>2. /\ t \in ShServers /\ t.rows[u] = x /\ \A w \in ShUsers : w # u => t.rows[w] = s.rows[w]
      /\ t.channel = s.channel /\ t.min = s.min
  BY RowWritten
<1> HIDE DEF t
<1>3. /\ v \in ShServers /\ v.rows[u] = s.rows[u] /\ \A w \in ShUsers : w # u => v.rows[w] = t.rows[w]
      /\ v.channel = t.channel /\ v.min = t.min
  BY <1>1, <1>2, RowWritten
<1> HIDE DEF v
<1>4. v.rows \in [ShUsers -> ShFlags] /\ \A w \in ShUsers : v.rows[w] = s.rows[w]
  BY <1>2, <1>3 DEF ShServers
<1>5. v.rows = s.rows
  BY <1>1, <1>4
<1>6. SameBoard(v, s)
  BY Zenon, <1>2, <1>3, <1>5 DEF SameBoard
<1> QED BY <1>6 DEF v, t

LEMMA AddLeadsBack ==
  ASSUME NEW s \in ShServers, NEW u \in ShUsers, NEW flags \in ShFlags, flags # {}, "admin" \notin flags, s.rows[u] = {},
         NEW do, do.op = "add", do.by = ShMe, do.user = u, do.flags = flags, Allowed(s, ShMe, "manage"),
         NEW back, back.op = "remove", back.by = ShMe, back.user = u
  PROVE  LeadsBack(s, do, back)
<1> DEFINE t == WithRow(s, u, flags)
<1>1. Served(s, do).server = t
  BY DEF Served, Added, WithRow
<1>2. t \in ShServers /\ t.rows[u] = flags
  BY RowWritten
<1>3. MemberAt(t, u).flags # {}
  <2> HIDE DEF t
  <2>1. MemberAt(t, u) = [flags |-> t.rows[u], min |-> t.min, synthetic |-> FALSE]
    BY <1>2, MemberOf
  <2> QED BY <1>2, <2>1
<1> HIDE DEF t
<1>4. ASSUME Allowed(t, ShMe, "manage")  PROVE Served(t, back).server = WithRow(t, u, {})
  <2>1. Served(t, back) = Removed(t, back)
    BY <1>4 DEF Served
  <2>2. Removed(t, back).server = WithRow(t, u, {})
    BY <1>2, <1>3 DEF Removed, WithRow
  <2> QED BY <2>1, <2>2
<1>5. SameBoard(WithRow(t, u, {}), s)
  BY RowBack DEF t
<1> QED BY Zenon, <1>1, <1>4, <1>5 DEF LeadsBack

LEMMA UpdateLeadsBack ==
  ASSUME NEW s \in ShServers, NEW u \in ShUsers, NEW flags \in ShFlags, flags # {}, s.rows[u] # {},
         u = ShMe => ~OnlyAdmin(s, u),
         NEW do, do.op = "update", do.by = ShMe, do.user = u, do.flags = flags, Allowed(s, ShMe, "manage"),
         NEW back, back.op = "update", back.by = ShMe, back.user = u, back.flags = s.rows[u]
  PROVE  LeadsBack(s, do, back)
<1> DEFINE t == WithRow(s, u, flags)
           old == s.rows[u]
<1>0. ShMe \in ShUsers
  BY Zenon, ShAssumption
<1>1. "admin" \in s.rows[ShMe] /\ old \in ShFlags
  BY <1>0, ManagerOf, MemberOf
<1>2. MemberAt(s, u).flags = old
  <2>1. MemberAt(s, u) = [flags |-> s.rows[u], min |-> s.min, synthetic |-> FALSE]
    BY MemberOf
  <2> QED BY <2>1
<1>3. ~OnlyAdmin(s, u)
  <2>1. CASE u = ShMe
    BY <2>1
  <2>2. CASE u # ShMe
    BY <1>0, <1>1, <2>2 DEF OnlyAdmin
  <2> QED BY <2>1, <2>2
<1>4. Served(s, do).server = t
  <2>1. Served(s, do) = Updated(s, do)
    BY DEF Served
  <2>2. Updated(s, do).server = t
    BY <1>2, <1>3 DEF Updated, WithRow
  <2> QED BY <2>1, <2>2
<1>5. t \in ShServers /\ t.rows[u] = flags /\ \A v \in ShUsers : v # u => t.rows[v] = s.rows[v]
  BY RowWritten
<1> HIDE DEF t, old
<1>6. MemberAt(t, u).flags = flags
  <2>1. MemberAt(t, u) = [flags |-> t.rows[u], min |-> t.min, synthetic |-> FALSE]
    BY <1>5, MemberOf
  <2> QED BY <1>5, <2>1
<1>7. ASSUME Allowed(t, ShMe, "manage")  PROVE Served(t, back).server = WithRow(t, u, old)
  <2>1. Served(t, back) = Updated(t, back)
    BY <1>7 DEF Served
  <2>2. ~("admin" \in flags \ old /\ OnlyAdmin(t, u))
    <3>1. CASE u = ShMe
      BY <1>1, <3>1 DEF old
    <3>2. CASE u # ShMe
      BY <1>0, <1>1, <1>5, <3>2 DEF OnlyAdmin
    <3> QED BY <3>1, <3>2
  <2>3. Updated(t, back).server = WithRow(t, u, old)
    BY <1>6, <2>2 DEF Updated, WithRow, old
  <2> QED BY <2>1, <2>3
<1>8. SameBoard(WithRow(t, u, old), s)
  BY RowBack DEF t, old
<1> QED BY Zenon, <1>4, <1>7, <1>8 DEF LeadsBack

LEMMA RemoveLeadsBack ==
  ASSUME NEW s \in ShServers, NEW u \in ShUsers, s.rows[u] # {}, ~("admin" \in s.rows[u] /\ OnlyAdmin(s, u)),
         NEW do, do.op = "remove", do.by = ShMe, do.user = u, Allowed(s, ShMe, "manage"),
         NEW back, back.op = "add", back.by = ShMe, back.user = u, back.flags = s.rows[u]
  PROVE  LeadsBack(s, do, back)
<1> DEFINE t == WithRow(s, u, {})
           old == s.rows[u]
<1>1. old \in ShFlags /\ {} \in ShFlags
  BY MemberOf DEF ShFlags
<1>2. MemberAt(s, u).flags = old
  <2>1. MemberAt(s, u) = [flags |-> s.rows[u], min |-> s.min, synthetic |-> FALSE]
    BY MemberOf
  <2> QED BY <2>1
<1>3. Served(s, do).server = t
  <2>1. Served(s, do) = Removed(s, do)
    BY DEF Served
  <2>2. Removed(s, do).server = t
    BY <1>2 DEF Removed, WithRow
  <2> QED BY <2>1, <2>2
<1>4. t \in ShServers /\ t.rows[u] = {}
  BY <1>1, RowWritten
<1> HIDE DEF t, old
<1>5. ASSUME Allowed(t, ShMe, "manage")  PROVE Served(t, back).server = WithRow(t, u, old)
  <2>1. Served(t, back) = Added(t, back)
    BY <1>5 DEF Served
  <2>2. Added(t, back).server = WithRow(t, u, old)
    BY <1>4 DEF Added, WithRow, old
  <2> QED BY <2>1, <2>2
<1>6. SameBoard(WithRow(t, u, old), s)
  BY <1>1, RowBack DEF t, old
<1> QED BY Zenon, <1>3, <1>5, <1>6 DEF LeadsBack

\* This user is in every channel that there is to link.
LEMMA MayPatchMine ==
  ASSUME NEW s \in ShServers, NEW r \in ShReqRecs, r.by = ShMe
  PROVE  MayPatch(s, r)
<1> DEFINE none == ""
           t == WithPatch(s, r.patch)
           c == IF t.channel # none THEN t.channel ELSE s.channel
<1>1. MayPatch(s, r) <=> (t.channel # s.channel \/ (t.min = none) # (s.min = none) => (c # none => r.by \in ShChannels[c]))
  BY DEF MayPatch
<1>2. r.patch \in ShPatches
  BY DEF ShReqRecs
<1>3. t \in ShServers
  BY <1>2, Patchwork
<1> HIDE DEF t
<1>4. t.channel \in ShChans /\ s.channel \in ShChans
  BY <1>3 DEF ShServers
<1>5. ShChans = DOMAIN ShChannels \cup {none} /\ \A x \in DOMAIN ShChannels : ShMe \in ShChannels[x]
  BY Zenon, ShAssumption DEF ShChans
<1> HIDE DEF none
<1>6. c # none => c \in DOMAIN ShChannels
  BY <1>4, <1>5
<1> QED BY <1>1, <1>5, <1>6

\* A patch of this user is written, and told.
LEMMA PatchWorks ==
  ASSUME NEW s \in ShServers, NEW r \in ShReqRecs, r.by = ShMe, r.op = "patch", Allowed(s, ShMe, "manage")
  PROVE  /\ Served(s, r).server = WithPatch(s, r.patch)
         /\ \E i \in DOMAIN Served(s, r).news : Served(s, r).news[i].about = "board"
<1> DEFINE d == PatchedBoard(s, r)
           t == WithPatch(s, r.patch)
<1>1. Served(s, r) = d
  BY DEF Served
<1>2. MayPatch(s, r)
  BY MayPatchMine
<1>3. d.server = t
  BY <1>2 DEF PatchedBoard
<1> HIDE DEF d, t
<1>4. ServedBoard(s, r, d)
  BY <1>2, PatchedIs DEF d
<1>5. PICK q \in Seq(ShNewsRecs) : d.news = <<BoardTold(t)>> \o q
  BY Zenon, <1>3, <1>4 DEF ServedBoard
<1>6. \E k \in DOMAIN d.news : d.news[k].about = "board"
  <2> DEFINE b == BoardTold(t)
             news == d.news
  <2>1. b.about = "board" /\ b \in ShNewsRecs
    <3>1. r.patch \in ShPatches
      BY DEF ShReqRecs
    <3>2. t \in ShServers
      BY <3>1, Patchwork DEF t
    <3> QED BY <3>2 DEF BoardTold, ShNewsRecs, ShServers
  <2> HIDE DEF b, news
  <2>2. news = <<b>> \o q /\ <<b>> \in Seq(ShNewsRecs)
    BY <1>5, <2>1 DEF b, news
  <2>3. news \in Seq(ShNewsRecs) /\ Len(news) = 1 + Len(q) /\ news[1] = b /\ Len(q) \in Nat
    BY <2>2
  <2>4. 1 \in DOMAIN news
    BY <2>3
  <2> QED BY Zenon, <2>1, <2>3, <2>4 DEF news
<1> QED BY <1>1, <1>3, <1>6 DEF t

LEMMA PatchLeadsBack ==
  ASSUME NEW s \in ShServers, NEW do \in ShReqRecs, do.op = "patch", do.by = ShMe, Allowed(s, ShMe, "manage"),
         NEW back \in ShReqRecs, back.op = "patch", back.by = ShMe, back.patch.field = do.patch.field,
         do.patch.field = "channel" => back.patch.to = s.channel,
         do.patch.field = "min" => back.patch.to = s.min
  PROVE  LeadsBack(s, do, back)
<1> DEFINE t == Served(s, do).server
           v == Served(t, back).server
<1>1. do.patch \in ShPatches /\ back.patch \in ShPatches
  BY DEF ShReqRecs
<1>2. t = WithPatch(s, do.patch)
  BY PatchWorks
<1>3. /\ t \in ShServers /\ t.rows = s.rows
      /\ t.channel = (IF do.patch.field = "channel" THEN do.patch.to ELSE s.channel)
      /\ t.min = (IF do.patch.field = "min" THEN do.patch.to ELSE s.min)
  BY <1>1, <1>2, Patchwork
<1> HIDE DEF t
<1>4. ASSUME Allowed(t, ShMe, "manage")  PROVE SameBoard(v, s)
  <2>1. v = WithPatch(t, back.patch)
    BY <1>3, <1>4, PatchWorks
  <2>2. /\ v.rows = t.rows
        /\ v.channel = (IF back.patch.field = "channel" THEN back.patch.to ELSE t.channel)
        /\ v.min = (IF back.patch.field = "min" THEN back.patch.to ELSE t.min)
    <3>1. \A p \in ShPatches : LET x == WithPatch(t, p) IN
            /\ x.rows = t.rows
            /\ x.channel = (IF p.field = "channel" THEN p.to ELSE t.channel)
            /\ x.min = (IF p.field = "min" THEN p.to ELSE t.min)
      BY <1>3, Patchwork
    <3> QED BY Zenon, <1>1, <2>1, <3>1
  <2> HIDE DEF v
  <2>3. v.rows = s.rows /\ v.channel = s.channel /\ v.min = s.min
    BY <1>3, <2>2
  <2> QED BY <2>3 DEF SameBoard
<1> QED BY <1>4 DEF LeadsBack, t

\* What the server makes of such a request has nothing to do with the link.
LEMMA MembersAside ==
  ASSUME NEW s \in ShServers, NEW t \in ShServers, SameBoard(s, t)
  PROVE  /\ \A u \in ShUsers : MemberAt(s, u) = MemberAt(t, u) /\ (OnlyAdmin(s, u) <=> OnlyAdmin(t, u))
         /\ \A u \in ShUsers : \A w : Allowed(s, u, w) <=> Allowed(t, u, w)
<1>1. s.rows = t.rows /\ s.channel = t.channel /\ s.min = t.min
  BY DEF SameBoard
<1>2. \A u : InChannel(s, u) <=> InChannel(t, u)
  BY Zenon, <1>1 DEF InChannel
<1>3. ASSUME NEW u \in ShUsers  PROVE MemberAt(s, u) = MemberAt(t, u) /\ (OnlyAdmin(s, u) <=> OnlyAdmin(t, u))
  <2>1. MemberAt(s, u) = MemberAt(t, u)
    <3>1. CASE s.rows[u] # {}
      <4>1. /\ MemberAt(s, u) = [flags |-> s.rows[u], min |-> s.min, synthetic |-> FALSE]
            /\ MemberAt(t, u) = [flags |-> t.rows[u], min |-> t.min, synthetic |-> FALSE]
        BY <1>1, <3>1, MemberOf
      <4> QED BY Zenon, <1>1, <4>1
    <3>2. CASE s.rows[u] = {} /\ InChannel(s, u)
      <4>1. t.rows[u] = {} /\ InChannel(t, u)
        BY <1>1, <1>2, <3>2
      <4> QED BY Zenon, <3>2, <4>1, MemberOf
    <3>3. CASE s.rows[u] = {} /\ ~InChannel(s, u)
      <4>1. t.rows[u] = {} /\ ~InChannel(t, u)
        BY <1>1, <1>2, <3>3
      <4> QED BY Zenon, <3>3, <4>1, MemberOf
    <3> QED BY <3>1, <3>2, <3>3
  <2>2. OnlyAdmin(s, u) <=> OnlyAdmin(t, u)
    BY Zenon, <1>1 DEF OnlyAdmin
  <2> QED BY <2>1, <2>2
<1>4. \A u \in ShUsers : \A w : Allowed(s, u, w) <=> Allowed(t, u, w)
  BY Zenon, <1>3 DEF Allowed, Can
<1> QED BY <1>3, <1>4

LEMMA RowAside ==
  ASSUME NEW s \in ShServers, NEW t \in ShServers, SameBoard(s, t), NEW u \in ShUsers, NEW x \in ShFlags
  PROVE  SameBoard(WithRow(s, u, x), WithRow(t, u, x))
<1>1. s.rows = t.rows /\ s.channel = t.channel /\ s.min = t.min
  BY DEF SameBoard
<1> DEFINE a == WithRow(s, u, x)
           b == WithRow(t, u, x)
<1>2. a.rows = [s.rows EXCEPT ![u] = x] /\ b.rows = [t.rows EXCEPT ![u] = x]
  BY DEF WithRow, ShServers
<1>3. a.channel = s.channel /\ a.min = s.min /\ b.channel = t.channel /\ b.min = t.min
  BY RowWritten
<1> HIDE DEF a, b
<1>4. a.rows = b.rows
  BY <1>1, <1>2
<1>5. SameBoard(a, b)
  BY Zenon, <1>1, <1>3, <1>4 DEF SameBoard
<1> QED BY <1>5 DEF a, b

LEMMA LinkAside ==
  ASSUME NEW s \in ShServers, NEW t \in ShServers, SameBoard(s, t),
         NEW r \in ShReqRecs, r.op \notin {"share", "load", "answer"}
  PROVE  SameBoard(Served(s, r).server, Served(t, r).server)
<1> DEFINE u == r.user
<1>1. s.rows = t.rows /\ s.channel = t.channel /\ s.min = t.min
  BY DEF SameBoard
<1>2. u \in ShUsers /\ r.by \in ShUsers /\ r.flags \in ShFlags /\ r.patch \in ShPatches /\ {} \in ShFlags
      /\ r.op \in {"add", "update", "remove", "patch"}
  <2>1. ShMe \in ShUsers /\ ShAnn \in ShUsers
    BY Zenon, ShAssumption
  <2>2. r.by \in {ShMe, ShAnn} /\ r.user \in ShUsers /\ r.flags \in ShFlags /\ r.patch \in ShPatches /\ r.op \in ShOpNames
    BY DEF ShReqRecs
  <2> QED BY <2>1, <2>2 DEF ShOpNames, ShFlags
<1>3. /\ MemberAt(s, u) = MemberAt(t, u) /\ (OnlyAdmin(s, u) <=> OnlyAdmin(t, u))
      /\ Allowed(s, r.by, "manage") <=> Allowed(t, r.by, "manage")
  BY Zenon, <1>2, MembersAside
<1>4. SameBoard(WithRow(s, u, r.flags), WithRow(t, u, r.flags)) /\ SameBoard(WithRow(s, u, {}), WithRow(t, u, {}))
  BY <1>2, RowAside
<1>5. NothingDone(s).server = s /\ NothingDone(t).server = t
  BY DEF NothingDone
<1>6. CASE ~Allowed(s, r.by, "manage")
  BY <1>3, <1>5, <1>6 DEF Served
<1>7. CASE Allowed(s, r.by, "manage")
  <2>1. CASE r.op = "add"
    <3>1. Served(s, r) = Added(s, r) /\ Served(t, r) = Added(t, r)
      BY <1>3, <1>7, <2>1 DEF Served
    <3>2. CASE s.rows[u] # {}
      BY <1>1, <1>5, <3>1, <3>2 DEF Added
    <3>3. CASE s.rows[u] = {}
      <4>1. Added(s, r).server = WithRow(s, u, r.flags) /\ Added(t, r).server = WithRow(t, u, r.flags)
        BY <1>1, <3>3 DEF Added, WithRow
      <4> QED BY <1>4, <3>1, <4>1
    <3> QED BY <3>2, <3>3
  <2>2. CASE r.op = "update"
    <3> DEFINE old == MemberAt(s, u).flags
               no == old = {} \/ ("admin" \in old \ r.flags /\ OnlyAdmin(s, u))
    <3>1. Served(s, r) = Updated(s, r) /\ Served(t, r) = Updated(t, r)
      BY <1>3, <1>7, <2>2 DEF Served
    <3>2. CASE no
      <4>1. Updated(s, r).server = s /\ Updated(t, r).server = t
        BY <1>3, <1>5, <3>2 DEF Updated
      <4> QED BY <3>1, <4>1
    <3>3. CASE ~no
      <4>1. Updated(s, r).server = WithRow(s, u, r.flags) /\ Updated(t, r).server = WithRow(t, u, r.flags)
        BY <1>3, <3>3 DEF Updated, WithRow
      <4> QED BY <1>4, <3>1, <4>1
    <3> QED BY <3>2, <3>3
  <2>3. CASE r.op = "remove"
    <3> DEFINE no == MemberAt(s, u).flags = {} \/ ("admin" \in s.rows[u] /\ OnlyAdmin(s, u))
    <3>1. Served(s, r) = Removed(s, r) /\ Served(t, r) = Removed(t, r)
      BY <1>3, <1>7, <2>3 DEF Served
    <3>2. CASE no
      <4>1. Removed(s, r).server = s /\ Removed(t, r).server = t
        BY <1>1, <1>3, <1>5, <3>2 DEF Removed
      <4> QED BY <3>1, <4>1
    <3>3. CASE ~no
      <4>1. Removed(s, r).server = WithRow(s, u, {}) /\ Removed(t, r).server = WithRow(t, u, {})
        BY <1>1, <1>3, <3>3 DEF Removed, WithRow
      <4> QED BY <1>4, <3>1, <4>1
    <3> QED BY <3>2, <3>3
  <2>4. CASE r.op = "patch"
    <3> DEFINE a == WithPatch(s, r.patch)
               b == WithPatch(t, r.patch)
    <3>1. Served(s, r) = PatchedBoard(s, r) /\ Served(t, r) = PatchedBoard(t, r)
      BY <1>3, <1>7, <2>4 DEF Served
    <3>2. /\ a.rows = s.rows /\ a.channel = (IF r.patch.field = "channel" THEN r.patch.to ELSE s.channel)
          /\ a.min = (IF r.patch.field = "min" THEN r.patch.to ELSE s.min)
          /\ b.rows = t.rows /\ b.channel = (IF r.patch.field = "channel" THEN r.patch.to ELSE t.channel)
          /\ b.min = (IF r.patch.field = "min" THEN r.patch.to ELSE t.min)
      BY <1>2, Patchwork
    <3>3. a.rows = b.rows /\ a.channel = b.channel /\ a.min = b.min
      <4> HIDE DEF a, b
      <4> QED BY <1>1, <3>2
    <3>4. SameBoard(a, b)
      BY Zenon, <3>3 DEF SameBoard
    <3>5. MayPatch(s, r) <=> MayPatch(t, r)
      BY Zenon, <1>1, <3>3 DEF MayPatch
    <3>6. CASE MayPatch(s, r)
      <4>1. PatchedBoard(s, r).server = a /\ PatchedBoard(t, r).server = b
        BY <3>5, <3>6 DEF PatchedBoard
      <4> QED BY <3>1, <3>4, <4>1
    <3>7. CASE ~MayPatch(s, r)
      <4>1. PatchedBoard(s, r).server = s /\ PatchedBoard(t, r).server = t
        BY <1>5, <3>5, <3>7 DEF PatchedBoard
      <4> QED BY <3>1, <4>1
    <3> QED BY <3>6, <3>7
  <2> QED BY <1>2, <2>1, <2>2, <2>3, <2>4
<1> QED BY <1>6, <1>7

----------------------------------------------------------------------------
(***************************************************************************)
(* The steps of the dialog.                                                 *)
(***************************************************************************)
\* Nothing is under way.
LEMMA AtRest ==
  ASSUME ShInv, ~shHist.apart, ShSettled
  PROVE  /\ shCalls = <<>> /\ shNews = <<>> /\ shFetches = FALSE /\ Coming = shServer
         /\ (\A u : ~NewsAbout(u)) /\ ~NewsOfBoard /\ ~ToFetch /\ ~Linking
         /\ shClient.open =>
              /\ \A u \in ShUsers : Matches(u)
              /\ shClient.mine = MemberAt(shServer, ShMe).flags
              /\ ~shHist.crossed => shClient.channel = shServer.channel /\ shClient.min = shServer.min
         /\ shClient.link.known => shClient.link = shServer.link
         /\ shHist.crossed => shHist.undone
<1>1. shCalls = <<>> /\ shNews = <<>> /\ shFetches = FALSE
  <2>1. shFetches \in BOOLEAN /\ ~shFetches /\ shCalls = <<>> /\ shNews = <<>>
    BY Zenon DEF ShInv, ShTypes, ShSettled
  <2> QED BY <2>1
<1>2. DOMAIN shNews = {} /\ DOMAIN shCalls = {}
  BY <1>1
<1>3. (\A u : ~NewsAbout(u)) /\ ~NewsOfBoard /\ ~ToFetch /\ ~Linking
  BY <1>1, <1>2 DEF NewsAbout, NewsOfBoard, ToFetch, Linking
<1>4. ShMe \in ShUsers
  BY Zenon, ShAssumption
<1>5. shClient.open =>
        /\ \A u \in ShUsers : Matches(u)
        /\ shClient.mine = MemberAt(shServer, ShMe).flags
        /\ ~shHist.crossed => shClient.channel = shServer.channel /\ shClient.min = shServer.min
  BY Zenon, <1>3 DEF ShInv, MirrorInv
<1>6. shClient.link.known => shClient.link = shServer.link
  BY Zenon, <1>3 DEF ShInv, ShareLinkInv
<1>7. Coming = shServer
  BY <1>1 DEF Coming
<1>8. shHist.crossed => shHist.undone
  BY Zenon DEF ShInv, CallsInv
<1> QED BY Zenon, <1>1, <1>3, <1>5, <1>6, <1>7, <1>8

\* Who may use the dialog is an admin at the server.
LEMMA Manages ==
  ASSUME ShInv, ~shHist.apart, ShSettled, MayManage
  PROVE  shClient.open /\ Allowed(shServer, ShMe, "manage") /\ "admin" \in shServer.rows[ShMe]
<1>1. shClient.open /\ "manage" \in ClientCan(shClient.mine, shClient.min)
  BY Zenon DEF MayManage
<1>2. shClient.mine \in ShFlags /\ shClient.min \in Minimum /\ shServer \in ShServers
  <2>1. shClient \in ShClients /\ shServer \in ShServers
    BY Zenon DEF ShInv, ShTypes
  <2> QED BY <2>1 DEF ShClients
<1>3. "admin" \in shClient.mine
  BY <1>1, <1>2, ClientCanOf
<1>4. shClient.mine = MemberAt(shServer, ShMe).flags
  BY Zenon, <1>1, AtRest
<1>5. ShMe \in ShUsers
  BY Zenon, ShAssumption
<1>6. "admin" \in shServer.rows[ShMe]
  BY <1>2, <1>3, <1>4, <1>5, MemberOf
<1> QED BY <1>1, <1>2, <1>5, <1>6, ManagerOf

\* An operation that waited begins at rest.
LEMMA BeginsAlone ==
  ASSUME ShInv, NEW c \in Seq(ShReqRecs), NEW u, Begin(c, u), ~shHist'.apart
  PROVE  /\ ~shHist.apart /\ ShSettled
         /\ shCalls' = <<c>> /\ shUndo' = u /\ shServer' = shServer /\ shNews' = shNews /\ shFetches' = shFetches
         /\ shHist'.crossed = shHist.crossed /\ shHist'.undone = shHist.undone /\ shHist'.kept = shHist.kept /\ shHist'.back = <<>>
<1>1. /\ shCalls' = Append(shCalls, c) /\ shUndo' = u /\ shServer' = shServer /\ shNews' = shNews /\ shFetches' = shFetches
      /\ shHist' = [shHist EXCEPT !.apart = @ \/ ~ShSettled, !.back = <<>>]
  BY Zenon DEF Begin
<1>2. shHist \in ShPasts
  BY Zenon DEF ShInv, ShTypes
<1> DEFINE a == shHist.apart \/ ~ShSettled
<1>3. shHist' = [shHist EXCEPT !.apart = a, !.back = <<>>]
  BY <1>1
<1> HIDE DEF a
<1>4. shHist'.apart = a /\ shHist'.crossed = shHist.crossed /\ shHist'.undone = shHist.undone /\ shHist'.kept = shHist.kept /\ shHist'.back = <<>>
  BY <1>2, <1>3 DEF ShPasts
<1>5. ~shHist.apart /\ ShSettled
  BY Zenon, <1>4 DEF a
<1>6. shCalls' = <<c>>
  <2>1. shCalls = <<>>
    BY Zenon, <1>5 DEF ShSettled
  <2> QED BY <1>1, <2>1
<1> QED BY Zenon, <1>1, <1>4, <1>5, <1>6

\* Only the calls change, and what this client shows of the link.
LEMMA RestToCall ==
  ASSUME ShInv, ~shHist.apart, ShSettled, NEW c \in Seq(ShReqRecs), shCalls' = <<c>>,
         shServer' = shServer, shNews' = shNews, shFetches' = shFetches,
         ~shHist'.undone => ~shHist.undone, ~shHist'.crossed => ~shHist.crossed, shHist'.crossed => shHist'.undone,
         \A j \in DOMAIN c : c[j].op # "answer" /\ Promised(c[j])',
         shClient'.members = shClient.members, shClient'.mine = shClient.mine, shClient'.users = shClient.users,
         shClient'.channel = shClient.channel, shClient'.min = shClient.min, shClient'.open = shClient.open
  PROVE  CallsInv' /\ NewsInv' /\ MirrorInv'
<1>1. /\ shNews = <<>> /\ shFetches = FALSE
      /\ shClient.open =>
              /\ \A u \in ShUsers : Matches(u)
              /\ shClient.mine = MemberAt(shServer, ShMe).flags
              /\ ~shHist.crossed => shClient.channel = shServer.channel /\ shClient.min = shServer.min
  BY Zenon, AtRest
<1>2. CallsInv'
  <2>1. Len(shCalls') <= 1 /\ \A i \in DOMAIN shCalls' : shCalls'[i] = c
    OBVIOUS
  <2>2. (\A i \in DOMAIN shCalls : \A j \in DOMAIN shCalls[i] :
          IF shCalls[i][j].op = "answer" THEN ShareHolds(shCalls[i][j]) ELSE Promised(shCalls[i][j]))'
    BY Zenon, <2>1
  <2>3. shNews' = <<>> /\ ~shFetches'
    BY <1>1
  <2> QED BY <2>1, <2>2, <2>3 DEF CallsInv
<1>3. NewsInv'
  <2>1. DOMAIN shNews' = {} /\ ~shFetches'
    BY <1>1
  <2> QED BY <2>1 DEF NewsInv, ToFetch, NewsOfBoard
<1>4. MirrorInv'
  <2>1. \A u \in ShUsers : Matches(u) => Matches(u)'
    BY Zenon DEF Matches
  <2>2. shClient.open => shClient.mine # {}
    BY Zenon DEF ShInv, MirrorInv
  <2> QED BY Zenon, <1>1, <2>1, <2>2 DEF MirrorInv
<1> QED BY <1>2, <1>3, <1>4

\* An operation of the dialog: what it promises, and that it can be undone.
LEMMA OperateStep ==
  ASSUME ShInv, NEW do, NEW back, PlainRequest(do), back \in ShReqRecs, Undoing(back), Operate(do, back),
         ~shHist.apart /\ ShSettled => Promised(do) /\ (~shHist.crossed => LeadsBack(shServer, do, back))
  PROVE  ShInv'
<1> DEFINE u == <<[undo |-> back, was |-> IF shHist.crossed THEN <<>> ELSE <<shServer>>]>>
<1>1. Begin(<<do>>, u) /\ shClient' = shClient /\ shTokens' = shTokens
  BY Zenon DEF Operate
<1>2. ShTypes'
  BY Zenon, OperateTypes DEF ShInv
<1>3. do \in ShReqRecs /\ do.op # "share" /\ do.op # "load" /\ do.op # "answer" /\ do.op \notin {"load", "answer"} /\ Sensible(do)
  BY DEF PlainRequest
<1>4. /\ <<do>> \in Seq(ShReqRecs) /\ <<do>>[1] = do /\ DOMAIN <<do>> = {1}
  BY OneIsCall, <1>3
<1>5. shServer \in ShServers
  BY Zenon DEF ShInv, ShTypes
<1>6. /\ DOMAIN u = {1} /\ u[1].undo = back
      /\ \A j \in DOMAIN u[1].was : ~shHist.crossed /\ u[1].was[j] = shServer
  <2> DEFINE w == IF shHist.crossed THEN <<>> ELSE <<shServer>>
  <2>1. \A j \in DOMAIN w : ~shHist.crossed /\ w[j] = shServer
    OBVIOUS
  <2> HIDE DEF w
  <2> QED BY <2>1
<1> HIDE DEF u
<1> SUFFICES ASSUME ~shHist'.apart  PROVE CallsInv' /\ NewsInv' /\ MirrorInv' /\ ShareLinkInv' /\ UndoneInv'
  BY Zenon, <1>2 DEF ShInv
<1>7. /\ ~shHist.apart /\ ShSettled
      /\ shCalls' = <<<<do>>>> /\ shUndo' = u /\ shServer' = shServer /\ shNews' = shNews /\ shFetches' = shFetches
      /\ shHist'.crossed = shHist.crossed /\ shHist'.undone = shHist.undone /\ shHist'.kept = shHist.kept /\ shHist'.back = <<>>
  BY Zenon, <1>1, <1>4, BeginsAlone
<1>8. Promised(do) /\ (~shHist.crossed => LeadsBack(shServer, do, back)) /\ (shHist.crossed => shHist.undone)
  BY Zenon, <1>7, AtRest
<1>9. CallsInv' /\ NewsInv' /\ MirrorInv'
  <2>1. Promised(do)'
    BY Zenon, <1>7, <1>8 DEF Promised
  <2>2. \A j \in DOMAIN <<do>> : <<do>>[j].op # "answer" /\ Promised(<<do>>[j])'
    <3>1. \A j \in {1} : j = 1
      OBVIOUS
    <3> DEFINE c == <<do>>
    <3>2. DOMAIN c = {1} /\ c[1] = do
      BY <1>4
    <3> HIDE DEF c
    <3>3. ASSUME NEW j \in DOMAIN c  PROVE c[j].op # "answer" /\ Promised(c[j])'
      <4>1. c[j] = do
        BY <3>2
      <4> QED BY Zenon, <1>3, <2>1, <4>1
    <3> QED BY Zenon, <3>3 DEF c
  <2> QED BY Zenon, <1>1, <1>4, <1>7, <1>8, <2>2, RestToCall
<1>10. DOMAIN shCalls' = {1} /\ shCalls'[1] = <<do>> /\ DOMAIN shCalls'[1] = {1} /\ shCalls'[1][1] = do
  BY <1>4, <1>7
<1>11. ShareLinkInv'
  <2>1. (\A i \in DOMAIN shCalls : \A j \in DOMAIN shCalls[i] : shCalls[i][j].op \notin {"share", "load"} /\ shCalls[i][j].op # "share")'
    BY <1>3, <1>10
  <2>2. ~Linking' /\ ~Linking
    BY Zenon, <1>7, <2>1, AtRest DEF Linking
  <2>3. ShareLinkInv
    BY Zenon, <1>7 DEF ShInv
  <2> QED BY Zenon, <1>1, <1>7, <2>1, <2>2, <2>3 DEF ShareLinkInv
<1>12. UndoneInv'
  <2>1. Coming' = Served(shServer, do).server
    <3>1. shCalls' # <<>>
      BY <1>7
    <3> QED BY Zenon, <1>3, <1>7, <1>10, <3>1 DEF Coming, Outcome
  <2>2. DOMAIN shHist'.back = {}
    BY <1>7
  <2>3. ASSUME NEW i \in DOMAIN shUndo', NEW j \in DOMAIN shUndo'[i].was, Allowed(Coming', ShMe, "manage")
        PROVE  SameBoard(Served(Coming', shUndo'[i].undo).server, shUndo'[i].was[j])
    <3>1. i = 1
      BY <1>6, <1>7
    <3>2. ~shHist.crossed /\ shUndo'[i].undo = back /\ shUndo'[i].was[j] = shServer
      BY <1>6, <1>7, <3>1
    <3> QED BY Zenon, <1>8, <2>1, <2>3, <3>2 DEF LeadsBack
  <2> QED BY Zenon, <2>2, <2>3 DEF UndoneInv
<1> QED BY <1>9, <1>11, <1>12

\* What the dialog shows of a member at rest.
LEMMA RowIs ==
  ASSUME ShInv, ~shHist.apart, ShSettled, shClient.open
  PROVE  /\ \A u \in Rows : u \in ShUsers /\ shServer.rows[u] # {} /\ shClient.members[u].flags = shServer.rows[u]
         /\ \A u \in ShUsers : shClient.members[u].flags = {} \/ shClient.members[u].synthetic => shServer.rows[u] = {}
         /\ \A u \in ShUsers : "admin" \in shClient.members[u].flags <=> "admin" \in shServer.rows[u]
         /\ ~shHist.crossed => shClient.channel = shServer.channel /\ shClient.min = shServer.min
<1>1. /\ \A u \in ShUsers : Matches(u)
      /\ ~shHist.crossed => shClient.channel = shServer.channel /\ shClient.min = shServer.min
  BY Zenon, AtRest
<1>2. shServer \in ShServers /\ shClient.users \subseteq ShUsers
  <2>1. shServer \in ShServers /\ shClient \in ShClients
    BY Zenon DEF ShInv, ShTypes
  <2> QED BY <2>1 DEF ShClients
<1>3. ASSUME NEW u \in ShUsers
      PROVE  /\ shClient.members[u].flags # {} /\ ~shClient.members[u].synthetic =>
                  shServer.rows[u] # {} /\ shClient.members[u].flags = shServer.rows[u]
             /\ shClient.members[u].flags = {} \/ shClient.members[u].synthetic => shServer.rows[u] = {}
             /\ "admin" \in shClient.members[u].flags <=> "admin" \in shServer.rows[u]
  <2> DEFINE m == MemberAt(shServer, u)
  <2>1. shClient.members[u].flags = m.flags /\ shClient.members[u].synthetic = m.synthetic
    BY Zenon, <1>1 DEF Matches
  <2>2. /\ m.synthetic => shServer.rows[u] = {}
        /\ m.flags # {} /\ ~m.synthetic => m.flags = shServer.rows[u]
        /\ "admin" \in m.flags <=> "admin" \in shServer.rows[u]
    BY Zenon, <1>2, MemberOf
  <2>3. m.flags = {} => shServer.rows[u] = {}
    <3>1. shServer.rows[u] # {} => m = [flags |-> shServer.rows[u], min |-> shServer.min, synthetic |-> FALSE]
      BY Zenon, <1>2, MemberOf
    <3> HIDE DEF m
    <3> QED BY <3>1
  <2> HIDE DEF m
  <2> QED BY <2>1, <2>2, <2>3
<1>4. \A u \in Rows : u \in ShUsers /\ shClient.members[u].flags # {} /\ ~shClient.members[u].synthetic
  BY <1>2 DEF Rows
<1> QED BY Zenon, <1>1, <1>3, <1>4

LEMMA NotLastAdmin ==
  ASSUME ShInv, ~shHist.apart, ShSettled, shClient.open, ~IsLastAdmin
  PROVE  ~OnlyAdmin(shServer, ShMe)
<1> DEFINE A == {u \in ShUsers : "admin" \in shClient.members[u].flags}
<1>1. IsFiniteSet(ShUsers) /\ ShMe \in ShUsers
  BY Zenon, ShAssumption
<1>2. IsFiniteSet(A)
  BY <1>1, FS_Subset
<1>3. ~(Cardinality(A) < 2)
  BY DEF IsLastAdmin
<1>4. A # {} /\ A # {ShMe}
  <2>1. Cardinality({}) = 0 /\ Cardinality({ShMe}) = 1
    BY FS_EmptySet, FS_Singleton
  <2> HIDE DEF A
  <2> QED BY <1>3, <2>1
<1>5. PICK v \in A : v # ShMe
  <2> HIDE DEF A
  <2> QED BY <1>4
<1>6. v \in ShUsers /\ "admin" \in shServer.rows[v]
  BY RowIs
<1> QED BY <1>5, <1>6 DEF OnlyAdmin

LEMMA ClientTypes ==
  ASSUME ShTypes
  PROVE  /\ shServer \in ShServers /\ shClient \in ShClients
         /\ shClient.min \in Minimum /\ shClient.channel \in ShChans /\ shClient.mine \in ShFlags
         /\ shClient.link \in ShLinks /\ shClient.users \subseteq ShUsers
         /\ \A u \in ShUsers : shClient.members[u] \in ShMembers /\ shClient.members[u].flags \in ShFlags
         /\ Rows \subseteq ShUsers /\ \A u \in Rows : shClient.members[u].flags # {}
<1>1. shServer \in ShServers /\ shClient \in ShClients
  BY Zenon DEF ShTypes
<1>2. /\ shClient.min \in Minimum /\ shClient.channel \in ShChans /\ shClient.mine \in ShFlags
      /\ shClient.link \in ShLinks /\ shClient.users \subseteq ShUsers
      /\ \A u \in ShUsers : shClient.members[u] \in ShMembers
  BY <1>1 DEF ShClients
<1>3. \A u \in ShUsers : shClient.members[u].flags \in ShFlags
  BY <1>2 DEF ShMembers
<1> QED BY <1>1, <1>2, <1>3 DEF Rows

\* The requests about members.
LEMMA MemberRequests ==
  ASSUME NEW user \in ShUsers, NEW flags \in ShFlags, NEW op \in {"add", "update", "remove"}, op # "remove" => flags # {},
         NEW by \in {ShMe, ShAnn}
  PROVE  LET r == ShRequest(op, by, user, flags) IN
         /\ PlainRequest(r) /\ r \in ShReqRecs /\ (by = ShMe => Undoing(r))
         /\ r.op = op /\ r.by = by /\ r.user = user /\ r.flags = flags /\ r.after \notin {"put", "drop"}
<1> DEFINE r == ShRequest(op, by, user, flags)
<1>1. op \in ShOpNames
  BY DEF ShOpNames
<1>2. Asks(r, op, by, user, flags)
  BY <1>1, RequestIs
<1> HIDE DEF r
<1>3. /\ Sensible(r) /\ r.after \notin {"put", "drop"} /\ r.op \notin {"share", "load", "answer"} /\ r \in ShReqRecs
      /\ r.op = op /\ r.by = by /\ r.user = user /\ r.flags = flags
  BY <1>2, PlainIsSensible
<1>4. PlainRequest(r) /\ (by = ShMe => Undoing(r))
  <2>1. r.after # "drop"
    BY <1>3
  <2> QED BY Zenon, <1>3, <2>1 DEF PlainRequest, Undoing
<1> QED BY Zenon, <1>3, <1>4 DEF r

LEMMA AddUserStep ==
  ASSUME ShInv, AddUser
  PROVE  ShInv'
<1> PICK u \in ShUsers :
      /\ shClient.members[u].flags = {} \/ shClient.members[u].synthetic
      /\ Operate(ShRequest("add", ShMe, u, FlagsToJoin(shClient.min)), ShRequest("remove", ShMe, u, {}))
  BY Zenon DEF AddUser
<1> DEFINE flags == FlagsToJoin(shClient.min)
           do == ShRequest("add", ShMe, u, flags)
           back == ShRequest("remove", ShMe, u, {})
<1>1. shClient.min \in Minimum /\ shServer \in ShServers
  BY Zenon, ClientTypes DEF ShInv
<1>2. flags \in ShFlags /\ flags # {} /\ ReadAlike(flags, shClient.min) /\ "admin" \notin flags
  BY Zenon, <1>1, JoinReads
<1> HIDE DEF flags
<1>3. PlainRequest(do) /\ do.op = "add" /\ do.by = ShMe /\ do.user = u /\ do.flags = flags /\ do.after \notin {"put", "drop"}
  BY <1>2, MemberRequests
<1>4. back \in ShReqRecs /\ Undoing(back) /\ back.op = "remove" /\ back.by = ShMe /\ back.user = u
  <2>1. {} \in ShFlags
    BY DEF ShFlags
  <2> QED BY <2>1, MemberRequests
<1>5. Operate(do, back)
  BY Zenon DEF flags
<1> HIDE DEF do, back
<1>6. ASSUME ~shHist.apart, ShSettled  PROVE Promised(do) /\ (~shHist.crossed => LeadsBack(shServer, do, back))
  <2>1. MayManage
    BY Zenon, <1>5 DEF Operate
  <2>2. Allowed(shServer, ShMe, "manage") /\ shClient.open
    BY Zenon, <1>6, <2>1, Manages
  <2>3. shServer.rows[u] = {} /\ (~shHist.undone => shClient.min = shServer.min)
    BY Zenon, <1>6, <2>2, RowIs, AtRest
  <2>4. Promised(do)
    <3>1. do.op \notin {"share", "load"} /\ do.after # "drop" /\ do.after # "put"
      BY <1>3
    <3> QED BY Zenon, <1>2, <1>3, <2>2, <2>3, <3>1 DEF Promised
  <2>5. LeadsBack(shServer, do, back)
    BY <1>1, <1>2, <1>3, <1>4, <2>2, <2>3, AddLeadsBack
  <2> QED BY <2>4, <2>5
<1> QED BY Zenon, <1>3, <1>4, <1>5, <1>6, OperateStep

LEMMA UpdateMemberStep ==
  ASSUME ShInv, UpdateMember
  PROVE  ShInv'
<1> PICK u \in Rows, role \in Role :
      /\ role \in RolesOffered(shClient.min)
      /\ ~(u = ShMe /\ IsLastAdmin)
      /\ Operate(ShRequest("update", ShMe, u, FlagsFor(role)), ShRequest("update", ShMe, u, shClient.members[u].flags))
  BY Zenon DEF UpdateMember
<1> DEFINE flags == FlagsFor(role)
           old == shClient.members[u].flags
           do == ShRequest("update", ShMe, u, flags)
           back == ShRequest("update", ShMe, u, old)
<1>1. shClient.min \in Minimum /\ shServer \in ShServers /\ u \in ShUsers /\ old \in ShFlags /\ old # {}
  <2>1. ShTypes
    BY Zenon DEF ShInv
  <2>2. u \in ShUsers
    BY <2>1, ClientTypes
  <2> QED BY <2>1, <2>2, ClientTypes
<1>2. flags \in ShFlags /\ flags # {} /\ ReadAlike(flags, shClient.min)
  BY Zenon, <1>1, OfferedReads
<1>5. Operate(do, back)
  BY Zenon
<1> HIDE DEF flags, old
<1>3. PlainRequest(do) /\ do.op = "update" /\ do.by = ShMe /\ do.user = u /\ do.flags = flags /\ do.after \notin {"put", "drop"}
  BY <1>1, <1>2, MemberRequests
<1>4. back \in ShReqRecs /\ Undoing(back) /\ back.op = "update" /\ back.by = ShMe /\ back.user = u /\ back.flags = old
  BY <1>1, MemberRequests
<1> HIDE DEF do, back
<1>6. ASSUME ~shHist.apart, ShSettled  PROVE Promised(do) /\ (~shHist.crossed => LeadsBack(shServer, do, back))
  <2>1. MayManage
    BY Zenon, <1>5 DEF Operate
  <2>2. Allowed(shServer, ShMe, "manage") /\ shClient.open
    BY Zenon, <1>6, <2>1, Manages
  <2>3. shServer.rows[u] # {} /\ old = shServer.rows[u] /\ (~shHist.undone => shClient.min = shServer.min)
    BY Zenon, <1>6, <2>2, RowIs, AtRest DEF old
  <2>4. u = ShMe => ~OnlyAdmin(shServer, u)
    BY Zenon, <1>6, <2>2, NotLastAdmin
  <2>5. Promised(do)
    <3>1. do.op \notin {"share", "load"} /\ do.after # "drop" /\ do.after # "put"
      BY <1>3
    <3> QED BY Zenon, <1>2, <1>3, <2>2, <2>3, <3>1 DEF Promised
  <2>6. LeadsBack(shServer, do, back)
    BY <1>1, <1>2, <1>3, <1>4, <2>2, <2>3, <2>4, UpdateLeadsBack
  <2> QED BY <2>5, <2>6
<1> QED BY Zenon, <1>3, <1>4, <1>5, <1>6, OperateStep

LEMMA RemoveMemberStep ==
  ASSUME ShInv, RemoveMember
  PROVE  ShInv'
<1> PICK u \in Rows :
      /\ ~(u = ShMe /\ IsLastAdmin)
      /\ Operate([ShRequest("remove", ShMe, u, {}) EXCEPT !.after = "drop"],
                 [ShRequest("add", ShMe, u, FlagsBack(u)) EXCEPT !.after = "add"])
  BY Zenon DEF RemoveMember
<1> DEFINE old == FlagsBack(u)
           do0 == ShRequest("remove", ShMe, u, {})
           do == [do0 EXCEPT !.after = "drop"]
           back0 == ShRequest("add", ShMe, u, old)
           back == [back0 EXCEPT !.after = "add"]
<1>1. shServer \in ShServers /\ u \in ShUsers /\ old \in ShFlags /\ old # {}
  <2>1. ShTypes
    BY Zenon DEF ShInv
  <2>2. u \in ShUsers
    BY <2>1, ClientTypes
  <2> QED BY <2>1, <2>2, ClientTypes DEF FlagsBack
<1>5. Operate(do, back)
  BY Zenon
<1>7. old = shClient.members[u].flags
  BY DEF FlagsBack
<1> HIDE DEF old
<1>2. Sensible(do0) /\ do0 \in ShReqRecs /\ do0.op = "remove" /\ do0.by = ShMe /\ do0.user = u
  <2>1. {} \in ShFlags
    BY DEF ShFlags
  <2>2. PlainRequest(do0) /\ do0 \in ShReqRecs /\ do0.op = "remove" /\ do0.by = ShMe /\ do0.user = u
    BY <1>1, <2>1, MemberRequests
  <2> HIDE DEF do0
  <2> QED BY <2>2 DEF PlainRequest
<1>3. Sensible(back0) /\ back0 \in ShReqRecs /\ back0.op = "add" /\ back0.by = ShMe /\ back0.user = u /\ back0.flags = old
  BY <1>1, MemberRequests DEF PlainRequest
<1> HIDE DEF do0, back0
<1>4. ShMe # ShAnn
  BY Zenon, ShAssumption
<1>8. PlainRequest(do) /\ do.op = "remove" /\ do.by = ShMe /\ do.user = u /\ do.after = "drop"
  <2>1. /\ do \in ShReqRecs /\ do.after = "drop" /\ do.op = do0.op /\ do.by = do0.by /\ do.user = do0.user
    <3>1. \A a \in ShAfters : [do0 EXCEPT !.after = a] \in ShReqRecs /\ [do0 EXCEPT !.after = a].after = a
             /\ [do0 EXCEPT !.after = a].op = do0.op /\ [do0 EXCEPT !.after = a].by = do0.by
             /\ [do0 EXCEPT !.after = a].user = do0.user
      BY Zenon, <1>2, RequestWith
    <3>2. "drop" \in ShAfters
      BY Zenon DEF ShAfters
    <3> QED BY Zenon, <3>1, <3>2
  <2> HIDE DEF do
  <2>2. do.op = "remove" /\ do.by = ShMe /\ do.user = u
    BY <1>2, <2>1
  <2>3. do.op \notin {"add", "update"} /\ do.op \notin {"share", "load"} /\ do.op # "share" /\ do.op \notin {"share", "load", "answer"}
        /\ do.op # "answer" /\ do.op \in {"remove", "answer"} /\ do.after # "put"
    BY <2>1, <2>2
  <2>4. Sensible(do)
    BY Zenon, <1>4, <2>1, <2>2, <2>3 DEF Sensible
  <2> QED BY Zenon, <2>1, <2>2, <2>3, <2>4 DEF PlainRequest
<1>9. back \in ShReqRecs /\ Undoing(back) /\ back.op = "add" /\ back.by = ShMe /\ back.user = u /\ back.flags = old
  <2>1. /\ back \in ShReqRecs /\ back.after = "add" /\ back.op = back0.op /\ back.by = back0.by /\ back.user = back0.user
        /\ back.flags = back0.flags
    <3>1. \A a \in ShAfters : [back0 EXCEPT !.after = a] \in ShReqRecs /\ [back0 EXCEPT !.after = a].after = a
             /\ [back0 EXCEPT !.after = a].op = back0.op /\ [back0 EXCEPT !.after = a].by = back0.by
             /\ [back0 EXCEPT !.after = a].user = back0.user /\ [back0 EXCEPT !.after = a].flags = back0.flags
      BY Zenon, <1>3, RequestWith
    <3>2. "add" \in ShAfters
      BY Zenon DEF ShAfters
    <3> QED BY Zenon, <3>1, <3>2
  <2> HIDE DEF back
  <2>2. back.op = "add" /\ back.by = ShMe /\ back.user = u /\ back.flags = old
    BY <1>3, <2>1
  <2>3. back.op \notin {"share", "load"} /\ back.op # "share" /\ back.after # "drop" /\ back.after # "put"
        /\ back.op # "answer" /\ back.op \notin {"share", "load", "answer"}
    BY <2>1, <2>2
  <2>4. Sensible(back)
    BY Zenon, <1>1, <1>4, <2>1, <2>2, <2>3 DEF Sensible
  <2> QED BY Zenon, <2>1, <2>2, <2>3, <2>4 DEF Undoing
<1> HIDE DEF do, back
<1>6. ASSUME ~shHist.apart, ShSettled  PROVE Promised(do) /\ LeadsBack(shServer, do, back)
  <2>1. MayManage
    BY Zenon, <1>5 DEF Operate
  <2>2. Allowed(shServer, ShMe, "manage") /\ shClient.open /\ "admin" \in shServer.rows[ShMe]
    BY Zenon, <1>6, <2>1, Manages
  <2>3. shServer.rows[u] # {} /\ old = shServer.rows[u]
    BY Zenon, <1>6, <1>7, <2>2, RowIs
  <2>4. ~OnlyAdmin(shServer, u)
    <3>1. CASE u = ShMe
      BY Zenon, <1>6, <2>2, <3>1, NotLastAdmin
    <3>2. CASE u # ShMe
      <4>1. ShMe \in ShUsers
        BY Zenon, ShAssumption
      <4> QED BY <2>2, <3>2, <4>1 DEF OnlyAdmin
    <3> QED BY <3>1, <3>2
  <2>5. Promised(do)
    <3>1. do.op \notin {"add", "update"} /\ do.op \notin {"share", "load"} /\ do.after # "put"
      BY <1>8
    <3> QED BY Zenon, <1>8, <2>2, <2>3, <2>4, <3>1 DEF Promised
  <2>6. LeadsBack(shServer, do, back)
    BY <1>1, <1>8, <1>9, <2>2, <2>3, <2>4, RemoveLeadsBack
  <2> QED BY <2>5, <2>6
<1> QED BY Zenon, <1>5, <1>6, <1>8, <1>9, OperateStep

\* A patch of the board, and one that takes it back.
LEMMA PatchStep ==
  ASSUME ShInv, NEW field, NEW to, NEW from, NEW now, Operate(ShPutBoard(field, to, now), ShPutBoard(field, from, BoardNow)),
         now \in ShBoards,
         \/ field = "channel" /\ to \in ShChans /\ from = shClient.channel /\ now.channel = to /\ now.min = shClient.min
         \/ field = "min" /\ to \in Minimum /\ from = shClient.min /\ now.channel = shClient.channel /\ now.min = to
  PROVE  ShInv'
<1> DEFINE do == ShPutBoard(field, to, now)
           back == ShPutBoard(field, from, BoardNow)
<1>1. shClient.min \in Minimum /\ shServer \in ShServers /\ shClient.channel \in ShChans /\ BoardNow \in ShBoards
  <2>1. ShTypes
    BY Zenon DEF ShInv
  <2>2. shClient.min \in Minimum /\ shServer \in ShServers /\ shClient.channel \in ShChans
    BY <2>1, ClientTypes
  <2> QED BY <2>2 DEF BoardNow, BoardOf, ShBoards
<1>2. /\ do \in ShReqRecs /\ do.op = "patch" /\ do.by = ShMe /\ do.after = "put" /\ do.board = now
      /\ do.patch.field = field /\ do.patch.to = to /\ Sensible(do)
  BY PutBoardIs
<1>3. /\ back \in ShReqRecs /\ back.op = "patch" /\ back.by = ShMe /\ back.after = "put"
      /\ back.patch.field = field /\ back.patch.to = from /\ Sensible(back)
  BY <1>1, PutBoardIs
<1> HIDE DEF do, back
<1>5. do.op \notin {"share", "load", "answer"} /\ back.op \notin {"share", "load", "answer"} /\ do.op \notin {"add", "update"}
      /\ do.op \notin {"share", "load"}
  <2>1. do.op = "patch" /\ back.op = "patch"
    BY Zenon, <1>2, <1>3
  <2> QED BY <2>1
<1>6. PlainRequest(do) /\ Undoing(back) /\ do.after # "drop"
  <2>1. do.after # "drop" /\ back.after # "drop"
    BY <1>2, <1>3
  <2> QED BY Zenon, <1>2, <1>3, <1>5, <2>1 DEF PlainRequest, Undoing
<1>7. Operate(do, back)
  BY Zenon DEF do, back
<1>8. ASSUME ~shHist.apart, ShSettled  PROVE Promised(do) /\ (~shHist.crossed => LeadsBack(shServer, do, back))
  <2>1. MayManage
    BY Zenon, <1>7 DEF Operate
  <2>2. Allowed(shServer, ShMe, "manage") /\ shClient.open
    BY Zenon, <1>8, <2>1, Manages
  <2>3. ~shHist.crossed => shClient.channel = shServer.channel /\ shClient.min = shServer.min
    BY Zenon, <1>8, <2>2, RowIs
  <2>4. ~shHist.crossed => now = BoardOf(WithPatch(shServer, do.patch))
    <3> DEFINE t == WithPatch(shServer, do.patch)
    <3>1. do.patch \in ShPatches
      BY <1>2 DEF ShReqRecs
    <3>2. /\ t.channel = (IF do.patch.field = "channel" THEN do.patch.to ELSE shServer.channel)
          /\ t.min = (IF do.patch.field = "min" THEN do.patch.to ELSE shServer.min)
      BY <1>1, <3>1, Patchwork
    <3> HIDE DEF t
    <3>3. ~shHist.crossed => now.channel = t.channel /\ now.min = t.min
      BY <1>2, <2>3, <3>2
    <3>4. now = [channel |-> now.channel, min |-> now.min]
      BY DEF ShBoards
    <3> QED BY <3>3, <3>4 DEF BoardOf, t
  <2>7. Promised(do)
    BY Zenon, <1>2, <1>5, <1>6, <2>2, <2>4 DEF Promised
  <2>5. ~shHist.crossed =>
        /\ do.op = "patch" /\ do.by = ShMe /\ back.op = "patch" /\ back.by = ShMe /\ back.patch.field = do.patch.field
        /\ (do.patch.field = "channel" => back.patch.to = shServer.channel)
        /\ (do.patch.field = "min" => back.patch.to = shServer.min)
        /\ do \in ShReqRecs /\ back \in ShReqRecs
    <3>1. /\ do.op = "patch" /\ do.by = ShMe /\ back.op = "patch" /\ back.by = ShMe /\ do.patch.field = field
          /\ back.patch.field = field /\ back.patch.to = from /\ do \in ShReqRecs /\ back \in ShReqRecs
      BY Zenon, <1>2, <1>3
    <3>2. field = "channel" => field # "min"
      OBVIOUS
    <3> QED BY <2>3, <3>1, <3>2
  <2>6. ~shHist.crossed => LeadsBack(shServer, do, back)
    BY <1>1, <2>2, <2>5, PatchLeadsBack
  <2> QED BY <2>6, <2>7
<1> QED BY Zenon, <1>3, <1>6, <1>7, <1>8, OperateStep

\* The board of the click, before the change and after it.
LEMMA BoardsOfClick ==
  ASSUME ShInv
  PROVE  /\ \A min \in Minimum : LET b == [BoardNow EXCEPT !.min = min] IN
              b \in ShBoards /\ b.channel = shClient.channel /\ b.min = min
         /\ \A c \in ShChans : LET b == [BoardNow EXCEPT !.channel = c] IN
              b \in ShBoards /\ b.channel = c /\ b.min = shClient.min
<1>1. ShTypes
  BY Zenon DEF ShInv
<1>2. shClient.min \in Minimum /\ shClient.channel \in ShChans
  BY <1>1, ClientTypes
<1> QED BY <1>2 DEF BoardNow, BoardOf, ShBoards

LEMMA SetMinimumStep ==
  ASSUME ShInv, SetMinimum
  PROVE  ShInv'
<1>1. PICK min \in Minimum \ {shClient.min} :
        Operate(ShPutBoard("min", min, [BoardNow EXCEPT !.min = min]), ShPutBoard("min", shClient.min, BoardNow))
  BY Zenon DEF SetMinimum
<1> DEFINE b == [BoardNow EXCEPT !.min = min]
<1>2. b \in ShBoards /\ b.channel = shClient.channel /\ b.min = min /\ min \in Minimum
  BY Zenon, BoardsOfClick
<1>3. Operate(ShPutBoard("min", min, b), ShPutBoard("min", shClient.min, BoardNow))
  BY Zenon, <1>1
<1> HIDE DEF b
<1> QED BY Zenon, <1>2, <1>3, PatchStep

LEMMA LinkChannelStep ==
  ASSUME ShInv, LinkChannel
  PROVE  ShInv'
<1>1. PICK c \in ShChans :
        Operate(ShPutBoard("channel", c, [BoardNow EXCEPT !.channel = c]), ShPutBoard("channel", shClient.channel, BoardNow))
  BY Zenon DEF LinkChannel, ShChans
<1> DEFINE b == [BoardNow EXCEPT !.channel = c]
<1>2. b \in ShBoards /\ b.channel = c /\ b.min = shClient.min
  BY Zenon, BoardsOfClick
<1>3. Operate(ShPutBoard("channel", c, b), ShPutBoard("channel", shClient.channel, BoardNow))
  BY Zenon, <1>1
<1> HIDE DEF b
<1> QED BY Zenon, <1>2, <1>3, PatchStep

LEMMA UndoShareStep ==
  ASSUME ShInv, UndoShare
  PROVE  ShInv'
<1>0. PICK r, was : r = shUndo[1].undo /\ was = shUndo[1].was
  BY Zenon
<1> DEFINE a == shHist.apart \/ ~ShSettled
           x == shHist.crossed \/ Crosses(r)
           b == IF Allowed(shServer, ShMe, "manage") THEN was ELSE <<>>
<1>1. /\ shUndo # <<>> /\ shClient.open /\ shCalls = <<>> /\ shOps > 0 /\ shOps' = (IF ShSettled THEN shOps - 1 ELSE 0)
      /\ shCalls' = <<<<r>>>> /\ shUndo' = <<>>
      /\ shHist' = [shHist EXCEPT !.apart = a, !.undone = TRUE, !.crossed = x, !.back = b]
      /\ shServer' = shServer /\ shClient' = shClient /\ shNews' = shNews /\ shFetches' = shFetches
      /\ shTokens' = shTokens /\ shFaults' = shFaults
  BY Zenon, <1>0 DEF UndoShare
<1>2. /\ shServer \in ShServers /\ shClient \in ShClients /\ shNews \in Seq(ShNewsRecs) /\ shFetches \in BOOLEAN
      /\ shTokens \in Nat /\ shFaults \in 0..ShMaxFaults /\ shHist \in ShPasts /\ shOps \in 0..ShMaxOps
      /\ shUndo \in Seq(ShUndos) /\ \A i \in DOMAIN shUndo : Undoing(shUndo[i].undo)
  BY Zenon DEF ShInv, ShTypes, UndoFits
<1>3. 1 \in DOMAIN shUndo /\ shUndo[1] \in ShUndos
  <2>1. Len(shUndo) \in Nat /\ Len(shUndo) # 0 /\ DOMAIN shUndo = 1..Len(shUndo)
    BY <1>1, <1>2, LenProperties, EmptySeq
  <2>2. 1 \in DOMAIN shUndo
    BY <2>1
  <2> QED BY <1>2, <2>2, ElementOfSeq
<1>4. Undoing(r) /\ r \in ShReqRecs /\ was \in Seq(ShServers)
  BY <1>0, <1>2, <1>3 DEF ShUndos
<1>5. r.op # "share" /\ r.op # "load" /\ r.op # "answer" /\ r.op \notin {"load", "answer"} /\ r.op \notin {"share", "load"} /\ Sensible(r) /\ r.by = ShMe /\ r.after # "drop"
  BY <1>4 DEF Undoing
<1>6. /\ <<r>> \in Seq(ShReqRecs) /\ OneCall(<<r>>) /\ <<r>>[1] = r /\ DOMAIN <<r>> = {1}
      /\ \A j \in DOMAIN <<r>> : Sensible(<<r>>[j])
  BY <1>4, <1>5, OneIsCall
<1>7. a \in BOOLEAN /\ x \in BOOLEAN /\ b \in Seq(ShServers)
  <2>1. a \in BOOLEAN /\ x \in BOOLEAN
    BY DEF Crosses
  <2>2. b \in Seq(ShServers)
    BY <1>4
  <2> QED BY <2>1, <2>2
<1> HIDE DEF a, x, b
<1>8. shHist' \in ShPasts /\ shHist'.apart = a /\ shHist'.crossed = x /\ shHist'.undone = TRUE /\ shHist'.kept = shHist.kept /\ shHist'.back = b
  BY <1>1, <1>2, <1>4, <1>7 DEF ShPasts
<1> DEFINE c == <<r>>
<1>9. c \in Seq(ShReqRecs) /\ OneCall(c) /\ c[1] = r /\ DOMAIN c = {1} /\ shCalls' = <<c>>
  BY <1>1, <1>6
<1>10. \A j \in DOMAIN c : Sensible(c[j])
  BY Zenon, <1>6
<1> HIDE DEF c
<1>11. ShTypes'
  <2>1. /\ shCalls' \in Seq(Seq(ShReqRecs)) /\ Len(shCalls') <= 2
        /\ \A i \in DOMAIN shCalls' : shCalls'[i] = c
    BY <1>9
  <2>2. CallsFit'
    BY Zenon, <1>9, <1>10, <2>1 DEF CallsFit
  <2>3. UndoFits'
    <3>1. shUndo' \in Seq(ShUndos) /\ DOMAIN shUndo' = {}
      BY <1>1
    <3> QED BY Zenon, <3>1 DEF UndoFits
  <2>4. shOps' \in 0..ShMaxOps
    <3>1. ShMaxOps \in Nat
      BY Zenon, ShAssumption
    <3>2. shOps' = shOps - 1 \/ shOps' = 0
      BY Zenon, <1>1
    <3> QED BY <1>1, <1>2, <3>1, <3>2
  <2> QED BY Zenon, <1>1, <1>2, <1>8, <2>2, <2>3, <2>4 DEF ShTypes
<1> SUFFICES ASSUME ~shHist'.apart  PROVE CallsInv' /\ NewsInv' /\ MirrorInv' /\ ShareLinkInv' /\ UndoneInv'
  BY Zenon, <1>11 DEF ShInv
<1>12. ~shHist.apart /\ ShSettled
  BY Zenon, <1>8 DEF a
<1>13. CallsInv' /\ NewsInv' /\ MirrorInv'
  <2>1. Promised(r)'
    <3>1. r.after = "put" /\ ~x => r.board = BoardOf(WithPatch(shServer, r.patch))
      BY Zenon DEF x, Crosses
    <3> QED BY Zenon, <1>1, <1>5, <1>8, <3>1 DEF Promised
  <2>2. ASSUME NEW j \in DOMAIN c  PROVE c[j].op # "answer" /\ Promised(c[j])'
    <3>1. c[j] = r
      BY <1>9
    <3> QED BY Zenon, <1>5, <2>1, <3>1
  <2>3. ~shHist'.crossed => ~shHist.crossed
    BY Zenon, <1>8 DEF x
  <2>4. shHist'.undone /\ ~(~shHist'.undone)
    BY <1>8
  <2> QED BY Zenon, <1>1, <1>9, <1>12, <2>2, <2>3, <2>4, RestToCall
<1>14. DOMAIN shCalls' = {1} /\ shCalls'[1] = c /\ DOMAIN shCalls'[1] = {1} /\ shCalls'[1][1] = r
  BY <1>9
<1>15. ShareLinkInv'
  <2>1. (\A i \in DOMAIN shCalls : \A j \in DOMAIN shCalls[i] : shCalls[i][j].op \notin {"share", "load"} /\ shCalls[i][j].op # "share")'
    BY <1>5, <1>14
  <2>2. ~Linking' /\ ~Linking
    BY Zenon, <1>12, <2>1, AtRest DEF Linking
  <2>3. ShareLinkInv
    BY Zenon, <1>12 DEF ShInv
  <2> QED BY Zenon, <1>1, <1>8, <2>1, <2>2, <2>3 DEF ShareLinkInv
<1>16. UndoneInv'
  <2>1. Coming' = Served(shServer, r).server /\ Coming = shServer
    <3>1. shCalls' # <<>>
      BY <1>9
    <3> QED BY Zenon, <1>1, <1>5, <1>12, <1>14, <3>1, AtRest DEF Coming, Outcome
  <2>2. DOMAIN shUndo' = {}
    BY <1>1
  <2>3. \A j \in DOMAIN b : SameBoard(Served(shServer, r).server, b[j])
    <3>1. CASE Allowed(shServer, ShMe, "manage")
      <4>1. \A j \in DOMAIN was : SameBoard(Served(shServer, r).server, was[j])
        BY Zenon, <1>0, <1>3, <1>12, <2>1, <3>1 DEF ShInv, UndoneInv
      <4> QED BY Zenon, <3>1, <4>1 DEF b
    <3>2. CASE ~Allowed(shServer, ShMe, "manage")
      <4>1. DOMAIN b = {}
        BY <3>2 DEF b
      <4> QED BY Zenon, <4>1
    <3> QED BY <3>1, <3>2
  <2> QED BY Zenon, <1>8, <2>1, <2>2, <2>3 DEF UndoneInv
<1> QED BY <1>13, <1>15, <1>16

\* The link is sent, and loaded again.
LEMMA LinkIsSent ==
  ASSUME ShInv, ~shHist.apart, ShSettled, Allowed(shServer, ShMe, "manage"),
         NEW link \in ShLinks, link.known, shCalls' = <<<<SetSharing(link), GetSharing>>>>,
         shServer' = shServer, shNews' = shNews, shFetches' = shFetches, shUndo' = shUndo,
         shHist'.crossed = shHist.crossed, shHist'.undone = shHist.undone, shHist'.back = <<>>,
         shHist'.kept = 0 \/ (shHist'.kept = shHist.kept /\ link.token = shHist.kept),
         NEW l \in ShLinks, shClient' = [shClient EXCEPT !.link = l],
         shHist'.kept # 0 => l.known /\ l.token = shHist'.kept
  PROVE  CallsInv' /\ NewsInv' /\ MirrorInv' /\ ShareLinkInv' /\ UndoneInv'
<1> DEFINE c == <<SetSharing(link), GetSharing>>
<1>1. /\ c \in Seq(ShReqRecs) /\ LinkCall(c) /\ \A j \in DOMAIN c : Sensible(c[j])
      /\ c[1] = SetSharing(link) /\ c[2] = GetSharing
      /\ c[1].op = "share" /\ c[1].link = link /\ c[1].after = "" /\ c[1].by = ShMe
      /\ c[2].op = "load" /\ c[2].after = "" /\ c[2].by = ShMe
      /\ DOMAIN c = {1, 2}
  BY ShareIs
<1>2. shCalls' = <<c>>
  BY Zenon
<1> HIDE DEF c
<1>3. shServer \in ShServers /\ shClient \in ShClients /\ \A i \in DOMAIN shUndo : Undoing(shUndo[i].undo)
      /\ shUndo \in Seq(ShUndos)
  BY Zenon DEF ShInv, ShTypes, UndoFits
<1>4. /\ shClient'.members = shClient.members /\ shClient'.mine = shClient.mine /\ shClient'.users = shClient.users
      /\ shClient'.channel = shClient.channel /\ shClient'.min = shClient.min /\ shClient'.open = shClient.open
      /\ shClient'.link = l
  BY <1>3 DEF ShClients
<1>5. ShMe \in ShUsers
  BY Zenon, ShAssumption
<1> DEFINE none == ""
<1>6. \A j \in DOMAIN c : c[j].by = ShMe /\ c[j].after = none /\ (c[j].op = "share" \/ c[j].op = "load")
                           /\ (c[j].op = "share" => c[j].link = link)
  <2>1. /\ DOMAIN c = {1, 2} /\ c[1].op = "share" /\ c[2].op = "load" /\ c[1].by = ShMe /\ c[2].by = ShMe
        /\ c[1].link = link /\ c[1].after = none /\ c[2].after = none
    BY Zenon, <1>1
  <2> HIDE DEF none
  <2> QED BY <2>1
<1>7. none # "drop" /\ none # "put"
  OBVIOUS
<1> HIDE DEF none
<1>8. CallsInv' /\ NewsInv' /\ MirrorInv'
  <2>1. ASSUME NEW j \in DOMAIN c  PROVE c[j].op # "answer" /\ Promised(c[j])'
    <3>1. c[j].by = ShMe /\ c[j].after # "drop" /\ c[j].after # "put" /\ c[j].op # "answer" /\ c[j].op \notin {"add", "update"}
      <4>1. c[j].by = ShMe /\ c[j].after = none /\ (c[j].op = "share" \/ c[j].op = "load")
        BY <1>6
      <4> QED BY <1>7, <4>1
    <3> QED BY Zenon, <3>1 DEF Promised
  <2>2. shHist'.crossed => shHist'.undone
    BY Zenon, AtRest
  <2> QED BY Zenon, <1>1, <1>2, <1>4, <2>1, <2>2, RestToCall
<1>9. DOMAIN shCalls' = {1} /\ shCalls'[1] = c /\ shCalls' # <<>>
  BY <1>2
<1>10. ShareLinkInv'
  <2>1. Linking'
    <3>1. 1 \in DOMAIN shCalls' /\ 1 \in DOMAIN shCalls'[1] /\ shCalls'[1][1].op \in {"share", "load"}
      <4>1. 1 \in DOMAIN c /\ c[1].op \in {"share", "load"}
        <5>1. DOMAIN c = {1, 2} /\ c[1].op = "share"
          BY Zenon, <1>1
        <5> QED BY <5>1
      <4> QED BY <1>9, <4>1
    <3> QED BY Zenon, <3>1 DEF Linking
  <2>2. ASSUME shHist'.kept # 0
        PROVE  /\ shClient'.link.known /\ shServer'.link.known
               /\ shClient'.link.token = shHist'.kept /\ shServer'.link.token = shHist'.kept
               /\ \A i \in DOMAIN shCalls' : \A j \in DOMAIN shCalls'[i] :
                    shCalls'[i][j].op = "share" => shCalls'[i][j].link.token = shHist'.kept
    <3>1. shHist'.kept = shHist.kept /\ link.token = shHist.kept
      BY <2>2
    <3>2. shServer.link.known /\ shServer.link.token = shHist.kept
      BY Zenon, <2>2, <3>1 DEF ShInv, ShareLinkInv
    <3>3. \A i \in DOMAIN shCalls' : shCalls'[i] = c
      BY <1>9
    <3>4. shClient'.link.known /\ shClient'.link.token = shHist'.kept
      BY Zenon, <1>4, <2>2
    <3>5. shServer'.link.known /\ shServer'.link.token = shHist'.kept
      BY Zenon, <3>1, <3>2
    <3>6. ASSUME NEW i \in DOMAIN shCalls', NEW j \in DOMAIN shCalls'[i], shCalls'[i][j].op = "share"
          PROVE  shCalls'[i][j].link.token = shHist'.kept
      <4>1. j \in DOMAIN c /\ shCalls'[i][j] = c[j]
        BY Zenon, <3>3
      <4>2. c[j].op = "share"
        BY Zenon, <3>6, <4>1
      <4>3. c[j].link = link
        BY Zenon, <1>6, <4>1, <4>2
      <4> QED BY Zenon, <3>1, <4>1, <4>3
    <3> QED BY Zenon, <3>4, <3>5, <3>6
  <2> QED BY Zenon, <2>1, <2>2 DEF ShareLinkInv
<1>11. UndoneInv'
  <2> DEFINE r == c[1]
             v == Served(shServer, r).server
  <2>1. Coming' = v
    <3>1. shCalls'[1][1] = r /\ r.op \notin {"load", "answer"}
      <4>1. r.op = "share"
        BY Zenon, <1>1
      <4> QED BY <1>9, <4>1
    <3> QED BY Zenon, <1>9, <3>1 DEF Coming, Outcome
  <2>2. r \in ShReqRecs /\ r.op = "share"
    <3>1. c \in Seq(ShReqRecs) /\ c[1].op = "share" /\ 1 \in DOMAIN c
      <4>1. DOMAIN c = {1, 2} /\ c \in Seq(ShReqRecs) /\ c[1].op = "share"
        BY Zenon, <1>1
      <4> QED BY <4>1
    <3> QED BY <3>1, ElementOfSeq, LenProperties
  <2> HIDE DEF r
  <2>3. v \in ShServers /\ SameBoard(shServer, v)
    BY <1>3, <2>2, LinkServed DEF Truth, SameBoard
  <2>4. Coming = shServer /\ UndoneInv
    BY Zenon, AtRest DEF ShInv
  <2> HIDE DEF v
  <2>5. ASSUME NEW i \in DOMAIN shUndo, NEW j \in DOMAIN shUndo[i].was, Allowed(v, ShMe, "manage")
        PROVE  SameBoard(Served(v, shUndo[i].undo).server, shUndo[i].was[j])
    <3> DEFINE q == shUndo[i].undo
    <3>1. q \in ShReqRecs /\ q.op \notin {"share", "load", "answer"}
      <4>1. shUndo[i] \in ShUndos
        BY <1>3
      <4>2. Undoing(q)
        BY <1>3
      <4> QED BY <4>1, <4>2 DEF ShUndos, Undoing
    <3> HIDE DEF q
    <3>2. SameBoard(Served(shServer, q).server, shUndo[i].was[j])
      BY Zenon, <2>4 DEF UndoneInv, q
    <3>3. SameBoard(Served(shServer, q).server, Served(v, q).server)
      BY <1>3, <2>3, <3>1, LinkAside
    <3>4. SameBoard(Served(v, q).server, shUndo[i].was[j])
      BY Zenon, <3>2, <3>3 DEF SameBoard
    <3> QED BY <3>4 DEF q
  <2>6. DOMAIN shHist'.back = {}
    OBVIOUS
  <2> QED BY Zenon, <2>1, <2>5, <2>6 DEF UndoneInv
<1> QED BY <1>8, <1>10, <1>11

LEMMA LinkForIs ==
  ASSUME ShTypes, NEW on \in BOOLEAN
  PROVE  /\ LinkFor(on) \in ShLinks /\ LinkFor(on).known
         /\ shClient.link.known => LinkFor(on).token = shClient.link.token
<1>1. shClient.link \in ShLinks /\ shTokens \in Nat
  BY Zenon, ClientTypes DEF ShTypes
<1>2. CASE shClient.link.known
  <2>1. LinkFor(on) = [shClient.link EXCEPT !.on = on]
    BY <1>2 DEF LinkFor
  <2> QED BY <1>1, <1>2, <2>1 DEF ShLinks
<1>3. CASE ~shClient.link.known
  <2>1. LinkFor(on) = [known |-> TRUE, on |-> on, token |-> shTokens + 1]
    BY <1>3 DEF LinkFor, LinkMadeAnew
  <2> QED BY <1>1, <1>3, <2>1 DEF ShLinks
<1> QED BY <1>2, <1>3

\* The types after the link was sent.
LEMMA LinkTypes ==
  ASSUME ShTypes, NEW link \in ShLinks
  PROVE  [shClient EXCEPT !.link = link] \in ShClients
BY ClientTypes DEF ShClients

LEMMA ShareChangedStep ==
  ASSUME ShInv, ShareChanged
  PROVE  ShInv'
<1> DEFINE on == ~LinkShown
           c == <<SetSharing(LinkFor(on)), GetSharing>>
<1>1. PICK link : link = LinkFor(on)
  BY Zenon
<1>2. /\ MayManage
      /\ shClient' = (IF shClient.link.known THEN [shClient EXCEPT !.link = link] ELSE shClient)
      /\ shTokens' = (IF link.token > shTokens THEN link.token ELSE shTokens)
      /\ Begin(<<SetSharing(link), GetSharing>>, shUndo)
  BY Zenon, <1>1 DEF ShareChanged, SendLink
<1>3. ShTypes
  BY Zenon DEF ShInv
<1>4. on \in BOOLEAN
  BY <1>3, ClientTypes DEF LinkShown, ShLinks, ShClients
<1> HIDE DEF on
<1>5. link \in ShLinks /\ link.known /\ (shClient.link.known => link.token = shClient.link.token)
  BY Zenon, <1>1, <1>3, <1>4, LinkForIs
<1> DEFINE q == <<SetSharing(link), GetSharing>>
<1>6. q \in Seq(ShReqRecs) /\ LinkCall(q) /\ \A j \in DOMAIN q : Sensible(q[j])
  BY <1>5, ShareIs
<1>7. Begin(q, shUndo)
  BY <1>2
<1> HIDE DEF q
<1>8. PICK l : l = (IF shClient.link.known THEN link ELSE shClient.link)
  BY Zenon
<1>9. l \in ShLinks /\ shClient' = [shClient EXCEPT !.link = l] /\ shClient' \in ShClients
  <2>1. CASE shClient.link.known
    BY <1>2, <1>3, <1>5, <1>8, <2>1, LinkTypes
  <2>2. CASE ~shClient.link.known
    <3>1. shClient' = shClient /\ l = shClient.link /\ shClient \in ShClients /\ shClient.link \in ShLinks
      BY <1>2, <1>3, <1>8, <2>2, ClientTypes
    <3> QED BY <3>1 DEF ShClients
  <2> QED BY <2>1, <2>2
<1>10. /\ CallsFit' /\ shHist' \in ShPasts /\ shOps' \in 0..ShMaxOps
       /\ shServer' = shServer /\ shNews' = shNews /\ shFetches' = shFetches /\ shFaults' = shFaults /\ shUndo' = shUndo
  BY Zenon, <1>3, <1>6, <1>7, BeginTypes
<1>11. ShTypes'
  <2>1. /\ shServer \in ShServers /\ shNews \in Seq(ShNewsRecs) /\ shFetches \in BOOLEAN
        /\ shTokens \in Nat /\ shFaults \in 0..ShMaxFaults /\ UndoFits
    BY Zenon, <1>3 DEF ShTypes
  <2>2. UndoFits'
    BY Zenon, <1>10, <2>1 DEF UndoFits
  <2>3. shTokens' \in Nat
    <3>1. link.token \in Nat
      BY <1>5 DEF ShLinks
    <3> QED BY <1>2, <2>1, <3>1
  <2> QED BY Zenon, <1>9, <1>10, <2>1, <2>2, <2>3 DEF ShTypes
<1> SUFFICES ASSUME ~shHist'.apart  PROVE CallsInv' /\ NewsInv' /\ MirrorInv' /\ ShareLinkInv' /\ UndoneInv'
  BY Zenon, <1>11 DEF ShInv
<1>12. /\ ~shHist.apart /\ ShSettled /\ shCalls' = <<q>>
       /\ shHist'.crossed = shHist.crossed /\ shHist'.undone = shHist.undone /\ shHist'.kept = shHist.kept /\ shHist'.back = <<>>
  BY Zenon, <1>6, <1>7, BeginsAlone
<1>13. Allowed(shServer, ShMe, "manage")
  BY Zenon, <1>2, <1>12, Manages
<1>14. shHist.kept # 0 => shClient.link.known /\ shClient.link.token = shHist.kept
  BY Zenon, <1>12 DEF ShInv, ShareLinkInv
<1>15. /\ shHist'.kept = 0 \/ (shHist'.kept = shHist.kept /\ link.token = shHist.kept)
       /\ shHist'.kept # 0 => l.known /\ l.token = shHist'.kept
  BY <1>5, <1>8, <1>12, <1>14
<1>16. shCalls' = <<<<SetSharing(link), GetSharing>>>>
  BY Zenon, <1>12 DEF q
<1> QED BY Zenon, <1>5, <1>9, <1>10, <1>12, <1>13, <1>15, <1>16, LinkIsSent

LEMMA RegenerateTokenStep ==
  ASSUME ShInv, RegenerateToken
  PROVE  ShInv'
<1>1. PICK link : link = [shClient.link EXCEPT !.token = shTokens + 1]
  BY Zenon
<1>2. /\ LinkShown /\ MayManage
      /\ shOps > 0 /\ ShSettled /\ shOps' = shOps - 1 /\ shTokens' = shTokens + 1
      /\ shClient' = [shClient EXCEPT !.link = link]
      /\ shCalls' = <<<<SetSharing(link), GetSharing>>>>
      /\ shHist' = [shHist EXCEPT !.kept = 0, !.back = <<>>]
      /\ shServer' = shServer /\ shNews' = shNews /\ shFetches' = shFetches /\ shUndo' = shUndo /\ shFaults' = shFaults
  BY Zenon, <1>1 DEF RegenerateToken
<1>3. ShTypes
  BY Zenon DEF ShInv
<1>4. /\ shServer \in ShServers /\ shNews \in Seq(ShNewsRecs) /\ shFetches \in BOOLEAN /\ shHist \in ShPasts
      /\ shTokens \in Nat /\ shFaults \in 0..ShMaxFaults /\ UndoFits /\ shOps \in 0..ShMaxOps
  BY Zenon, <1>3 DEF ShTypes
<1>5. shClient.link \in ShLinks /\ shClient.link.known
  BY <1>2, <1>3, ClientTypes DEF LinkShown
<1>6. link \in ShLinks /\ link.known
  BY <1>1, <1>4, <1>5 DEF ShLinks
<1>7. shHist' \in ShPasts /\ shHist'.kept = 0 /\ shHist'.back = <<>> /\ shHist'.undone = shHist.undone /\ shHist'.apart = shHist.apart
      /\ shHist'.crossed = shHist.crossed
  <2> DEFINE e == <<>>
  <2>1. e \in Seq(ShServers) /\ shHist' = [shHist EXCEPT !.kept = 0, !.back = e]
    BY <1>2
  <2> HIDE DEF e
  <2>2. shHist' \in ShPasts /\ shHist'.kept = 0 /\ shHist'.back = e /\ shHist'.undone = shHist.undone /\ shHist'.apart = shHist.apart
      /\ shHist'.crossed = shHist.crossed
    BY <1>4, <2>1 DEF ShPasts
  <2> QED BY Zenon, <2>2 DEF e
<1> DEFINE q == <<SetSharing(link), GetSharing>>
<1>8. q \in Seq(ShReqRecs) /\ LinkCall(q) /\ \A j \in DOMAIN q : Sensible(q[j])
  BY <1>6, ShareIs
<1>9. shCalls' = <<q>>
  BY Zenon, <1>2
<1> HIDE DEF q
<1>10. ShTypes'
  <2>1. /\ shCalls' \in Seq(Seq(ShReqRecs)) /\ Len(shCalls') <= 2
        /\ \A i \in DOMAIN shCalls' : shCalls'[i] = q
    BY <1>8, <1>9
  <2>2. CallsFit'
    BY Zenon, <1>8, <2>1 DEF CallsFit
  <2>3. UndoFits'
    BY Zenon, <1>2, <1>4 DEF UndoFits
  <2>4. shOps' \in 0..ShMaxOps /\ shTokens' \in Nat
    <3>1. ShMaxOps \in Nat
      BY Zenon, ShAssumption
    <3> QED BY <1>2, <1>4, <3>1
  <2>5. shClient' \in ShClients
    BY <1>2, <1>3, <1>6, LinkTypes
  <2> QED BY Zenon, <1>2, <1>4, <1>7, <2>2, <2>3, <2>4, <2>5 DEF ShTypes
<1> SUFFICES ASSUME ~shHist'.apart  PROVE CallsInv' /\ NewsInv' /\ MirrorInv' /\ ShareLinkInv' /\ UndoneInv'
  BY Zenon, <1>10 DEF ShInv
<1>11. ~shHist.apart
  BY <1>7
<1>12. Allowed(shServer, ShMe, "manage")
  BY Zenon, <1>2, <1>11, Manages
<1> QED BY Zenon, <1>2, <1>6, <1>7, <1>11, <1>12, LinkIsSent

LEMMA CopyLinkStep ==
  ASSUME ShInv, CopyLink
  PROVE  ShInv'
<1>1. /\ LinkShown /\ ShSettled
      /\ shHist' = [shHist EXCEPT !.kept = shClient.link.token]
      /\ shServer' = shServer /\ shClient' = shClient /\ shCalls' = shCalls /\ shNews' = shNews /\ shFetches' = shFetches
      /\ shUndo' = shUndo /\ shTokens' = shTokens /\ shOps' = shOps /\ shFaults' = shFaults
  BY Zenon DEF CopyLink
<1>2. ShTypes
  BY Zenon DEF ShInv
<1>3. shHist \in ShPasts /\ shClient.link \in ShLinks /\ shClient.link.known
  <2>1. shHist \in ShPasts
    BY Zenon, <1>2 DEF ShTypes
  <2> QED BY <1>1, <1>2, <2>1, ClientTypes DEF LinkShown
<1>4. /\ shHist' \in ShPasts /\ shHist'.kept = shClient.link.token /\ shHist'.back = shHist.back
      /\ shHist'.undone = shHist.undone /\ shHist'.apart = shHist.apart /\ shHist'.crossed = shHist.crossed
  BY <1>1, <1>3 DEF ShPasts, ShLinks
<1>5. ShTypes'
  BY Zenon, <1>1, <1>2, <1>4 DEF ShTypes, CallsFit, UndoFits
<1> SUFFICES ASSUME ~shHist'.apart  PROVE CallsInv' /\ NewsInv' /\ MirrorInv' /\ ShareLinkInv' /\ UndoneInv'
  BY Zenon, <1>5 DEF ShInv
<1>6. ~shHist.apart
  BY <1>4
<1>7. CallsInv /\ NewsInv /\ MirrorInv /\ ShareLinkInv /\ UndoneInv
  BY Zenon, <1>6 DEF ShInv
<1>8. CallsInv'
  <2>1. shCalls = <<>> /\ (shHist.crossed => shHist.undone)
    BY Zenon, <1>1, <1>6, AtRest
  <2>2. DOMAIN shCalls' = {} /\ Len(shCalls') <= 1
    BY <1>1, <2>1
  <2>3. ~ShareAsks'
    BY Zenon, <2>2 DEF ShareAsks
  <2> QED BY Zenon, <1>4, <2>1, <2>2, <2>3 DEF CallsInv
<1>9. NewsInv'
  BY Zenon, <1>1, <1>4, <1>7 DEF NewsInv, IsTrue, ToFetch, NewsAbout, NewsOfBoard
<1>10. MirrorInv'
  <2>1. \A u \in ShUsers : (Matches(u) => Matches(u)') /\ (NewsAbout(u) => NewsAbout(u)')
    BY Zenon, <1>1, <1>4 DEF Matches, NewsAbout
  <2>2. (ToFetch => ToFetch') /\ (NewsAbout(ShMe) => NewsAbout(ShMe)') /\ (NewsOfBoard => NewsOfBoard')
    BY Zenon, <1>1 DEF ToFetch, NewsAbout, NewsOfBoard
  <2> QED BY Zenon, <1>1, <1>4, <1>7, <2>1, <2>2 DEF MirrorInv
<1>11. ShareLinkInv'
  <2>1. shClient.link = shServer.link /\ shCalls = <<>>
    BY Zenon, <1>1, <1>3, <1>6, AtRest
  <2>2. DOMAIN shCalls' = {}
    BY <1>1, <2>1
  <2> QED BY Zenon, <1>1, <1>3, <1>4, <2>1, <2>2 DEF ShareLinkInv
<1>12. UndoneInv'
  <2>1. Coming' = Coming
    BY Zenon, <1>1 DEF Coming, Outcome
  <2> QED BY Zenon, <1>1, <1>4, <1>7, <2>1 DEF UndoneInv
<1> QED BY <1>8, <1>9, <1>10, <1>11, <1>12

\* What undoes an operation after the other admin was at work.
LEMMA UndoAfter ==
  ASSUME ShTypes
  PROVE  LET undo == [i \in DOMAIN shUndo |-> [shUndo[i] EXCEPT !.was = <<>>]] IN
         /\ undo \in Seq(ShUndos) /\ \A i \in DOMAIN undo : Undoing(undo[i].undo) /\ undo[i].was = <<>>
<1> DEFINE undo == [i \in DOMAIN shUndo |-> [shUndo[i] EXCEPT !.was = <<>>]]
           e == <<>>
<1>1. shUndo \in Seq(ShUndos) /\ \A i \in DOMAIN shUndo : Undoing(shUndo[i].undo)
  BY Zenon DEF ShTypes, UndoFits
<1>2. e \in Seq(ShServers)
  OBVIOUS
<1>3. DOMAIN shUndo = 1..Len(shUndo) /\ Len(shUndo) \in Nat
  BY <1>1, LenProperties
<1>4. undo = [i \in 1..Len(shUndo) |-> [shUndo[i] EXCEPT !.was = e]]
  BY <1>3
<1> HIDE DEF e
<1>5. ASSUME NEW i \in 1..Len(shUndo)
      PROVE  /\ [shUndo[i] EXCEPT !.was = e] \in ShUndos
             /\ [shUndo[i] EXCEPT !.was = e].undo = shUndo[i].undo /\ [shUndo[i] EXCEPT !.was = e].was = e
  <2>1. shUndo[i] \in ShUndos
    BY <1>1
  <2> QED BY <1>2, <2>1 DEF ShUndos
<1> HIDE DEF undo
<1>6. undo \in Seq(ShUndos)
  BY <1>3, <1>4, <1>5, IsASeq
<1>7. DOMAIN undo = 1..Len(shUndo) /\ \A i \in DOMAIN undo : undo[i] = [shUndo[i] EXCEPT !.was = e]
  BY <1>4
<1>8. \A i \in DOMAIN undo : Undoing(undo[i].undo) /\ undo[i].was = e
  BY Zenon, <1>1, <1>3, <1>5, <1>7
<1> QED BY Zenon, <1>6, <1>8 DEF undo, e

LEMMA AnnStep ==
  ASSUME ShInv, NEW r, PlainRequest(r), r.by = ShAnn, r.after # "drop", r.after # "put", Allowed(shServer, ShAnn, "manage"),
         r.op \in {"add", "update"} => ReadAlike(r.flags, shServer.min),
         NEW u, u = [i \in DOMAIN shUndo |-> [shUndo[i] EXCEPT !.was = <<>>]],
         Begin(<<r>>, u), shClient' = shClient, shTokens' = shTokens
  PROVE  ShInv'
<1>1. ShTypes
  BY Zenon DEF ShInv
<1>2. u \in Seq(ShUndos) /\ \A i \in DOMAIN u : Undoing(u[i].undo) /\ u[i].was = <<>>
  BY Zenon, <1>1, UndoAfter
<1>3. r \in ShReqRecs /\ r.op # "share" /\ r.op # "load" /\ r.op # "answer" /\ r.op \notin {"share", "load"} /\ Sensible(r)
  BY DEF PlainRequest
<1> DEFINE c == <<r>>
<1>4. /\ c \in Seq(ShReqRecs) /\ OneCall(c) /\ c[1] = r /\ DOMAIN c = {1} /\ \A j \in DOMAIN c : Sensible(c[j])
  BY <1>3, OneIsCall
<1>5. Begin(c, u)
  OBVIOUS
<1> HIDE DEF c
<1>6. /\ CallsFit' /\ shHist' \in ShPasts /\ shOps' \in 0..ShMaxOps
      /\ shServer' = shServer /\ shNews' = shNews /\ shFetches' = shFetches /\ shFaults' = shFaults /\ shUndo' = u
  BY Zenon, <1>1, <1>4, <1>5, BeginTypes
<1>7. ShTypes'
  <2>1. /\ shServer \in ShServers /\ shClient \in ShClients /\ shNews \in Seq(ShNewsRecs) /\ shFetches \in BOOLEAN
        /\ shTokens \in Nat /\ shFaults \in 0..ShMaxFaults
    BY Zenon, <1>1 DEF ShTypes
  <2>2. UndoFits'
    BY Zenon, <1>2, <1>6 DEF UndoFits
  <2> QED BY Zenon, <1>6, <2>1, <2>2 DEF ShTypes
<1> SUFFICES ASSUME ~shHist'.apart  PROVE CallsInv' /\ NewsInv' /\ MirrorInv' /\ ShareLinkInv' /\ UndoneInv'
  BY Zenon, <1>7 DEF ShInv
<1>8. /\ ~shHist.apart /\ ShSettled /\ shCalls' = <<c>>
      /\ shHist'.crossed = shHist.crossed /\ shHist'.undone = shHist.undone /\ shHist'.kept = shHist.kept /\ shHist'.back = <<>>
  BY Zenon, <1>4, <1>5, BeginsAlone
<1>9. CallsInv' /\ NewsInv' /\ MirrorInv'
  <2>1. Promised(r)'
    BY Zenon, <1>3, <1>6, <1>8 DEF Promised
  <2>2. ASSUME NEW j \in DOMAIN c  PROVE c[j].op # "answer" /\ Promised(c[j])'
    <3>1. c[j] = r
      BY <1>4
    <3> QED BY Zenon, <1>3, <2>1, <3>1
  <2>3. shHist'.crossed => shHist'.undone
    BY Zenon, <1>8, AtRest
  <2> QED BY Zenon, <1>4, <1>6, <1>8, <2>2, <2>3, RestToCall
<1>10. DOMAIN shCalls' = {1} /\ shCalls'[1] = c /\ DOMAIN shCalls'[1] = {1} /\ shCalls'[1][1] = r
  BY <1>4, <1>8
<1>11. ShareLinkInv'
  <2>1. (\A i \in DOMAIN shCalls : \A j \in DOMAIN shCalls[i] : shCalls[i][j].op \notin {"share", "load"} /\ shCalls[i][j].op # "share")'
    BY <1>3, <1>10
  <2>2. ~Linking' /\ ~Linking
    BY Zenon, <1>8, <2>1, AtRest DEF Linking
  <2>3. ShareLinkInv
    BY Zenon, <1>8 DEF ShInv
  <2> QED BY Zenon, <1>6, <1>8, <2>1, <2>2, <2>3 DEF ShareLinkInv
<1>12. UndoneInv'
  <2>1. DOMAIN shHist'.back = {} /\ \A i \in DOMAIN u : DOMAIN u[i].was = {}
    BY <1>2, <1>8
  <2> QED BY Zenon, <1>6, <2>1 DEF UndoneInv
<1> QED BY <1>9, <1>11, <1>12

LEMMA AnnWorksStep ==
  ASSUME ShInv, AnnWorks
  PROVE  ShInv'
<1>1. PICK u : u = [i \in DOMAIN shUndo |-> [shUndo[i] EXCEPT !.was = <<>>]]
  BY Zenon
<1> DEFINE Can1(r) == Allowed(shServer, ShAnn, "manage") /\ Begin(<<r>>, u) /\ shClient' = shClient /\ shTokens' = shTokens
<1>2. \/ \E v \in ShUsers, role \in RolesOffered(shServer.min) : Can1(ShRequest("update", ShAnn, v, FlagsFor(role)))
      \/ \E v \in ShUsers : Can1(ShRequest("remove", ShAnn, v, {}))
      \/ \E min \in Minimum \ {shServer.min} : Can1(PatchBoard(ShAnn, "min", min))
  BY Zenon, <1>1 DEF AnnWorks
<1> HIDE DEF Can1
<1>3. \A r : Can1(r) /\ PlainRequest(r) /\ r.by = ShAnn /\ r.after # "drop" /\ r.after # "put" /\ (r.op \in {"add", "update"} => ReadAlike(r.flags, shServer.min))
             => ShInv'
  BY Zenon, <1>1, AnnStep DEF Can1
<1>4. shServer \in ShServers /\ shServer.min \in Minimum
  <2>1. shServer \in ShServers
    BY Zenon DEF ShInv, ShTypes
  <2> QED BY <2>1 DEF ShServers
<1>5. CASE \E v \in ShUsers, role \in RolesOffered(shServer.min) : Can1(ShRequest("update", ShAnn, v, FlagsFor(role)))
  <2> PICK v \in ShUsers, role \in RolesOffered(shServer.min) : Can1(ShRequest("update", ShAnn, v, FlagsFor(role)))
    BY <1>5
  <2> DEFINE f == FlagsFor(role)
             r == ShRequest("update", ShAnn, v, f)
  <2>1. f \in ShFlags /\ f # {} /\ ReadAlike(f, shServer.min)
    BY Zenon, <1>4, OfferedReads
  <2>2. Can1(r)
    BY Zenon
  <2> HIDE DEF f
  <2>3. PlainRequest(r) /\ r.by = ShAnn /\ r.flags = f /\ r.after # "drop" /\ r.after # "put"
    BY <2>1, MemberRequests
  <2> HIDE DEF r
  <2> QED BY Zenon, <1>3, <2>1, <2>2, <2>3
<1>6. CASE \E v \in ShUsers : Can1(ShRequest("remove", ShAnn, v, {}))
  <2> PICK v \in ShUsers : Can1(ShRequest("remove", ShAnn, v, {}))
    BY <1>6
  <2> DEFINE r == ShRequest("remove", ShAnn, v, {})
  <2>1. PlainRequest(r) /\ r.by = ShAnn /\ r.op = "remove" /\ r.after # "drop" /\ r.after # "put"
    <3>1. {} \in ShFlags
      BY DEF ShFlags
    <3> QED BY <3>1, MemberRequests
  <2>2. Can1(r)
    BY Zenon
  <2> HIDE DEF r
  <2>3. r.op \notin {"add", "update"}
    BY <2>1
  <2> QED BY Zenon, <1>3, <2>1, <2>2, <2>3
<1>7. CASE \E min \in Minimum \ {shServer.min} : Can1(PatchBoard(ShAnn, "min", min))
  <2> PICK min \in Minimum \ {shServer.min} : Can1(PatchBoard(ShAnn, "min", min))
    BY <1>7
  <2> DEFINE r == PatchBoard(ShAnn, "min", min)
  <2>1. AsksPatch(r, ShAnn, "min", min)
    BY BoardPatchIs
  <2>2. Can1(r)
    BY Zenon
  <2> HIDE DEF r
  <2>3. "min" # "channel"
    OBVIOUS
  <2>4. r \in ShReqRecs /\ r.op = "patch" /\ r.by = ShAnn /\ r.after \notin {"put", "drop"} /\ Sensible(r)
    BY Zenon, <2>1, <2>3 DEF AsksPatch
  <2>5. r.after # "drop" /\ r.after # "put" /\ r.op \notin {"add", "update"} /\ r.op \notin {"share", "load", "answer"}
    BY <2>4
  <2>6. PlainRequest(r)
    BY Zenon, <2>4, <2>5 DEF PlainRequest
  <2> QED BY Zenon, <1>3, <2>2, <2>4, <2>5, <2>6
<1> QED BY <1>2, <1>5, <1>6, <1>7

----------------------------------------------------------------------------
(***************************************************************************)
(* The service, answers and news.                                           *)
(***************************************************************************)
\* The link that was read.
LEMMA ReadIs ==
  ASSUME ShTypes, NEW r \in ShReqRecs
  PROVE  LET x == LinkRead(r) IN
         /\ x \in ShClients /\ x.members = shClient.members /\ x.mine = shClient.mine /\ x.open = shClient.open
         /\ x.users = shClient.users /\ x.channel = shClient.channel /\ x.min = shClient.min
         /\ r.op # "load" => x.link = shClient.link
         /\ r.op = "load" => x.link = IF Allowed(shServer, ShMe, "manage") THEN shServer.link ELSE NoLink
<1> DEFINE x == LinkRead(r)
           l == IF Allowed(shServer, ShMe, "manage") THEN shServer.link ELSE NoLink
<1>1. shClient \in ShClients /\ shServer \in ShServers
  BY Zenon, ClientTypes
<1>2. x = IF r.op = "load" THEN [shClient EXCEPT !.link = l] ELSE shClient
  BY Zenon DEF LinkRead
<1>3. l \in ShLinks
  BY <1>1 DEF ShServers, NoLink, ShLinks
<1> HIDE DEF x, l
<1>4. CASE r.op = "load"
  <2>1. x = [shClient EXCEPT !.link = l]
    BY <1>2, <1>4
  <2>2. /\ x \in ShClients /\ x.members = shClient.members /\ x.mine = shClient.mine /\ x.open = shClient.open
        /\ x.link = l /\ x.users = shClient.users /\ x.channel = shClient.channel /\ x.min = shClient.min
    BY <1>1, <1>3, <2>1 DEF ShClients
  <2> QED BY Zenon, <1>4, <2>2 DEF x, l
<1>5. CASE r.op # "load"
  <2>1. x = shClient
    BY Zenon, <1>2, <1>5
  <2> QED BY Zenon, <1>1, <1>5, <2>1 DEF x
<1> QED BY <1>4, <1>5

\* The client after an answer.
LEMMA StoredIs ==
  ASSUME ShTypes, NEW r \in ShReqRecs, r.after # ""
  PROVE  LET x == Stored(r) IN
         /\ x \in ShClients /\ x.members = shClient.members /\ x.mine = shClient.mine /\ x.open = shClient.open
         /\ x.link = shClient.link
         /\ r.after # "put" => x.channel = shClient.channel /\ x.min = shClient.min
         /\ r.after = "put" => x.channel = r.board.channel /\ x.min = r.board.min
         /\ \A u \in shClient.users : ~(r.after = "drop" /\ u = r.user) => u \in x.users
<1> DEFINE x == Stored(r)
<1>1. shClient \in ShClients
  BY Zenon, ClientTypes
<1>2. r.after = "put" \/ r.after = "drop" \/ r.after = "add"
  BY DEF ShReqRecs, ShAfters
<1>3. r.user \in ShUsers /\ r.board.channel \in ShChans /\ r.board.min \in Minimum
  BY DEF ShReqRecs, ShBoards
<1>4. x = CASE r.after = "put" -> [shClient EXCEPT !.channel = r.board.channel, !.min = r.board.min]
            [] r.after = "drop" -> [shClient EXCEPT !.users = shClient.users \ {r.user}]
            [] r.after = "add" -> [shClient EXCEPT !.users = shClient.users \cup {r.user}]
  BY DEF Stored
<1> HIDE DEF x
<1>5. CASE r.after = "put"
  <2>1. x = [shClient EXCEPT !.channel = r.board.channel, !.min = r.board.min]
    BY <1>4, <1>5
  <2>2. /\ x \in ShClients /\ x.members = shClient.members /\ x.mine = shClient.mine /\ x.open = shClient.open
        /\ x.link = shClient.link /\ x.users = shClient.users /\ x.channel = r.board.channel /\ x.min = r.board.min
    BY <1>1, <1>3, <2>1 DEF ShClients
  <2> QED BY <1>5, <2>2 DEF x
<1>6. CASE r.after = "drop"
  <2>1. x = [shClient EXCEPT !.users = shClient.users \ {r.user}]
    BY <1>4, <1>6
  <2>2. /\ x \in ShClients /\ x.members = shClient.members /\ x.mine = shClient.mine /\ x.open = shClient.open
        /\ x.link = shClient.link /\ x.users = shClient.users \ {r.user} /\ x.channel = shClient.channel /\ x.min = shClient.min
    BY <1>1, <2>1 DEF ShClients
  <2> QED BY <1>6, <2>2 DEF x
<1>7. CASE r.after = "add"
  <2>1. x = [shClient EXCEPT !.users = shClient.users \cup {r.user}]
    BY <1>4, <1>7
  <2>2. /\ x \in ShClients /\ x.members = shClient.members /\ x.mine = shClient.mine /\ x.open = shClient.open
        /\ x.link = shClient.link /\ x.users = shClient.users \cup {r.user} /\ x.channel = shClient.channel /\ x.min = shClient.min
    BY <1>1, <1>3, <2>1 DEF ShClients
  <2> QED BY <1>7, <2>2 DEF x
<1> QED BY <1>2, <1>5, <1>6, <1>7

\* What waits to be answered.
ShareAnswers(a, r) ==
  a \in ShReqRecs /\ a.op = "answer" /\ Sensible(a) /\ a.after = r.after /\ a.user = r.user /\ a.board = r.board

LEMMA AnswerIs ==
  ASSUME NEW r \in ShReqRecs, Sensible(r), r.after # ""
  PROVE  LET a == [r EXCEPT !.op = "answer"] IN
         /\ ShareAnswers(a, r) /\ <<a>> \in Seq(ShReqRecs) /\ OneCall(<<a>>) /\ <<a>>[1] = a
         /\ \A j \in DOMAIN <<a>> : Sensible(<<a>>[j])
<1> DEFINE o == "answer"
           none == ""
           a == [r EXCEPT !.op = o]
<1>1. o \in ShOpNames
  BY DEF ShOpNames
<1> HIDE DEF o
<1>2. /\ a \in ShReqRecs /\ a.op = o
      /\ a.by = r.by /\ a.user = r.user /\ a.patch = r.patch /\ a.board = r.board /\ a.after = r.after
  <2>1. \A p \in ShOpNames :
          LET y == [r EXCEPT !.op = p] IN
          /\ y \in ShReqRecs /\ y.op = p
          /\ y.by = r.by /\ y.user = r.user /\ y.flags = r.flags /\ y.patch = r.patch /\ y.board = r.board
          /\ y.link = r.link /\ y.after = r.after
    BY Zenon, RequestWith
  <2> QED BY Zenon, <1>1, <2>1
<1> HIDE DEF a
<1>3. o = "answer"
  BY DEF o
<1>4. a.op = "answer" /\ a.op \notin {"add", "update"} /\ a.op \notin {"share", "load"} /\ a.op # "share"
      /\ a.op \in {"remove", "answer"} /\ a.op \in {"patch", "answer"}
  BY <1>2, <1>3
<1>5. r.after # none
  OBVIOUS
<1> HIDE DEF none
<1>6. Sensible(a)
  <2>1. a.by = ShAnn => a.patch.field # "channel"
    BY Zenon, <1>2 DEF Sensible
  <2> QED BY Zenon, <1>2, <1>4, <1>5, <2>1 DEF Sensible, none
<1>7. <<a>> \in Seq(ShReqRecs) /\ OneCall(<<a>>) /\ <<a>>[1] = a /\ \A j \in DOMAIN <<a>> : Sensible(<<a>>[j])
  BY Zenon, <1>2, <1>4, <1>6, OneIsCall
<1> QED BY Zenon, <1>2, <1>4, <1>6, <1>7 DEF ShareAnswers, a, o

\* What is left of the calls once the first request of a call is served.
Left(i, r) == IF r.after = "" THEN Rest(i) ELSE [shCalls EXCEPT ![i] = <<[r EXCEPT !.op = "answer"]>>]

LEMMA LeftTypes ==
  ASSUME ShTypes, NEW i \in DOMAIN shCalls, NEW r \in ShReqRecs, Sensible(r)
  PROVE  /\ Left(i, r) \in Seq(Seq(ShReqRecs)) /\ Len(Left(i, r)) <= 2
         /\ \A k \in DOMAIN Left(i, r) : \A j \in DOMAIN Left(i, r)[k] : Sensible(Left(i, r)[k][j])
         /\ \A k \in DOMAIN Left(i, r) : OneCall(Left(i, r)[k]) \/ LinkCall(Left(i, r)[k])
<1>1. CASE r.after = ""
  <2>1. Left(i, r) = Rest(i)
    BY Zenon, <1>1 DEF Left
  <2> QED BY Zenon, <2>1, RestTypes
<1>2. CASE r.after # ""
  <2> DEFINE c == <<[r EXCEPT !.op = "answer"]>>
             q == [shCalls EXCEPT ![i] = c]
  <2>1. c \in Seq(ShReqRecs) /\ OneCall(c) /\ \A j \in DOMAIN c : Sensible(c[j])
    BY Zenon, <1>2, AnswerIs
  <2>2. Left(i, r) = q
    BY Zenon, <1>2 DEF Left
  <2>3. shCalls \in Seq(Seq(ShReqRecs)) /\ Len(shCalls) <= 2
    BY Zenon DEF ShTypes, CallsFit
  <2> HIDE DEF c
  <2>4. q \in Seq(Seq(ShReqRecs)) /\ Len(q) = Len(shCalls) /\ DOMAIN q = DOMAIN shCalls
        /\ q[i] = c /\ \A k \in DOMAIN shCalls : k # i => q[k] = shCalls[k]
    BY <2>1, <2>3
  <2> HIDE DEF q
  <2>5. ASSUME NEW k \in DOMAIN q
        PROVE  (\A j \in DOMAIN q[k] : Sensible(q[k][j])) /\ (OneCall(q[k]) \/ LinkCall(q[k]))
    <3>1. CASE k = i
      BY Zenon, <2>1, <2>4, <3>1
    <3>2. CASE k # i
      <4>1. k \in DOMAIN shCalls /\ q[k] = shCalls[k]
        BY <2>4, <3>2
      <4> QED BY Zenon, <4>1, CallOf
    <3> QED BY <3>1, <3>2
  <2>6. Len(q) <= 2
    BY <2>3, <2>4
  <2> QED BY Zenon, <2>2, <2>4, <2>5, <2>6
<1> QED BY <1>1, <1>2

\* The first request of a call is served.
Sends(i, r, t, news) ==
  /\ i \in DOMAIN shCalls /\ r = shCalls[i][1] /\ r \in ShReqRecs /\ Sensible(r) /\ r.op # "answer" /\ ~Throws(r)
  /\ Truth(shServer, r, t, news)
  /\ r.op = "load" => t = shServer /\ news = <<>>
  /\ r.op # "load" => t = Served(shServer, r).server /\ news = Served(shServer, r).news
  /\ shServer' = t /\ shNews' = shNews \o news
  /\ shClient' = LinkRead(r) /\ shCalls' = Left(i, r)
  /\ UNCHANGED <<shFetches, shUndo, shTokens, shHist, shOps, shFaults>>

LEMMA SendNextIs ==
  ASSUME ShTypes, ShSendNext
  PROVE  \E i, r, t, news : Sends(i, r, t, news)
<1> PICK i \in DOMAIN shCalls :
      LET r == Head(shCalls[i])
          done == IF r.op = "load" THEN NothingDone(shServer) ELSE Served(shServer, r)
      IN
      /\ r.op # "answer" /\ ~Throws(r)
      /\ shServer' = done.server /\ shNews' = shNews \o done.news
      /\ shCalls' = IF r.after = "" THEN Rest(i) ELSE [shCalls EXCEPT ![i] = <<[r EXCEPT !.op = "answer"]>>]
      /\ shClient' = LinkRead(r)
      /\ UNCHANGED <<shFetches, shUndo, shTokens, shHist, shOps, shFaults>>
  BY Zenon DEF ShSendNext
<1> DEFINE r == shCalls[i][1]
           done == IF r.op = "load" THEN NothingDone(shServer) ELSE Served(shServer, r)
<1>1. Head(shCalls[i]) = r /\ r \in ShReqRecs /\ Sensible(r)
  BY CallOf
<1>2. /\ r.op # "answer" /\ ~Throws(r)
      /\ shServer' = done.server /\ shNews' = shNews \o done.news
      /\ shClient' = LinkRead(r) /\ shCalls' = Left(i, r)
      /\ UNCHANGED <<shFetches, shUndo, shTokens, shHist, shOps, shFaults>>
  BY Zenon, <1>1 DEF Left
<1>3. shServer \in ShServers
  BY Zenon DEF ShTypes
<1> HIDE DEF r
<1>4. CASE r.op = "load"
  <2>1. done = NothingDone(shServer) /\ "load" # "share"
    BY <1>4
  <2>2. done.server = shServer /\ done.news = <<>>
    <3>1. NothingDone(shServer).server = shServer /\ NothingDone(shServer).news = <<>>
      BY DEF NothingDone
    <3> HIDE DEF done
    <3> QED BY Zenon, <2>1, <3>1
  <2>3. Truth(shServer, r, done.server, done.news)
    <3>1. ServedNone(shServer, done) /\ r.op # "share"
      BY <1>4, <2>1 DEF ServedNone
    <3> HIDE DEF done
    <3> QED BY Zenon, <1>1, <1>3, <3>1, NoneIsTrue
  <2> HIDE DEF done
  <2>4. Sends(i, r, done.server, done.news)
    BY Zenon, <1>1, <1>2, <1>4, <2>2, <2>3 DEF Sends, r
  <2> QED BY Zenon, <2>4
<1>5. CASE r.op # "load"
  <2>1. done = Served(shServer, r)
    BY <1>5
  <2>2. Truth(shServer, r, done.server, done.news)
    <3>1. CASE r.op = "share"
      BY Zenon, <1>1, <1>3, <2>1, <3>1, LinkServed
    <3>2. CASE r.op # "share"
      BY Zenon, <1>1, <1>2, <1>3, <1>5, <2>1, <3>2, ServedIsTrue
    <3> QED BY <3>1, <3>2
  <2> HIDE DEF done
  <2>4. Sends(i, r, done.server, done.news)
    BY Zenon, <1>1, <1>2, <1>5, <2>1, <2>2 DEF Sends, r
  <2> QED BY Zenon, <2>4
<1> QED BY <1>4, <1>5

LEMMA SendTypes ==
  ASSUME ShTypes, NEW i, NEW r, NEW t, NEW news, Sends(i, r, t, news)
  PROVE  ShTypes'
<1>1. i \in DOMAIN shCalls /\ r \in ShReqRecs /\ Sensible(r) /\ t \in ShServers /\ news \in Seq(ShNewsRecs)
  BY Zenon DEF Sends, Truth
<1>2. /\ shServer' = t /\ shNews' = shNews \o news /\ shClient' = LinkRead(r) /\ shCalls' = Left(i, r)
      /\ shFetches' = shFetches /\ shUndo' = shUndo /\ shTokens' = shTokens /\ shHist' = shHist /\ shOps' = shOps /\ shFaults' = shFaults
  BY DEF Sends
<1>3. shClient' \in ShClients
  BY Zenon, <1>1, <1>2, ReadIs
<1>4. CallsFit'
  BY Zenon, <1>1, <1>2, LeftTypes DEF CallsFit
<1>5. shNews' \in Seq(ShNewsRecs)
  <2>1. shNews \in Seq(ShNewsRecs)
    BY Zenon DEF ShTypes
  <2> QED BY <1>1, <1>2, <2>1
<1>6. UndoFits'
  <2>1. UndoFits
    BY Zenon DEF ShTypes
  <2> QED BY Zenon, <1>2, <2>1 DEF UndoFits
<1>7. /\ shFetches \in BOOLEAN /\ shTokens \in Nat /\ shHist \in ShPasts /\ shOps \in 0..ShMaxOps /\ shFaults \in 0..ShMaxFaults
  BY Zenon DEF ShTypes
<1> QED BY Zenon, <1>1, <1>2, <1>3, <1>4, <1>5, <1>6, <1>7 DEF ShTypes

\* Who is not allowed gets nothing done; nor does a patch that is refused.
LEMMA RefusedIs ==
  ASSUME NEW s, NEW r, Refused(s, r)
  PROVE  Served(s, r).server = s /\ Served(s, r).news = <<>>
<1>1. NothingDone(s).server = s /\ NothingDone(s).news = <<>>
  BY DEF NothingDone
<1>2. CASE ~Allowed(s, r.by, "manage")
  <2>1. Served(s, r) = NothingDone(s)
    BY <1>2 DEF Served
  <2> QED BY <1>1, <2>1
<1>3. CASE Allowed(s, r.by, "manage")
  <2>1. r.op = "patch" /\ ~MayPatch(s, r)
    BY Zenon, <1>3 DEF Refused
  <2>2. Served(s, r) = PatchedBoard(s, r) /\ PatchedBoard(s, r) = NothingDone(s)
    BY <1>3, <2>1 DEF Served, PatchedBoard
  <2> QED BY <1>1, <2>2
<1> QED BY <1>2, <1>3

LEMMA NewsOfAllowed ==
  ASSUME NEW i, NEW r, NEW t, NEW news, Sends(i, r, t, news), NEW k \in DOMAIN news
  PROVE  Allowed(shServer, r.by, "manage")
<1>1. news # <<>>
  OBVIOUS
<1>2. news = Served(shServer, r).news
  BY Zenon, <1>1 DEF Sends
<1> QED BY Zenon, <1>1, <1>2, RefusedIs DEF Refused

\* What is left of the only call: nothing, or the load that follows the link.
OnlyLoad(calls) ==
  \E load \in ShReqRecs :
    /\ calls = <<<<load>>>> /\ load.op = "load" /\ Sensible(load)
    /\ 1 \in DOMAIN shCalls /\ 2 \in DOMAIN shCalls[1] /\ load = shCalls[1][2]
LEMMA RestShape ==
  ASSUME ShTypes, Len(shCalls) <= 1, NEW i \in DOMAIN shCalls
  PROVE  /\ i = 1 /\ shCalls[1][1] \in ShReqRecs /\ 1 \in DOMAIN shCalls[1]
         /\ \/ OneCall(shCalls[1]) /\ Rest(i) = <<>>
            \/ LinkCall(shCalls[1]) /\ shCalls[1][1].op = "share" /\ OnlyLoad(Rest(i))
<1>1. i = 1 /\ (Rest(i) = <<>> \/ (LinkCall(shCalls[i]) /\ 1 \in DOMAIN Rest(i) /\ Len(Rest(i)) <= 1 /\ Rest(i)[1] = <<shCalls[i][2]>>))
      /\ (OneCall(shCalls[i]) => Rest(i) = <<>>)
  BY Zenon, RestAlone
<1>2. shCalls[1] \in Seq(ShReqRecs) /\ 1 \in DOMAIN shCalls[1] /\ (OneCall(shCalls[1]) \/ LinkCall(shCalls[1]))
      /\ shCalls[1][1] \in ShReqRecs /\ \A j \in DOMAIN shCalls[1] : Sensible(shCalls[1][j])
  BY Zenon, <1>1, CallOf
<1>3. CASE OneCall(shCalls[1])
  BY Zenon, <1>1, <1>2, <1>3
<1>4. CASE LinkCall(shCalls[1])
  <2> DEFINE c == shCalls[1]
  <2>1. Len(c) = 2 /\ c[1].op = "share" /\ c[2].op = "load"
    BY Zenon, <1>4 DEF LinkCall
  <2>2. c \in Seq(ShReqRecs)
    BY <1>2
  <2> HIDE DEF c
  <2>3. 2 \in DOMAIN c /\ c[2] \in ShReqRecs
    BY Zenon, <2>1, <2>2, TailOfTwo
  <2>4. Rest(1) = <<<<c[2]>>>>
    <3>1. Rest(1) \in Seq(Seq(ShReqRecs))
      BY Zenon, <1>1, RestTypes
    <3>2. CASE Rest(1) = <<>>
      <4>1. Len(shCalls) = 1 /\ shCalls \in Seq(Seq(ShReqRecs))
        <5>1. shCalls \in Seq(Seq(ShReqRecs))
          BY Zenon DEF ShTypes, CallsFit
        <5> QED BY Zenon, <5>1, OnlyOne
      <4>2. Rest(1) = [shCalls EXCEPT ![1] = Tail(c)]
        <5>1. Len(c) # 1
          BY <2>1
        <5> QED BY <5>1 DEF Rest, c
      <4>3. Tail(c) \in Seq(ShReqRecs)
        BY Zenon, <2>1, <2>2, TailOfTwo
      <4>4. Len(Rest(1)) = 1
        <5>1. \A S : \A s \in Seq(S), x \in S : Len(s) = 1 => Len([s EXCEPT ![1] = x]) = 1
          BY OneReplaced
        <5>2. Len([shCalls EXCEPT ![1] = Tail(c)]) = 1
          BY Zenon, <4>1, <4>3, <5>1
        <5> QED BY <4>2, <5>2
      <4> QED BY <3>2, <4>4
    <3>3. CASE 1 \in DOMAIN Rest(1) /\ Len(Rest(1)) <= 1 /\ Rest(1)[1] = <<shCalls[1][2]>>
      <4>1. Len(Rest(1)) = 1
        BY Zenon, <3>1, <3>3, OnlyOne
      <4> QED BY <3>1, <3>3, <4>1 DEF c
    <3> QED BY <1>1, <3>2, <3>3
  <2>5. Sensible(c[2]) /\ 1 \in DOMAIN shCalls
    BY Zenon, <1>1, <1>2, <2>3 DEF c
  <2>6. OnlyLoad(Rest(1))
    BY Zenon, <2>1, <2>3, <2>4, <2>5 DEF OnlyLoad, c
  <2> QED BY Zenon, <1>1, <1>2, <1>4, <2>1, <2>6 DEF c
<1> QED BY <1>2, <1>3, <1>4

\* Only one call is under way.
LEMMA CallAlone ==
  ASSUME ShInv, ~shHist.apart, NEW i \in DOMAIN shCalls
  PROVE  /\ i = 1 /\ 1 \in DOMAIN shCalls /\ shCalls # <<>> /\ Len(shCalls) = 1
         /\ shCalls[1][1].op # "answer" => shNews = <<>> /\ shFetches = FALSE /\ Promised(shCalls[1][1])
         /\ shCalls[1][1].op = "answer" => ShareHolds(shCalls[1][1])
         /\ shCalls[1][1] \in ShReqRecs /\ Sensible(shCalls[1][1]) /\ 1 \in DOMAIN shCalls[1]
         /\ \/ OneCall(shCalls[1]) /\ Rest(i) = <<>>
            \/ LinkCall(shCalls[1]) /\ shCalls[1][1].op = "share" /\ OnlyLoad(Rest(i))
<1>1. ShTypes /\ CallsInv
  BY Zenon DEF ShInv
<1>2. Len(shCalls) <= 1
  BY Zenon, <1>1 DEF CallsInv
<1>3. /\ i = 1 /\ shCalls[1][1] \in ShReqRecs /\ 1 \in DOMAIN shCalls[1]
      /\ \/ OneCall(shCalls[1]) /\ Rest(i) = <<>>
         \/ LinkCall(shCalls[1]) /\ shCalls[1][1].op = "share" /\ OnlyLoad(Rest(i))
  BY Zenon, <1>1, <1>2, RestShape
<1>4. shCalls # <<>> /\ Len(shCalls) = 1
  <2>1. shCalls \in Seq(Seq(ShReqRecs))
    BY Zenon, <1>1 DEF ShTypes, CallsFit
  <2>2. Len(shCalls) = 1
    BY Zenon, <1>2, <2>1, OnlyOne
  <2>3. shCalls # <<>>
    OBVIOUS
  <2> QED BY <2>2, <2>3
<1> DEFINE q == shCalls[1][1]
<1>5. /\ Sensible(q) /\ (IF q.op = "answer" THEN ShareHolds(q) ELSE Promised(q))
  BY Zenon, <1>1, <1>3, CallOf DEF CallsInv
<1>6. q.op # "answer" => shNews = <<>> /\ shFetches = FALSE /\ Promised(q)
  <2> HAVE q.op # "answer"
  <2>1. ShareAsks
    BY Zenon, <1>3 DEF ShareAsks
  <2>2. shNews = <<>> /\ ~shFetches
    BY Zenon, <1>1, <2>1 DEF CallsInv
  <2>3. shFetches \in BOOLEAN
    BY Zenon, <1>1 DEF ShTypes
  <2>4. Promised(q)
    BY Zenon, <1>5
  <2> HIDE DEF q
  <2> QED BY <2>2, <2>3, <2>4
<1>7. q.op = "answer" => ShareHolds(q)
  BY Zenon, <1>5
<1> QED BY Zenon, <1>3, <1>4, <1>5, <1>6, <1>7

\* The one call under way is one request.
LEMMA OneShareRequest ==
  ASSUME ShTypes, Len(shCalls) = 1, OneCall(shCalls[1])
  PROVE  \A k \in DOMAIN shCalls : k = 1 /\ \A j \in DOMAIN shCalls[k] : j = 1
<1>1. shCalls \in Seq(Seq(ShReqRecs)) /\ Len(shCalls) <= 1
  <2>1. shCalls \in Seq(Seq(ShReqRecs))
    BY Zenon DEF ShTypes, CallsFit
  <2>2. Len(shCalls) <= 1
    OBVIOUS
  <2> QED BY <2>1, <2>2
<1>2. ASSUME NEW k \in DOMAIN shCalls  PROVE k = 1 /\ \A j \in DOMAIN shCalls[k] : j = 1
  <2>1. k = 1
    BY Zenon, <1>1, OnlyOne
  <2>2. Len(shCalls[1]) = 1 /\ shCalls[1] \in Seq(ShReqRecs)
    BY Zenon, <1>2, <2>1, CallOf DEF OneCall
  <2>3. \A j \in DOMAIN shCalls[1] : j = 1
    BY <2>2
  <2> QED BY Zenon, <2>1, <2>3
<1> QED BY Zenon, <1>2

\* Only an answer is left.
OnlyAnswer(calls, r) == \E a : calls = <<<<a>>>> /\ ShareAnswers(a, r)

LEMMA SendAlone ==
  ASSUME ShInv, ~shHist.apart, NEW i, NEW r, NEW t, NEW news, Sends(i, r, t, news)
  PROVE  /\ i = 1 /\ 1 \in DOMAIN shCalls /\ shCalls[1][1] = r /\ shCalls # <<>> /\ shNews = <<>> /\ shFetches = FALSE
         /\ Promised(r) /\ shNews' = news /\ shServer' = t /\ Len(shCalls) = 1
         /\ shFetches' = FALSE /\ shHist' = shHist /\ shUndo' = shUndo
         /\ r.op # "share" => OneCall(shCalls[1])
         /\ \/ r.op # "share" /\ shCalls' = <<>>
            \/ r.op = "share" /\ OnlyLoad(shCalls')
            \/ r.op # "share" /\ r.op # "load" /\ OnlyAnswer(shCalls', r)
<1>1. i \in DOMAIN shCalls /\ r = shCalls[i][1] /\ r.op # "answer" /\ news \in Seq(ShNewsRecs) /\ r \in ShReqRecs /\ Sensible(r)
  BY Zenon DEF Sends, Truth
<1>2. /\ shServer' = t /\ shNews' = shNews \o news /\ shCalls' = Left(i, r)
      /\ shFetches' = shFetches /\ shUndo' = shUndo /\ shHist' = shHist
  BY DEF Sends
<1>3. /\ i = 1 /\ 1 \in DOMAIN shCalls /\ shCalls # <<>> /\ Len(shCalls) = 1
      /\ shCalls[1][1].op # "answer" => shNews = <<>> /\ shFetches = FALSE /\ Promised(shCalls[1][1])
      /\ \/ OneCall(shCalls[1]) /\ Rest(i) = <<>>
         \/ LinkCall(shCalls[1]) /\ shCalls[1][1].op = "share" /\ OnlyLoad(Rest(i))
  BY Zenon, <1>1, CallAlone
<1>4. shNews = <<>> /\ shFetches = FALSE /\ Promised(r) /\ r = shCalls[1][1]
  BY Zenon, <1>1, <1>3
<1>5. shNews' = news
  BY <1>1, <1>2, <1>4
<1>6. (r.op # "share" => OneCall(shCalls[1])) /\ (OneCall(shCalls[1]) => r.op # "share")
  BY Zenon, <1>3, <1>4 DEF OneCall
<1>7. CASE r.after = ""
  <2>1. shCalls' = Rest(i)
    BY Zenon, <1>2, <1>7 DEF Left
  <2> QED BY Zenon, <1>2, <1>3, <1>4, <1>5, <1>6, <2>1
<1>8. CASE r.after # ""
  <2>1. r.op # "share" /\ r.op # "load"
    <3>1. r.op \notin {"share", "load"}
      BY Zenon, <1>1, <1>8 DEF Sensible
    <3> QED BY <3>1
  <2> DEFINE a == [r EXCEPT !.op = "answer"]
             c == <<a>>
  <2>2. ShareAnswers(a, r) /\ c \in Seq(ShReqRecs)
    BY Zenon, <1>1, <1>8, AnswerIs
  <2>3. shCalls' = [shCalls EXCEPT ![1] = c]
    BY Zenon, <1>2, <1>3, <1>8 DEF Left
  <2>4. c = <<a>>
    OBVIOUS
  <2> HIDE DEF a, c
  <2>5. shCalls \in Seq(Seq(ShReqRecs))
    BY Zenon DEF ShInv, ShTypes, CallsFit
  <2>6. shCalls' \in Seq(Seq(ShReqRecs)) /\ Len(shCalls') = 1 /\ shCalls'[1] = c
    <3>1. \A S : shCalls \in Seq(S) /\ c \in S =>
            [shCalls EXCEPT ![1] = c] \in Seq(S) /\ Len([shCalls EXCEPT ![1] = c]) = 1 /\ [shCalls EXCEPT ![1] = c][1] = c
      BY <1>3, OneReplaced
    <3> QED BY Zenon, <2>2, <2>3, <2>5, <3>1
  <2>7. shCalls' = <<c>>
    BY <2>6
  <2>8. OnlyAnswer(shCalls', r)
    BY Zenon, <2>2, <2>4, <2>7 DEF OnlyAnswer
  <2> QED BY Zenon, <1>2, <1>3, <1>4, <1>5, <1>6, <2>1, <2>8
<1> QED BY <1>7, <1>8

\* The flags of a member.
LEMMA MemberFlags ==
  ASSUME NEW s, NEW u
  PROVE  MemberAt(s, u).flags = IF s.rows[u] # {} THEN s.rows[u] ELSE IF InChannel(s, u) THEN {"editor"} ELSE {}
<1>1. CASE s.rows[u] # {}
  BY <1>1 DEF MemberAt
<1>2. CASE s.rows[u] = {} /\ InChannel(s, u)
  <2>1. MemberAt(s, u) = [flags |-> {"editor"}, min |-> "", synthetic |-> TRUE]
    BY <1>2 DEF MemberAt
  <2>2. [flags |-> {"editor"}, min |-> "", synthetic |-> TRUE].flags = {"editor"}
    OBVIOUS
  <2> QED BY Zenon, <1>2, <2>1, <2>2
<1>3. CASE s.rows[u] = {} /\ ~InChannel(s, u)
  <2>1. MemberAt(s, u) = NoMember
    BY <1>3 DEF MemberAt
  <2>2. NoMember.flags = {}
    BY DEF NoMember
  <2> QED BY Zenon, <1>3, <2>1, <2>2
<1> QED BY <1>1, <1>2, <1>3

\* Who is removed has no row any more.
LEMMA DropIsGone ==
  ASSUME NEW s \in ShServers, NEW r \in ShReqRecs, r.op = "remove", Allowed(s, r.by, "manage"),
         s.rows[r.user] # {}, ~("admin" \in s.rows[r.user] /\ OnlyAdmin(s, r.user))
  PROVE  Served(s, r).server.rows[r.user] = {}
<1> DEFINE left == [s EXCEPT !.rows[r.user] = {}]
<1>1. Served(s, r) = Removed(s, r)
  BY DEF Served
<1>2. r.user \in ShUsers
  BY DEF ShReqRecs
<1>3. MemberAt(s, r.user).flags # {}
  BY Zenon, MemberFlags
<1>4. Removed(s, r).server = left
  BY <1>3 DEF Removed
<1>5. left.rows[r.user] = {}
  BY <1>2 DEF ShServers
<1> QED BY Zenon, <1>1, <1>4, <1>5

\* What the answer keeps.
LEMMA SendKeeps ==
  ASSUME ShInv, ~shHist.apart, NEW i, NEW r, NEW t, NEW news, Sends(i, r, t, news), NEW a, ShareAnswers(a, r)
  PROVE  ShareHolds(a)'
<1>1. Promised(r) /\ shServer' = t /\ shHist' = shHist
  BY Zenon, SendAlone
<1>2. /\ r \in ShReqRecs /\ Sensible(r) /\ r.op # "answer" /\ ~Throws(r) /\ shServer \in ShServers
      /\ a.after = r.after /\ a.user = r.user /\ a.board = r.board
      /\ r.op # "load" => t = Served(shServer, r).server
  BY Zenon DEF Sends, ShInv, ShTypes, ShareAnswers
<1>3. ASSUME r.after = "drop"  PROVE t.rows[r.user] = {}
  <2>1. r.op = "remove" /\ r.op # "load"
    <3>1. r.op \in {"remove", "answer"}
      BY Zenon, <1>2, <1>3 DEF Sensible
    <3> QED BY <1>2, <3>1
  <2>2. /\ Allowed(shServer, r.by, "manage")
        /\ shServer.rows[r.user] # {} /\ ~("admin" \in shServer.rows[r.user] /\ OnlyAdmin(shServer, r.user))
    BY Zenon, <1>1, <1>3 DEF Promised
  <2> QED BY Zenon, <1>2, <2>1, <2>2, DropIsGone
<1>4. ASSUME r.after = "put", ~shHist.crossed  PROVE r.board = BoardOf(t)
  <2>1. r.op = "patch" /\ r.op # "load"
    <3>1. r.op \in {"patch", "answer"}
      BY Zenon, <1>2, <1>4 DEF Sensible
    <3> QED BY <1>2, <3>1
  <2>2. Allowed(shServer, r.by, "manage") /\ MayPatch(shServer, r)
    BY Zenon, <1>2, <1>4, <2>1 DEF Throws, Refused
  <2>3. Served(shServer, r) = PatchedBoard(shServer, r)
    BY <2>1, <2>2 DEF Served
  <2>4. PatchedBoard(shServer, r).server = WithPatch(shServer, r.patch)
    BY <2>2 DEF PatchedBoard
  <2>5. r.board = BoardOf(WithPatch(shServer, r.patch))
    BY Zenon, <1>1, <1>4 DEF Promised
  <2> QED BY Zenon, <1>2, <2>1, <2>3, <2>4, <2>5
<1>5. BoardOf(shServer)' = BoardOf(shServer')
  BY DEF BoardOf
<1> QED BY Zenon, <1>1, <1>2, <1>3, <1>4, <1>5 DEF ShareHolds

LEMMA SendCalls ==
  ASSUME ShInv, ~shHist.apart, NEW i, NEW r, NEW t, NEW news, Sends(i, r, t, news)
  PROVE  CallsInv'
<1>1. /\ Promised(r) /\ shNews' = news /\ shServer' = t /\ shFetches' = FALSE /\ shHist' = shHist
      /\ \/ r.op # "share" /\ shCalls' = <<>>
         \/ r.op = "share" /\ OnlyLoad(shCalls')
         \/ r.op # "share" /\ r.op # "load" /\ OnlyAnswer(shCalls', r)
  BY Zenon, SendAlone
<1>0. CallsInv
  BY Zenon DEF ShInv
<1>2. CASE shCalls' = <<>>
  <2>1. DOMAIN shCalls' = {} /\ Len(shCalls') <= 1
    BY <1>2
  <2>2. ~ShareAsks'
    BY Zenon, <2>1 DEF ShareAsks
  <2> QED BY Zenon, <1>0, <1>1, <2>1, <2>2 DEF CallsInv
<1>3. CASE r.op = "share" /\ OnlyLoad(shCalls')
  <2> PICK load \in ShReqRecs : shCalls' = <<<<load>>>> /\ load.op = "load" /\ Sensible(load)
                                /\ 1 \in DOMAIN shCalls /\ 2 \in DOMAIN shCalls[1] /\ load = shCalls[1][2]
    BY Zenon, <1>3 DEF OnlyLoad
  <2>1. /\ Len(shCalls') <= 1 /\ \A k \in DOMAIN shCalls' : \A j \in DOMAIN shCalls'[k] : shCalls'[k][j] = load
    OBVIOUS
  <2>2. Promised(load)
    <3>1. load.op # "answer"
      OBVIOUS
    <3> QED BY Zenon, <1>0, <3>1 DEF CallsInv
  <2>3. shServer \in ShServers /\ r \in ShReqRecs /\ t = Served(shServer, r).server /\ news = Served(shServer, r).news /\ t \in ShServers
    <3>1. shServer \in ShServers
      BY Zenon DEF ShInv, ShTypes
    <3>2. "share" # "load"
      OBVIOUS
    <3> QED BY Zenon, <1>3, <3>1, <3>2 DEF Sends, Truth
  <2>4. t.rows = shServer.rows /\ t.channel = shServer.channel /\ t.min = shServer.min /\ news = <<>>
    BY Zenon, <1>3, <2>3, LinkServed
  <2>5. SameBoard(shServer, t)
    BY <2>4 DEF SameBoard
  <2>6. load.by \in ShUsers
    BY ShAssumption DEF ShReqRecs
  <2>7. load.op \notin {"add", "update"} /\ load.op # "answer" /\ load.after # "drop" /\ load.after # "put"
    <3> DEFINE none == ""
    <3>1. load.after = none
      <4>1. load.op \in {"share", "load"}
        OBVIOUS
      <4> QED BY Zenon, <4>1 DEF Sensible
    <3>2. none # "drop" /\ none # "put"
      OBVIOUS
    <3> HIDE DEF none
    <3> QED BY <3>1, <3>2
  <2>8. Allowed(t, load.by, "manage")
    <3>1. Allowed(shServer, load.by, "manage")
      <4>1. load.op \in {"share", "load"}
        OBVIOUS
      <4> QED BY Zenon, <2>2, <4>1 DEF Promised
    <3> QED BY Zenon, <2>3, <2>5, <2>6, <3>1, MembersAside
  <2>9. Promised(load)'
    BY Zenon, <1>1, <2>7, <2>8 DEF Promised
  <2>10. (\A k \in DOMAIN shCalls : \A j \in DOMAIN shCalls[k] :
           IF shCalls[k][j].op = "answer" THEN ShareHolds(shCalls[k][j]) ELSE Promised(shCalls[k][j]))'
    BY Zenon, <2>1, <2>7, <2>9
  <2>11. shNews' = <<>> /\ ~shFetches'
    BY <1>1, <2>4
  <2> QED BY Zenon, <1>0, <1>1, <2>1, <2>10, <2>11 DEF CallsInv
<1>4. CASE OnlyAnswer(shCalls', r)
  <2> PICK a : shCalls' = <<<<a>>>> /\ ShareAnswers(a, r)
    BY Zenon, <1>4 DEF OnlyAnswer
  <2>1. /\ Len(shCalls') <= 1 /\ \A k \in DOMAIN shCalls' : \A j \in DOMAIN shCalls'[k] : shCalls'[k][j] = a
    OBVIOUS
  <2>2. a.op = "answer"
    BY Zenon DEF ShareAnswers
  <2>3. ShareHolds(a)'
    BY Zenon, SendKeeps
  <2>4. ~ShareAsks'
    BY Zenon, <2>1, <2>2 DEF ShareAsks
  <2>5. (\A k \in DOMAIN shCalls : \A j \in DOMAIN shCalls[k] :
           IF shCalls[k][j].op = "answer" THEN ShareHolds(shCalls[k][j]) ELSE Promised(shCalls[k][j]))'
    BY Zenon, <2>1, <2>2, <2>3
  <2> QED BY Zenon, <1>0, <1>1, <2>1, <2>4, <2>5 DEF CallsInv
<1> QED BY <1>1, <1>2, <1>3, <1>4

\* The news of what this client or the other admin asks.
LEMMA SendNews ==
  ASSUME ShInv, ~shHist.apart, NEW i, NEW r, NEW t, NEW news, Sends(i, r, t, news)
  PROVE  NewsInv'
<1>1. Promised(r) /\ shNews' = news /\ shServer' = t /\ shFetches' = FALSE /\ shHist' = shHist
  BY Zenon, SendAlone
<1>2. Truth(shServer, r, t, news) /\ r \in ShReqRecs /\ Sensible(r) /\ shServer \in ShServers
  BY Zenon DEF Sends, ShInv, ShTypes
<1>3. news \in Seq(ShNewsRecs) /\ \A k \in DOMAIN news : news[k].about = "board" \/ news[k].about = "member"
  <2>1. news \in Seq(ShNewsRecs)
    BY Zenon, <1>2 DEF Truth
  <2>2. \A n \in ShNewsRecs : n.about = "board" \/ n.about = "member"
    BY DEF ShNewsRecs
  <2> QED BY <2>1, <2>2
<1>4. ASSUME NEW k \in DOMAIN news  PROVE IsTrue(news[k])'
  <2>1. CASE news[k].about = "board"
    <3>1. news[k].channel = t.channel /\ news[k].min = t.min
      BY Zenon, <1>2, <2>1 DEF Truth
    <3> QED BY <1>1, <2>1, <3>1 DEF IsTrue
  <2>2. CASE news[k].about = "member"
    <3> DEFINE n == news[k]
    <3>1. /\ n.flags = MemberAt(t, n.user).flags /\ n.synthetic = MemberAt(t, n.user).synthetic
          /\ n.flags # {} /\ ~n.synthetic => r.op \in {"add", "update"} /\ n.flags = r.flags /\ t.min = shServer.min
      BY Zenon, <1>2, <2>2 DEF Truth
    <3> HIDE DEF n
    <3>2. ~shHist.undone /\ n.flags # {} /\ ~n.synthetic => ReadAlike(n.flags, t.min)
      BY Zenon, <1>1, <3>1 DEF Promised
    <3>3. n.about # "board"
      BY <2>2 DEF n
    <3>4. IsTrue(n)'
      BY Zenon, <1>1, <3>1, <3>2, <3>3 DEF IsTrue
    <3> QED BY <3>4 DEF n
  <2> QED BY <1>3, <2>1, <2>2
<1>5. ASSUME ToFetch', NewsAbout(ShMe)'  PROVE FALSE
  <2>1. PICK k \in DOMAIN news : news[k].about = "board"
    BY Zenon, <1>1, <1>5 DEF ToFetch, NewsOfBoard
  <2>2. PICK h \in DOMAIN news : news[h].about = "member" /\ news[h].user = ShMe
    BY Zenon, <1>1, <1>5 DEF NewsAbout
  <2>3. r.op = "patch"
    BY Zenon, <1>2, <2>1 DEF Truth
  <2>4. shServer.rows[ShMe] = {} /\ r.patch.field = "channel"
    BY Zenon, <1>2, <2>2, <2>3 DEF Truth
  <2>5. r.by = ShMe
    <3>1. r.by \in {ShMe, ShAnn}
      BY <1>2 DEF ShReqRecs
    <3>2. r.by = ShAnn => r.patch.field # "channel"
      BY Zenon, <1>2 DEF Sensible
    <3> QED BY <2>4, <3>1, <3>2
  <2>6. Allowed(shServer, ShMe, "manage")
    BY Zenon, <2>1, <2>5, NewsOfAllowed
  <2>7. ShMe \in ShUsers
    BY ShAssumption
  <2>8. "admin" \in shServer.rows[ShMe]
    BY Zenon, <1>2, <2>6, <2>7, ManagerOf
  <2> QED BY <2>4, <2>8
<1>6. (\A k \in DOMAIN shNews : IsTrue(shNews[k]))'
  BY Zenon, <1>1, <1>4
<1> QED BY Zenon, <1>5, <1>6 DEF NewsInv

\* What the client knows of what the server did.
LEMMA SendMirror ==
  ASSUME ShInv, ~shHist.apart, NEW i, NEW r, NEW t, NEW news, Sends(i, r, t, news)
  PROVE  MirrorInv'
<1>1. Promised(r) /\ shNews' = news /\ shServer' = t /\ shFetches' = FALSE /\ shHist' = shHist /\ shNews = <<>> /\ shFetches = FALSE
  BY Zenon, SendAlone
<1>2. /\ Truth(shServer, r, t, news) /\ r \in ShReqRecs /\ Sensible(r) /\ shServer \in ShServers /\ shClient \in ShClients
      /\ t \in ShServers
  BY Zenon DEF Sends, ShInv, ShTypes, Truth
<1> DEFINE x == LinkRead(r)
<1>3. shClient' = x
  BY Zenon DEF Sends
<1>4. /\ x \in ShClients /\ x.members = shClient.members /\ x.mine = shClient.mine /\ x.open = shClient.open
      /\ x.channel = shClient.channel /\ x.min = shClient.min /\ x.users = shClient.users
  <2>1. ShTypes
    BY Zenon DEF ShInv
  <2> QED BY Zenon, <1>2, <2>1, ReadIs
<1> HIDE DEF x
<1> SUFFICES ASSUME shClient.open  PROVE MirrorInv'
  BY Zenon, <1>3, <1>4 DEF MirrorInv
<1>5. /\ \A u \in ShUsers : Matches(u)
      /\ shClient.mine = MemberAt(shServer, ShMe).flags
      /\ ~shHist.crossed => shClient.channel = shServer.channel /\ shClient.min = shServer.min
      /\ shClient.mine # {}
  <2>1. MirrorInv
    BY Zenon DEF ShInv
  <2>2. (\A u : ~NewsAbout(u)) /\ ~NewsOfBoard
    BY <1>1 DEF NewsAbout, NewsOfBoard
  <2>3. ~ToFetch
    BY <1>1, <2>2 DEF ToFetch
  <2> QED BY Zenon, <2>1, <2>2, <2>3 DEF MirrorInv
<1>6. NewsOfBoard' <=> \E k \in DOMAIN news : news[k].about = "board"
  BY Zenon, <1>1 DEF NewsOfBoard
<1>7. \A u : NewsAbout(u)' <=> \E k \in DOMAIN news : news[k].about = "member" /\ news[k].user = u
  BY Zenon, <1>1 DEF NewsAbout
<1>8. ~NewsOfBoard' =>
        /\ t.channel = shServer.channel /\ t.min = shServer.min
        /\ \A u \in ShUsers : ~NewsAbout(u)' => MemberAt(t, u) = MemberAt(shServer, u)
  BY Zenon, <1>2, <1>6, <1>7 DEF Truth
<1>9. NewsOfBoard' => Allowed(shServer, r.by, "manage")
  BY Zenon, <1>6, NewsOfAllowed
<1>11. ASSUME NEW u \in ShUsers  PROVE Matches(u)' \/ NewsAbout(u)' \/ ToFetch'
  <2> SUFFICES ASSUME ~NewsAbout(u)', ~NewsOfBoard'  PROVE Matches(u)'
    BY Zenon DEF ToFetch
  <2>1. MemberAt(t, u) = MemberAt(shServer, u) /\ t.min = shServer.min
    BY Zenon, <1>8
  <2>3. Matches(u)
    BY Zenon, <1>5
  <2>4. u \in shClient.users => u \in x.users
    BY Zenon, <1>4
  <2>5. MemberAt(shServer, u)' = MemberAt(shServer, u) /\ shServer'.min = shServer.min
    BY Zenon, <1>1, <2>1
  <2> DEFINE m == MemberAt(shServer, u)
  <2>6. /\ shClient.members[u].flags = m.flags /\ shClient.members[u].synthetic = m.synthetic
        /\ m.flags # {} /\ ~m.synthetic => u \in shClient.users
        /\ ~shHist.undone /\ m.flags # {} /\ ~m.synthetic => CanAs(RoleShown(shClient.members[u])) = ServerCan(m.flags, shServer.min)
    BY Zenon, <2>3 DEF Matches
  <2>7. shClient'.members = shClient.members
    BY Zenon, <1>3, <1>4
  <2> HIDE <2>3
  <2> QED BY Zenon, <1>1, <1>3, <2>4, <2>5, <2>6, <2>7 DEF Matches
<1>12. ShMe \in ShUsers
  BY ShAssumption
<1>13. shClient'.mine = MemberAt(shServer', ShMe).flags \/ NewsAbout(ShMe)'
  <2>1. CASE ~NewsOfBoard'
    BY Zenon, <1>1, <1>3, <1>4, <1>5, <1>8, <1>12, <2>1
  <2>2. CASE NewsOfBoard'
    <3>1. r.op = "patch"
      BY Zenon, <1>2, <1>6, <2>2 DEF Truth
    <3>2. t.rows = shServer.rows /\ (r.patch.field # "channel" => t.channel = shServer.channel)
      BY Zenon, <1>2, <3>1 DEF Truth
    <3>3. t.rows[ShMe] # {} \/ t.channel = shServer.channel
      <4>1. CASE r.by = ShMe
        <5>1. Allowed(shServer, ShMe, "manage")
          BY Zenon, <1>9, <2>2, <4>1
        <5>2. "admin" \in shServer.rows[ShMe]
          BY Zenon, <1>2, <1>12, <5>1, ManagerOf
        <5> QED BY <3>2, <5>2
      <4>2. CASE r.by = ShAnn
        BY Zenon, <1>2, <3>2, <4>2 DEF Sensible
      <4>3. r.by \in {ShMe, ShAnn}
        BY <1>2 DEF ShReqRecs
      <4> QED BY <4>1, <4>2, <4>3
    <3>4. MemberAt(t, ShMe).flags = MemberAt(shServer, ShMe).flags
      <4>1. t.rows[ShMe] = {} => (InChannel(t, ShMe) <=> InChannel(shServer, ShMe))
        BY Zenon, <3>3 DEF InChannel
      <4> QED BY <3>2, <4>1, MemberFlags
    <3> QED BY Zenon, <1>1, <1>3, <1>4, <1>5, <3>4
  <2> QED BY <2>1, <2>2
<1>14. ~shHist'.crossed => (shClient'.channel = shServer'.channel /\ shClient'.min = shServer'.min) \/ NewsOfBoard'
  BY Zenon, <1>1, <1>3, <1>4, <1>5, <1>8
<1>15. shClient'.mine # {}
  BY Zenon, <1>3, <1>4, <1>5
<1>16. MemberAt(shServer, ShMe)' = MemberAt(shServer', ShMe)
  OBVIOUS
<1> QED BY Zenon, <1>11, <1>13, <1>14, <1>15, <1>16 DEF MirrorInv

\* The link, once a request was served.
LEMMA SendLinks ==
  ASSUME ShInv, ~shHist.apart, NEW i, NEW r, NEW t, NEW news, Sends(i, r, t, news)
  PROVE  ShareLinkInv'
<1>1. /\ i = 1 /\ Promised(r) /\ shServer' = t /\ shHist' = shHist /\ 1 \in DOMAIN shCalls /\ shCalls[1][1] = r /\ Len(shCalls) = 1
      /\ r.op # "share" => OneCall(shCalls[1])
      /\ \/ r.op # "share" /\ shCalls' = <<>>
         \/ /\ r.op = "share"
            /\ \E load \in ShReqRecs : shCalls' = <<<<load>>>> /\ load.op = "load"
         \/ r.op # "share" /\ r.op # "load" /\ \E a : shCalls' = <<<<a>>>> /\ a.op = "answer"
  BY Zenon, SendAlone DEF OnlyLoad, OnlyAnswer, ShareAnswers
<1>2. /\ Truth(shServer, r, t, news) /\ r \in ShReqRecs /\ Sensible(r) /\ shServer \in ShServers /\ shClient \in ShClients
  BY Zenon DEF Sends, ShInv, ShTypes, Truth
<1>3. ShareLinkInv /\ ShTypes
  BY Zenon DEF ShInv
<1>4. 1 \in DOMAIN shCalls[1]
  BY Zenon, <1>1, <1>3, CallOf
<1>5. shClient' = LinkRead(r)
  BY Zenon DEF Sends
<1>6. /\ r.op # "load" => shClient'.link = shClient.link
      /\ r.op = "load" => shClient'.link = IF Allowed(shServer, ShMe, "manage") THEN shServer.link ELSE NoLink
  BY Zenon, <1>2, <1>3, <1>5, ReadIs
<1>7. r.op = "load" => shClient'.link = shServer.link /\ t = shServer
  <2> HAVE r.op = "load"
  <2>1. r.by = ShMe /\ r.op \in {"share", "load"}
    BY <1>2 DEF Sensible
  <2>2. Allowed(shServer, ShMe, "manage")
    BY Zenon, <1>1, <2>1 DEF Promised
  <2>3. t = shServer
    BY Zenon DEF Sends
  <2> QED BY Zenon, <1>6, <2>2, <2>3
<1>8. CASE r.op = "share"
  <2>1. PICK load \in ShReqRecs : shCalls' = <<<<load>>>> /\ load.op = "load"
    BY Zenon, <1>1, <1>8
  <2>2. 1 \in DOMAIN shCalls' /\ 1 \in DOMAIN shCalls'[1] /\ shCalls'[1][1] = load
    BY <2>1
  <2>3. Linking'
    <3>1. load.op \in {"share", "load"}
      BY <2>1
    <3> QED BY Zenon, <2>2, <3>1 DEF Linking
  <2>4. \A k \in DOMAIN shCalls' : \A j \in DOMAIN shCalls'[k] : shCalls'[k][j].op # "share"
    BY <2>1
  <2>5. Allowed(shServer, r.by, "manage")
    <3>1. r.op \in {"share", "load"}
      BY <1>8
    <3> QED BY Zenon, <1>1, <3>1 DEF Promised
  <2>6. t = Served(shServer, r).server /\ r.op # "load"
    <3>1. "share" # "load"
      OBVIOUS
    <3> QED BY Zenon, <1>8, <3>1 DEF Sends
  <2>7. t.link = r.link
    BY Zenon, <1>2, <1>8, <2>5, <2>6, LinkServed
  <2>8. r.link.known
    BY Zenon, <1>2, <1>8 DEF Sensible
  <2>9. shHist.kept # 0 => shClient.link.known /\ shClient.link.token = shHist.kept /\ r.link.token = shHist.kept
    BY Zenon, <1>1, <1>3, <1>4, <1>8 DEF ShareLinkInv
  <2> QED BY Zenon, <1>1, <1>6, <2>3, <2>4, <2>6, <2>7, <2>8, <2>9 DEF ShareLinkInv
<1>9. CASE r.op # "share"
  <2>1. OneCall(shCalls[1]) /\ (shCalls' = <<>> \/ \E a : shCalls' = <<<<a>>>> /\ a.op = "answer")
    BY Zenon, <1>1, <1>9
  <2>2. \A k \in DOMAIN shCalls' : \A j \in DOMAIN shCalls'[k] : shCalls'[k][j].op # "share"
    <3>1. CASE shCalls' = <<>>
      BY <3>1
    <3>2. CASE \E a : shCalls' = <<<<a>>>> /\ a.op = "answer"
      BY <3>2
    <3> QED BY <2>1, <3>1, <3>2
  <2>3. t.link = shServer.link
    BY Zenon, <1>2, <1>9 DEF Truth
  <2>4. r.op # "load" => ~Linking
    <3> HAVE r.op # "load"
    <3>1. \A k \in DOMAIN shCalls : k = 1 /\ \A j \in DOMAIN shCalls[k] : j = 1
      BY Zenon, <1>1, <1>3, <2>1, OneShareRequest
    <3>5. r.op \notin {"share", "load"}
      BY <1>9
    <3> QED BY Zenon, <1>1, <3>1, <3>5 DEF Linking
  <2>5. shClient'.link.known => shClient'.link = shServer'.link
    BY Zenon, <1>1, <1>3, <1>6, <1>7, <2>3, <2>4 DEF ShareLinkInv
  <2>6. shHist.kept # 0 => /\ shClient.link.known /\ shServer.link.known
                           /\ shClient.link.token = shHist.kept /\ shServer.link.token = shHist.kept
    BY Zenon, <1>3 DEF ShareLinkInv
  <2> QED BY Zenon, <1>1, <1>6, <1>7, <2>2, <2>3, <2>5, <2>6 DEF ShareLinkInv
<1> QED BY <1>8, <1>9

LEMMA SendUndone ==
  ASSUME ShInv, ~shHist.apart, NEW i, NEW r, NEW t, NEW news, Sends(i, r, t, news)
  PROVE  UndoneInv'
<1>1. /\ shServer' = t /\ shHist' = shHist /\ shUndo' = shUndo /\ shCalls # <<>> /\ shCalls[1][1] = r
      /\ \/ shCalls' = <<>>
         \/ \E q : shCalls' = <<<<q>>>> /\ (q.op = "load" \/ q.op = "answer")
  BY Zenon, SendAlone DEF OnlyLoad, OnlyAnswer, ShareAnswers
<1>2. UndoneInv
  BY Zenon DEF ShInv
<1>3. Coming = t
  <2>1. CASE r.op = "load"
    <3>1. r.op \in {"load", "answer"}
      BY <2>1
    <3> QED BY Zenon, <1>1, <2>1, <3>1 DEF Coming, Outcome, Sends
  <2>2. CASE r.op # "load"
    <3>1. r.op # "answer" /\ t = Served(shServer, r).server
      BY Zenon, <2>2 DEF Sends
    <3>2. r.op \notin {"load", "answer"}
      BY <2>2, <3>1
    <3> QED BY Zenon, <1>1, <3>1, <3>2 DEF Coming, Outcome
  <2> QED BY <2>1, <2>2
<1>4. Coming' = t
  <2>1. CASE shCalls' = <<>>
    BY Zenon, <1>1, <2>1 DEF Coming
  <2>2. CASE \E q : shCalls' = <<<<q>>>> /\ (q.op = "load" \/ q.op = "answer")
    <3> PICK q : shCalls' = <<<<q>>>> /\ (q.op = "load" \/ q.op = "answer")
      BY <2>2
    <3>1. shCalls' # <<>> /\ shCalls'[1][1] = q /\ q.op \in {"load", "answer"}
      OBVIOUS
    <3> QED BY Zenon, <1>1, <3>1 DEF Coming, Outcome
  <2> QED BY <1>1, <2>1, <2>2
<1> QED BY Zenon, <1>1, <1>2, <1>3, <1>4 DEF UndoneInv

LEMMA SendNextStep ==
  ASSUME ShInv, ShSendNext
  PROVE  ShInv'
<1>1. ShTypes
  BY Zenon DEF ShInv
<1>2. PICK i, r, t, news : Sends(i, r, t, news)
  BY Zenon, <1>1, SendNextIs
<1>3. ShTypes'
  BY Zenon, <1>1, <1>2, SendTypes
<1>4. shHist' = shHist
  BY <1>2 DEF Sends
<1>5. ~shHist.apart => CallsInv' /\ NewsInv' /\ MirrorInv' /\ ShareLinkInv' /\ UndoneInv'
  BY Zenon, <1>2, SendCalls, SendNews, SendMirror, SendLinks, SendUndone
<1> QED BY Zenon, <1>3, <1>4, <1>5 DEF ShInv

\* A call that ends and changes the board no more.
LEMMA CallEnds ==
  ASSUME ShInv, ~shHist.apart, NEW i \in DOMAIN shCalls, shCalls' = Rest(i), shCalls[1][1].op \notin {"share", "load"},
         Outcome(shServer, shCalls[1][1]) = shServer, shServer' = shServer, shNews' = shNews, shFetches' = shFetches,
         shUndo' = shUndo, shHist' = shHist, shClient'.link = shClient.link
  PROVE  CallsInv' /\ NewsInv' /\ ShareLinkInv' /\ UndoneInv'
<1>1. ShTypes /\ CallsInv /\ NewsInv /\ ShareLinkInv /\ UndoneInv
  BY Zenon DEF ShInv
<1>2. /\ Len(shCalls) = 1 /\ shCalls # <<>> /\ OneCall(shCalls[1]) /\ Rest(i) = <<>>
  <2>1. shCalls[1][1].op # "share"
    OBVIOUS
  <2> QED BY Zenon, <2>1, CallAlone
<1>3. DOMAIN shCalls' = {} /\ Len(shCalls') <= 1 /\ shCalls' = <<>>
  BY <1>2
<1>4. ~ShareAsks' /\ ~Linking'
  BY Zenon, <1>3 DEF ShareAsks, Linking
<1>5. CallsInv'
  BY Zenon, <1>1, <1>3, <1>4 DEF CallsInv
<1>6. NewsInv'
  <2>1. \A n : IsTrue(n) => IsTrue(n)'
    BY Zenon DEF IsTrue
  <2> QED BY Zenon, <1>1, <2>1 DEF NewsInv, ToFetch, NewsAbout, NewsOfBoard
<1>7. ShareLinkInv'
  <2>1. ~Linking
    <3>1. \A k \in DOMAIN shCalls : k = 1 /\ \A j \in DOMAIN shCalls[k] : j = 1
      BY Zenon, <1>1, <1>2, OneShareRequest
    <3> QED BY Zenon, <3>1 DEF Linking
  <2> QED BY Zenon, <1>1, <1>3, <2>1 DEF ShareLinkInv
<1>8. UndoneInv'
  <2>1. Coming' = Coming
    BY Zenon, <1>2, <1>3 DEF Coming
  <2> QED BY Zenon, <1>1, <2>1 DEF UndoneInv
<1> QED BY Zenon, <1>5, <1>6, <1>7, <1>8

\* The client does what it does at the answer.
LEMMA ShAnswerStep ==
  ASSUME ShInv, ShAnswer
  PROVE  ShInv'
<1>1. ShTypes
  BY Zenon DEF ShInv
<1>0. PICK i \in DOMAIN shCalls :
      LET r == Head(shCalls[i]) IN
      /\ r.op = "answer"
      /\ shClient' = Stored(r) /\ shCalls' = Rest(i)
      /\ UNCHANGED <<shServer, shNews, shFetches, shUndo, shTokens, shHist, shOps, shFaults>>
  BY Zenon DEF ShAnswer
<1> DEFINE r == shCalls[i][1]
<1>2. Head(shCalls[i]) = r /\ r \in ShReqRecs /\ Sensible(r)
  BY <1>1, CallOf
<1>3. r.op = "answer" /\ shClient' = Stored(r) /\ shCalls' = Rest(i)
  BY Zenon, <1>0, <1>2
<1>4. /\ shServer' = shServer /\ shNews' = shNews /\ shFetches' = shFetches /\ shUndo' = shUndo /\ shTokens' = shTokens
      /\ shHist' = shHist /\ shOps' = shOps /\ shFaults' = shFaults
  BY <1>0
<1>5. r.after # ""
  BY Zenon, <1>2, <1>3 DEF Sensible
<1> DEFINE x == Stored(r)
<1>6. /\ x \in ShClients /\ x.members = shClient.members /\ x.mine = shClient.mine /\ x.open = shClient.open
      /\ x.link = shClient.link
      /\ r.after # "put" => x.channel = shClient.channel /\ x.min = shClient.min
      /\ r.after = "put" => x.channel = r.board.channel /\ x.min = r.board.min
      /\ \A u \in shClient.users : ~(r.after = "drop" /\ u = r.user) => u \in x.users
  BY Zenon, <1>1, <1>2, <1>5, StoredIs
<1>7. shClient' = x
  BY <1>3
<1> HIDE DEF x
<1>8. ShTypes'
  <2>1. CallsFit'
    BY Zenon, <1>1, <1>3, RestTypes DEF CallsFit
  <2>2. /\ UndoFits /\ shServer \in ShServers /\ shNews \in Seq(ShNewsRecs) /\ shFetches \in BOOLEAN
        /\ shTokens \in Nat /\ shHist \in ShPasts /\ shOps \in 0..ShMaxOps /\ shFaults \in 0..ShMaxFaults
    BY Zenon, <1>1 DEF ShTypes
  <2>3. UndoFits'
    BY Zenon, <1>4, <2>2 DEF UndoFits
  <2> QED BY Zenon, <1>4, <1>6, <1>7, <2>1, <2>2, <2>3 DEF ShTypes
<1> SUFFICES ASSUME ~shHist.apart  PROVE CallsInv' /\ NewsInv' /\ MirrorInv' /\ ShareLinkInv' /\ UndoneInv'
  BY Zenon, <1>4, <1>8 DEF ShInv
<1>9. i = 1 /\ ShareHolds(r)
  <2>1. i = 1 /\ (shCalls[1][1].op = "answer" => ShareHolds(shCalls[1][1]))
    BY Zenon, CallAlone
  <2> QED BY Zenon, <1>3, <2>1
<1>10. CallsInv' /\ NewsInv' /\ ShareLinkInv' /\ UndoneInv'
  <2>1. r = shCalls[1][1] /\ r.op \notin {"share", "load"} /\ r.op \in {"load", "answer"}
    <3>1. r.op = "answer" /\ r = shCalls[1][1]
      BY Zenon, <1>3, <1>9
    <3> HIDE DEF r
    <3> QED BY <3>1
  <2>2. Outcome(shServer, shCalls[1][1]) = shServer
    BY Zenon, <2>1 DEF Outcome
  <2>3. shClient'.link = shClient.link /\ shCalls[1][1].op \notin {"share", "load"}
    BY Zenon, <1>6, <1>7, <2>1
  <2> QED BY Zenon, <1>3, <1>4, <2>2, <2>3, CallEnds
<1>11. MirrorInv'
  <2> SUFFICES ASSUME shClient.open  PROVE MirrorInv'
    BY Zenon, <1>6, <1>7 DEF MirrorInv
  <2>1. MirrorInv
    BY Zenon DEF ShInv
  <2>2. (\A u : NewsAbout(u)' <=> NewsAbout(u)) /\ (ToFetch' <=> ToFetch) /\ (NewsOfBoard' <=> NewsOfBoard)
    <3>1. (\A u : NewsAbout(u)' <=> NewsAbout(u)) /\ (NewsOfBoard' <=> NewsOfBoard)
      BY Zenon, <1>4 DEF NewsAbout, NewsOfBoard
    <3>2. shFetches' = shFetches
      BY <1>4
    <3> QED BY Zenon, <3>1, <3>2 DEF ToFetch
  <2>3. ASSUME NEW u \in ShUsers, Matches(u)  PROVE Matches(u)'
    <3> DEFINE m == MemberAt(shServer, u)
    <3>1. m.flags # {} /\ ~m.synthetic => u \in x.users
      <4> HAVE m.flags # {} /\ ~m.synthetic
      <4>1. u \in shClient.users
        BY Zenon, <2>3 DEF Matches
      <4>2. shServer \in ShServers
        BY Zenon, <1>1 DEF ShTypes
      <4>3. shServer.rows[u] # {}
        BY Zenon, <4>2, MemberOf
      <4>4. ~(r.after = "drop" /\ u = r.user)
        BY Zenon, <1>9, <4>3 DEF ShareHolds
      <4> QED BY Zenon, <1>6, <4>1, <4>4
    <3> HIDE DEF r
    <3>2. MemberAt(shServer, u)' = m
      BY Zenon, <1>4
    <3> QED BY Zenon, <1>4, <1>6, <1>7, <2>3, <3>1, <3>2 DEF Matches
  <2>4. ~shHist.crossed => (x.channel = shServer.channel /\ x.min = shServer.min) \/ NewsOfBoard
    <3> HAVE ~shHist.crossed
    <3>1. CASE r.after = "put"
      <4>1. r.board = BoardOf(shServer)
        BY Zenon, <1>9, <3>1 DEF ShareHolds
      <4>2. BoardOf(shServer).channel = shServer.channel /\ BoardOf(shServer).min = shServer.min
        BY DEF BoardOf
      <4> QED BY Zenon, <1>6, <3>1, <4>1, <4>2
    <3>2. CASE r.after # "put"
      BY Zenon, <1>6, <2>1, <3>2 DEF MirrorInv
    <3> QED BY <3>1, <3>2
  <2>5. MemberAt(shServer, ShMe)' = MemberAt(shServer, ShMe)
    BY Zenon, <1>4
  <2> HIDE DEF r
  <2> QED BY Zenon, <1>4, <1>6, <1>7, <2>1, <2>2, <2>3, <2>4, <2>5 DEF MirrorInv
<1> QED BY <1>10, <1>11

\* A patch of the board is refused.
LEMMA ShThrowStep ==
  ASSUME ShInv, ShThrow
  PROVE  ShInv'
<1>1. ShTypes
  BY Zenon DEF ShInv
<1>0. PICK i \in DOMAIN shCalls :
      /\ Head(shCalls[i]).op # "answer" /\ Throws(Head(shCalls[i]))
      /\ shCalls' = Rest(i) /\ shOps' = 0
      /\ UNCHANGED <<shServer, shClient, shNews, shFetches, shUndo, shTokens, shHist, shFaults>>
  BY Zenon DEF ShThrow
<1> DEFINE r == shCalls[i][1]
<1>2. Head(shCalls[i]) = r /\ r \in ShReqRecs /\ Sensible(r)
  BY <1>1, CallOf
<1>3. r.op # "answer" /\ r.after = "put" /\ Refused(shServer, r) /\ shCalls' = Rest(i) /\ shOps' = 0
  BY Zenon, <1>0, <1>2 DEF Throws
<1>4. /\ shServer' = shServer /\ shClient' = shClient /\ shNews' = shNews /\ shFetches' = shFetches /\ shUndo' = shUndo
      /\ shTokens' = shTokens /\ shHist' = shHist /\ shFaults' = shFaults
  BY <1>0
<1>5. r.op = "patch"
  <2>1. r.op \in {"patch", "answer"}
    BY Zenon, <1>2, <1>3 DEF Sensible
  <2> QED BY <1>3, <2>1
<1>6. ShTypes'
  <2>1. CallsFit'
    BY Zenon, <1>1, <1>3, RestTypes DEF CallsFit
  <2>2. /\ UndoFits /\ shServer \in ShServers /\ shClient \in ShClients /\ shNews \in Seq(ShNewsRecs) /\ shFetches \in BOOLEAN
        /\ shTokens \in Nat /\ shHist \in ShPasts /\ shFaults \in 0..ShMaxFaults
    BY Zenon, <1>1 DEF ShTypes
  <2>3. UndoFits'
    BY Zenon, <1>4, <2>2 DEF UndoFits
  <2>4. shOps' \in 0..ShMaxOps
    <3>1. ShMaxOps \in Nat
      BY Zenon, ShAssumption
    <3> QED BY <1>3, <3>1
  <2> QED BY Zenon, <1>4, <2>1, <2>2, <2>3, <2>4 DEF ShTypes
<1> SUFFICES ASSUME ~shHist.apart  PROVE CallsInv' /\ NewsInv' /\ MirrorInv' /\ ShareLinkInv' /\ UndoneInv'
  BY Zenon, <1>4, <1>6 DEF ShInv
<1>7. i = 1
  BY Zenon, CallAlone
<1>8. CallsInv' /\ NewsInv' /\ ShareLinkInv' /\ UndoneInv'
  <2>1. r = shCalls[1][1] /\ r.op \notin {"share", "load"} /\ r.op \notin {"load", "answer"}
    <3>1. r.op = "patch" /\ r = shCalls[1][1]
      BY Zenon, <1>5, <1>7
    <3> HIDE DEF r
    <3> QED BY <3>1
  <2>2. Served(shServer, r).server = shServer
    BY Zenon, <1>3, RefusedIs
  <2>3. Outcome(shServer, shCalls[1][1]) = shServer
    BY Zenon, <2>1, <2>2 DEF Outcome
  <2>4. shClient'.link = shClient.link /\ shCalls[1][1].op \notin {"share", "load"}
    BY Zenon, <1>4, <2>1
  <2> QED BY Zenon, <1>3, <1>4, <2>3, <2>4, CallEnds
<1>9. MirrorInv'
  <2>1. MirrorInv
    BY Zenon DEF ShInv
  <2>2. (\A u : NewsAbout(u)' <=> NewsAbout(u)) /\ (ToFetch' <=> ToFetch) /\ (NewsOfBoard' <=> NewsOfBoard)
    <3>1. (\A u : NewsAbout(u)' <=> NewsAbout(u)) /\ (NewsOfBoard' <=> NewsOfBoard)
      BY Zenon, <1>4 DEF NewsAbout, NewsOfBoard
    <3>2. shFetches' = shFetches
      BY <1>4
    <3> QED BY Zenon, <3>1, <3>2 DEF ToFetch
  <2>3. \A u : Matches(u) => Matches(u)'
    BY Zenon, <1>4 DEF Matches
  <2>4. MemberAt(shServer, ShMe)' = MemberAt(shServer, ShMe)
    BY Zenon, <1>4
  <2> HIDE DEF r
  <2> QED BY Zenon, <1>4, <2>1, <2>2, <2>3, <2>4 DEF MirrorInv
<1> QED BY <1>8, <1>9

\* A request about the link was not answered.
Fails(i, r) ==
  /\ i \in DOMAIN shCalls /\ r = shCalls[i][1] /\ r \in ShReqRecs /\ r.op \in {"share", "load"} /\ shCalls' = Rest(i)
  /\ shClient' = IF r.op = "load" THEN [shClient EXCEPT !.link = NoLink] ELSE shClient
  /\ shHist' = IF r.op = "load" THEN [shHist EXCEPT !.kept = 0] ELSE shHist
  /\ UNCHANGED <<shServer, shNews, shFetches, shUndo, shTokens, shOps>>

LEMMA FailNextIs ==
  ASSUME ShTypes, FailNext
  PROVE  (\E i, r : Fails(i, r)) /\ shFaults' \in 0..ShMaxFaults
<1> PICK i \in DOMAIN shCalls :
       LET r == Head(shCalls[i]) IN
       /\ r.op \in {"share", "load"} /\ shCalls' = Rest(i)
       /\ shClient' = IF r.op = "load" THEN [shClient EXCEPT !.link = NoLink] ELSE shClient
       /\ shHist' = IF r.op = "load" THEN [shHist EXCEPT !.kept = 0] ELSE shHist
  BY Zenon DEF FailNext
<1> DEFINE r == shCalls[i][1]
<1>1. Head(shCalls[i]) = r /\ r \in ShReqRecs
  BY CallOf
<1>2. Fails(i, r)
  BY Zenon, <1>1 DEF Fails, FailNext
<1>3. shFaults' \in 0..ShMaxFaults
  <2>1. shFaults \in 0..ShMaxFaults /\ shFaults > 0 /\ shFaults' = shFaults - 1
    BY Zenon DEF FailNext, ShTypes
  <2>2. ShMaxFaults \in Nat
    BY Zenon, ShAssumption
  <2> QED BY <2>1, <2>2
<1> QED BY Zenon, <1>2, <1>3

LEMMA FailFacts ==
  ASSUME ShTypes, NEW i, NEW r, Fails(i, r)
  PROVE  /\ shClient' \in ShClients /\ shHist' \in ShPasts
         /\ shClient'.members = shClient.members /\ shClient'.mine = shClient.mine /\ shClient'.users = shClient.users
         /\ shClient'.channel = shClient.channel /\ shClient'.min = shClient.min /\ shClient'.open = shClient.open
         /\ shHist'.apart = shHist.apart /\ shHist'.crossed = shHist.crossed /\ shHist'.undone = shHist.undone /\ shHist'.back = shHist.back
         /\ r.op = "load" => shClient'.link = NoLink /\ shHist'.kept = 0
         /\ r.op # "load" => shClient'.link = shClient.link /\ shHist'.kept = shHist.kept
<1>1. shClient \in ShClients /\ shHist \in ShPasts
  BY Zenon DEF ShTypes
<1>2. CASE r.op = "load"
  <2>1. shClient' = [shClient EXCEPT !.link = NoLink] /\ shHist' = [shHist EXCEPT !.kept = 0]
    BY Zenon, <1>2 DEF Fails
  <2>2. NoLink \in ShLinks
    BY DEF NoLink, ShLinks
  <2>3. /\ shClient' \in ShClients /\ shClient'.link = NoLink
        /\ shClient'.members = shClient.members /\ shClient'.mine = shClient.mine /\ shClient'.users = shClient.users
        /\ shClient'.channel = shClient.channel /\ shClient'.min = shClient.min /\ shClient'.open = shClient.open
    BY <1>1, <2>1, <2>2 DEF ShClients
  <2>4. /\ shHist' \in ShPasts /\ shHist'.kept = 0
        /\ shHist'.apart = shHist.apart /\ shHist'.crossed = shHist.crossed /\ shHist'.undone = shHist.undone /\ shHist'.back = shHist.back
    BY <1>1, <2>1 DEF ShPasts
  <2> QED BY Zenon, <1>2, <2>3, <2>4
<1>3. CASE r.op # "load"
  BY Zenon, <1>1, <1>3 DEF Fails
<1> QED BY <1>2, <1>3

\* The board that comes is the same, whatever becomes of the link.
LEMMA UndoneAside ==
  ASSUME ShTypes, UndoneInv, NEW s \in ShServers, NEW t \in ShServers, Coming = s, Coming' = t, SameBoard(s, t),
         shUndo' = shUndo, shHist'.back = shHist.back
  PROVE  UndoneInv'
<1>1. shUndo \in Seq(ShUndos) /\ \A i \in DOMAIN shUndo : Undoing(shUndo[i].undo)
  BY Zenon DEF ShTypes, UndoFits
<1>2. ShMe \in ShUsers
  BY ShAssumption
<1>3. ASSUME NEW i \in DOMAIN shUndo, NEW j \in DOMAIN shUndo[i].was, Allowed(t, ShMe, "manage")
      PROVE  SameBoard(Served(t, shUndo[i].undo).server, shUndo[i].was[j])
  <2> DEFINE q == shUndo[i].undo
  <2>1. q \in ShReqRecs /\ q.op \notin {"share", "load", "answer"}
    <3>1. shUndo[i] \in ShUndos
      BY <1>1
    <3>2. Undoing(q)
      BY <1>1
    <3> QED BY <3>1, <3>2 DEF ShUndos, Undoing
  <2> HIDE DEF q
  <2>2. Allowed(s, ShMe, "manage")
    BY Zenon, <1>2, <1>3, MembersAside
  <2>3. SameBoard(Served(s, q).server, shUndo[i].was[j])
    BY Zenon, <2>2 DEF UndoneInv, q
  <2>4. SameBoard(Served(s, q).server, Served(t, q).server)
    BY <2>1, LinkAside
  <2>5. SameBoard(Served(t, q).server, shUndo[i].was[j])
    BY Zenon, <2>3, <2>4 DEF SameBoard
  <2> QED BY <2>5 DEF q
<1>4. ASSUME NEW j \in DOMAIN shHist.back  PROVE SameBoard(t, shHist.back[j])
  <2>1. SameBoard(s, shHist.back[j])
    BY Zenon DEF UndoneInv
  <2> QED BY Zenon, <2>1 DEF SameBoard
<1> QED BY Zenon, <1>3, <1>4 DEF UndoneInv

LEMMA FailNextStep ==
  ASSUME ShInv, FailNext
  PROVE  ShInv'
<1>1. ShTypes
  BY Zenon DEF ShInv
<1>2. shFaults' \in 0..ShMaxFaults
  BY Zenon, <1>1, FailNextIs
<1>3. PICK i, r : Fails(i, r)
  BY Zenon, <1>1, FailNextIs
<1>4. /\ i \in DOMAIN shCalls /\ r = shCalls[i][1] /\ r \in ShReqRecs /\ r.op \in {"share", "load"} /\ shCalls' = Rest(i)
      /\ shServer' = shServer /\ shNews' = shNews /\ shFetches' = shFetches /\ shUndo' = shUndo /\ shTokens' = shTokens /\ shOps' = shOps
  BY <1>3 DEF Fails
<1>5. /\ shClient' \in ShClients /\ shHist' \in ShPasts
      /\ shClient'.members = shClient.members /\ shClient'.mine = shClient.mine /\ shClient'.users = shClient.users
      /\ shClient'.channel = shClient.channel /\ shClient'.min = shClient.min /\ shClient'.open = shClient.open
      /\ shHist'.apart = shHist.apart /\ shHist'.crossed = shHist.crossed /\ shHist'.undone = shHist.undone /\ shHist'.back = shHist.back
      /\ r.op = "load" => shClient'.link = NoLink /\ shHist'.kept = 0
      /\ r.op # "load" => shClient'.link = shClient.link /\ shHist'.kept = shHist.kept
  BY Zenon, <1>1, <1>3, FailFacts
<1>6. ShTypes'
  <2>1. CallsFit'
    BY Zenon, <1>1, <1>4, RestTypes DEF CallsFit
  <2>2. /\ UndoFits /\ shServer \in ShServers /\ shNews \in Seq(ShNewsRecs) /\ shFetches \in BOOLEAN
        /\ shTokens \in Nat /\ shOps \in 0..ShMaxOps
    BY Zenon, <1>1 DEF ShTypes
  <2>3. UndoFits'
    BY Zenon, <1>4, <2>2 DEF UndoFits
  <2> QED BY Zenon, <1>2, <1>4, <1>5, <2>1, <2>2, <2>3 DEF ShTypes
<1> SUFFICES ASSUME ~shHist.apart  PROVE CallsInv' /\ NewsInv' /\ MirrorInv' /\ ShareLinkInv' /\ UndoneInv'
  BY Zenon, <1>5, <1>6 DEF ShInv
<1>7. /\ i = 1 /\ 1 \in DOMAIN shCalls /\ shCalls # <<>> /\ shNews = <<>> /\ shFetches = FALSE
      /\ Promised(r) /\ 1 \in DOMAIN shCalls[1] /\ shCalls[1][1] = r
      /\ \/ r.op = "load" /\ shCalls' = <<>>
         \/ r.op = "share" /\ OnlyLoad(shCalls')
  <2>1. "share" # "load" /\ r.op # "answer"
    BY <1>4
  <2>2. r.op = "share" \/ r.op = "load"
    BY <1>4
  <2> QED BY Zenon, <1>4, <2>1, <2>2, CallAlone DEF OneCall, LinkCall
<1>8. CallsInv /\ NewsInv /\ MirrorInv /\ ShareLinkInv /\ UndoneInv
  BY Zenon DEF ShInv
<1>9. CallsInv'
  <2>1. CASE shCalls' = <<>>
    <3>1. DOMAIN shCalls' = {} /\ Len(shCalls') <= 1
      BY <2>1
    <3>2. ~ShareAsks'
      BY Zenon, <3>1 DEF ShareAsks
    <3> QED BY Zenon, <1>5, <1>8, <3>1, <3>2 DEF CallsInv
  <2>2. CASE OnlyLoad(shCalls')
    <3> PICK load \in ShReqRecs : shCalls' = <<<<load>>>> /\ load.op = "load"
                                  /\ 1 \in DOMAIN shCalls /\ 2 \in DOMAIN shCalls[1] /\ load = shCalls[1][2]
      BY Zenon, <2>2 DEF OnlyLoad
    <3>1. Len(shCalls') <= 1 /\ \A k \in DOMAIN shCalls' : \A j \in DOMAIN shCalls'[k] : shCalls'[k][j] = load
      OBVIOUS
    <3>0. load.op # "answer"
      OBVIOUS
    <3>2. Promised(load)
      BY Zenon, <1>8, <3>0 DEF CallsInv
    <3>3. Promised(load)'
      BY Zenon, <1>4, <1>5, <3>2 DEF Promised
    <3>4. (\A k \in DOMAIN shCalls : \A j \in DOMAIN shCalls[k] :
             IF shCalls[k][j].op = "answer" THEN ShareHolds(shCalls[k][j]) ELSE Promised(shCalls[k][j]))'
      BY Zenon, <3>0, <3>1, <3>3
    <3>5. shNews' = <<>> /\ ~shFetches'
      BY <1>4, <1>7
    <3> QED BY Zenon, <1>5, <1>8, <3>1, <3>4, <3>5 DEF CallsInv
  <2> QED BY <1>7, <2>1, <2>2
<1>10. NewsInv' /\ MirrorInv'
  <2>1. NewsInv'
    BY Zenon, <1>4, <1>5, <1>8 DEF NewsInv, IsTrue, ToFetch, NewsAbout, NewsOfBoard
  <2>2. \A u \in ShUsers : Matches(u) => Matches(u)'
    BY Zenon, <1>4, <1>5 DEF Matches
  <2>3. (\A u : NewsAbout(u)' <=> NewsAbout(u)) /\ (ToFetch' <=> ToFetch) /\ (NewsOfBoard' <=> NewsOfBoard)
    BY Zenon, <1>4 DEF NewsAbout, NewsOfBoard, ToFetch
  <2>4. MemberAt(shServer, ShMe)' = MemberAt(shServer, ShMe)
    BY Zenon, <1>4
  <2> QED BY Zenon, <1>4, <1>5, <1>8, <2>1, <2>2, <2>3, <2>4 DEF MirrorInv
<1>11. ShareLinkInv'
  <2>1. CASE shCalls' = <<>> /\ r.op = "load"
    <3>1. DOMAIN shCalls' = {} /\ ~shClient'.link.known /\ shHist'.kept = 0
      BY <1>5, <2>1 DEF NoLink
    <3> QED BY Zenon, <3>1 DEF ShareLinkInv
  <2>2. CASE OnlyLoad(shCalls') /\ r.op = "share"
    <3> PICK load \in ShReqRecs : shCalls' = <<<<load>>>> /\ load.op = "load"
      BY Zenon, <2>2 DEF OnlyLoad
    <3>1. 1 \in DOMAIN shCalls' /\ 1 \in DOMAIN shCalls'[1] /\ shCalls'[1][1] = load
      OBVIOUS
    <3>2. Linking'
      <4>1. load.op \in {"share", "load"}
        OBVIOUS
      <4> QED BY Zenon, <3>1, <4>1 DEF Linking
    <3>3. \A k \in DOMAIN shCalls' : \A j \in DOMAIN shCalls'[k] : shCalls'[k][j].op # "share"
      OBVIOUS
    <3>4. r.op # "load"
      BY <2>2
    <3> QED BY Zenon, <1>4, <1>5, <1>8, <3>2, <3>3, <3>4 DEF ShareLinkInv
  <2> QED BY <1>7, <2>1, <2>2
<1>12. UndoneInv'
  <2>1. shServer \in ShServers
    BY Zenon, <1>1 DEF ShTypes
  <2>2. CASE shCalls' = <<>> /\ r.op = "load"
    <3>1. Coming = shServer /\ Coming' = shServer
      <4>1. r.op \in {"load", "answer"}
        BY <2>2
      <4> QED BY Zenon, <1>4, <1>7, <2>2, <4>1 DEF Coming, Outcome
    <3>2. SameBoard(shServer, shServer)
      BY DEF SameBoard
    <3> QED BY Zenon, <1>1, <1>4, <1>5, <1>8, <2>1, <3>1, <3>2, UndoneAside
  <2>3. CASE OnlyLoad(shCalls') /\ r.op = "share"
    <3> PICK load \in ShReqRecs : shCalls' = <<<<load>>>> /\ load.op = "load"
      BY Zenon, <2>3 DEF OnlyLoad
    <3> DEFINE v == Served(shServer, r).server
    <3>1. Coming = v
      <4>1. r.op \notin {"load", "answer"}
        BY <2>3
      <4> QED BY Zenon, <1>7, <4>1 DEF Coming, Outcome
    <3>2. Coming' = shServer
      <4>1. shCalls' # <<>> /\ shCalls'[1][1] = load /\ load.op \in {"load", "answer"}
        OBVIOUS
      <4> QED BY Zenon, <1>4, <4>1 DEF Coming, Outcome
    <3>3. v \in ShServers /\ SameBoard(v, shServer)
      BY <1>4, <2>1, <2>3, LinkServed DEF Truth, SameBoard
    <3> HIDE DEF v
    <3> QED BY Zenon, <1>1, <1>4, <1>5, <1>8, <2>1, <3>1, <3>2, <3>3, UndoneAside
  <2> QED BY <1>7, <2>2, <2>3
<1> QED BY <1>9, <1>10, <1>11, <1>12

LEMMA TailHas ==
  ASSUME NEW S, NEW s \in Seq(S), s # <<>>
  PROVE  /\ Head(s) \in S /\ Tail(s) \in Seq(S) /\ \E h \in DOMAIN s : s[h] = Head(s)
         /\ \A k \in DOMAIN Tail(s) : \E h \in DOMAIN s : s[h] = Tail(s)[k]
         /\ \A h \in DOMAIN s : s[h] = Head(s) \/ \E k \in DOMAIN Tail(s) : Tail(s)[k] = s[h]
<1>1. /\ Len(s) \in Nat /\ DOMAIN s = 1..Len(s) /\ Len(s) # 0
  BY LenProperties, EmptySeq
<1>2. /\ Tail(s) \in Seq(S) /\ Head(s) = s[1] /\ Len(Tail(s)) = Len(s) - 1 /\ \A k \in 1..Len(Tail(s)) : Tail(s)[k] = s[k + 1]
  BY HeadTailProperties
<1>3. DOMAIN Tail(s) = 1..Len(Tail(s))
  BY <1>2, LenProperties
<1>4. 1 \in DOMAIN s
  BY <1>1
<1>5. Head(s) \in S
  BY <1>2, <1>4, ElementOfSeq
<1>6. ASSUME NEW k \in DOMAIN Tail(s)  PROVE \E h \in DOMAIN s : s[h] = Tail(s)[k]
  <2>1. k + 1 \in DOMAIN s /\ Tail(s)[k] = s[k + 1]
    BY <1>1, <1>2, <1>3
  <2> QED BY <2>1
<1>7. ASSUME NEW h \in DOMAIN s, h # 1  PROVE \E k \in DOMAIN Tail(s) : Tail(s)[k] = s[h]
  <2>1. h - 1 \in DOMAIN Tail(s) /\ Tail(s)[h - 1] = s[h]
    BY <1>1, <1>2, <1>3, <1>7
  <2> QED BY <2>1
<1> QED BY <1>2, <1>4, <1>5, <1>6, <1>7

\* The news of the board, and those of a member.
BoardNews(n) ==
  /\ n.about = "board"
  /\ shClient' = [shClient EXCEPT !.channel = n.channel, !.min = n.min] /\ shFetches' = TRUE
  /\ shHist' = [shHist EXCEPT !.crossed = @ /\ shCalls # <<>>]
MemberNews(n) ==
  /\ n.about = "member"
  /\ shClient' = [shClient EXCEPT !.members[n.user] = [flags |-> n.flags, min |-> "", synthetic |-> n.synthetic],
                                  !.mine = IF n.user = ShMe THEN n.flags ELSE @,
                                  !.users = IF n.flags = {} THEN @ \ {n.user} ELSE @ \cup {n.user},
                                  !.open = @ /\ ~(n.user = ShMe /\ n.flags = {})]
  /\ shFetches' = shFetches /\ shHist' = shHist

LEMMA GetNewsIs ==
  ASSUME ShTypes, ShGetNews
  PROVE  \E n \in ShNewsRecs :
           /\ n = Head(shNews) /\ (BoardNews(n) \/ MemberNews(n)) /\ shNews # <<>> /\ shNews' = Tail(shNews)
           /\ UNCHANGED <<shServer, shCalls, shUndo, shTokens, shOps, shFaults>>
<1> DEFINE n == Head(shNews)
<1>1. shNews \in Seq(ShNewsRecs) /\ shNews # <<>>
  BY Zenon DEF ShTypes, ShGetNews
<1>2. n \in ShNewsRecs
  BY <1>1, TailHas
<1>3. /\ shNews' = Tail(shNews)
      /\ IF n.about = "board"
         THEN /\ shClient' = [shClient EXCEPT !.channel = n.channel, !.min = n.min]
              /\ shFetches' = TRUE
              /\ shHist' = [shHist EXCEPT !.crossed = @ /\ shCalls # <<>>]
         ELSE /\ shClient' = [shClient EXCEPT !.members[n.user] = [flags |-> n.flags, min |-> "", synthetic |-> n.synthetic],
                                              !.mine = IF n.user = ShMe THEN n.flags ELSE @,
                                              !.users = IF n.flags = {} THEN @ \ {n.user} ELSE @ \cup {n.user},
                                              !.open = @ /\ ~(n.user = ShMe /\ n.flags = {})]
              /\ UNCHANGED <<shFetches, shHist>>
      /\ UNCHANGED <<shServer, shCalls, shUndo, shTokens, shOps, shFaults>>
  BY Zenon DEF ShGetNews
<1> HIDE DEF n
<1>4. n.about = "board" \/ n.about = "member"
  BY <1>2 DEF ShNewsRecs
<1>5. BoardNews(n) \/ MemberNews(n)
  <2>1. CASE n.about = "board"
    BY Zenon, <1>3, <2>1 DEF BoardNews
  <2>2. CASE n.about = "member"
    <3>1. n.about # "board"
      BY <2>2
    <3> QED BY Zenon, <1>3, <2>2, <3>1 DEF MemberNews
  <2> QED BY <1>4, <2>1, <2>2
<1>6. n = Head(shNews)
  BY DEF n
<1> QED BY Zenon, <1>1, <1>2, <1>3, <1>5, <1>6

LEMMA BoardNewsIs ==
  ASSUME ShTypes, NEW n \in ShNewsRecs, BoardNews(n)
  PROVE  /\ shClient' \in ShClients /\ shClient'.members = shClient.members /\ shClient'.mine = shClient.mine
         /\ shClient'.users = shClient.users /\ shClient'.open = shClient.open /\ shClient'.link = shClient.link
         /\ shClient'.channel = n.channel /\ shClient'.min = n.min
<1>1. shClient' = [shClient EXCEPT !.channel = n.channel, !.min = n.min] /\ n.about = "board"
  BY DEF BoardNews
<1>2. n.channel \in ShChans /\ n.min \in Minimum
  BY <1>1 DEF ShNewsRecs
<1>3. shClient \in ShClients
  BY Zenon DEF ShTypes
<1> QED BY <1>1, <1>2, <1>3 DEF ShClients

LEMMA MemberNewsIs ==
  ASSUME ShTypes, NEW n \in ShNewsRecs, MemberNews(n)
  PROVE  /\ n.user \in ShUsers /\ n.flags \in ShFlags /\ n.synthetic \in BOOLEAN
         /\ shClient' \in ShClients /\ shClient'.channel = shClient.channel /\ shClient'.min = shClient.min
         /\ shClient'.link = shClient.link
         /\ shClient'.members[n.user] = [flags |-> n.flags, min |-> "", synthetic |-> n.synthetic]
         /\ \A u \in ShUsers \ {n.user} : shClient'.members[u] = shClient.members[u] /\ (u \in shClient.users => u \in shClient'.users)
         /\ n.flags # {} => n.user \in shClient'.users
         /\ shClient'.mine = IF n.user = ShMe THEN n.flags ELSE shClient.mine
         /\ shClient'.open <=> shClient.open /\ ~(n.user = ShMe /\ n.flags = {})
<1> DEFINE m == [flags |-> n.flags, min |-> "", synthetic |-> n.synthetic]
           mine == IF n.user = ShMe THEN n.flags ELSE shClient.mine
           users == IF n.flags = {} THEN shClient.users \ {n.user} ELSE shClient.users \cup {n.user}
           open == shClient.open /\ ~(n.user = ShMe /\ n.flags = {})
<1>1. shClient' = [shClient EXCEPT !.members[n.user] = m, !.mine = mine, !.users = users, !.open = open] /\ n.about = "member"
  BY Zenon DEF MemberNews
<1>2. n.user \in ShUsers /\ n.flags \in ShFlags /\ n.synthetic \in BOOLEAN
  BY <1>1 DEF ShNewsRecs
<1>3. shClient \in ShClients
  BY Zenon DEF ShTypes
<1>4. m \in ShMembers
  BY <1>2 DEF ShMembers, Minimum
<1>5. mine \in ShFlags /\ users \in SUBSET ShUsers /\ open \in BOOLEAN
  BY <1>2, <1>3 DEF ShClients
<1>6. /\ \A u \in ShUsers \ {n.user} : u \in shClient.users => u \in users
      /\ n.flags # {} => n.user \in users
  OBVIOUS
<1> HIDE DEF m, mine, users, open
<1>7. /\ shClient' \in ShClients /\ shClient'.channel = shClient.channel /\ shClient'.min = shClient.min
      /\ shClient'.link = shClient.link /\ shClient'.members = [shClient.members EXCEPT ![n.user] = m]
      /\ shClient'.mine = mine /\ shClient'.users = users /\ shClient'.open = open
  BY <1>1, <1>2, <1>3, <1>4, <1>5 DEF ShClients
<1>8. shClient'.members[n.user] = m /\ \A u \in ShUsers \ {n.user} : shClient'.members[u] = shClient.members[u]
  BY <1>2, <1>3, <1>7 DEF ShClients
<1> QED BY Zenon, <1>2, <1>6, <1>7, <1>8 DEF m, mine, open

\* The history after news: the client has the board again.
LEMMA NewsPast ==
  ASSUME ShTypes, NEW n, BoardNews(n) \/ MemberNews(n)
  PROVE  /\ shHist' \in ShPasts /\ shHist'.apart = shHist.apart /\ shHist'.undone = shHist.undone
         /\ shHist'.kept = shHist.kept /\ shHist'.back = shHist.back
         /\ shHist'.crossed => shHist.crossed
         /\ shCalls # <<>> \/ MemberNews(n) => shHist'.crossed = shHist.crossed
<1>1. shHist \in ShPasts
  BY Zenon DEF ShTypes
<1>2. CASE MemberNews(n)
  BY Zenon, <1>1, <1>2 DEF MemberNews
<1>3. CASE BoardNews(n)
  <2> DEFINE v == shHist.crossed /\ shCalls # <<>>
  <2>1. shHist' = [shHist EXCEPT !.crossed = v]
    BY Zenon, <1>3 DEF BoardNews
  <2>2. "board" # "member"
    OBVIOUS
  <2>3. ~MemberNews(n)
    BY Zenon, <1>3, <2>2 DEF BoardNews, MemberNews
  <2>4. v \in BOOLEAN /\ (v => shHist.crossed) /\ (shCalls # <<>> => v = shHist.crossed)
    <3>1. shHist.crossed \in BOOLEAN
      BY <1>1 DEF ShPasts
    <3> QED BY <3>1
  <2> HIDE DEF v
  <2>5. /\ shHist' \in ShPasts /\ shHist'.apart = shHist.apart /\ shHist'.undone = shHist.undone
        /\ shHist'.kept = shHist.kept /\ shHist'.back = shHist.back /\ shHist'.crossed = v
    BY <1>1, <2>1, <2>4 DEF ShPasts
  <2> QED BY Zenon, <2>3, <2>4, <2>5
<1> QED BY <1>2, <1>3

\* What is left of the news.
LEMMA NewsLeft ==
  ASSUME ShTypes, shNews # <<>>, shNews' = Tail(shNews)
  PROVE  /\ shNews' \in Seq(ShNewsRecs)
         /\ \A k \in DOMAIN shNews' : \E h \in DOMAIN shNews : shNews[h] = shNews'[k]
         /\ \E h \in DOMAIN shNews : shNews[h] = Head(shNews)
         /\ \A u : NewsAbout(u)' => NewsAbout(u)
         /\ NewsOfBoard' => NewsOfBoard
         /\ Head(shNews).about = "board" => \A u : NewsAbout(u) => NewsAbout(u)'
         /\ Head(shNews).about = "member" => /\ \A u : NewsAbout(u) /\ u # Head(shNews).user => NewsAbout(u)'
                                             /\ NewsOfBoard => NewsOfBoard'
<1> DEFINE t == Tail(shNews)
           n == Head(shNews)
<1>1. shNews \in Seq(ShNewsRecs)
  BY Zenon DEF ShTypes
<1>2. /\ t \in Seq(ShNewsRecs) /\ \E h \in DOMAIN shNews : shNews[h] = n
      /\ \A k \in DOMAIN t : \E h \in DOMAIN shNews : shNews[h] = t[k]
      /\ \A h \in DOMAIN shNews : shNews[h] = n \/ \E k \in DOMAIN t : t[k] = shNews[h]
  BY <1>1, TailHas
<1>3. shNews' = t
  OBVIOUS
<1> HIDE DEF t, n
<1>4. "board" # "member"
  OBVIOUS
<1>5. (\A u : NewsAbout(u)' => NewsAbout(u)) /\ (NewsOfBoard' => NewsOfBoard)
  BY <1>2, <1>3 DEF NewsAbout, NewsOfBoard
<1>6. n.about = "board" => \A u : NewsAbout(u) => NewsAbout(u)'
  BY <1>2, <1>3, <1>4 DEF NewsAbout
<1>7. \A u : NewsAbout(u) /\ u # n.user => NewsAbout(u)'
  BY <1>2, <1>3 DEF NewsAbout
<1>8. n.about = "member" => (NewsOfBoard => NewsOfBoard')
  BY <1>2, <1>3, <1>4 DEF NewsOfBoard
<1> QED BY Zenon, <1>2, <1>3, <1>5, <1>6, <1>7, <1>8 DEF n

LEMMA GetNewsStep ==
  ASSUME ShInv, ShGetNews
  PROVE  ShInv'
<1>1. ShTypes
  BY Zenon DEF ShInv
<1>2. PICK n \in ShNewsRecs :
           /\ n = Head(shNews) /\ (BoardNews(n) \/ MemberNews(n)) /\ shNews # <<>> /\ shNews' = Tail(shNews)
           /\ UNCHANGED <<shServer, shCalls, shUndo, shTokens, shOps, shFaults>>
  BY Zenon, <1>1, GetNewsIs
<1>3. /\ shServer' = shServer /\ shCalls' = shCalls /\ shUndo' = shUndo /\ shTokens' = shTokens
      /\ shOps' = shOps /\ shFaults' = shFaults
  BY <1>2
<1>0. /\ shHist' \in ShPasts /\ shHist'.apart = shHist.apart /\ shHist'.undone = shHist.undone
      /\ shHist'.kept = shHist.kept /\ shHist'.back = shHist.back
      /\ shHist'.crossed => shHist.crossed
      /\ shCalls # <<>> \/ MemberNews(n) => shHist'.crossed = shHist.crossed
  BY Zenon, <1>1, <1>2, NewsPast
<1>4. /\ shNews' \in Seq(ShNewsRecs)
      /\ \A k \in DOMAIN shNews' : \E h \in DOMAIN shNews : shNews[h] = shNews'[k]
      /\ \E h \in DOMAIN shNews : shNews[h] = n
      /\ \A u : NewsAbout(u)' => NewsAbout(u)
      /\ NewsOfBoard' => NewsOfBoard
      /\ n.about = "board" => \A u : NewsAbout(u) => NewsAbout(u)'
      /\ n.about = "member" => /\ \A u : NewsAbout(u) /\ u # n.user => NewsAbout(u)'
                               /\ NewsOfBoard => NewsOfBoard'
  BY Zenon, <1>1, <1>2, NewsLeft
<1>5. /\ shClient' \in ShClients /\ shFetches' \in BOOLEAN /\ shClient'.link = shClient.link
      /\ shClient'.open => shClient.open
  <2>1. shFetches \in BOOLEAN
    BY Zenon, <1>1 DEF ShTypes
  <2>2. CASE BoardNews(n)
    BY Zenon, <1>1, <2>2, BoardNewsIs DEF BoardNews
  <2>3. CASE MemberNews(n)
    BY Zenon, <1>1, <2>1, <2>3, MemberNewsIs DEF MemberNews
  <2> QED BY <1>2, <2>2, <2>3
<1>6. ShTypes'
  <2>1. /\ CallsFit /\ UndoFits /\ shServer \in ShServers /\ shTokens \in Nat
        /\ shOps \in 0..ShMaxOps /\ shFaults \in 0..ShMaxFaults
    BY Zenon, <1>1 DEF ShTypes
  <2>2. CallsFit' /\ UndoFits'
    BY Zenon, <1>3, <2>1 DEF CallsFit, UndoFits
  <2> QED BY Zenon, <1>0, <1>3, <1>4, <1>5, <2>1, <2>2 DEF ShTypes
<1> SUFFICES ASSUME ~shHist.apart  PROVE CallsInv' /\ NewsInv' /\ MirrorInv' /\ ShareLinkInv' /\ UndoneInv'
  BY Zenon, <1>0, <1>6 DEF ShInv
<1>7. CallsInv /\ NewsInv /\ MirrorInv /\ ShareLinkInv /\ UndoneInv
  BY Zenon DEF ShInv
<1>8. ~ShareAsks
  BY Zenon, <1>2, <1>7 DEF CallsInv
<1>9. CallsInv'
  <2>1. ~ShareAsks'
    BY Zenon, <1>3, <1>8 DEF ShareAsks
  <2>2. shCalls # <<>> => \A q : ShareHolds(q) => ShareHolds(q)'
    <3> HAVE shCalls # <<>>
    <3>1. shHist'.crossed = shHist.crossed
      BY Zenon, <1>0
    <3>2. shServer' = shServer
      BY Zenon, <1>3
    <3> QED BY Zenon, <3>1, <3>2 DEF ShareHolds
  <2>3. ASSUME NEW k \in DOMAIN shCalls, NEW j \in DOMAIN shCalls[k]
        PROVE  shCalls[k][j].op = "answer" /\ ShareHolds(shCalls[k][j])
    BY Zenon, <1>7, <1>8 DEF ShareAsks, CallsInv
  <2>4. \A k \in DOMAIN shCalls : shCalls # <<>>
    OBVIOUS
  <2>5. (\A k \in DOMAIN shCalls : \A j \in DOMAIN shCalls[k] :
           IF shCalls[k][j].op = "answer" THEN ShareHolds(shCalls[k][j]) ELSE Promised(shCalls[k][j]))'
    BY Zenon, <1>3, <2>2, <2>3, <2>4
  <2> QED BY Zenon, <1>0, <1>3, <1>7, <2>1, <2>5 DEF CallsInv
<1>10. IsTrue(n)
  BY Zenon, <1>4, <1>7 DEF NewsInv
<1>11. n.about = "board" => NewsOfBoard
  BY Zenon, <1>4 DEF NewsOfBoard
<1>12. NewsInv'
  <2>1. (\A k \in DOMAIN shNews : IsTrue(shNews[k]))'
    <3>1. \A x : IsTrue(x) => IsTrue(x)'
      BY Zenon, <1>0, <1>3 DEF IsTrue
    <3> QED BY Zenon, <1>4, <1>7, <3>1 DEF NewsInv
  <2>2. ToFetch' => ToFetch
    <3>1. CASE BoardNews(n)
      BY Zenon, <1>11, <3>1 DEF ToFetch, BoardNews
    <3>2. CASE MemberNews(n)
      BY Zenon, <1>4, <3>2 DEF ToFetch, MemberNews
    <3> QED BY <1>2, <3>1, <3>2
  <2> QED BY Zenon, <1>4, <1>7, <2>1, <2>2 DEF NewsInv
<1>13. MirrorInv'
  <2> SUFFICES ASSUME shClient'.open  PROVE MirrorInv'
    BY Zenon DEF MirrorInv
  <2>1. /\ \A u \in ShUsers : Matches(u) \/ NewsAbout(u) \/ ToFetch
        /\ shClient.mine = MemberAt(shServer, ShMe).flags \/ NewsAbout(ShMe)
        /\ ~shHist.crossed => (shClient.channel = shServer.channel /\ shClient.min = shServer.min) \/ NewsOfBoard
        /\ shClient.mine # {}
    BY Zenon, <1>5, <1>7 DEF MirrorInv
  <2>2. CASE BoardNews(n)
    <3>1. /\ shClient'.mine = shClient.mine /\ shClient'.channel = n.channel /\ shClient'.min = n.min
      BY Zenon, <1>1, <2>2, BoardNewsIs
    <3>2. ToFetch' /\ n.about = "board"
      BY <2>2 DEF ToFetch, BoardNews
    <3>3. n.channel = shServer.channel /\ n.min = shServer.min
      BY Zenon, <1>10, <3>2 DEF IsTrue
    <3>4. shClient'.mine = MemberAt(shServer, ShMe).flags \/ NewsAbout(ShMe)'
      BY Zenon, <1>4, <2>1, <3>1, <3>2
    <3> QED BY Zenon, <1>3, <2>1, <3>1, <3>2, <3>3, <3>4 DEF MirrorInv
  <2>3. CASE MemberNews(n)
    <3>1. /\ n.user \in ShUsers /\ n.flags \in ShFlags /\ n.synthetic \in BOOLEAN
          /\ shClient' \in ShClients /\ shClient'.channel = shClient.channel /\ shClient'.min = shClient.min
          /\ shClient'.members[n.user] = [flags |-> n.flags, min |-> "", synthetic |-> n.synthetic]
          /\ \A u \in ShUsers \ {n.user} : shClient'.members[u] = shClient.members[u] /\ (u \in shClient.users => u \in shClient'.users)
          /\ n.flags # {} => n.user \in shClient'.users
          /\ shClient'.mine = IF n.user = ShMe THEN n.flags ELSE shClient.mine
          /\ shClient'.open <=> shClient.open /\ ~(n.user = ShMe /\ n.flags = {})
      BY Zenon, <1>1, <2>3, MemberNewsIs
    <3>2. n.about = "member" /\ shFetches' = shFetches
      BY <2>3 DEF MemberNews
    <3>3. (\A u : NewsAbout(u) /\ u # n.user => NewsAbout(u)') /\ (NewsOfBoard => NewsOfBoard')
      BY Zenon, <1>4, <3>2
    <3>4. ToFetch => ToFetch'
      BY Zenon, <3>2, <3>3 DEF ToFetch
    <3>5. LET m == MemberAt(shServer, n.user) IN
          /\ n.flags = m.flags /\ n.synthetic = m.synthetic
          /\ ~shHist.undone /\ n.flags # {} /\ ~n.synthetic => ReadAlike(n.flags, shServer.min)
      <4>1. n.about # "board"
        BY <3>2
      <4> QED BY Zenon, <1>10, <4>1 DEF IsTrue
    <3>6. ASSUME NEW u \in ShUsers, u # n.user  PROVE Matches(u)' \/ NewsAbout(u)' \/ ToFetch'
      <4>1. CASE Matches(u)
        <5>1. shClient'.members[u] = shClient.members[u] /\ (u \in shClient.users => u \in shClient'.users)
          BY Zenon, <3>1, <3>6
        <5>2. Matches(u)'
          BY Zenon, <1>0, <1>3, <4>1, <5>1 DEF Matches
        <5> QED BY Zenon, <5>2
      <4> QED BY Zenon, <2>1, <3>3, <3>4, <3>6, <4>1
    <3>7. Matches(n.user)'
      <4> DEFINE m == MemberAt(shServer, n.user)
                 none == ""
                 c == [flags |-> n.flags, min |-> none, synthetic |-> n.synthetic]
      <4>1. shClient'.members[n.user] = c
        BY Zenon, <3>1
      <4>2. c.flags = n.flags /\ c.synthetic = n.synthetic
        OBVIOUS
      <4>3. ~n.synthetic => c = [flags |-> n.flags, min |-> none, synthetic |-> FALSE]
        BY <3>1
      <4>4. ~shHist.undone /\ m.flags # {} /\ ~m.synthetic => CanAs(RoleShown(c)) = ServerCan(m.flags, shServer.min)
        <5> HAVE ~shHist.undone /\ m.flags # {} /\ ~m.synthetic
        <5>1. n.flags = m.flags /\ n.synthetic = m.synthetic /\ ReadAlike(n.flags, shServer.min)
          BY Zenon, <3>5
        <5> HIDE DEF c
        <5> QED BY Zenon, <4>3, <5>1 DEF ReadAlike
      <4> HIDE DEF c, none
      <4>5. n.flags = m.flags /\ n.synthetic = m.synthetic
        BY Zenon, <3>5
      <4>6. MemberAt(shServer, n.user)' = m
        BY Zenon, <1>3
      <4> QED BY Zenon, <1>0, <1>3, <3>1, <4>1, <4>2, <4>4, <4>5, <4>6 DEF Matches
    <3>8. shClient'.mine = MemberAt(shServer, ShMe).flags \/ NewsAbout(ShMe)'
      BY Zenon, <2>1, <3>1, <3>3, <3>5
    <3>9. shClient'.mine # {}
      BY Zenon, <2>1, <3>1
    <3>10. MemberAt(shServer, ShMe)' = MemberAt(shServer, ShMe)
      BY Zenon, <1>3
    <3>11. (\A u \in ShUsers : Matches(u) \/ NewsAbout(u) \/ ToFetch)'
      BY Zenon, <3>6, <3>7
    <3>12. shHist'.crossed = shHist.crossed
      BY Zenon, <1>0, <2>3
    <3> QED BY Zenon, <1>3, <2>1, <3>1, <3>3, <3>8, <3>9, <3>10, <3>11, <3>12 DEF MirrorInv
  <2> QED BY <1>2, <2>2, <2>3
<1>14. ShareLinkInv'
  BY Zenon, <1>0, <1>3, <1>5, <1>7 DEF ShareLinkInv, Linking
<1>15. UndoneInv'
  <2>1. Coming' = Coming
    BY Zenon, <1>3 DEF Coming, Outcome
  <2> QED BY Zenon, <1>0, <1>3, <1>7, <2>1 DEF UndoneInv
<1> QED BY <1>9, <1>12, <1>13, <1>14, <1>15

\* The members as the server lists them.
LEMMA ListMatches ==
  ASSUME NEW s \in ShServers, NEW u \in ShUsers, MemberAt(s, u).flags # {}, ~MemberAt(s, u).synthetic
  PROVE  CanAs(RoleShown(MemberAt(s, u))) = ServerCan(MemberAt(s, u).flags, s.min)
<1> DEFINE m == MemberAt(s, u)
           f == s.rows[u]
<1>1. m.flags = f /\ f \in ShFlags
  BY Zenon, MemberOf
<1>2. m = [flags |-> f, min |-> s.min, synthetic |-> FALSE]
  BY Zenon, <1>1, MemberOf
<1>3. s.min \in Minimum /\ f # {}
  BY <1>1 DEF ShServers
<1> HIDE DEF m, f
<1>4. CanAs(RoleShown([flags |-> f, min |-> s.min, synthetic |-> FALSE])) = ServerCan(f, s.min)
  BY Zenon, <1>1, <1>3, LoadedReads
<1>5. CanAs(RoleShown(m)) = ServerCan(m.flags, s.min)
  BY Zenon, <1>1, <1>2, <1>4
<1> QED BY <1>5 DEF m

LEMMA FetchTypes ==
  ASSUME ShTypes, FetchMembers
  PROVE  /\ shFetches = TRUE /\ shFetches' = FALSE /\ shClient' \in ShClients
         /\ shClient'.mine = shClient.mine /\ shClient'.open = shClient.open /\ shClient'.link = shClient.link
         /\ shClient'.channel = shClient.channel /\ shClient'.min = shClient.min
         /\ Allowed(shServer, ShMe, "view") =>
              \A u \in ShUsers : /\ shClient'.members[u] = MemberAt(shServer, u)
                                 /\ MemberAt(shServer, u).flags # {} => u \in shClient'.users
         /\ UNCHANGED <<shServer, shCalls, shNews, shUndo, shTokens, shHist, shOps, shFaults>>
<1> DEFINE all == [u \in ShUsers |-> MemberAt(shServer, u)]
           listed == {u \in ShUsers : all[u].flags # {}}
<1>1. /\ shFetches /\ shFetches' = FALSE
      /\ shClient' = IF Allowed(shServer, ShMe, "view") THEN [shClient EXCEPT !.members = all, !.users = listed] ELSE shClient
      /\ UNCHANGED <<shServer, shCalls, shNews, shUndo, shTokens, shHist, shOps, shFaults>>
  BY Zenon DEF FetchMembers
<1>2. shClient \in ShClients /\ shServer \in ShServers /\ shFetches \in BOOLEAN
  BY Zenon DEF ShTypes
<1>3. all \in [ShUsers -> ShMembers]
  BY <1>2, MemberOf
<1>4. listed \in SUBSET ShUsers /\ \A u \in ShUsers : all[u] = MemberAt(shServer, u) /\ (all[u].flags # {} => u \in listed)
  OBVIOUS
<1> HIDE DEF all, listed
<1>5. CASE Allowed(shServer, ShMe, "view")
  <2>1. shClient' = [shClient EXCEPT !.members = all, !.users = listed]
    BY Zenon, <1>1, <1>5
  <2>2. /\ shClient' \in ShClients /\ shClient'.members = all /\ shClient'.users = listed
        /\ shClient'.mine = shClient.mine /\ shClient'.open = shClient.open /\ shClient'.link = shClient.link
        /\ shClient'.channel = shClient.channel /\ shClient'.min = shClient.min
    BY <1>2, <1>3, <1>4, <2>1 DEF ShClients
  <2> QED BY <1>1, <1>2, <1>4, <2>2
<1>6. CASE ~Allowed(shServer, ShMe, "view")
  <2>1. shClient' = shClient
    BY Zenon, <1>1, <1>6
  <2> QED BY <1>1, <1>2, <1>6, <2>1
<1> QED BY <1>5, <1>6

LEMMA FetchMembersStep ==
  ASSUME ShInv, FetchMembers
  PROVE  ShInv'
<1>1. ShTypes
  BY Zenon DEF ShInv
<1>2. /\ shFetches = TRUE /\ shFetches' = FALSE /\ shClient' \in ShClients
      /\ shClient'.mine = shClient.mine /\ shClient'.open = shClient.open /\ shClient'.link = shClient.link
      /\ shClient'.channel = shClient.channel /\ shClient'.min = shClient.min
      /\ Allowed(shServer, ShMe, "view") =>
           \A u \in ShUsers : /\ shClient'.members[u] = MemberAt(shServer, u)
                              /\ MemberAt(shServer, u).flags # {} => u \in shClient'.users
      /\ UNCHANGED <<shServer, shCalls, shNews, shUndo, shTokens, shHist, shOps, shFaults>>
  BY Zenon, <1>1, FetchTypes
<1>3. /\ shServer' = shServer /\ shCalls' = shCalls /\ shNews' = shNews /\ shUndo' = shUndo /\ shTokens' = shTokens
      /\ shHist' = shHist /\ shOps' = shOps /\ shFaults' = shFaults
  BY <1>2
<1>4. ShTypes'
  <2>1. /\ CallsFit /\ UndoFits /\ shServer \in ShServers /\ shNews \in Seq(ShNewsRecs) /\ shTokens \in Nat /\ shHist \in ShPasts
        /\ shOps \in 0..ShMaxOps /\ shFaults \in 0..ShMaxFaults
    BY Zenon, <1>1 DEF ShTypes
  <2>2. CallsFit' /\ UndoFits' /\ shFetches' \in BOOLEAN
    BY Zenon, <1>2, <1>3, <2>1 DEF CallsFit, UndoFits
  <2> QED BY Zenon, <1>2, <1>3, <2>1, <2>2 DEF ShTypes
<1> SUFFICES ASSUME ~shHist.apart  PROVE CallsInv' /\ NewsInv' /\ MirrorInv' /\ ShareLinkInv' /\ UndoneInv'
  BY Zenon, <1>3, <1>4 DEF ShInv
<1>5. CallsInv /\ NewsInv /\ MirrorInv /\ ShareLinkInv /\ UndoneInv
  BY Zenon DEF ShInv
<1>6. ~ShareAsks
  BY Zenon, <1>2, <1>5 DEF CallsInv
<1>7. CallsInv'
  <2>1. ~ShareAsks'
    BY Zenon, <1>3, <1>6 DEF ShareAsks
  <2>2. \A q : (Promised(q) => Promised(q)') /\ (ShareHolds(q) => ShareHolds(q)')
    BY Zenon, <1>3 DEF Promised, ShareHolds
  <2> QED BY Zenon, <1>3, <1>5, <2>1, <2>2 DEF CallsInv
<1>8. (\A u : NewsAbout(u)' <=> NewsAbout(u)) /\ (NewsOfBoard' <=> NewsOfBoard) /\ ToFetch
  BY Zenon, <1>2, <1>3 DEF NewsAbout, NewsOfBoard, ToFetch
<1>9. NewsInv'
  BY Zenon, <1>3, <1>5, <1>8 DEF NewsInv, IsTrue
<1>10. MirrorInv'
  <2> SUFFICES ASSUME shClient.open  PROVE MirrorInv'
    BY Zenon, <1>2 DEF MirrorInv
  <2>1. /\ shClient.mine = MemberAt(shServer, ShMe).flags \/ NewsAbout(ShMe)
        /\ ~shHist.crossed => (shClient.channel = shServer.channel /\ shClient.min = shServer.min) \/ NewsOfBoard
        /\ shClient.mine # {}
    BY Zenon, <1>5 DEF MirrorInv
  <2>2. ~NewsAbout(ShMe)
    BY Zenon, <1>5, <1>8 DEF NewsInv
  <2>3. shServer \in ShServers /\ ShMe \in ShUsers
    <3>1. ShMe \in ShUsers
      BY ShAssumption
    <3> QED BY Zenon, <1>1, <3>1 DEF ShTypes
  <2>4. Allowed(shServer, ShMe, "view")
    BY Zenon, <2>1, <2>2, <2>3, ManagerOf
  <2>5. ASSUME NEW u \in ShUsers  PROVE Matches(u)'
    <3>1. shClient'.members[u] = MemberAt(shServer, u) /\ (MemberAt(shServer, u).flags # {} => u \in shClient'.users)
      BY Zenon, <1>2, <2>4
    <3>2. MemberAt(shServer, u)' = MemberAt(shServer, u)
      BY Zenon, <1>3
    <3>3. MemberAt(shServer, u).flags # {} /\ ~MemberAt(shServer, u).synthetic
            => CanAs(RoleShown(MemberAt(shServer, u))) = ServerCan(MemberAt(shServer, u).flags, shServer.min)
      BY Zenon, <2>3, ListMatches
    <3> QED BY Zenon, <1>3, <3>1, <3>2, <3>3 DEF Matches
  <2>6. MemberAt(shServer, ShMe)' = MemberAt(shServer, ShMe)
    BY Zenon, <1>3
  <2> QED BY Zenon, <1>2, <1>3, <1>8, <2>1, <2>2, <2>5, <2>6 DEF MirrorInv
<1>11. ShareLinkInv'
  <2>1. Linking' <=> Linking
    BY Zenon, <1>3 DEF Linking
  <2>2. shClient'.link = shClient.link
    BY Zenon, <1>2
  <2> HIDE <1>2
  <2> QED BY Zenon, <1>3, <1>5, <2>1, <2>2 DEF ShareLinkInv
<1>12. UndoneInv'
  <2>1. Coming' = Coming
    BY Zenon, <1>3 DEF Coming, Outcome
  <2> QED BY Zenon, <1>3, <1>5, <2>1 DEF UndoneInv
<1> QED BY <1>7, <1>9, <1>10, <1>11, <1>12

LEMMA RestStep ==
  ASSUME ShInv, UNCHANGED shVars
  PROVE  ShInv'
<1>1. /\ shServer' = shServer /\ shClient' = shClient /\ shCalls' = shCalls /\ shNews' = shNews /\ shFetches' = shFetches
      /\ shUndo' = shUndo /\ shTokens' = shTokens /\ shHist' = shHist /\ shOps' = shOps /\ shFaults' = shFaults
  BY DEF shVars
<1>2. ShTypes /\ ShTypes'
  <2>1. ShTypes
    BY Zenon DEF ShInv
  <2>2. CallsFit' /\ UndoFits'
    BY Zenon, <1>1, <2>1 DEF ShTypes, CallsFit, UndoFits
  <2>3. /\ shServer \in ShServers /\ shClient \in ShClients /\ shNews \in Seq(ShNewsRecs) /\ shFetches \in BOOLEAN
        /\ shTokens \in Nat /\ shHist \in ShPasts /\ shOps \in 0..ShMaxOps /\ shFaults \in 0..ShMaxFaults
    BY Zenon, <2>1 DEF ShTypes
  <2> QED BY Zenon, <1>1, <2>1, <2>2, <2>3 DEF ShTypes
<1> SUFFICES ASSUME ~shHist.apart  PROVE CallsInv' /\ NewsInv' /\ MirrorInv' /\ ShareLinkInv' /\ UndoneInv'
  BY Zenon, <1>1, <1>2 DEF ShInv
<1>3. CallsInv /\ NewsInv /\ MirrorInv /\ ShareLinkInv /\ UndoneInv
  BY Zenon DEF ShInv
<1>4. (\A u : NewsAbout(u)' <=> NewsAbout(u)) /\ (NewsOfBoard' <=> NewsOfBoard) /\ (ToFetch' <=> ToFetch) /\ (Linking' <=> Linking)
  BY Zenon, <1>1 DEF NewsAbout, NewsOfBoard, ToFetch, Linking
<1>5. CallsInv'
  <2>1. \A r : (Promised(r) => Promised(r)') /\ (ShareHolds(r) => ShareHolds(r)')
    BY Zenon, <1>1 DEF Promised, ShareHolds
  <2>2. ShareAsks' => ShareAsks
    BY Zenon, <1>1 DEF ShareAsks
  <2> QED BY Zenon, <1>1, <1>3, <2>1, <2>2 DEF CallsInv
<1>6. NewsInv'
  <2>1. \A n : IsTrue(n) => IsTrue(n)'
    BY Zenon, <1>1 DEF IsTrue
  <2> QED BY Zenon, <1>1, <1>3, <1>4, <2>1 DEF NewsInv
<1>7. MirrorInv'
  <2>1. \A u : Matches(u) => Matches(u)'
    BY Zenon, <1>1 DEF Matches
  <2>2. MemberAt(shServer, ShMe)' = MemberAt(shServer, ShMe)
    BY Zenon, <1>1
  <2> QED BY Zenon, <1>1, <1>3, <1>4, <2>1, <2>2 DEF MirrorInv
<1>8. ShareLinkInv'
  BY Zenon, <1>1, <1>3, <1>4 DEF ShareLinkInv
<1>9. UndoneInv'
  <2>1. Coming' = Coming
    BY Zenon, <1>1 DEF Coming, Outcome
  <2> QED BY Zenon, <1>1, <1>3, <2>1 DEF UndoneInv
<1> QED BY <1>5, <1>6, <1>7, <1>8, <1>9

LEMMA ShareStarts ==
  ASSUME ShInit
  PROVE  ShInv
<1> DEFINE f == {"admin", "editor"}
           none == ""
           e == <<>>
           rows == [u \in ShUsers |-> IF u \in {ShMe, ShAnn} THEN f ELSE {}]
           s == [rows |-> rows, channel |-> ShLinked, min |-> none, link |-> NoLink]
           members == [u \in ShUsers |-> MemberAt(s, u)]
           users == {u \in ShUsers : members[u].flags # {}}
           c == [members |-> members, mine |-> members[ShMe].flags, users |-> users,
                 channel |-> ShLinked, min |-> none, link |-> NoLink, open |-> TRUE]
           h == [apart |-> FALSE, crossed |-> FALSE, undone |-> FALSE, kept |-> 0, back |-> e]
<1>1. /\ shServer = s /\ shClient = c /\ shCalls = e /\ shNews = e /\ shFetches = FALSE /\ shUndo = e /\ shTokens = 0 /\ shHist = h
      /\ shOps = ShMaxOps /\ shFaults = ShMaxFaults
  BY Zenon DEF ShInit
<1>2. ShMe \in ShUsers /\ ShLinked \in ShChans /\ ShMaxOps \in Nat /\ ShMaxFaults \in Nat
  BY Zenon, ShAssumption DEF ShChans
<1>3. f \in ShFlags /\ {} \in ShFlags /\ f # {} /\ none \in Minimum /\ NoLink \in ShLinks
  BY DEF ShFlags, Role, Minimum, NoLink, ShLinks
<1>4. /\ e \in Seq(Seq(ShReqRecs)) /\ e \in Seq(ShNewsRecs) /\ e \in Seq(ShUndos) /\ e \in Seq(ShServers)
      /\ Len(e) = 0 /\ DOMAIN e = {}
  OBVIOUS
<1>5. rows \in [ShUsers -> ShFlags] /\ rows[ShMe] = f
  BY <1>2, <1>3
<1> HIDE DEF f, none, rows
<1>6. s \in ShServers /\ s.rows = rows /\ s.channel = ShLinked /\ s.min = none /\ s.link = NoLink
  BY <1>2, <1>3, <1>5 DEF ShServers
<1> HIDE DEF s
<1>7. members \in [ShUsers -> ShMembers] /\ \A u \in ShUsers : members[u] = MemberAt(s, u)
  BY <1>6, MemberOf
<1>8. users \in SUBSET ShUsers /\ \A u \in ShUsers : members[u].flags # {} => u \in users
  OBVIOUS
<1>9. members[ShMe].flags # {} /\ members[ShMe].flags \in ShFlags
  <2>1. MemberAt(s, ShMe).flags = f
    BY <1>3, <1>5, <1>6, MemberFlags
  <2> QED BY <1>2, <1>3, <1>7, <2>1
<1> HIDE DEF members, users
<1>10. /\ c \in ShClients /\ c.members = members /\ c.mine = members[ShMe].flags /\ c.users = users
       /\ c.channel = ShLinked /\ c.min = none /\ c.link = NoLink /\ c.open = TRUE
  BY <1>2, <1>3, <1>7, <1>8, <1>9 DEF ShClients
<1>11. h \in ShPasts /\ h.apart = FALSE /\ h.crossed = FALSE /\ h.kept = 0 /\ h.back = e
  BY <1>4 DEF ShPasts
<1> HIDE DEF c, h
<1>12. ShTypes
  <2>1. CallsFit /\ UndoFits
    <3>1. Len(shCalls) <= 2
      BY <1>1, <1>4
    <3> QED BY Zenon, <1>1, <1>4, <3>1 DEF CallsFit, UndoFits
  <2>2. shOps \in 0..ShMaxOps /\ shFaults \in 0..ShMaxFaults /\ shTokens \in Nat
    BY <1>1, <1>2
  <2> QED BY Zenon, <1>1, <1>4, <1>6, <1>10, <1>11, <2>1, <2>2 DEF ShTypes
<1>13. CallsInv
  <2>1. Len(shCalls) <= 1
    BY <1>1, <1>4
  <2>2. ~ShareAsks
    BY Zenon, <1>1, <1>4 DEF ShareAsks
  <2> QED BY Zenon, <1>1, <1>4, <1>11, <2>1, <2>2 DEF CallsInv
<1>14. NewsInv
  BY Zenon, <1>1, <1>4 DEF NewsInv, ToFetch, NewsOfBoard
<1>15. MirrorInv
  <2>1. ASSUME NEW u \in ShUsers  PROVE Matches(u)
    <3>1. members[u] = MemberAt(s, u) /\ (members[u].flags # {} => u \in users)
      BY Zenon, <1>7, <1>8
    <3>2. MemberAt(s, u).flags # {} /\ ~MemberAt(s, u).synthetic
            => CanAs(RoleShown(MemberAt(s, u))) = ServerCan(MemberAt(s, u).flags, s.min)
      BY Zenon, <1>6, ListMatches
    <3> QED BY Zenon, <1>1, <1>10, <3>1, <3>2 DEF Matches
  <2>2. c.mine = MemberAt(s, ShMe).flags /\ c.mine # {}
    BY Zenon, <1>2, <1>7, <1>9, <1>10
  <2> QED BY Zenon, <1>1, <1>6, <1>10, <2>1, <2>2 DEF MirrorInv
<1>16. ShareLinkInv
  BY Zenon, <1>1, <1>6, <1>10, <1>11 DEF ShareLinkInv
<1>17. UndoneInv
  BY Zenon, <1>1, <1>4, <1>11 DEF UndoneInv
<1> QED BY Zenon, <1>12, <1>13, <1>14, <1>15, <1>16, <1>17 DEF ShInv

LEMMA ShareStep ==
  ASSUME ShInv, ShNext
  PROVE  ShInv'
BY Zenon, AddUserStep, UpdateMemberStep, RemoveMemberStep, SetMinimumStep, LinkChannelStep, ShareChangedStep,
   RegenerateTokenStep, CopyLinkStep, UndoShareStep, AnnWorksStep, SendNextStep, ShAnswerStep, ShThrowStep, FailNextStep, GetNewsStep,
   FetchMembersStep DEF ShNext, InDialog

----------------------------------------------------------------------------
(***************************************************************************)
(* What follows.                                                            *)
(***************************************************************************)
LEMMA ShareTypes ==
  ASSUME ShInv
  PROVE  ShTypeOK
<1>1. ShTypes
  BY Zenon DEF ShInv
<1>2. /\ shServer \in ShServers /\ shClient.channel \in ShChans /\ shClient.min \in Minimum /\ shClient.mine \in ShFlags
      /\ shClient.users \subseteq ShUsers /\ shOps \in 0..ShMaxOps /\ shFaults \in 0..ShMaxFaults
  BY Zenon, <1>1, ClientTypes DEF ShTypes
<1>3. Len(shCalls) <= 2
  BY Zenon, <1>1 DEF ShTypes, CallsFit
<1>4. /\ shServer.rows \in [ShUsers -> SUBSET Role] /\ shServer.channel \in DOMAIN ShChannels \cup {""} /\ shServer.min \in Minimum
      /\ shClient.mine \subseteq Role
  BY <1>2 DEF ShServers, ShFlags, ShChans
<1> QED BY Zenon, <1>2, <1>3, <1>4 DEF ShTypeOK, ShChans

LEMMA ShareFollows ==
  ASSUME ShInv, Alone
  PROVE  /\ \A u \in ShUsers : Matches(u)
         /\ Rows = {u \in ShUsers : shServer.rows[u] # {}}
         /\ shClient.mine = MemberAt(shServer, ShMe).flags
         /\ ~shHist.crossed => shClient.channel = shServer.channel /\ shClient.min = shServer.min
<1>1. ShSettled /\ ~shHist.apart /\ shClient.open
  BY Zenon DEF Alone
<1>2. /\ \A u \in ShUsers : Matches(u)
      /\ shClient.mine = MemberAt(shServer, ShMe).flags
      /\ ~shHist.crossed => shClient.channel = shServer.channel /\ shClient.min = shServer.min
  BY Zenon, <1>1, AtRest
<1>3. \A u \in Rows : u \in ShUsers /\ shServer.rows[u] # {}
  BY Zenon, <1>1, RowIs
<1>4. ASSUME NEW u \in ShUsers, shServer.rows[u] # {}  PROVE u \in Rows
  <2> DEFINE m == MemberAt(shServer, u)
  <2>1. shServer \in ShServers
    BY Zenon DEF ShInv, ShTypes
  <2>2. m = [flags |-> shServer.rows[u], min |-> shServer.min, synthetic |-> FALSE]
    BY Zenon, <1>4, <2>1, MemberOf
  <2>3. m.flags # {} /\ m.synthetic = FALSE
    BY <1>4, <2>2
  <2> HIDE DEF m
  <2>4. shClient.members[u].flags = m.flags /\ shClient.members[u].synthetic = m.synthetic /\ u \in shClient.users
    BY Zenon, <1>2, <2>3 DEF Matches, m
  <2> QED BY <2>3, <2>4 DEF Rows
<1>5. Rows = {u \in ShUsers : shServer.rows[u] # {}}
  BY <1>3, <1>4
<1> QED BY <1>2, <1>5

LEMMA ShareRoles ==
  ASSUME ShInv
  PROVE  MembersFollow /\ RolesAgree
<1>1. shServer \in ShServers /\ ShMe \in ShUsers /\ shClient.mine \in ShFlags /\ shClient.min \in Minimum
  <2>1. ShMe \in ShUsers
    BY ShAssumption
  <2>2. ShTypes
    BY Zenon DEF ShInv
  <2> QED BY Zenon, <2>1, <2>2, ClientTypes
<1> SUFFICES ASSUME Alone  PROVE MembersFollow /\ RolesAgree
  BY Zenon DEF MembersFollow, RolesAgree
<1>2. /\ \A u \in ShUsers : Matches(u)
      /\ Rows = {u \in ShUsers : shServer.rows[u] # {}}
      /\ shClient.mine = MemberAt(shServer, ShMe).flags
      /\ ~shHist.crossed => shClient.channel = shServer.channel /\ shClient.min = shServer.min
  BY Zenon, ShareFollows
<1>3. MembersFollow
  BY Zenon, <1>2 DEF MembersFollow, Matches, BoardOf
<1>4. ~shHist.crossed => ClientCan(shClient.mine, shClient.min) = Can(shServer, ShMe)
  <2>1. ClientCan(shClient.mine, shClient.min) = ServerCan(shClient.mine, shClient.min)
    BY Zenon, <1>1, CanTheSame
  <2>2. Can(shServer, ShMe) = ServerCan(MemberAt(shServer, ShMe).flags, shServer.min)
    BY Zenon, <1>1, ManagerOf
  <2> QED BY Zenon, <1>2, <2>1, <2>2
<1>5. ASSUME ~shHist.undone, NEW u \in Rows  PROVE CanAs(RoleShown(shClient.members[u])) = Can(shServer, u)
  <2> DEFINE m == MemberAt(shServer, u)
  <2>1. u \in ShUsers /\ shServer.rows[u] # {}
    BY <1>2
  <2>2. shClient.members[u].flags # {} /\ ~shClient.members[u].synthetic
    BY DEF Rows
  <2>3. m.flags = shClient.members[u].flags /\ m.synthetic = shClient.members[u].synthetic
    BY Zenon, <1>2, <2>1 DEF Matches
  <2>4. m.flags # {} /\ ~m.synthetic
    BY Zenon, <2>2, <2>3
  <2>5. CanAs(RoleShown(shClient.members[u])) = ServerCan(m.flags, shServer.min)
    BY Zenon, <1>2, <1>5, <2>1, <2>4 DEF Matches
  <2>6. Can(shServer, u) = ServerCan(m.flags, shServer.min)
    BY Zenon, <1>1, <2>1, ManagerOf
  <2> QED BY Zenon, <2>5, <2>6
<1> QED BY Zenon, <1>3, <1>4, <1>5 DEF RolesAgree

LEMMA ShareUndone ==
  ASSUME ShInv
  PROVE  MembershipUndone
<1> SUFFICES ASSUME Alone, shHist.back # <<>>
             PROVE  LET was == shHist.back[1] IN
                    shServer.rows = was.rows /\ shServer.channel = was.channel /\ shServer.min = was.min
  BY Zenon DEF MembershipUndone
<1>1. Coming = shServer /\ UndoneInv
  BY Zenon, AtRest DEF Alone, ShInv
<1>2. shHist.back \in Seq(ShServers)
  <2>1. shHist \in ShPasts
    BY Zenon DEF ShInv, ShTypes
  <2> QED BY <2>1 DEF ShPasts
<1>3. 1 \in DOMAIN shHist.back
  BY <1>2
<1>4. SameBoard(shServer, shHist.back[1])
  BY Zenon, <1>1, <1>3 DEF UndoneInv
<1> QED BY <1>4 DEF SameBoard

LEMMA ShareLinks ==
  ASSUME ShInv
  PROVE  LinkWorks
<1>1. Alone /\ LinkShown => shServer.link = shClient.link
  BY Zenon, AtRest DEF Alone, LinkShown
<1>2. ~shHist.apart /\ shHist.kept # 0 => shServer.link.token = shHist.kept
  BY Zenon DEF ShInv, ShareLinkInv
<1> QED BY <1>1, <1>2 DEF LinkWorks

LEMMA ShareShown ==
  ASSUME ShInv
  PROVE  ShTypeOK /\ MembersFollow /\ RolesAgree /\ MembershipUndone /\ LinkWorks
BY ShareTypes, ShareRoles, ShareUndone, ShareLinks
=============================================================================
