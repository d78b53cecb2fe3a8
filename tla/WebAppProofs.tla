---------------------------- MODULE WebAppProofs ----------------------------
(***************************************************************************)
(* Proofs about the parts of the web application, one after the other: for  *)
(* each an invariant that its steps keep, what follows from it, and the     *)
(* theorem about WebSpec.  The lemmas about the panel and the tour are in   *)
(* WebPartsProofs, those about sharing in SharingProofs.                    *)
(***************************************************************************)
EXTENDS WebApp, WebPartsProofs, SharingProofs, TLAPS

(***************************************************************************)
(* The current team.                                                        *)
(***************************************************************************)
TeamOf    == ToSet(LdTeams)
TeamOrNot == ToSet(LdTeams) \cup {NoTeam}
ReadSets  == SUBSET Reads
TeamSets  == SUBSET TeamOf
BoardsOf  == TeamOrNot \cup {"empty"}
LdLoads   == [team : TeamOrNot, reads : ReadSets, me : Flags, current : Flags, teams : TeamSets, boards : BoardsOf]
LdKinds   == {"away", "home", "team", "error", "login"}
LdAsks    == SUBSET {"me", "teams"}
LdErrors  == {"", "unknown", "not-logged-in", "team-undefined"}
LdPasts   == [clicks : Int, faults : Int, torn : Flags, swapped : Flags, clean : Flags]

LdTypes ==
  /\ ldServer \in [session : Flags, teams : TeamSets]
  /\ ldBrowser \in [kind : LdKinds, team : TeamOrNot, error : LdErrors, effects : Flags, asks : LdAsks, last : TeamOrNot]
  /\ ldMM \in [team : TeamOrNot, prev : TeamOrNot]
  /\ ldClient \in TeamOrNot
  /\ ldStore \in [id : TeamOrNot, team : TeamOrNot, boards : BoardsOf, teams : TeamSets,
                  loggedIn : {"unknown", "yes", "no"}, error : LdErrors]
  /\ ldReqs \in Seq(LdLoads) /\ Len(ldReqs) <= LdMaxLoads
  /\ ldPast \in LdPasts

\* The store, the client and Mattermost have one team, and so has a page that
\* has run its effects.
OneTeam ==
  /\ ldStore.id # NoTeam => ldClient = ldStore.id /\ ldMM.team = ldStore.id /\ ldMM.prev = ldStore.id
  /\ ldBrowser.kind = "team" => ldBrowser.team # NoTeam
  /\ ldBrowser.kind = "team" /\ ~ldBrowser.effects => ldStore.id = ldBrowser.team /\ ldBrowser.last = ldBrowser.team

\* A load that no change has split is not begun, or is answered as a whole.
Whole(r) ==
  \/ r.reads = Reads /\ ~r.current
  \/ r.reads = {} /\ (r.me /\ r.current => r.boards = r.team)
LoadsWhole == ~ldPast.torn => \A i \in DOMAIN ldReqs : Whole(ldReqs[i])

\* The last load is the one of the team on the page.
LastLoad ==
  ~ldPast.torn /\ ~ldPast.swapped /\ ldBrowser.kind = "team" /\ ~ldBrowser.effects /\ ldStore.error = "" =>
    IF ldReqs = <<>> THEN ldStore.boards = ldBrowser.team /\ ldStore.team = ldBrowser.team
    ELSE ldReqs[Len(ldReqs)].team = ldBrowser.team

\* As long as nothing went wrong every team that is kept is one of the user's.
NothingRefused ==
  ldPast.clean =>
    /\ ldServer.session /\ ldStore.loggedIn # "no" /\ ldStore.error = "" /\ ldBrowser.kind # "error"
    /\ ldStore.teams \subseteq ldServer.teams
    /\ ldBrowser.kind = "team" => ldBrowser.team \in ldServer.teams
    /\ ldBrowser.last # NoTeam => ldBrowser.last \in ldServer.teams
    /\ ldMM.team # NoTeam => ldMM.team \in ldServer.teams
    /\ \A i \in DOMAIN ldReqs : ldReqs[i].reads = Reads /\ ldReqs[i].team \in ldServer.teams

TeamInv == LdTypes /\ OneTeam /\ LoadsWhole /\ EmptyIsNotStored /\ LastLoad /\ NothingRefused

----------------------------------------------------------------------------
\* The first of some teams is one of them.
LEMMA FirstTeamIsOne ==
  ASSUME NEW teams \in SUBSET TeamOf, teams # {}
  PROVE  FirstTeam(teams) \in teams
<1> DEFINE I == {i \in 1..Len(LdTeams) : LdTeams[i] \in teams}
<1>0. LdTeams \in Seq(TeamOf)
  BY Zenon, LdAssumption DEF TeamOf
<1>1. Len(LdTeams) \in Nat
  BY <1>0
<1>2. I # {}
  <2>1. PICK t \in teams : TRUE
    OBVIOUS
  <2>2. t \in ToSet(LdTeams)
    BY DEF TeamOf
  <2>3. PICK i \in DOMAIN LdTeams : LdTeams[i] = t
    BY <2>2 DEF ToSet, Range
  <2> QED BY <2>1, <2>3, <1>0
<1>3. \E m \in I : \A a \in I : m <= a
  <2>1. I \in SUBSET (0..Len(LdTeams))
    BY <1>1
  <2> HIDE DEF I
  <2> QED BY <1>1, <1>2, <2>1, FirstPlace
<1>4. Min(I) \in I
  BY <1>3 DEF Min
<1>5. SelectInSeq(LdTeams, LAMBDA t : t \in teams) = Min(I)
  BY <1>2 DEF SelectInSeq
<1> QED
  BY <1>4, <1>5 DEF FirstTeam

\* A load as it is sent is one, and not begun.
LEMMA LoadIsFresh ==
  ASSUME NEW t \in TeamOrNot
  PROVE  Load(t) \in LdLoads /\ Load(t).reads = Reads /\ Load(t).team = t /\ ~Load(t).current
BY FlagsAre DEF Load, LdLoads, ReadSets, TeamSets, BoardsOf, TeamOrNot, Reads

\* One load of a team is sent, or two are: the last one is of that team, and
\* those before stay.
LoadsSent(t) ==
  /\ ldReqs' \in Seq(LdLoads) /\ Len(ldReqs') <= LdMaxLoads /\ ldReqs' # <<>>
  /\ ldReqs'[Len(ldReqs')] = Load(t)
  /\ \A i \in DOMAIN ldReqs' : ldReqs'[i] = Load(t) \/ (i \in DOMAIN ldReqs /\ ldReqs'[i] = ldReqs[i])
LEMMA OneLoadSent ==
  ASSUME LdTypes, NEW t \in TeamOrNot, SendLoads(<<Load(t)>>)
  PROVE  LoadsSent(t)
<1> DEFINE x == Load(t)
<1>1. x \in LdLoads
  BY LoadIsFresh
<1>2. ldReqs \in Seq(LdLoads) /\ LdMaxLoads \in Nat
  BY LdAssumption DEF LdTypes
<1>3. ldReqs' = ldReqs \o <<x>> /\ Len(ldReqs) + Len(<<x>>) <= LdMaxLoads
  BY DEF SendLoads
<1> HIDE DEF x
<1> QED BY <1>1, <1>2, <1>3 DEF LoadsSent, x
LEMMA TwoLoadsSent ==
  ASSUME LdTypes, NEW t \in TeamOrNot, SendLoads(<<Load(t), Load(t)>>)
  PROVE  LoadsSent(t)
<1> DEFINE x == Load(t)
<1>1. x \in LdLoads
  BY LoadIsFresh
<1>2. ldReqs \in Seq(LdLoads) /\ LdMaxLoads \in Nat
  BY LdAssumption DEF LdTypes
<1>3. ldReqs' = ldReqs \o <<x, x>> /\ Len(ldReqs) + Len(<<x, x>>) <= LdMaxLoads
  BY DEF SendLoads
<1> HIDE DEF x
<1> QED BY <1>1, <1>2, <1>3 DEF LoadsSent, x

\* What more loads of a team leave of the invariant.
LEMMA SentWhole ==
  ASSUME LoadsWhole, NEW t \in TeamOrNot, LoadsSent(t), ldPast'.torn = ldPast.torn
  PROVE  LoadsWhole'
BY LoadIsFresh DEF LoadsWhole, LoadsSent, Whole
LEMMA SentOfMine ==
  ASSUME NEW t \in TeamOrNot, LoadsSent(t), t \in ldServer.teams,
         \A i \in DOMAIN ldReqs : ldReqs[i].reads = Reads /\ ldReqs[i].team \in ldServer.teams
  PROVE  \A i \in DOMAIN ldReqs' : ldReqs'[i].reads = Reads /\ ldReqs'[i].team \in ldServer.teams
BY LoadIsFresh DEF LoadsSent

\* One load is taken out of those under way.
LEMMA LoadGone ==
  ASSUME LdTypes, NEW i \in DOMAIN ldReqs, ldReqs' = RemoveAt(ldReqs, i)
  PROVE  /\ ldReqs' \in Seq(LdLoads) /\ Len(ldReqs') = Len(ldReqs) - 1
         /\ \A j \in DOMAIN ldReqs' : \E k \in DOMAIN ldReqs : ldReqs'[j] = ldReqs[k]
         /\ ldReqs[i] \in LdLoads
         /\ i = 1 /\ ldReqs' # <<>> => ldReqs'[Len(ldReqs')] = ldReqs[Len(ldReqs)]
<1>1. ldReqs \in Seq(LdLoads)
  BY DEF LdTypes
<1>2. ldReqs' \in Seq(LdLoads)
  BY <1>1, RemoveAtType
<1>3. /\ Len(ldReqs') = Len(ldReqs) - 1
      /\ \A j \in 1..Len(ldReqs') : ldReqs'[j] = IF j < i THEN ldReqs[j] ELSE ldReqs[j + 1]
  BY <1>1, RemoveAtPlaces
<1>4. \A j \in DOMAIN ldReqs' : \E k \in DOMAIN ldReqs : ldReqs'[j] = ldReqs[k]
  BY <1>1, RemoveAtElements
<1>5. ASSUME i = 1, ldReqs' # <<>> PROVE ldReqs'[Len(ldReqs')] = ldReqs[Len(ldReqs)]
  BY <1>1, <1>2, <1>3, <1>5
<1> QED BY <1>1, <1>2, <1>3, <1>4, <1>5

\* An answer has the lists of its load's team or none, and answered as a whole a
\* load that is not refused has its lists.
LEMMA AnswerType ==
  ASSUME LdTypes, NEW r \in LdLoads, NEW reads \in SUBSET r.reads, NEW fails
  PROVE  ReadAnswered(r, reads, fails) \in LdLoads /\ ReadAnswered(r, reads, fails).team = r.team
<1> DEFINE served == {read \in reads : ldServer.session /\ read # fails}
           inTeam == r.team \in ldServer.teams
           rest == r.reads \ reads
           me == r.me \/ "me" \in served
           current == r.current \/ ("team" \in served /\ inTeam)
           teams == IF "teams" \in served THEN ldServer.teams ELSE r.teams
           boards == IF "boards" \notin reads THEN r.boards
                     ELSE IF "boards" \in served /\ inTeam THEN r.team ELSE "empty"
<1>1. ReadAnswered(r, reads, fails) =
        [r EXCEPT !.reads = rest, !.me = me, !.current = current, !.teams = teams, !.boards = boards]
  BY Zenon DEF ReadAnswered
<1>2. \A x, y : (x \/ y) \in Flags
  BY Zenon DEF Flags
<1>3. ldServer.teams \in TeamSets
  BY DEF LdTypes
<1>4. r.team \in TeamOrNot /\ r.reads \in ReadSets /\ r.teams \in TeamSets /\ r.boards \in BoardsOf
  BY DEF LdLoads
<1>5. rest \in ReadSets /\ teams \in TeamSets /\ boards \in BoardsOf
  BY <1>3, <1>4 DEF ReadSets, BoardsOf
<1>6. me \in Flags /\ current \in Flags
  BY <1>2
<1> HIDE DEF served, inTeam, rest, me, current, teams, boards
<1>7. [r EXCEPT !.reads = rest, !.me = me, !.current = current, !.teams = teams, !.boards = boards] \in LdLoads
  BY <1>5, <1>6 DEF LdLoads
<1>8. [r EXCEPT !.reads = rest, !.me = me, !.current = current, !.teams = teams, !.boards = boards].team = r.team
  BY DEF LdLoads
<1> QED BY <1>1, <1>7, <1>8

\* What was answered as a whole is whole, and no load of the lists of a team is
\* taken without them.
LEMMA AnswerWhole ==
  ASSUME LdTypes, NEW r \in LdLoads, Whole(r), NEW reads \in {{}, r.reads}
  PROVE  Whole(ReadAnswered(r, reads, ""))
<1> DEFINE a == ReadAnswered(r, reads, "")
<1>1. CASE reads = {}
  <2>1. a.reads = r.reads /\ a.team = r.team /\ a.boards = r.boards
    BY <1>1 DEF ReadAnswered, LdLoads
  <2>2. (a.me <=> r.me) /\ (a.current <=> r.current)
    BY <1>1 DEF ReadAnswered, LdLoads
  <2> QED BY <2>1, <2>2 DEF Whole
<1>2. CASE reads = r.reads /\ r.reads = Reads /\ ~r.current
  <2>1. a.reads = {} /\ a.team = r.team
    BY <1>2 DEF ReadAnswered, LdLoads
  <2>2. ldServer.session /\ r.team \in ldServer.teams => a.boards = r.team
    BY <1>2 DEF ReadAnswered, LdLoads, Reads
  <2>3. a.current => (ldServer.session /\ r.team \in ldServer.teams)
    BY <1>2 DEF ReadAnswered, LdLoads, Reads
  <2> QED BY <2>1, <2>2, <2>3 DEF Whole
<1> QED BY <1>1, <1>2 DEF Whole

----------------------------------------------------------------------------
\* A click and a fault, as the history keeps them.
LEMMA ClickKept ==
  ASSUME LdTypes, NEW clean, LdClick(clean)
  PROVE  /\ ldPast' \in LdPasts /\ ldPast'.torn = ldPast.torn /\ ldPast'.swapped = ldPast.swapped
         /\ ldPast'.clean => ldPast.clean /\ clean
<1> DEFINE still == ldPast.clean /\ clean
<1>1. ldPast' = [ldPast EXCEPT !.clicks = @ + 1, !.clean = still]
  BY DEF LdClick
<1>2. still \in Flags
  BY Zenon DEF Flags
<1> HIDE DEF still
<1>3. ldPast \in LdPasts
  BY DEF LdTypes
<1>7. ldPast.clicks + 1 \in Int
  BY <1>3 DEF LdPasts
<1>4. ldPast' \in LdPasts
  <2> DEFINE n == ldPast.clicks + 1
  <2>1. ldPast' = [ldPast EXCEPT !.clicks = n, !.clean = still] /\ n \in Int
    BY <1>1, <1>7
  <2> HIDE DEF n
  <2> QED BY <2>1, <1>2, <1>3 DEF LdPasts
<1>5. ldPast'.torn = ldPast.torn /\ ldPast'.swapped = ldPast.swapped
  BY <1>1, <1>3 DEF LdPasts
<1>6. ldPast'.clean = still
  BY <1>1, <1>3 DEF LdPasts
<1> QED BY <1>4, <1>5, <1>6 DEF still
LEMMA FaultKept ==
  ASSUME LdTypes, LdFault
  PROVE  ldPast' \in LdPasts /\ ldPast'.torn /\ ~ldPast'.clean /\ ldPast'.swapped = ldPast.swapped
<1>1. ldPast \in LdPasts /\ TRUE \in Flags /\ FALSE \in Flags
  BY FlagsAre DEF LdTypes
<1>2. ldPast' = [ldPast EXCEPT !.faults = @ + 1, !.torn = TRUE, !.clean = FALSE]
  BY DEF LdFault
<1>3. ldPast' \in LdPasts
  <2> DEFINE n == ldPast.faults + 1
             yes == TRUE
             no == FALSE
  <2>1. n \in Int
    BY <1>1 DEF LdPasts
  <2>3. yes \in Flags /\ no \in Flags
    BY <1>1
  <2>2. ldPast' = [ldPast EXCEPT !.faults = n, !.torn = yes, !.clean = no]
    BY <1>2
  <2> HIDE DEF n, yes, no
  <2> QED BY <1>1, <2>1, <2>2, <2>3 DEF LdPasts
<1>4. ldPast'.torn = TRUE /\ ldPast'.clean = FALSE /\ ldPast'.swapped = ldPast.swapped
  BY <1>1, <1>2 DEF LdPasts
<1> QED BY <1>3, <1>4

\* A step that makes something torn and no longer clean has little to keep.
LEMMA TornKept ==
  ASSUME ldPast'.torn, ~ldPast'.clean
  PROVE  LoadsWhole' /\ EmptyIsNotStored' /\ LastLoad' /\ NothingRefused'
BY DEF LoadsWhole, EmptyIsNotStored, LastLoad, NothingRefused

\* The home page is shown.
LEMMA OpenBoardsStep ==
  ASSUME TeamInv, OpenBoards
  PROVE  TeamInv'
<1> USE DEF TeamInv
<1>1. /\ ldPast' \in LdPasts /\ ldPast'.torn = ldPast.torn /\ ldPast'.swapped = ldPast.swapped
      /\ ldPast'.clean => ldPast.clean
  BY ClickKept DEF OpenBoards
<1>51. LdTypes'
  BY <1>1, FlagsAre DEF OpenBoards, LdTypes, LdKinds, LdErrors, LdAsks, AppAsks
<1>52. OneTeam'
  BY <1>1 DEF OpenBoards, OneTeam, LdTypes, AppAsks
<1>53. LoadsWhole'
  BY <1>1 DEF OpenBoards, LoadsWhole, AppAsks
<1>54. EmptyIsNotStored'
  BY <1>1 DEF OpenBoards, EmptyIsNotStored, LdTypes, AppAsks
<1>55. LastLoad'
  BY <1>1 DEF OpenBoards, LastLoad, LdTypes, AppAsks
<1>56. NothingRefused'
  BY <1>1 DEF OpenBoards, NothingRefused, LdTypes, AppAsks
<1> QED BY <1>51, <1>52, <1>53, <1>54, <1>55, <1>56

\* A link to a board of a team.
LEMMA FollowLinkStep ==
  ASSUME TeamInv, FollowLink
  PROVE  TeamInv'
<1> USE DEF TeamInv
<1>1. PICK t \in TeamOf :
        /\ ldBrowser' = [ldBrowser EXCEPT !.kind = "team", !.team = t, !.error = "", !.effects = TRUE, !.asks = AppAsks]
        /\ LdClick(t \in ldServer.teams)
  BY DEF FollowLink, TeamOf
<1> DEFINE mine == t \in ldServer.teams
<1>2. /\ ldPast' \in LdPasts /\ ldPast'.torn = ldPast.torn /\ ldPast'.swapped = ldPast.swapped
      /\ ldPast'.clean => ldPast.clean /\ mine
  <2>1. LdClick(mine)
    BY <1>1
  <2> HIDE DEF mine
  <2> QED BY <2>1, ClickKept
<1>3. t # NoTeam /\ t \in TeamOrNot
  BY LdAssumption DEF TeamOf, TeamOrNot, NoTeam
<1>51. LdTypes'
  BY <1>1, <1>2, <1>3, FlagsAre DEF FollowLink, LdTypes, LdKinds, LdErrors, LdAsks, AppAsks
<1>52. OneTeam'
  BY <1>1, <1>2, <1>3 DEF FollowLink, OneTeam, LdTypes, AppAsks
<1>53. LoadsWhole'
  BY <1>1, <1>2, <1>3 DEF FollowLink, LoadsWhole, AppAsks
<1>54. EmptyIsNotStored'
  BY <1>1, <1>2, <1>3 DEF FollowLink, EmptyIsNotStored, LdTypes, AppAsks
<1>55. LastLoad'
  BY <1>1, <1>2, <1>3 DEF FollowLink, LastLoad, LdTypes, AppAsks
<1>56. NothingRefused'
  BY <1>1, <1>2, <1>3 DEF FollowLink, NothingRefused, LdTypes, AppAsks
<1> QED BY <1>51, <1>52, <1>53, <1>54, <1>55, <1>56

\* The way from a page that needs a login.
LEMMA LoginRedirectStep ==
  ASSUME TeamInv, LoginRedirect
  PROVE  TeamInv'
<1> USE DEF TeamInv
<1>51. LdTypes'
  BY FlagsAre DEF LoginRedirect, LdTypes, LdKinds, LdErrors, LdAsks
<1>52. OneTeam'
  BY DEF LoginRedirect, OneTeam, LdTypes
<1>53. LoadsWhole'
  BY DEF LoginRedirect, LoadsWhole
<1>54. EmptyIsNotStored'
  BY DEF LoginRedirect, EmptyIsNotStored, LdTypes
<1>55. LastLoad'
  BY DEF LoginRedirect, LastLoad, LdTypes
<1>56. NothingRefused'
  BY DEF LoginRedirect, NothingRefused, LdTypes
<1> QED BY <1>51, <1>52, <1>53, <1>54, <1>55, <1>56

\* The error of a refused load.
LEMMA GlobalErrorRedirectStep ==
  ASSUME TeamInv, GlobalErrorRedirect
  PROVE  TeamInv'
<1> USE DEF TeamInv
<1>51. LdTypes'
  BY FlagsAre DEF GlobalErrorRedirect, LdTypes, LdKinds, LdErrors, LdAsks
<1>52. OneTeam'
  BY DEF GlobalErrorRedirect, OneTeam, LdTypes
<1>53. LoadsWhole'
  BY DEF GlobalErrorRedirect, LoadsWhole
<1>54. EmptyIsNotStored'
  BY DEF GlobalErrorRedirect, EmptyIsNotStored, LdTypes
<1>55. LastLoad'
  BY DEF GlobalErrorRedirect, LastLoad, LdTypes
<1>56. NothingRefused'
  BY DEF GlobalErrorRedirect, NothingRefused, LdTypes
<1> QED BY <1>51, <1>52, <1>53, <1>54, <1>55, <1>56

\* The way from the error page to the start.
LEMMA GoHomeStep ==
  ASSUME TeamInv, GoHome
  PROVE  TeamInv'
<1> USE DEF TeamInv
<1>51. LdTypes'
  BY FlagsAre DEF GoHome, LdTypes, LdKinds, LdErrors, LdAsks
<1>52. OneTeam'
  BY DEF GoHome, OneTeam, LdTypes
<1>53. LoadsWhole'
  BY DEF GoHome, LoadsWhole
<1>54. EmptyIsNotStored'
  BY DEF GoHome, EmptyIsNotStored, LdTypes
<1>55. LastLoad'
  BY DEF GoHome, LastLoad, LdTypes
<1>56. NothingRefused'
  BY DEF GoHome, NothingRefused, LdTypes
<1> QED BY <1>51, <1>52, <1>53, <1>54, <1>55, <1>56

\* The way from the error page to the login.
LEMMA GoToLoginStep ==
  ASSUME TeamInv, GoToLogin
  PROVE  TeamInv'
<1> USE DEF TeamInv
<1>51. LdTypes'
  BY FlagsAre DEF GoToLogin, LdTypes, LdKinds, LdErrors, LdAsks
<1>52. OneTeam'
  BY DEF GoToLogin, OneTeam, LdTypes
<1>53. LoadsWhole'
  BY DEF GoToLogin, LoadsWhole
<1>54. EmptyIsNotStored'
  BY DEF GoToLogin, EmptyIsNotStored, LdTypes
<1>55. LastLoad'
  BY DEF GoToLogin, LastLoad, LdTypes
<1>56. NothingRefused'
  BY DEF GoToLogin, NothingRefused, LdTypes
<1> QED BY <1>51, <1>52, <1>53, <1>54, <1>55, <1>56

\* The start leads to a team that is one of the user's.
LEMMA HomeToCurrentTeamStep ==
  ASSUME TeamInv, HomeToCurrentTeam
  PROVE  TeamInv'
<1> USE DEF TeamInv
<1> DEFINE t == HomeTeam
<1>1. t # NoTeam /\ ldBrowser' = [ldBrowser EXCEPT !.kind = "team", !.team = t, !.effects = TRUE]
  BY DEF HomeToCurrentTeam
<1>2. t \in TeamOrNot /\ (ldPast.clean => t \in ldServer.teams)
  <2>1. CASE ldMM.team # NoTeam
    BY <2>1 DEF LdTypes, NothingRefused, HomeTeam
  <2>2. CASE ldMM.team = NoTeam /\ ldBrowser.last # NoTeam
    BY <2>2 DEF LdTypes, NothingRefused, HomeTeam
  <2>3. CASE ldMM.team = NoTeam /\ ldBrowser.last = NoTeam
    <3>1. ldStore.teams # {}
      BY <1>1, <2>3 DEF FirstTeam, HomeTeam
    <3>2. t \in ldStore.teams /\ ldStore.teams \subseteq TeamOf
      BY <2>3, <3>1, FirstTeamIsOne DEF LdTypes, TeamSets, HomeTeam
    <3> QED BY <3>2 DEF NothingRefused, TeamOf, TeamOrNot
  <2> QED BY <2>1, <2>2, <2>3
<1> HIDE DEF t
<1>51. LdTypes'
  BY <1>1, <1>2, FlagsAre DEF HomeToCurrentTeam, LdTypes, LdKinds, LdErrors, LdAsks
<1>52. OneTeam'
  BY <1>1, <1>2 DEF HomeToCurrentTeam, OneTeam, LdTypes
<1>53. LoadsWhole'
  BY <1>1, <1>2 DEF HomeToCurrentTeam, LoadsWhole
<1>54. EmptyIsNotStored'
  BY <1>1, <1>2 DEF HomeToCurrentTeam, EmptyIsNotStored, LdTypes
<1>55. LastLoad'
  BY <1>1, <1>2 DEF HomeToCurrentTeam, LastLoad, LdTypes
<1>56. NothingRefused'
  BY <1>1, <1>2 DEF HomeToCurrentTeam, NothingRefused, LdTypes
<1> QED BY <1>51, <1>52, <1>53, <1>54, <1>55, <1>56

\* All lists of the team on the page are loaded again.
LEMMA ShowAnotherStep ==
  ASSUME TeamInv, ShowAnother
  PROVE  TeamInv'
<1> USE DEF TeamInv
<1>1. LoadsSent(ldClient) /\ ldClient \in TeamOrNot
  BY OneLoadSent DEF ShowAnother, LdTypes
<1>2. /\ ldPast' \in LdPasts /\ ldPast'.torn = ldPast.torn /\ ldPast'.swapped = ldPast.swapped
      /\ ldPast'.clean => ldPast.clean
  BY ClickKept DEF ShowAnother
<1>3. UNCHANGED <<ldServer, ldBrowser, ldMM, ldClient, ldStore>> /\ ldBrowser.kind = "team" /\ ldClient = ldBrowser.team
  BY DEF ShowAnother, OneTeam, NoTeam
<1>4. Load(ldClient).team = ldClient
  BY <1>1, LoadIsFresh
<1>51. LdTypes'
  BY <1>1, <1>2, <1>3 DEF LdTypes, LoadsSent
<1>52. OneTeam'
  BY <1>3 DEF OneTeam
<1>53. LoadsWhole'
  BY <1>1, <1>2, SentWhole
<1>54. EmptyIsNotStored'
  BY <1>2, <1>3 DEF EmptyIsNotStored
<1>55. LastLoad'
  BY <1>1, <1>3, <1>4 DEF LastLoad, LoadsSent
<1>56. NothingRefused'
  <2> SUFFICES ASSUME ldPast'.clean PROVE NothingRefused'
    BY DEF NothingRefused
  <2>1. ldPast.clean /\ ldClient \in ldServer.teams
    BY <1>2, <1>3 DEF NothingRefused
  <2>2. \A i \in DOMAIN ldReqs' : ldReqs'[i].reads = Reads /\ ldReqs'[i].team \in ldServer.teams
    BY <1>1, <2>1, SentOfMine DEF NothingRefused
  <2> QED BY <1>3, <2>1, <2>2 DEF NothingRefused
<1> QED BY <1>51, <1>52, <1>53, <1>54, <1>55, <1>56

\* The teams of the home page.
LEMMA FetchTeamsStep ==
  ASSUME TeamInv, FetchTeams
  PROVE  TeamInv'
<1> USE DEF TeamInv
<1>1. ldPast' \in LdPasts
  BY FaultKept DEF FetchTeams, LdTypes
<1>2. ldPast' = ldPast \/ (ldPast'.torn /\ ~ldPast'.clean)
  BY FaultKept DEF FetchTeams
<1>3. ldBrowser' = [ldBrowser EXCEPT !.asks = @ \ {"teams"}] /\ UNCHANGED <<ldServer, ldMM, ldClient, ldReqs>>
  BY DEF FetchTeams
<1>4. \/ ldStore' = [ldStore EXCEPT !.teams = IF ldServer.session THEN ldServer.teams ELSE {}] /\ ldPast' = ldPast
      \/ ldPast'.torn /\ ~ldPast'.clean /\ ldStore' \in {ldStore, [ldStore EXCEPT !.teams = {}]}
  BY FaultKept DEF FetchTeams
<1>5. \E teams \in TeamSets : ldStore' = [ldStore EXCEPT !.teams = teams]
  <2>1. {} \in TeamSets /\ ldServer.teams \in TeamSets /\ ldStore.teams \in TeamSets
    BY DEF LdTypes, TeamSets
  <2>2. ldStore = [ldStore EXCEPT !.teams = ldStore.teams]
    BY DEF LdTypes
  <2> QED BY <1>4, <2>1, <2>2
<1>51. LdTypes'
  BY <1>1, <1>3, <1>5 DEF LdTypes, LdAsks
<1>52. OneTeam'
  BY <1>3, <1>5 DEF OneTeam, LdTypes
<1>53. LoadsWhole'
  BY <1>2, <1>3 DEF LoadsWhole
<1>54. EmptyIsNotStored'
  BY <1>2, <1>5 DEF EmptyIsNotStored, LdTypes
<1>55. LastLoad'
  BY <1>2, <1>3, <1>5 DEF LastLoad, LdTypes
<1>56. NothingRefused'
  <2> SUFFICES ASSUME ldPast'.clean PROVE NothingRefused'
    BY DEF NothingRefused
  <2>1. ldPast.clean /\ ldStore' = [ldStore EXCEPT !.teams = ldServer.teams]
    BY <1>2, <1>4 DEF NothingRefused
  <2> QED BY <1>3, <2>1 DEF NothingRefused, LdTypes
<1> QED BY <1>51, <1>52, <1>53, <1>54, <1>55, <1>56

\* The user of the page, and the lists of the page again.
LEMMA FetchMeStep ==
  ASSUME TeamInv, FetchMe
  PROVE  TeamInv'
<1> USE DEF TeamInv
<1>1. ldPast' \in LdPasts /\ (ldPast' = ldPast \/ (ldPast'.torn /\ ~ldPast'.clean))
  BY FaultKept DEF FetchMe, LdTypes
<1>2. ldBrowser' = [ldBrowser EXCEPT !.asks = @ \ {"me"}] /\ UNCHANGED <<ldServer, ldMM, ldClient>>
  BY DEF FetchMe
<1>3. PICK in \in {"yes", "no"} :
        /\ ldStore' = [ldStore EXCEPT !.loggedIn = in]
        /\ in = "no" => ~ldServer.session \/ ~ldPast'.clean
  <2>1. CASE ldStore' = [ldStore EXCEPT !.loggedIn = "yes"]
    BY <2>1
  <2>2. CASE ldStore' = [ldStore EXCEPT !.loggedIn = "no"] /\ (IF ldServer.session THEN LdFault ELSE UNCHANGED ldPast)
    BY <2>2, FaultKept
  <2> QED BY <2>1, <2>2 DEF FetchMe
<1>4. ldReqs' = ldReqs \/ (LoadsSent(ldClient) /\ ldBrowser.kind = "team" /\ ~ldBrowser.effects /\ ldPast' = ldPast)
  BY OneLoadSent DEF FetchMe, LdTypes
<1>5. /\ ldBrowser.kind = "team" /\ ~ldBrowser.effects => ldClient = ldBrowser.team
      /\ ldClient \in TeamOrNot /\ Load(ldClient).team = ldClient
  BY LoadIsFresh DEF OneTeam, NoTeam, LdTypes
<1>51. LdTypes'
  BY <1>1, <1>2, <1>3, <1>4 DEF LdTypes, LdAsks, LoadsSent
<1>52. OneTeam'
  BY <1>2, <1>3 DEF OneTeam, LdTypes
<1>53. LoadsWhole'
  BY <1>1, <1>4, <1>5, SentWhole DEF LoadsWhole
<1>54. EmptyIsNotStored'
  BY <1>1, <1>3 DEF EmptyIsNotStored, LdTypes
<1>55. LastLoad'
  <2>1. CASE ldReqs' = ldReqs
    BY <2>1, <1>1, <1>2, <1>3 DEF LastLoad, LdTypes
  <2>2. CASE LoadsSent(ldClient) /\ ldBrowser.kind = "team" /\ ~ldBrowser.effects
    BY <2>2, <1>2, <1>5 DEF LastLoad, LdTypes, LoadsSent
  <2> QED BY <1>4, <2>1, <2>2
<1>56. NothingRefused'
  <2> SUFFICES ASSUME ldPast'.clean PROVE NothingRefused'
    BY DEF NothingRefused
  <2>1. ldPast.clean /\ ldPast' = ldPast /\ in = "yes"
    BY <1>1, <1>3 DEF NothingRefused
  <2>2. \A i \in DOMAIN ldReqs' : ldReqs'[i].reads = Reads /\ ldReqs'[i].team \in ldServer.teams
    BY <1>4, <1>5, <2>1, SentOfMine DEF NothingRefused
  <2> QED BY <1>2, <1>3, <2>1, <2>2 DEF NothingRefused, LdTypes
<1> QED BY <1>51, <1>52, <1>53, <1>54, <1>55, <1>56

\* The team of the page goes to the other places.
LEMMA RunEffectsStep ==
  ASSUME TeamInv, RunEffects
  PROVE  TeamInv'
<1> USE DEF TeamInv
<1> DEFINE t == ldBrowser.team
<1>1. t \in TeamOrNot /\ t # NoTeam /\ ldBrowser.effects /\ ldBrowser.kind = "team"
  BY DEF RunEffects, OneTeam, LdTypes
<1>2. LoadsSent(t) /\ Load(t).team = t
  BY <1>1, OneLoadSent, TwoLoadsSent, LoadIsFresh DEF RunEffects
<1>3. /\ ldBrowser' = [ldBrowser EXCEPT !.effects = FALSE, !.last = t]
      /\ ldClient' = t /\ UNCHANGED <<ldServer, ldPast>>
      /\ IF ldStore.id # t THEN ldMM' = [team |-> t, prev |-> t] ELSE ldMM' = ldMM
  BY DEF RunEffects, FollowTeam
<1>4. PICK team \in TeamOrNot : ldStore' = [ldStore EXCEPT !.id = t, !.team = team]
  <2>1. (IF t \in ldStore.teams THEN t ELSE ldStore.team) \in TeamOrNot
    BY <1>1 DEF LdTypes
  <2> QED BY <2>1 DEF RunEffects, SetTeam
<1>51. LdTypes'
  <2>1. ldMM' \in [team : TeamOrNot, prev : TeamOrNot]
    BY <1>1, <1>3 DEF LdTypes
  <2>2. ldStore' \in [id : TeamOrNot, team : TeamOrNot, boards : BoardsOf, teams : TeamSets,
                     loggedIn : {"unknown", "yes", "no"}, error : LdErrors]
    BY <1>1, <1>4 DEF LdTypes
  <2>3. ldBrowser' \in [kind : LdKinds, team : TeamOrNot, error : LdErrors, effects : Flags, asks : LdAsks, last : TeamOrNot]
    BY <1>1, <1>3, FlagsAre DEF LdTypes
  <2> QED BY <1>1, <1>2, <1>3, <2>1, <2>2, <2>3 DEF LdTypes, LoadsSent
<1>52. OneTeam'
  BY <1>1, <1>3, <1>4 DEF OneTeam, LdTypes
<1>53. LoadsWhole'
  BY <1>1, <1>2, <1>3, SentWhole
<1>54. EmptyIsNotStored'
  BY <1>3, <1>4 DEF EmptyIsNotStored, LdTypes
<1>55. LastLoad'
  BY <1>1, <1>2, <1>3 DEF LastLoad, LoadsSent, LdTypes
<1>56. NothingRefused'
  <2> SUFFICES ASSUME ldPast'.clean PROVE NothingRefused'
    BY DEF NothingRefused
  <2>1. ldPast.clean /\ t \in ldServer.teams
    BY <1>1, <1>3 DEF NothingRefused
  <2>2. \A i \in DOMAIN ldReqs' : ldReqs'[i].reads = Reads /\ ldReqs'[i].team \in ldServer.teams
    BY <1>1, <1>2, <2>1, SentOfMine DEF NothingRefused
  <2> HIDE DEF TeamInv
  <2>4. NothingRefused /\ LdTypes
    BY DEF TeamInv
  <2>3. ldMM'.team # NoTeam => ldMM'.team \in ldServer.teams
    <3>1. ldMM.team # NoTeam => ldMM.team \in ldServer.teams
      BY <2>1, <2>4 DEF NothingRefused
    <3>2. CASE ldStore.id # t
      BY <1>3, <2>1, <3>2
    <3>3. CASE ldStore.id = t
      BY <1>3, <3>1, <3>3
    <3> QED BY <3>2, <3>3
  <2>5. ldServer' = ldServer /\ ldStore'.loggedIn = ldStore.loggedIn /\ ldStore'.error = ldStore.error /\ ldStore'.teams = ldStore.teams
    BY <1>3, <1>4, <2>4 DEF LdTypes
  <2>6. ldBrowser'.kind = "team" /\ ldBrowser'.team = t /\ ldBrowser'.last = t
    BY <1>1, <1>3, <2>4 DEF LdTypes
  <2> QED BY <2>1, <2>2, <2>3, <2>4, <2>5, <2>6 DEF NothingRefused
<1> QED BY <1>51, <1>52, <1>53, <1>54, <1>55, <1>56

\* A team is selected in Mattermost.
LEMMA SelectTeamStep ==
  ASSUME TeamInv, SelectTeam
  PROVE  TeamInv'
<1> USE DEF TeamInv
<1>1. PICK t \in ldServer.teams :
        /\ LdClick(TRUE) \/ UNCHANGED ldPast
        /\ ldMM' = [team |-> t, prev |-> t]
        /\ ldBrowser' = IF ldMM.prev # NoTeam /\ ldBrowser.kind # "away" /\ ~AtTeam(t)
                        THEN [ldBrowser EXCEPT !.kind = "team", !.team = t, !.error = "", !.effects = TRUE]
                        ELSE ldBrowser
        /\ ldClient' = t /\ SetTeam(t) /\ SendLoads(<<Load(t)>>) /\ UNCHANGED ldServer
  BY DEF SelectTeam
<1>2. t \in TeamOrNot /\ t # NoTeam
  BY LdAssumption DEF LdTypes, TeamSets, TeamOf, TeamOrNot, NoTeam
<1>3. LoadsSent(t) /\ Load(t).team = t
  BY <1>1, <1>2, OneLoadSent, LoadIsFresh
<1>4. /\ ldPast' \in LdPasts /\ ldPast'.torn = ldPast.torn /\ ldPast'.swapped = ldPast.swapped
      /\ ldPast'.clean => ldPast.clean
  BY <1>1, ClickKept DEF LdTypes
<1>5. PICK team \in TeamOrNot : ldStore' = [ldStore EXCEPT !.id = t, !.team = team]
  <2>1. (IF t \in ldStore.teams THEN t ELSE ldStore.team) \in TeamOrNot
    BY <1>2 DEF LdTypes
  <2> QED BY <1>1, <2>1 DEF SetTeam
<1>6. /\ ldBrowser'.kind = "team" => ldBrowser'.team # NoTeam
      /\ ldBrowser'.kind = "team" /\ ~ldBrowser'.effects => ldBrowser'.team = t /\ ldBrowser'.last = t
      /\ ldBrowser'.last = ldBrowser.last /\ ldBrowser'.kind \in {"team", ldBrowser.kind} /\ ldBrowser'.team \in {t, ldBrowser.team}
      /\ ldBrowser' = ldBrowser \/ ldBrowser' = [ldBrowser EXCEPT !.kind = "team", !.team = t, !.error = "", !.effects = TRUE]
  <2>1. CASE ldBrowser' = [ldBrowser EXCEPT !.kind = "team", !.team = t, !.error = "", !.effects = TRUE]
    BY <2>1, <1>2 DEF LdTypes
  <2>2. CASE ldBrowser' = ldBrowser /\ ~(ldMM.prev # NoTeam /\ ldBrowser.kind # "away" /\ ~AtTeam(t))
    BY <2>2 DEF OneTeam, AtTeam, LdTypes
  <2> QED BY <1>1, <2>1, <2>2
<1>7. ldBrowser' \in [kind : LdKinds, team : TeamOrNot, error : LdErrors, effects : Flags, asks : LdAsks, last : TeamOrNot]
  <2>1. ldBrowser \in [kind : LdKinds, team : TeamOrNot, error : LdErrors, effects : Flags, asks : LdAsks, last : TeamOrNot]
    BY DEF LdTypes
  <2> DEFINE kind == "team"
             none == ""
             yes == TRUE
  <2>2. kind \in LdKinds /\ none \in LdErrors /\ yes \in Flags
    BY FlagsAre DEF LdKinds, LdErrors
  <2>3. ldBrowser' = ldBrowser \/ ldBrowser' = [ldBrowser EXCEPT !.kind = kind, !.team = t, !.error = none, !.effects = yes]
    BY <1>6
  <2> HIDE DEF kind, none, yes
  <2> QED BY <1>2, <2>1, <2>2, <2>3
<1>51. LdTypes'
  BY <1>1, <1>2, <1>3, <1>4, <1>5, <1>7 DEF LdTypes, LoadsSent
<1>52. OneTeam'
  BY <1>1, <1>2, <1>5, <1>6 DEF OneTeam, LdTypes
<1>53. LoadsWhole'
  BY <1>2, <1>3, <1>4, SentWhole
<1>54. EmptyIsNotStored'
  BY <1>4, <1>5 DEF EmptyIsNotStored, LdTypes
<1>55. LastLoad'
  BY <1>3, <1>6 DEF LastLoad, LoadsSent, LdTypes
<1>56. NothingRefused'
  <2> SUFFICES ASSUME ldPast'.clean PROVE NothingRefused'
    BY DEF NothingRefused
  <2>1. ldPast.clean
    BY <1>4
  <2>2. \A i \in DOMAIN ldReqs' : ldReqs'[i].reads = Reads /\ ldReqs'[i].team \in ldServer.teams
    BY <1>2, <1>3, <2>1, SentOfMine DEF NothingRefused
  <2> QED BY <1>1, <1>5, <1>6, <2>1, <2>2 DEF NothingRefused, LdTypes
<1> QED BY <1>51, <1>52, <1>53, <1>54, <1>55, <1>56

\* The page is loaded anew.
LEMMA BackToHomeStep ==
  ASSUME TeamInv, BackToHome
  PROVE  TeamInv'
<1> USE DEF TeamInv
<1>1. /\ ldStore' = StoreEmptied /\ ldReqs' = <<>> /\ ldClient' = NoTeam /\ UNCHANGED ldServer
      /\ ldPast' = [ldPast EXCEPT !.clean = ldServer.session]
      /\ ldBrowser' = [ldBrowser EXCEPT !.last = NoTeam, !.kind = "away", !.team = NoTeam, !.error = "", !.effects = FALSE, !.asks = {}]
  BY DEF BackToHome, Reloaded, ForgetLast, LdTypes
<1>2. PICK t \in TeamOrNot :
        ldMM' = [team |-> t, prev |-> NoTeam] /\ (t # NoTeam => t \in ldServer.teams)
  BY DEF BackToHome, Reloaded, LdTypes, TeamSets, TeamOrNot, TeamOf
<1>3. ldReqs' \in Seq(LdLoads) /\ Len(ldReqs') <= LdMaxLoads /\ \A i \in DOMAIN ldReqs' : FALSE
  <2>1. LdMaxLoads \in Nat
    BY LdAssumption
  <2> QED BY <1>1, <2>1
<1>4. NoTeam \in TeamOrNot /\ "empty" # NoTeam
  BY DEF TeamOrNot, NoTeam
<1>5. ldPast' \in LdPasts /\ ldPast'.clean = ldServer.session
  BY <1>1 DEF LdTypes, LdPasts
<1>51. LdTypes'
  BY <1>1, <1>2, <1>3, <1>4, <1>5, FlagsAre DEF LdTypes, LdKinds, LdErrors, LdAsks, StoreEmptied, TeamSets, BoardsOf
<1>52. OneTeam'
  BY <1>1 DEF OneTeam, LdTypes, StoreEmptied
<1>53. LoadsWhole'
  BY <1>1 DEF LoadsWhole
<1>54. EmptyIsNotStored'
  BY <1>1, <1>4 DEF EmptyIsNotStored, StoreEmptied
<1>55. LastLoad'
  BY <1>1 DEF LastLoad, LdTypes
<1>56. NothingRefused'
  <2>1. ldPast'.clean => ldServer'.session
    BY <1>1, <1>5
  <2>2. ldStore'.loggedIn # "no" /\ ldStore'.error = "" /\ ldStore'.teams = {}
    BY <1>1 DEF StoreEmptied
  <2>3. ldBrowser'.kind = "away" /\ ldBrowser'.last = NoTeam
    BY <1>1 DEF LdTypes
  <2>4. ldMM'.team # NoTeam => ldMM'.team \in ldServer'.teams
    BY <1>1, <1>2
  <2> QED BY <1>3, <2>1, <2>2, <2>3, <2>4 DEF NothingRefused
<1> QED BY <1>51, <1>52, <1>53, <1>54, <1>55, <1>56

\* A read that finds no server ends its load.
LEMMA BreakReadStep ==
  ASSUME TeamInv, BreakRead
  PROVE  TeamInv'
<1> USE DEF TeamInv
<1>1. ldPast' \in LdPasts /\ ldPast'.torn /\ ~ldPast'.clean
  BY FaultKept DEF BreakRead
<1>2. PICK i \in DOMAIN ldReqs : ldReqs' = RemoveAt(ldReqs, i)
  BY DEF BreakRead
<1>3. ldReqs' \in Seq(LdLoads) /\ Len(ldReqs') <= LdMaxLoads
  <2>1. ldReqs' \in Seq(LdLoads) /\ Len(ldReqs') = Len(ldReqs) - 1
    BY <1>2, LoadGone
  <2>2. ldReqs \in Seq(LdLoads) /\ Len(ldReqs) <= LdMaxLoads
    BY DEF LdTypes
  <2>3. LdMaxLoads \in Nat
    BY LdAssumption
  <2>4. Len(ldReqs) \in Nat
    BY <2>2
  <2>5. \A n, m, x \in Int : n <= m /\ x = n - 1 => x <= m
    OBVIOUS
  <2> QED BY <2>1, <2>2, <2>3, <2>4, <2>5
<1>4. ldStore' = [ldStore EXCEPT !.error = "unknown"] /\ UNCHANGED <<ldServer, ldBrowser, ldMM, ldClient>>
  BY DEF BreakRead
<1>51. LdTypes'
  BY <1>1, <1>3, <1>4 DEF LdTypes, LdErrors
<1>52. OneTeam'
  BY <1>4 DEF OneTeam, LdTypes
<1>53. LoadsWhole'
  BY <1>1, TornKept
<1>54. EmptyIsNotStored'
  BY <1>1, TornKept
<1>55. LastLoad'
  BY <1>1, TornKept
<1>56. NothingRefused'
  BY <1>1, TornKept
<1> QED BY <1>51, <1>52, <1>53, <1>54, <1>55, <1>56

\* A load is answered.
LEMMA ArriveLoadStep ==
  ASSUME TeamInv, ArriveLoad
  PROVE  TeamInv'
<1> USE DEF TeamInv
<1> DEFINE LoadsAnswered(i, fails) ==
             /\ ldReqs' = RemoveAt(ldReqs, i)
             /\ ldStore' = Taken(ReadAnswered(ldReqs[i], ldReqs[i].reads, fails))
             /\ ldPast' = [ldPast EXCEPT !.swapped = @ \/ i > 1, !.faults = IF fails # "" THEN @ + 1 ELSE @,
                              !.torn = @ \/ fails # "", !.clean = @ /\ fails = ""]
<1>0. \E i \in DOMAIN ldReqs : \E fails \in ldReqs[i].reads \cup {""} : LoadsAnswered(i, fails)
  BY Zenon DEF ArriveLoad
<1> HIDE DEF LoadsAnswered
<1>1. PICK i : i \in DOMAIN ldReqs /\ \E fails \in ldReqs[i].reads \cup {""} : LoadsAnswered(i, fails)
  BY <1>0
<1>20. PICK fails : fails \in ldReqs[i].reads \cup {""} /\ LoadsAnswered(i, fails)
  BY <1>1
<1>2. /\ fails \in ldReqs[i].reads \cup {""}
        /\ ldReqs' = RemoveAt(ldReqs, i)
        /\ ldStore' = Taken(ReadAnswered(ldReqs[i], ldReqs[i].reads, fails))
        /\ ldPast' = [ldPast EXCEPT !.swapped = @ \/ i > 1, !.faults = IF fails # "" THEN @ + 1 ELSE @,
                         !.torn = @ \/ fails # "", !.clean = @ /\ fails = ""]
  BY <1>20 DEF LoadsAnswered
<1>3. UNCHANGED <<ldServer, ldBrowser, ldMM, ldClient>>
  BY DEF ArriveLoad
<1> DEFINE r == ldReqs[i]
           a == ReadAnswered(r, r.reads, fails)
           swapped == ldPast.swapped \/ i > 1
           faults == IF fails # "" THEN ldPast.faults + 1 ELSE ldPast.faults
           torn == ldPast.torn \/ fails # ""
           clean == ldPast.clean /\ fails = ""
<1>4. ldPast' = [ldPast EXCEPT !.swapped = swapped, !.faults = faults, !.torn = torn, !.clean = clean]
  BY <1>2
<1>5. /\ ldPast' \in LdPasts
      /\ ldPast'.swapped = swapped /\ ldPast'.torn = torn /\ ldPast'.clean = clean
  <2>1. \A x, y : (x \/ y) \in Flags /\ (x /\ y) \in Flags
    BY Zenon DEF Flags
  <2>2. swapped \in Flags /\ torn \in Flags /\ clean \in Flags
    BY <2>1
  <2>3. ldPast \in LdPasts
    BY DEF LdTypes
  <2>4. faults \in Int
    <3>1. ldPast.faults \in Int
      BY <2>3 DEF LdPasts
    <3>2. \A n \in Int : n + 1 \in Int
      OBVIOUS
    <3> QED BY <3>1, <3>2
  <2> HIDE DEF swapped, faults, torn, clean
  <2>5. ldPast' \in LdPasts
    BY <1>4, <2>2, <2>3, <2>4 DEF LdPasts
  <2>6. ldPast'.swapped = swapped /\ ldPast'.torn = torn /\ ldPast'.clean = clean
    BY <1>4, <2>3 DEF LdPasts
  <2> QED BY <2>5, <2>6
<1>6. /\ ldReqs' \in Seq(LdLoads) /\ Len(ldReqs') = Len(ldReqs) - 1
      /\ \A j \in DOMAIN ldReqs' : \E k \in DOMAIN ldReqs : ldReqs'[j] = ldReqs[k]
      /\ r \in LdLoads
      /\ i = 1 /\ ldReqs' # <<>> => ldReqs'[Len(ldReqs')] = ldReqs[Len(ldReqs)]
  BY <1>1, <1>2, LoadGone
<1>7. a \in LdLoads /\ a.team = r.team
  BY <1>6, AnswerType
<1>8. ldStore' = Taken(a)
  BY <1>2
<1>9. Whole(r) /\ fails = "" => Whole(a)
  BY <1>6, AnswerWhole
<1>10. r.reads = Reads /\ fails = "" /\ ldServer.session /\ r.team \in ldServer.teams =>
         a.me /\ a.current /\ a.teams = ldServer.teams
  BY <1>6 DEF LdLoads, ReadAnswered, Reads
<1>11. a.reads = {}
  BY <1>6 DEF LdLoads, ReadAnswered
<1>12. Len(ldReqs) \in Nat /\ Len(ldReqs) <= LdMaxLoads /\ LdMaxLoads \in Nat /\ ldReqs \in Seq(LdLoads)
  <2>1. ldReqs \in Seq(LdLoads) /\ Len(ldReqs) <= LdMaxLoads
    BY DEF LdTypes
  <2>2. LdMaxLoads \in Nat
    BY LdAssumption
  <2> QED BY <2>1, <2>2
<1>13. Whole(a) /\ a.me /\ a.current => a.boards = a.team
  BY <1>11 DEF Whole, Reads
<1> HIDE DEF a, r
<1>14. \/ ldStore' \in {[ldStore EXCEPT !.error = "not-logged-in"], [ldStore EXCEPT !.error = "team-undefined"]} /\ ~(a.me /\ a.current)
       \/ ldStore' = [ldStore EXCEPT !.team = a.team, !.boards = a.boards, !.teams = a.teams] /\ a.me /\ a.current
  BY <1>8 DEF Taken
<1>25. i \in DOMAIN ldReqs
  BY <1>1
<1>21. ~(i > 1) => i = 1
  BY <1>25, <1>12
<1>22. ldReqs # <<>>
  BY <1>25, <1>12
<1>15. /\ a.team \in TeamOrNot /\ a.boards \in BoardsOf /\ a.teams \in TeamSets
  BY <1>7 DEF LdLoads
<1> DEFINE Stores == [id : TeamOrNot, team : TeamOrNot, boards : BoardsOf, teams : TeamSets,
                      loggedIn : {"unknown", "yes", "no"}, error : LdErrors]
<1>24. ldStore \in Stores
  BY DEF LdTypes
<1>16. ldStore' \in Stores /\ ldStore'.id = ldStore.id /\ ldStore'.loggedIn = ldStore.loggedIn
  <2>1. CASE ldStore' = [ldStore EXCEPT !.error = "not-logged-in"]
    BY <2>1, <1>24 DEF LdErrors
  <2>2. CASE ldStore' = [ldStore EXCEPT !.error = "team-undefined"]
    BY <2>2, <1>24 DEF LdErrors
  <2>3. CASE ldStore' = [ldStore EXCEPT !.team = a.team, !.boards = a.boards, !.teams = a.teams]
    BY <2>3, <1>15, <1>24
  <2> QED BY <1>14, <2>1, <2>2, <2>3
<1> HIDE DEF Stores
<1>17. \A j \in DOMAIN ldReqs' : \E k \in DOMAIN ldReqs : ldReqs'[j] = ldReqs[k]
  BY <1>6
<1>23. ldReqs' = <<>> => Len(ldReqs) = 1
  BY <1>6, <1>12
<1>18. ~torn => Whole(a)
  BY <1>1, <1>9 DEF LoadsWhole, r
<1>51. LdTypes'
  <2>1. ldStore' \in [id : TeamOrNot, team : TeamOrNot, boards : BoardsOf, teams : TeamSets,
                     loggedIn : {"unknown", "yes", "no"}, error : LdErrors]
    BY <1>16 DEF Stores
  <2>2. Len(ldReqs') <= LdMaxLoads
    BY <1>6, <1>12
  <2> QED BY <1>3, <1>5, <1>6, <2>1, <2>2 DEF LdTypes
<1>52. OneTeam'
  BY <1>3, <1>16 DEF OneTeam
<1>53. LoadsWhole'
  <2> HIDE DEF torn
  <2>1. ~torn => ~ldPast.torn
    BY DEF torn
  <2> QED BY <1>5, <1>17, <2>1 DEF LoadsWhole
<1>54. EmptyIsNotStored'
  <2> SUFFICES ASSUME ~torn, ldStore'.boards = "empty" PROVE FALSE
    BY <1>5 DEF EmptyIsNotStored
  <2>1. ldStore.boards # "empty"
    BY DEF EmptyIsNotStored
  <2>2. a.boards = "empty" /\ a.me /\ a.current
    BY <1>14, <2>1 DEF LdTypes
  <2>3. a.team = "empty"
    BY <1>13, <1>18, <2>2
  <2> QED BY <1>15, <2>3, LdAssumption DEF TeamOrNot, NoTeam
<1>55. LastLoad'
  <2> SUFFICES ASSUME ~torn, ~swapped, ldBrowser.kind = "team", ~ldBrowser.effects, ldStore'.error = ""
               PROVE  IF ldReqs' = <<>> THEN ldStore'.boards = ldBrowser.team /\ ldStore'.team = ldBrowser.team
                      ELSE ldReqs'[Len(ldReqs')].team = ldBrowser.team
    BY <1>3, <1>5 DEF LastLoad
  <2>0. ~(i > 1) /\ ~ldPast.torn /\ ~ldPast.swapped /\ Whole(a)
    BY <1>18
  <2> HIDE DEF torn, swapped, faults, clean
  <2>1. i = 1 /\ ~ldPast.torn /\ ~ldPast.swapped
    BY <1>21, <2>0
  <2>2. /\ ldStore'.team = a.team /\ ldStore'.boards = a.boards /\ a.me /\ a.current /\ ldStore.error = ""
    BY <1>14 DEF LdTypes
  <2>3. ldReqs # <<>> /\ ldReqs[Len(ldReqs)].team = ldBrowser.team
    BY <1>22, <2>1, <2>2 DEF LastLoad
  <2>4. CASE ldReqs' = <<>>
    <3>1. Len(ldReqs) = 1
      BY <1>23, <2>4
    <3>2. a.team = ldBrowser.team
      BY <1>7, <2>1, <2>3, <3>1 DEF r
    <3> QED BY <1>13, <2>0, <2>2, <2>4, <3>2
  <2>5. CASE ldReqs' # <<>>
    BY <1>6, <2>1, <2>3, <2>5
  <2> QED BY <2>4, <2>5
<1>56. NothingRefused'
  <2> SUFFICES ASSUME clean PROVE NothingRefused'
    BY <1>5 DEF NothingRefused
  <2>1. ldPast.clean /\ fails = ""
    OBVIOUS
  <2>2. a.me /\ a.current /\ a.teams = ldServer.teams
    BY <1>1, <1>10, <2>1 DEF NothingRefused, r
  <2>3. ldStore' = [ldStore EXCEPT !.team = a.team, !.boards = a.boards, !.teams = a.teams]
    BY <1>14, <2>2
  <2>4. ldStore'.error = ldStore.error /\ ldStore'.teams = ldServer.teams
    BY <2>2, <2>3 DEF LdTypes
  <2> QED BY <1>3, <1>16, <1>17, <2>1, <2>4 DEF NothingRefused
<1> QED BY <1>51, <1>52, <1>53, <1>54, <1>55, <1>56

\* Something changes at the server, between the reads of the loads under way.
LEMMA ServerChangesStep ==
  ASSUME TeamInv, ServerChanges
  PROVE  TeamInv'
<1> USE DEF TeamInv
<1>1. PICK before \in [DOMAIN ldReqs -> SUBSET Reads] :
        /\ \A i \in DOMAIN ldReqs : before[i] \subseteq ldReqs[i].reads
        /\ ldReqs' = [i \in DOMAIN ldReqs |-> ReadAnswered(ldReqs[i], before[i], "")]
        /\ ldPast' = [ldPast EXCEPT !.faults = @ + 1, !.clean = FALSE,
             !.torn = @ \/ \E i \in DOMAIN ldReqs : before[i] \notin {{}, ldReqs[i].reads}]
  BY Zenon DEF ServerChanges
<1>2. UNCHANGED <<ldBrowser, ldMM, ldClient, ldStore>>
  BY DEF ServerChanges
<1> DEFINE torn == ldPast.torn \/ \E i \in DOMAIN ldReqs : before[i] \notin {{}, ldReqs[i].reads}
<1>3. /\ ldPast' \in LdPasts
      /\ ldPast'.swapped = ldPast.swapped /\ ldPast'.torn = torn /\ ldPast'.clean = FALSE
  <2> DEFINE faults == ldPast.faults + 1
             clean == FALSE
  <2>1. \A x, y : (x \/ y) \in Flags
    BY Zenon DEF Flags
  <2>2. torn \in Flags /\ clean \in Flags
    BY <2>1, FlagsAre
  <2>3. ldPast \in LdPasts
    BY DEF LdTypes
  <2>4. faults \in Int
    BY <2>3 DEF LdPasts
  <2>7. ldPast' = [ldPast EXCEPT !.faults = faults, !.clean = clean, !.torn = torn]
    BY <1>1
  <2> HIDE DEF faults, torn, clean
  <2>5. ldPast' \in LdPasts
    BY <2>7, <2>2, <2>3, <2>4 DEF LdPasts
  <2>6. ldPast'.swapped = ldPast.swapped /\ ldPast'.torn = torn /\ ldPast'.clean = clean
    BY <2>7, <2>3 DEF LdPasts
  <2> QED BY <2>5, <2>6 DEF clean
<1>4. ldServer' \in [session : Flags, teams : TeamSets]
  <2>1. \/ ldServer' = [ldServer EXCEPT !.session = FALSE]
        \/ \E t \in ldServer.teams : ldServer' = [ldServer EXCEPT !.teams = @ \ {t}]
    BY Zenon DEF ServerChanges
  <2>2. ldServer \in [session : Flags, teams : TeamSets]
    BY DEF LdTypes
  <2>3. CASE ldServer' = [ldServer EXCEPT !.session = FALSE]
    BY <2>2, <2>3, FlagsAre
  <2>4. CASE \E t \in ldServer.teams : ldServer' = [ldServer EXCEPT !.teams = @ \ {t}]
    <3>1. PICK t \in ldServer.teams : ldServer' = [ldServer EXCEPT !.teams = @ \ {t}]
      BY <2>4
    <3>2. ldServer.teams \ {t} \in TeamSets
      BY <2>2 DEF TeamSets
    <3> QED BY <2>2, <3>1, <3>2
  <2> QED BY <2>1, <2>3, <2>4
<1>5. ldReqs \in Seq(LdLoads)
  BY DEF LdTypes
<1>6. \A i \in DOMAIN ldReqs : ReadAnswered(ldReqs[i], before[i], "") \in LdLoads /\ ReadAnswered(ldReqs[i], before[i], "").team = ldReqs[i].team
  <2> SUFFICES ASSUME NEW i \in DOMAIN ldReqs
               PROVE  ReadAnswered(ldReqs[i], before[i], "") \in LdLoads /\ ReadAnswered(ldReqs[i], before[i], "").team = ldReqs[i].team
    OBVIOUS
  <2>1. ldReqs[i] \in LdLoads
    BY <1>5
  <2>2. before[i] \in SUBSET ldReqs[i].reads
    BY <1>1
  <2> QED BY <2>1, <2>2, AnswerType
<1>7. /\ ldReqs' \in Seq(LdLoads) /\ Len(ldReqs') = Len(ldReqs) /\ DOMAIN ldReqs' = DOMAIN ldReqs
      /\ \A i \in DOMAIN ldReqs : ldReqs'[i] = ReadAnswered(ldReqs[i], before[i], "")
  <2> DEFINE Reply(i) == ReadAnswered(ldReqs[i], before[i], "")
  <2>1. ldReqs' = [i \in DOMAIN ldReqs |-> Reply(i)] /\ \A i \in DOMAIN ldReqs : Reply(i) \in LdLoads
    BY <1>1, <1>6
  <2>2. DOMAIN ldReqs = 1..Len(ldReqs) /\ Len(ldReqs) \in Nat
    BY <1>5
  <2> HIDE DEF Reply
  <2>3. ldReqs' = [i \in 1..Len(ldReqs) |-> Reply(i)] /\ \A i \in 1..Len(ldReqs) : Reply(i) \in LdLoads
    BY <2>1, <2>2
  <2>4. ldReqs' \in Seq(LdLoads) /\ Len(ldReqs') = Len(ldReqs)
    BY <2>2, <2>3
  <2> QED BY <2>1, <2>4 DEF Reply
<1>8. \A i \in DOMAIN ldReqs : ldReqs'[i].team = ldReqs[i].team
  BY <1>6, <1>7
<1>9. (ldReqs' = <<>> <=> ldReqs = <<>>) /\ (ldReqs # <<>> => Len(ldReqs) \in DOMAIN ldReqs)
  <2>1. ldReqs' \in Seq(LdLoads) /\ Len(ldReqs') = Len(ldReqs)
    BY <1>7
  <2>2. ldReqs' = <<>> <=> Len(ldReqs') = 0
    BY <2>1
  <2>3. ldReqs = <<>> <=> Len(ldReqs) = 0
    BY <1>5
  <2>4. ldReqs # <<>> => Len(ldReqs) \in DOMAIN ldReqs
    BY <1>5
  <2> QED BY <2>1, <2>2, <2>3, <2>4
<1>51. LdTypes'
  BY <1>2, <1>3, <1>4, <1>7 DEF LdTypes
<1>52. OneTeam'
  BY <1>2 DEF OneTeam
<1>53. LoadsWhole'
  <2> SUFFICES ASSUME ~torn, NEW i \in DOMAIN ldReqs PROVE Whole(ldReqs'[i])
    BY <1>3, <1>7 DEF LoadsWhole
  <2>1. ldReqs[i] \in LdLoads /\ Whole(ldReqs[i]) /\ before[i] \in {{}, ldReqs[i].reads}
    BY <1>5 DEF LoadsWhole
  <2> HIDE DEF torn
  <2> QED BY <1>7, <2>1, AnswerWhole
<1>54. EmptyIsNotStored'
  BY <1>2, <1>3 DEF EmptyIsNotStored
<1>55. LastLoad'
  <2>1. ~torn => ~ldPast.torn
    OBVIOUS
  <2> HIDE DEF torn
  <2> QED BY <1>2, <1>3, <1>7, <1>8, <1>9, <2>1 DEF LastLoad
<1>56. NothingRefused'
  BY <1>3 DEF NothingRefused
<1> QED BY <1>51, <1>52, <1>53, <1>54, <1>55, <1>56

----------------------------------------------------------------------------
LEMMA TeamInit ==
  ASSUME LdInit
  PROVE  TeamInv
<1>1. LdMaxLoads \in Nat
  BY LdAssumption
<1>2. LdMine \in TeamSets
  BY LdAssumption DEF TeamOf, TeamSets
<1>3. NoTeam \in TeamOrNot /\ NoTeam \in BoardsOf /\ {} \in TeamSets /\ {} \in LdAsks
  BY DEF TeamOrNot, BoardsOf, TeamSets, LdAsks
<1>4. ldReqs = <<>> /\ ldReqs \in Seq(LdLoads) /\ Len(ldReqs) <= LdMaxLoads
  <2>1. ldReqs = <<>>
    BY DEF LdInit
  <2> QED BY <1>1, <2>1
<1>5. LdTypes
  <2>1. ldServer \in [session : Flags, teams : TeamSets]
    BY <1>2, FlagsAre DEF LdInit
  <2>2. ldBrowser \in [kind : LdKinds, team : TeamOrNot, error : LdErrors, effects : Flags, asks : LdAsks, last : TeamOrNot]
    BY <1>3, FlagsAre DEF LdInit, LdKinds, LdErrors
  <2>3. ldMM \in [team : TeamOrNot, prev : TeamOrNot] /\ ldClient \in TeamOrNot
    BY <1>3 DEF LdInit
  <2>4. ldStore \in [id : TeamOrNot, team : TeamOrNot, boards : BoardsOf, teams : TeamSets,
                     loggedIn : {"unknown", "yes", "no"}, error : LdErrors]
    BY <1>3 DEF LdInit, StoreEmptied, LdErrors
  <2>5. ldPast \in LdPasts
    <3>1. 0 \in Int
      OBVIOUS
    <3> QED BY <3>1, FlagsAre DEF LdInit, LdPasts
  <2> QED BY <1>4, <2>1, <2>2, <2>3, <2>4, <2>5 DEF LdTypes
<1>6. ldBrowser.kind = "away" /\ ldBrowser.last = NoTeam /\ ldStore.id = NoTeam /\ ldMM.team = NoTeam
  BY DEF LdInit, StoreEmptied
<1>7. ldStore.boards = NoTeam /\ ldStore.teams = {} /\ ldStore.error = "" /\ ldStore.loggedIn = "unknown" /\ ldServer.session
  BY DEF LdInit, StoreEmptied
<1>8. OneTeam
  BY <1>6 DEF OneTeam
<1>9. LoadsWhole
  BY <1>4 DEF LoadsWhole
<1>10. LastLoad
  BY <1>6 DEF LastLoad
<1>11. EmptyIsNotStored
  BY <1>7 DEF EmptyIsNotStored, NoTeam
<1>12. NothingRefused
  <2>1. \A i \in DOMAIN ldReqs : FALSE
    BY <1>4
  <2>2. ldStore.teams \subseteq ldServer.teams
    BY <1>7
  <2> QED BY <1>6, <1>7, <2>1, <2>2 DEF NothingRefused
<1> QED BY <1>5, <1>8, <1>9, <1>10, <1>11, <1>12 DEF TeamInv

LEMMA TeamStep ==
  ASSUME TeamInv, LdNext
  PROVE  TeamInv'
BY BreakReadStep, ArriveLoadStep, RunEffectsStep, SelectTeamStep, FollowLinkStep, ShowAnotherStep, OpenBoardsStep,
   FetchMeStep, FetchTeamsStep, HomeToCurrentTeamStep, LoginRedirectStep, GlobalErrorRedirectStep, BackToHomeStep,
   GoHomeStep, GoToLoginStep, ServerChangesStep DEF LdNext

LEMMA TeamStill ==
  ASSUME TeamInv, UNCHANGED ldVars
  PROVE  TeamInv'
BY DEF TeamInv, ldVars, LdTypes, OneTeam, LoadsWhole, EmptyIsNotStored, LastLoad, NothingRefused

\* The invariant says what the five places and the lists of the team have to.
LEMMA TeamShown ==
  ASSUME TeamInv
  PROVE  LdTypeOK /\ TeamsAgree /\ ListsOfTeam /\ EmptyIsNotStored /\ WayBack
<1>1. LdTypeOK
  <2>1. \A i \in DOMAIN ldReqs : ldReqs[i] \in LdLoads
    BY DEF TeamInv, LdTypes
  <2>2. \A i \in DOMAIN ldReqs : ldReqs[i].reads \subseteq Reads /\ ldReqs[i].team \in TeamOrNot
    BY <2>1 DEF LdLoads, ReadSets
  <2> QED BY <2>2 DEF TeamInv, LdTypes, LdTypeOK, LdKinds, TeamSets, TeamOf, TeamOrNot, BoardsOf, Flags
<1>2. TeamsAgree
  BY DEF TeamInv, OneTeam, TeamsAgree, NoTeam
<1>3. ListsOfTeam
  BY DEF TeamInv, LastLoad, ListsOfTeam
<1>4. WayBack
  BY DEF TeamInv, NothingRefused, WayBack
<1> QED BY <1>1, <1>2, <1>3, <1>4 DEF TeamInv

----------------------------------------------------------------------------
\* Every step is one of the team's, or leaves its variables alone.
LEMMA TeamKept ==
  ASSUME TeamInv, [WebNext]_<<screen, sbVars, muVars, naVars, bvVars, cfVars, cdVars, ccVars, shVars, clVars,
                              trVars, cbVars, btVars, ldVars, dgVars>>
  PROVE  TeamInv'
<1>1. LdNext \/ UNCHANGED ldVars
  BY Zenon DEF WebNext, OpenScreen, On, Apart
<1> QED BY <1>1, TeamStep, TeamStill

\* The URL, the store, the client, the settings and Mattermost have the same
\* team, its lists are shown, and an error page can be left.
THEOREM TeamsAgreeAlways == WebSpec => []TeamAgrees
<1>1. WebInit => TeamInv
  BY TeamInit DEF WebInit
<1>2. TeamInv /\ [WebNext]_<<screen, sbVars, muVars, naVars, bvVars, cfVars, cdVars, ccVars, shVars, clVars,
                             trVars, cbVars, btVars, ldVars, dgVars>> => TeamInv'
  BY TeamKept
<1>3. TeamInv => TeamAgrees
  BY TeamShown DEF TeamAgrees
<1> QED BY <1>1, <1>2, <1>3, PTL DEF WebSpec

----------------------------------------------------------------------------
(***************************************************************************)
(* Dates.  A date without a time is kept as noons, and the inductive        *)
(* invariant is that these are the noons, UTC, of the days that were meant: *)
(* every clock shows a noon UTC on its day, and finds the noon of a day     *)
(* again.  What a dialog holds shows the days that its user means, with or  *)
(* without a time.                                                          *)
(***************************************************************************)
NoonOf(d) == IF d = 0 THEN 0 ELSE d * 24 + 12
InTime(t) == t = 0 \/ t >= 96 * (cdOps + 1)
CdValues  == [from : Int, to : Int, timed : BOOLEAN]
CdDialogs == [value : CdValues, timed : BOOLEAN, meant : [first : Nat, last : Nat]]

\* A date without times is the noons of the days, and none is of the time
\* before the clicks that are left lead back to 0.
AtNoons(value, days) == value.from = NoonOf(days.first) /\ value.to = NoonOf(days.last)

DialogFits(u) ==
  /\ InTime(ValueIn(u).from) /\ InTime(ValueIn(u).to)
  /\ Meant(u) = DaysShown(u, ValueIn(u))
  /\ ~ValueIn(u).timed => AtNoons(ValueIn(u), Meant(u))
  /\ ValueIn(u) = NoDate \/ IsTimed(u) = ValueIn(u).timed

DatesInv ==
  /\ cdStored \in CdValues /\ cdMeant \in [first : Nat, last : Nat] /\ cdOps \in 0..CdMaxOps
  /\ cdDialog \in [CdUsers -> Seq(CdDialogs)]
  /\ InTime(cdStored.from) /\ InTime(cdStored.to)
  /\ ~cdStored.timed => AtNoons(cdStored, cdMeant)
  /\ \A u \in CdUsers : IsOpen(u) => DialogFits(u)
  /\ cdFilter.value = NoonOf(cdFilter.day) /\ (cdFilter.day = 0 \/ cdFilter.day \in CdDays)

\* Days and hours of a clock.
LEMMA Hours ==
  ASSUME NEW w \in Int
  PROVE  w = 24 * DayOf(w) + HourOf(w) /\ DayOf(w) \in Int /\ HourOf(w) \in 0..23
BY DEF DayOf, HourOf
LEMMA HourOfDay ==
  ASSUME NEW d \in Int, NEW h \in 0..23
  PROVE  DayOf(d * 24 + h) = d /\ HourOf(d * 24 + h) = h
BY DEF DayOf, HourOf

\* Hours that are skipped at night hold no noon and lead to the same day.
LEMMA SkippedAtNight ==
  ASSUME NEW night \in Int, NEW skipped \in 0..2, NEW w \in Int, night <= w, w < night + skipped,
         (12 - night) % 24 >= skipped, (night % 24) + 2 * skipped <= 24
  PROVE  HourOf(w) # 12 /\ DayOf(w + skipped) = DayOf(w)
BY DEF DayOf, HourOf

\* A noon is as many hours after a time as hours are left to it, or days more, or
\* it is a day or more before that.
LEMMA NoonAfter ==
  ASSUME NEW at \in Int, NEW s \in Int, HourOf(s) = 12
  PROVE  s - at >= (12 - at) % 24 \/ s - at <= ((12 - at) % 24) - 24
BY DEF HourOf

\* What is assumed of a clock.
LEMMA Clock ==
  ASSUME NEW u \in CdUsers
  PROVE  LET z == CdZone[u] IN
         /\ z.at \in Nat /\ z.before \in -12..14 /\ z.after \in -12..14 /\ z.after - z.before \in -2..2
         /\ (12 - (z.at + z.before)) % 24 >= z.after - z.before
         /\ ((z.at + z.before) % 24) + 2 * (z.after - z.before) <= 24
         /\ z.after <= (12 - z.at) % 24 /\ (12 - z.at) % 24 < 24 + z.before
BY CdAssumption DEF CdAssumption

LEMMA Offsets ==
  ASSUME NEW u \in CdUsers, NEW t \in Int
  PROVE  Offset(u, t) \in -12..14 /\ Wall(u, t) \in Int /\ Wall(u, t) - t \in -12..14 /\ FromStored(u, t) - t \in -14..12
         /\ FromStored(u, t) \in Int /\ ToStored(u, t) = Wall(u, t)
<1> DEFINE b == CdZone[u].before a == CdZone[u].after
<1>1. b \in -12..14 /\ a \in -12..14
  BY Clock
<1>2. Offset(u, t) = b \/ Offset(u, t) = a
  BY DEF Offset
<1> HIDE DEF b, a
<1>3. Offset(u, t) \in -12..14
  BY <1>1, <1>2
<1> QED BY <1>3 DEF Wall, FromStored, ToStored

\* The instant that is found for a time shows this time, or, where that is
\* skipped, another one of the same day.
WallBack(u, w) ==
  LET t == FromWall(u, w) IN
  /\ t \in Int /\ t - w \in -14..12
  /\ DayOf(Wall(u, t)) = DayOf(w)
  /\ HourOf(w) = 12 => Wall(u, t) = w

LEMMA BackOnWall ==
  ASSUME NEW u \in CdUsers, NEW w \in Int
  PROVE  WallBack(u, w)
<1> DEFINE at == CdZone[u].at b == CdZone[u].before a == CdZone[u].after t == FromWall(u, w)
<1>1. /\ at \in Nat /\ b \in -12..14 /\ a \in -12..14 /\ a - b \in -2..2
      /\ (12 - (at + b)) % 24 >= a - b /\ ((at + b) % 24) + 2 * (a - b) <= 24
  BY Clock
<1>2. t = IF w - b >= at /\ w - a >= at THEN w - a ELSE w - b
  BY DEF FromWall
<1>3. Wall(u, t) = IF t < at THEN t + b ELSE t + a
  BY DEF Wall, Offset
<1> HIDE DEF at, b, a, t
<1>4. t \in Int /\ t - w \in -14..12
  BY <1>1, <1>2
<1>5. CASE w - b >= at /\ w - a < at
  <2>1. Wall(u, t) = w + (a - b)
    BY <1>1, <1>2, <1>3, <1>5
  <2>2. a - b \in 0..2 /\ at + b \in Int /\ at + b <= w /\ w < (at + b) + (a - b)
    BY <1>1, <1>5
  <2>3. HourOf(w) # 12 /\ DayOf(w + (a - b)) = DayOf(w)
    BY <1>1, <2>2, SkippedAtNight
  <2> QED BY <1>4, <2>1, <2>3 DEF WallBack, t
<1>6. CASE ~(w - b >= at /\ w - a < at)
  <2>1. Wall(u, t) = w
    BY <1>1, <1>2, <1>3, <1>6
  <2> QED BY <1>4, <2>1 DEF WallBack, t
<1> QED BY <1>5, <1>6

\* A noon that is kept is shown as that noon by every clock.
LEMMA NoonShown ==
  ASSUME NEW u \in CdUsers, NEW s \in Int, HourOf(s) = 12
  PROVE  Wall(u, FromStored(u, s)) = s
<1> DEFINE at == CdZone[u].at b == CdZone[u].before a == CdZone[u].after left == (12 - at) % 24
<1>1. at \in Nat /\ b \in -12..14 /\ a \in -12..14 /\ a <= left /\ left < 24 + b
  BY Clock
<1>2. s - at >= left \/ s - at <= left - 24
  BY <1>1, NoonAfter
<1>3. left \in 0..23
  BY <1>1
<1>4. FromStored(u, s) = s - (IF s < at THEN b ELSE a)
  BY DEF FromStored, Offset
<1>5. Wall(u, FromStored(u, s)) = FromStored(u, s) + (IF FromStored(u, s) < at THEN b ELSE a)
  BY DEF Wall, Offset
<1> HIDE DEF at, b, a, left
<1>6. s < at => s - b < at
  BY <1>1, <1>2, <1>3
<1>7. s >= at => s - a >= at
  BY <1>1, <1>2, <1>3
<1> QED BY <1>1, <1>4, <1>5, <1>6, <1>7

----------------------------------------------------------------------------
\* An instant of the dialog stands for a day.
Stands(u, t, day, least) ==
  \/ t = 0 /\ day = 0
  \/ t \in Int /\ t >= least /\ day \in Nat \ {0} /\ DayOf(Wall(u, t)) = day
AtNoon(u, t) == t = 0 \/ HourOf(Wall(u, t)) = 12

\* A day that is picked or kept, and its noon.
LEMMA DayStands ==
  ASSUME NEW u \in CdUsers, NEW day \in Int, NEW least \in Nat, NEW h \in 0..23, day * 24 >= least + 14, least > 0
  PROVE  /\ Stands(u, FromWall(u, day * 24 + h), day, least)
         /\ h = 12 => AtNoon(u, FromWall(u, day * 24 + h)) /\ Wall(u, FromWall(u, day * 24 + h)) = day * 24 + h
<1> DEFINE w == day * 24 + h t == FromWall(u, w)
<1>0. w \in Int /\ h \in Int
  OBVIOUS
<1>1. w \in Int /\ DayOf(w) = day /\ HourOf(w) = h
  BY <1>0, Zenon, HourOfDay
<1>2. WallBack(u, w)
  BY <1>1, BackOnWall
<1>3. t \in Int /\ t - w \in -14..12 /\ DayOf(Wall(u, t)) = day
  BY <1>1, <1>2 DEF WallBack
<1>4. h = 12 => Wall(u, t) = w
  BY <1>1, <1>2 DEF WallBack
<1>5. w \in Int /\ w >= least + 14 /\ day > 0
  OBVIOUS
<1> HIDE DEF w, t
<1>6. t >= least
  BY <1>3, <1>5
<1>7. Stands(u, t, day, least)
  BY <1>3, <1>5, <1>6 DEF Stands
<1>8. h = 12 => AtNoon(u, t)
  BY <1>1, <1>4 DEF AtNoon
<1> QED BY <1>4, <1>7, <1>8 DEF w, t

\* The noon of a day, as it is kept.
LEMMA NoonStands ==
  ASSUME NEW u \in CdUsers, NEW day \in Nat \ {0}
  PROVE  LET s == NoonOf(day) IN
         /\ s \in Int /\ s # 0 /\ Wall(u, FromStored(u, s)) = s
         /\ DayOf(s) = day /\ HourOf(s) = 12 /\ s = day * 24 + 12
<1> DEFINE s == day * 24 + 12
<1>1. s = NoonOf(day)
  BY DEF NoonOf
<1>0. day \in Int /\ 12 \in 0..23 /\ s \in Int /\ s # 0
  OBVIOUS
<1>2. s \in Int /\ s # 0 /\ DayOf(s) = day /\ HourOf(s) = 12
  BY <1>0, Zenon, HourOfDay
<1>3. Wall(u, FromStored(u, s)) = s
  BY <1>2, NoonShown
<1> QED BY <1>1, <1>2, <1>3

\* What a value shows is an instant of the days that it shows.
LEMMA ShownStands ==
  ASSUME NEW u \in CdUsers, NEW value \in CdValues, NEW t \in Int, NEW n \in Nat, t = 0 \/ t >= 96 * (n + 1),
         ~value.timed => \E day \in Nat : t = NoonOf(day)
  PROVE  LET i == ToShow(u, value, t) IN
         /\ Stands(u, i, DayShown(u, i), 96 * n + 82)
         /\ ~value.timed => AtNoon(u, i) /\ t = NoonOf(DayShown(u, i))
<1> DEFINE i == ToShow(u, value, t)
<1>1. CASE t = 0
  <2>1. i = 0 /\ DayShown(u, i) = 0
    BY <1>1 DEF ToShow, DayShown
  <2> QED BY <1>1, <2>1 DEF Stands, AtNoon, NoonOf
<1>2. CASE t # 0
  <2>1. t >= 96 * n + 96
    BY <1>2
  <2>2. i \in Int /\ i >= t - 14
    BY <1>2, Offsets DEF ToShow
  <2>3. Wall(u, i) \in Int /\ Wall(u, i) >= i - 12
    BY <2>2, Offsets
  <2> HIDE DEF i
  <2>4. i >= 96 * n + 82 /\ Wall(u, i) >= 70
    BY <2>1, <2>2, <2>3
  <2>5. DayOf(Wall(u, i)) \in Nat \ {0}
    BY <2>3, <2>4 DEF DayOf
  <2>6. DayShown(u, i) = DayOf(Wall(u, i))
    BY <2>4 DEF DayShown
  <2>7. Stands(u, i, DayShown(u, i), 96 * n + 82)
    BY <2>2, <2>4, <2>5, <2>6 DEF Stands
  <2>8. ASSUME ~value.timed
        PROVE  AtNoon(u, i) /\ t = NoonOf(DayShown(u, i))
    <3>1. PICK day \in Nat : t = NoonOf(day)
      BY <2>8
    <3>2. day # 0
      BY <1>2, <3>1 DEF NoonOf
    <3>3. Wall(u, FromStored(u, t)) = t /\ DayOf(t) = day /\ HourOf(t) = 12
      BY <3>1, <3>2, NoonStands
    <3>4. i = FromStored(u, t)
      BY <1>2, <2>8 DEF ToShow, i
    <3> QED BY <2>6, <3>1, <3>3, <3>4 DEF AtNoon
  <2> QED BY <2>7, <2>8 DEF i
<1> QED BY <1>1, <1>2

\* The days that a user sees of a value are those of its noons.
LEMMA ValueShown ==
  ASSUME NEW u \in CdUsers, NEW value \in CdValues, NEW n \in Nat, NEW meant \in [first : Nat, last : Nat],
         value.from = 0 \/ value.from >= 96 * (n + 1), value.to = 0 \/ value.to >= 96 * (n + 1),
         ~value.timed => AtNoons(value, meant)
  PROVE  LET days == DaysShown(u, value) IN
         days \in [first : Nat, last : Nat] /\ (~value.timed => AtNoons(value, days))
<1> DEFINE from == ToShow(u, value, value.from) to == ToShow(u, value, value.to)
<1>1. value.from \in Int /\ value.to \in Int /\ meant.first \in Nat /\ meant.last \in Nat
  BY DEF CdValues
<1>2. ~value.timed => value.from = NoonOf(meant.first) /\ value.to = NoonOf(meant.last)
  BY DEF AtNoons
<1>3. /\ Stands(u, from, DayShown(u, from), 96 * n + 82)
      /\ ~value.timed => value.from = NoonOf(DayShown(u, from))
  BY <1>1, <1>2, ShownStands
<1>4. /\ Stands(u, to, DayShown(u, to), 96 * n + 82)
      /\ ~value.timed => value.to = NoonOf(DayShown(u, to))
  BY <1>1, <1>2, ShownStands
<1>5. DaysShown(u, value) = [first |-> DayShown(u, from), last |-> DayShown(u, to)]
  BY DEF DaysShown, DateFrom, DateTo
<1> HIDE DEF from, to
<1>6. DayShown(u, from) \in Nat /\ DayShown(u, to) \in Nat
  BY <1>3, <1>4 DEF Stands
<1> QED BY <1>3, <1>4, <1>5, <1>6 DEF AtNoons

\* What the dialog shows stands for the days that its user means.
LEMMA DialogStands ==
  ASSUME NEW u \in CdUsers, DatesInv, IsOpen(u)
  PROVE  LET from == DateFrom(u, ValueIn(u))
             to == DateTo(u, ValueIn(u)) IN
         /\ ValueIn(u) \in CdValues /\ IsTimed(u) \in BOOLEAN /\ Meant(u) \in [first : Nat, last : Nat]
         /\ Meant(u) = DaysShown(u, ValueIn(u))
         /\ Stands(u, from, Meant(u).first, 96 * cdOps + 82) /\ Stands(u, to, Meant(u).last, 96 * cdOps + 82)
         /\ ~IsTimed(u) => AtNoon(u, from) /\ AtNoon(u, to)
<1> DEFINE value == ValueIn(u) from == DateFrom(u, value) to == DateTo(u, value) days == Meant(u)
<1>1. cdDialog[u] \in Seq(CdDialogs) /\ cdDialog[u] # <<>> /\ DialogFits(u) /\ cdOps \in Nat
  BY DEF DatesInv, IsOpen
<1>2. cdDialog[u][1] \in CdDialogs
  BY <1>1
<1>3. value \in CdValues /\ IsTimed(u) \in BOOLEAN /\ days \in [first : Nat, last : Nat]
  BY <1>2 DEF ValueIn, IsTimed, Meant, CdDialogs
<1>4. days = DaysShown(u, value)
  BY <1>1 DEF DialogFits
<1>5. days.first = DayShown(u, from) /\ days.last = DayShown(u, to)
  BY <1>4 DEF DaysShown
<1>6. from = ToShow(u, value, value.from) /\ to = ToShow(u, value, value.to)
  BY DEF DateFrom, DateTo
<1>7. value.from \in Int /\ value.to \in Int /\ days.first \in Nat /\ days.last \in Nat /\ value.timed \in BOOLEAN
  BY <1>3 DEF CdValues
<1>8. InTime(value.from) /\ InTime(value.to)
  BY <1>1 DEF DialogFits
<1>9. ~value.timed => value.from = NoonOf(days.first) /\ value.to = NoonOf(days.last)
  BY <1>1 DEF DialogFits, AtNoons
<1>10. value = NoDate \/ IsTimed(u) = value.timed
  BY <1>1 DEF DialogFits
<1> HIDE DEF value, from, to, days
<1>15. (value.from = 0 \/ value.from >= 96 * (cdOps + 1)) /\ (value.to = 0 \/ value.to >= 96 * (cdOps + 1))
  BY <1>8 DEF InTime
<1>11. /\ Stands(u, from, days.first, 96 * cdOps + 82)
       /\ ~value.timed => AtNoon(u, from)
  BY <1>1, <1>3, <1>5, <1>6, <1>7, <1>9, <1>15, ShownStands
<1>12. /\ Stands(u, to, days.last, 96 * cdOps + 82)
       /\ ~value.timed => AtNoon(u, to)
  BY <1>1, <1>3, <1>5, <1>6, <1>7, <1>9, <1>15, ShownStands
<1>13. ~IsTimed(u) => ~value.timed
  BY <1>10 DEF NoDate
<1>14. ~IsTimed(u) => AtNoon(u, from) /\ AtNoon(u, to)
  BY <1>11, <1>12, <1>13
<1> QED BY <1>3, <1>4, <1>11, <1>12, <1>14 DEF value, from, to, days

\* What is kept of an instant shows its day again.
KeptDate(u, t, timed) == IF t = 0 \/ timed THEN t ELSE ToStored(u, t)
KeptFits(u, k, timed, day) ==
  /\ k \in Int /\ (k = 0 \/ k >= 96 * cdOps)
  /\ ~timed => k = NoonOf(day)
  /\ DayShown(u, IF k = 0 THEN 0 ELSE IF timed THEN k ELSE FromStored(u, k)) = day

LEMMA KeptStands ==
  ASSUME NEW u \in CdUsers, NEW t, NEW day, NEW timed \in BOOLEAN, cdOps \in Nat, cdOps > 0,
         Stands(u, t, day, 96 * cdOps + 12), ~timed => AtNoon(u, t)
  PROVE  KeptFits(u, KeptDate(u, t, timed), timed, day) /\ (KeptDate(u, t, timed) = 0 => t = 0 /\ day = 0)
<1> DEFINE k == KeptDate(u, t, timed) shown == IF k = 0 THEN 0 ELSE IF timed THEN k ELSE FromStored(u, k)
<1>1. CASE t = 0 /\ day = 0
  <2>1. k = 0 /\ shown = 0
    BY <1>1 DEF KeptDate
  <2> QED BY <1>1, <2>1 DEF KeptFits, NoonOf, DayShown
<1>2. CASE ~(t = 0 /\ day = 0)
  <2>1. t \in Int /\ t >= 96 * cdOps + 12 /\ day \in Nat \ {0} /\ DayOf(Wall(u, t)) = day
    BY <1>2 DEF Stands
  <2>2. t # 0
    BY <2>1
  <2>3. CASE timed
    <3>1. k = t /\ shown = t
      BY <2>2, <2>3 DEF KeptDate
    <3>2. DayShown(u, t) = day
      BY <2>1, <2>2 DEF DayShown
    <3> HIDE DEF k, shown
    <3>3. k \in Int /\ k >= 96 * cdOps /\ k # 0
      BY <2>1, <3>1
    <3> QED BY <2>3, <3>1, <3>2, <3>3 DEF KeptFits, k, shown
  <2>4. CASE ~timed
    <3>1. k = Wall(u, t) /\ k \in Int /\ k - t \in -12..14
      BY <2>1, <2>2, <2>4, Offsets DEF KeptDate
    <3>2. HourOf(k) = 12 /\ DayOf(k) = day
      BY <2>1, <2>2, <2>4, <3>1 DEF AtNoon
    <3>3. k = 24 * day + 12
      BY <3>1, <3>2, Hours
    <3>4. k = NoonOf(day) /\ Wall(u, FromStored(u, k)) = k
      BY <2>1, <3>3, NoonStands
    <3>9. FromStored(u, k) \in Int /\ FromStored(u, k) - k \in -14..12
      BY <3>1, Offsets
    <3>5. FromStored(u, k) >= k - 14
      BY <3>1, <3>9
    <3> HIDE DEF k
    <3>6. k >= 96 * cdOps /\ k >= 96
      BY <2>1, <3>1
    <3>7. k # 0 /\ FromStored(u, k) # 0
      BY <3>1, <3>5, <3>6, <3>9
    <3>8. shown = FromStored(u, k) /\ DayShown(u, shown) = day
      BY <2>4, <3>2, <3>4, <3>7 DEF DayShown
    <3> QED BY <2>4, <3>1, <3>4, <3>6, <3>7, <3>8 DEF KeptFits, k
  <2> QED BY <2>3, <2>4
<1> QED BY <1>1, <1>2

\* What is saved of two instants fits the days that they stand for.
LEMMA RangeFits ==
  ASSUME NEW u \in CdUsers, NEW from, NEW to, NEW timed \in BOOLEAN, NEW days \in [first : Nat, last : Nat],
         cdOps \in Nat, cdOps > 0,
         Stands(u, from, days.first, 96 * cdOps + 12), Stands(u, to, days.last, 96 * cdOps + 12),
         ~timed => AtNoon(u, from) /\ AtNoon(u, to)
  PROVE  LET value == RangeOf(u, from, to, timed) IN
         /\ value \in CdValues /\ days = DaysShown(u, value)
         /\ value.from = 0 \/ value.from >= 96 * cdOps
         /\ value.to = 0 \/ value.to >= 96 * cdOps
         /\ ~value.timed => AtNoons(value, days)
         /\ value = NoDate \/ value.timed = timed
<1> DEFINE value == RangeOf(u, from, to, timed) k == KeptDate(u, from, timed) l == KeptDate(u, to, timed)
<1>1. KeptFits(u, k, timed, days.first) /\ (k = 0 => from = 0 /\ days.first = 0)
  BY KeptStands
<1>2. KeptFits(u, l, timed, days.last) /\ (l = 0 => to = 0 /\ days.last = 0)
  BY KeptStands
<1>3. days = [first |-> days.first, last |-> days.last]
  OBVIOUS
<1>4. CASE from = 0 /\ to = 0
  <2>1. value = NoDate /\ k = 0 /\ l = 0
    BY <1>4 DEF RangeOf, KeptDate
  <2>2. days.first = 0 /\ days.last = 0
    BY <1>1, <1>2, <2>1
  <2>3. value.from = 0 /\ value.to = 0 /\ value.timed = FALSE /\ value \in CdValues
    BY <2>1 DEF NoDate, CdValues
  <2>4. DaysShown(u, value) = [first |-> 0, last |-> 0]
    BY <2>3 DEF DaysShown, DateFrom, DateTo, ToShow, DayShown
  <2> HIDE DEF value
  <2> QED BY <1>3, <2>1, <2>2, <2>3, <2>4 DEF AtNoons, NoonOf, value
<1>5. CASE ~(from = 0 /\ to = 0)
  <2>1. value = [from |-> k, to |-> l, timed |-> timed]
    BY <1>5 DEF RangeOf, KeptDate
  <2> HIDE DEF value, k, l
  <2>2. value.from = k /\ value.to = l /\ value.timed = timed /\ k \in Int /\ l \in Int
    BY <1>1, <1>2, <2>1 DEF KeptFits
  <2>3. value \in CdValues
    BY <2>1, <2>2 DEF CdValues
  <2>4. DateFrom(u, value) = (IF k = 0 THEN 0 ELSE IF timed THEN k ELSE FromStored(u, k))
    BY <2>2 DEF DateFrom, ToShow
  <2>5. DateTo(u, value) = (IF l = 0 THEN 0 ELSE IF timed THEN l ELSE FromStored(u, l))
    BY <2>2 DEF DateTo, ToShow
  <2>6. DaysShown(u, value) = days
    BY <1>1, <1>2, <1>3, <2>4, <2>5 DEF DaysShown, KeptFits
  <2> QED BY <1>1, <1>2, <2>2, <2>3, <2>6 DEF KeptFits, AtNoons, value
<1> QED BY <1>4, <1>5

\* A click leaves what is not touched in time.
LEMMA StillInTime ==
  ASSUME NEW t \in Int, cdOps \in Nat, CdClick, InTime(t)
  PROVE  t = 0 \/ t >= 96 * (cdOps' + 1)
BY DEF InTime, CdClick

\* A dialog that is not touched fits as before.
LEMMA DialogStill ==
  ASSUME NEW u \in CdUsers, DatesInv, CdClick \/ cdOps' = cdOps, IsOpen(u), cdDialog'[u] = cdDialog[u]
  PROVE  IsOpen(u)' /\ DialogFits(u)'
<1> DEFINE value == ValueIn(u)
<1>1. IsOpen(u)' /\ ValueIn(u)' = value /\ Meant(u)' = Meant(u) /\ IsTimed(u)' = IsTimed(u)
  BY DEF IsOpen, ValueIn, Meant, IsTimed
<1>2. value.from \in Int /\ value.to \in Int /\ cdOps \in Nat
  BY DialogStands DEF CdValues, DatesInv
<1>3. DialogFits(u)
  BY DEF DatesInv
<1> HIDE DEF value
<1>4. InTime(value.from) /\ InTime(value.to)
  BY <1>3 DEF DialogFits, value
<1>5. (value.from = 0 \/ value.from >= 96 * (cdOps' + 1)) /\ (value.to = 0 \/ value.to >= 96 * (cdOps' + 1))
  BY <1>2, <1>4, StillInTime DEF InTime
<1>6. InTime(ValueIn(u).from)' /\ InTime(ValueIn(u).to)'
  BY <1>1, <1>5 DEF InTime
<1> QED BY <1>1, <1>3, <1>6 DEF DialogFits, AtNoons, DaysShown, value

\* What an action keeps of the property, which it does not write.
LEMMA StoredStill ==
  ASSUME DatesInv, CdClick, UNCHANGED <<cdStored, cdMeant>>
  PROVE  /\ cdStored' \in CdValues /\ cdMeant' \in [first : Nat, last : Nat] /\ cdOps' \in 0..CdMaxOps
         /\ InTime(cdStored.from)' /\ InTime(cdStored.to)' /\ (~cdStored.timed => AtNoons(cdStored, cdMeant))'
<1>1. cdOps \in Nat /\ cdOps' = cdOps - 1 /\ cdOps > 0 /\ cdOps <= CdMaxOps /\ CdMaxOps \in Nat
  BY CdAssumption DEF DatesInv, CdClick, CdAssumption
<1>2. cdStored.from \in Int /\ cdStored.to \in Int
  BY DEF DatesInv, CdValues
<1>3. InTime(cdStored.from)' /\ InTime(cdStored.to)'
  BY <1>1, <1>2, StillInTime DEF DatesInv, InTime
<1>4. cdOps' \in 0..CdMaxOps
  BY <1>1
<1> QED BY <1>3, <1>4 DEF DatesInv, AtNoons

\* What the dialog saves fits, and nothing else changes.
LEMMA SaveKeeps ==
  ASSUME NEW u \in CdUsers, DatesInv, NEW from, NEW to, NEW timed \in BOOLEAN, NEW days \in [first : Nat, last : Nat],
         Stands(u, from, days.first, 96 * cdOps + 12), Stands(u, to, days.last, 96 * cdOps + 12),
         ~timed => AtNoon(u, from) /\ AtNoon(u, to),
         Save(u, from, to, timed, days)
  PROVE  DatesInv'
<1> DEFINE value == RangeOf(u, from, to, timed)
           has == IF value = NoDate /\ ValueIn(u) # NoDate THEN FALSE ELSE timed
           new == [value |-> value, meant |-> days, timed |-> has]
<1>1. /\ CdClick /\ IsOpen(u) /\ cdDialog' = [cdDialog EXCEPT ![u] = <<new>>]
      /\ UNCHANGED <<cdStored, cdFilter, cdMeant>>
  BY DEF Save
<1>2. cdOps \in Nat /\ cdOps > 0 /\ cdOps' + 1 = cdOps /\ cdDialog \in [CdUsers -> Seq(CdDialogs)]
  BY <1>1 DEF CdClick, DatesInv
<1>3. /\ value \in CdValues /\ days = DaysShown(u, value)
      /\ value.from = 0 \/ value.from >= 96 * cdOps
      /\ value.to = 0 \/ value.to >= 96 * cdOps
      /\ ~value.timed => AtNoons(value, days)
      /\ value = NoDate \/ value.timed = timed
  BY <1>2, RangeFits
<1> HIDE DEF value
<1>4. has \in BOOLEAN /\ (value = NoDate \/ has = value.timed)
  BY <1>3
<1> HIDE DEF has
<1>5. new \in CdDialogs /\ new.value = value /\ new.meant = days /\ new.timed = has
  BY <1>3, <1>4 DEF CdDialogs
<1> HIDE DEF new
<1>6. cdDialog' \in [CdUsers -> Seq(CdDialogs)] /\ cdDialog'[u] = <<new>>
  BY <1>1, <1>2, <1>5
<1>7. ValueIn(u)' = value /\ Meant(u)' = days /\ IsTimed(u)' = has
  BY <1>5, <1>6 DEF ValueIn, Meant, IsTimed
<1>8. DialogFits(u)'
  <2>1. InTime(ValueIn(u).from)' /\ InTime(ValueIn(u).to)'
    BY <1>2, <1>3, <1>7 DEF InTime
  <2> QED BY <1>3, <1>4, <1>7, <2>1 DEF DialogFits, AtNoons, DaysShown
<1>9. ASSUME NEW v \in CdUsers, IsOpen(v)'
      PROVE  DialogFits(v)'
  <2>1. CASE v = u
    BY <1>8, <2>1
  <2>2. CASE v # u
    <3>1. cdDialog'[v] = cdDialog[v] /\ IsOpen(v)
      BY <1>1, <1>2, <1>9, <2>2 DEF IsOpen
    <3> QED BY <1>1, <3>1, DialogStill
  <2> QED BY <2>1, <2>2
<1> QED BY <1>1, <1>6, <1>9, StoredStill DEF DatesInv

----------------------------------------------------------------------------
LEMMA StandsSooner ==
  ASSUME NEW u, NEW t, NEW day, NEW n \in Nat, NEW m \in Nat, m <= n, Stands(u, t, day, n)
  PROVE  Stands(u, t, day, m)
BY DEF Stands

\* A day that is picked or that the dialog shows.
DayInTime(d) == d \in Nat /\ (d = 0 \/ d * 24 >= 96 * cdOps + 26)

LEMMA PickedInTime ==
  ASSUME DatesInv, NEW day \in CdDays
  PROVE  DayInTime(day) /\ day # 0
<1>1. cdOps \in Nat /\ cdOps <= CdMaxOps /\ CdMaxOps \in Nat
  BY CdAssumption DEF DatesInv, CdAssumption
<1>2. day \in Nat /\ day > 4 * CdMaxOps + 4
  BY CdAssumption DEF CdAssumption
<1> QED BY <1>1, <1>2 DEF DayInTime

LEMMA ShownInTime ==
  ASSUME NEW u \in CdUsers, NEW t, NEW day, cdOps \in Nat, Stands(u, t, day, 96 * cdOps + 82)
  PROVE  DayInTime(day)
<1>1. CASE day = 0
  BY <1>1 DEF DayInTime
<1>2. CASE day # 0
  <2>1. t \in Int /\ t >= 96 * cdOps + 82 /\ day \in Nat /\ DayOf(Wall(u, t)) = day
    BY <1>2 DEF Stands
  <2>4. Wall(u, t) \in Int /\ Wall(u, t) - t \in -12..14
    BY <2>1, Offsets
  <2>2. Wall(u, t) \in Int /\ Wall(u, t) >= t - 12
    BY <2>1, <2>4
  <2>3. Wall(u, t) = 24 * day + HourOf(Wall(u, t)) /\ HourOf(Wall(u, t)) \in 0..23
    BY <2>1, <2>2, Hours
  <2> QED BY <2>1, <2>2, <2>3 DEF DayInTime
<1> QED BY <1>1, <1>2

\* A day, at noon or at the time of another instant.
LEMMA OnDayStands ==
  ASSUME NEW u \in CdUsers, NEW day, cdOps \in Nat, DayInTime(day), NEW source \in Int
  PROVE  /\ Stands(u, OnDay(u, day, source), day, 96 * cdOps + 12)
         /\ ~IsTimed(u) => AtNoon(u, OnDay(u, day, source))
<1>1. CASE day = 0
  BY <1>1 DEF OnDay, Stands, AtNoon
<1>2. CASE day # 0
  <2> DEFINE h == IF IsTimed(u) /\ source # 0 THEN HourOf(Wall(u, source)) ELSE 12
  <2>1. OnDay(u, day, source) = FromWall(u, day * 24 + h)
    BY <1>2 DEF OnDay
  <2>2. h \in 0..23
    BY Offsets, Hours
  <2>3. ~IsTimed(u) => h = 12
    OBVIOUS
  <2> HIDE DEF h
  <2> DEFINE least == 96 * cdOps + 12
  <2>4. day \in Int /\ least \in Nat /\ day * 24 >= least + 14 /\ least > 0
    BY <1>2 DEF DayInTime
  <2> HIDE DEF least
  <2>5. /\ Stands(u, FromWall(u, day * 24 + h), day, least)
        /\ h = 12 => AtNoon(u, FromWall(u, day * 24 + h))
    BY <2>2, <2>4, DayStands
  <2> QED BY <2>1, <2>3, <2>5 DEF least
<1> QED BY <1>1, <1>2

\* A clock that is set on the day that it shows.
LEMMA HourStands ==
  ASSUME NEW u \in CdUsers, NEW t, NEW day, NEW h \in 0..23, cdOps \in Nat, Stands(u, t, day, 96 * cdOps + 82), t # 0
  PROVE  /\ Stands(u, AtHour(u, t, h), day, 96 * cdOps + 12)
         /\ h = 12 => AtNoon(u, AtHour(u, t, h))
<1>1. DayOf(Wall(u, t)) = day /\ day \in Nat \ {0}
  BY DEF Stands
<1>2. AtHour(u, t, h) = FromWall(u, day * 24 + h)
  BY <1>1 DEF AtHour
<1> DEFINE least == 96 * cdOps + 12
<1>3. DayInTime(day)
  BY ShownInTime
<1>4. day \in Int /\ least \in Nat /\ day * 24 >= least + 14 /\ least > 0
  BY <1>1, <1>3 DEF DayInTime
<1> HIDE DEF least
<1>5. /\ Stands(u, FromWall(u, day * 24 + h), day, least)
      /\ h = 12 => AtNoon(u, FromWall(u, day * 24 + h))
  BY <1>4, DayStands
<1> QED BY <1>2, <1>5 DEF least

\* What the dialog shows, as an action finds it.
DialogShows(u, from, to) ==
  /\ from \in Int /\ to \in Int
  /\ Stands(u, from, Meant(u).first, 96 * cdOps + 82) /\ Stands(u, to, Meant(u).last, 96 * cdOps + 82)
  /\ Stands(u, from, Meant(u).first, 96 * cdOps + 12) /\ Stands(u, to, Meant(u).last, 96 * cdOps + 12)
  /\ DayInTime(Meant(u).first) /\ DayInTime(Meant(u).last)
  /\ ~IsTimed(u) => AtNoon(u, from) /\ AtNoon(u, to)
  /\ Meant(u) \in [first : Nat, last : Nat] /\ IsTimed(u) \in BOOLEAN
  /\ Meant(u) = DaysShown(u, ValueIn(u))

LEMMA DialogNow ==
  ASSUME NEW u \in CdUsers, DatesInv, IsOpen(u)
  PROVE  DialogShows(u, DateFrom(u, ValueIn(u)), DateTo(u, ValueIn(u))) /\ cdOps \in Nat
<1> DEFINE from == DateFrom(u, ValueIn(u)) to == DateTo(u, ValueIn(u))
<1>1. /\ IsTimed(u) \in BOOLEAN /\ Meant(u) \in [first : Nat, last : Nat] /\ Meant(u) = DaysShown(u, ValueIn(u))
      /\ Stands(u, from, Meant(u).first, 96 * cdOps + 82) /\ Stands(u, to, Meant(u).last, 96 * cdOps + 82)
      /\ ~IsTimed(u) => AtNoon(u, from) /\ AtNoon(u, to)
  BY DialogStands
<1> HIDE DEF from, to
<1>2. cdOps \in Nat /\ 96 * cdOps + 82 \in Nat /\ 96 * cdOps + 12 \in Nat /\ 96 * cdOps + 12 <= 96 * cdOps + 82
  BY DEF DatesInv
<1>3. Stands(u, from, Meant(u).first, 96 * cdOps + 12) /\ Stands(u, to, Meant(u).last, 96 * cdOps + 12)
  BY <1>1, <1>2, StandsSooner
<1>4. DayInTime(Meant(u).first) /\ DayInTime(Meant(u).last)
  BY <1>1, <1>2, ShownInTime
<1>5. from \in Int /\ to \in Int
  BY <1>1 DEF Stands
<1> QED BY <1>1, <1>2, <1>3, <1>4, <1>5 DEF DialogShows, from, to

----------------------------------------------------------------------------
LEMMA DayClickKeeps == ASSUME NEW u \in CdUsers, DatesInv, DayClick(u)  PROVE DatesInv'
<1> DEFINE from == DateFrom(u, ValueIn(u)) to == DateTo(u, ValueIn(u)) days == DaysShown(u, ValueIn(u))
<1>1. IsOpen(u)
  BY DEF DayClick
<1>2. DialogShows(u, from, to) /\ cdOps \in Nat
  BY <1>1, DialogNow
<1>3. days = Meant(u) /\ days \in [first : Nat, last : Nat]
  BY <1>2 DEF DialogShows
<1>4. PICK day \in CdDays :
        LET picked == IF to # 0 THEN AddDay(day, days) ELSE [first |-> day, last |-> 0]
            meant == IF to # 0 THEN AddDay(day, Meant(u)) ELSE [first |-> day, last |-> 0]
        IN  Save(u, OnDay(u, picked.first, from), OnDay(u, picked.last, to), IsTimed(u), meant)
  BY DEF DayClick
<1> DEFINE picked == IF to # 0 THEN AddDay(day, days) ELSE [first |-> day, last |-> 0]
<1> HIDE DEF from, to, days
<1>5. DayInTime(day) /\ DayInTime(0) /\ DayInTime(days.first) /\ DayInTime(days.last)
  BY <1>2, <1>3, PickedInTime DEF DialogShows, DayInTime
<1>6. /\ picked.first \in {0, day, days.first, days.last} /\ picked.last \in {0, day, days.first, days.last}
      /\ picked = [first |-> picked.first, last |-> picked.last]
  BY <1>3 DEF AddDay, NoDays
<1>7. Save(u, OnDay(u, picked.first, from), OnDay(u, picked.last, to), IsTimed(u), picked)
  BY <1>3, <1>4
<1> HIDE DEF picked
<1>8. DayInTime(picked.first) /\ DayInTime(picked.last)
  BY <1>5, <1>6
<1>9. picked \in [first : Nat, last : Nat]
  BY <1>6, <1>8 DEF DayInTime
<1>10. from \in Int /\ to \in Int /\ IsTimed(u) \in BOOLEAN
  BY <1>2 DEF DialogShows
<1>11. /\ Stands(u, OnDay(u, picked.first, from), picked.first, 96 * cdOps + 12)
       /\ ~IsTimed(u) => AtNoon(u, OnDay(u, picked.first, from))
  BY <1>2, <1>8, <1>10, OnDayStands
<1>12. /\ Stands(u, OnDay(u, picked.last, to), picked.last, 96 * cdOps + 12)
       /\ ~IsTimed(u) => AtNoon(u, OnDay(u, picked.last, to))
  BY <1>2, <1>8, <1>10, OnDayStands
<1> QED BY <1>7, <1>9, <1>10, <1>11, <1>12, SaveKeeps

LEMMA RangeClickKeeps == ASSUME NEW u \in CdUsers, DatesInv, RangeClick(u)  PROVE DatesInv'
<1> DEFINE from == DateFrom(u, ValueIn(u)) to == DateTo(u, ValueIn(u))
           new == IF to # 0 THEN 0 ELSE from
           meant == [Meant(u) EXCEPT !.last = IF to # 0 THEN 0 ELSE Meant(u).first]
<1>1. IsOpen(u) /\ Save(u, from, new, IsTimed(u), meant)
  BY DEF RangeClick
<1>2. DialogShows(u, from, to)
  BY <1>1, DialogNow
<1> HIDE DEF from, to
<1>3. meant \in [first : Nat, last : Nat] /\ meant.first = Meant(u).first
      /\ meant.last = (IF to # 0 THEN 0 ELSE Meant(u).first)
  BY <1>2 DEF DialogShows
<1> HIDE DEF meant
<1>4. Stands(u, new, meant.last, 96 * cdOps + 12) /\ (~IsTimed(u) => AtNoon(u, new))
  <2>1. CASE to # 0
    BY <1>3, <2>1 DEF Stands, AtNoon
  <2>2. CASE to = 0
    BY <1>2, <1>3, <2>2 DEF DialogShows
  <2> QED BY <2>1, <2>2
<1> HIDE DEF new
<1> QED BY <1>1, <1>2, <1>3, <1>4, SaveKeeps DEF DialogShows

LEMMA ClearKeeps == ASSUME NEW u \in CdUsers, DatesInv, ClearDates(u)  PROVE DatesInv'
<1>1. IsOpen(u) /\ Save(u, 0, 0, IsTimed(u), NoDays)
  BY DEF ClearDates
<1>2. IsTimed(u) \in BOOLEAN
  BY <1>1, DialogNow DEF DialogShows
<1>3. NoDays \in [first : Nat, last : Nat] /\ NoDays.first = 0 /\ NoDays.last = 0
  BY DEF NoDays
<1>4. Stands(u, 0, 0, 96 * cdOps + 12) /\ AtNoon(u, 0)
  BY DEF Stands, AtNoon
<1> QED BY <1>1, <1>2, <1>3, <1>4, SaveKeeps

LEMMA TimeToggleKeeps == ASSUME NEW u \in CdUsers, DatesInv, TimeToggle(u)  PROVE DatesInv'
<1> DEFINE from == DateFrom(u, ValueIn(u)) to == DateTo(u, ValueIn(u))
           noonFrom == IF from = 0 THEN 0 ELSE AtHour(u, from, 12)
           noonTo == IF to = 0 THEN 0 ELSE AtHour(u, to, 12)
<1>1. IsOpen(u)
  BY DEF TimeToggle
<1>2. IF IsTimed(u) THEN Save(u, noonFrom, noonTo, FALSE, Meant(u)) ELSE Save(u, from, to, TRUE, Meant(u))
  BY DEF TimeToggle
<1>3. DialogShows(u, from, to) /\ cdOps \in Nat
  BY <1>1, DialogNow
<1> HIDE DEF from, to
<1>4. /\ Meant(u) \in [first : Nat, last : Nat]
      /\ Stands(u, from, Meant(u).first, 96 * cdOps + 12) /\ Stands(u, to, Meant(u).last, 96 * cdOps + 12)
      /\ Stands(u, from, Meant(u).first, 96 * cdOps + 82) /\ Stands(u, to, Meant(u).last, 96 * cdOps + 82)
  BY <1>3 DEF DialogShows
<1>5. CASE ~IsTimed(u)
  BY <1>2, <1>4, <1>5, SaveKeeps
<1>6. CASE IsTimed(u)
  <2>1. Stands(u, noonFrom, Meant(u).first, 96 * cdOps + 12) /\ AtNoon(u, noonFrom)
    <3>1. CASE from = 0
      BY <1>4, <3>1 DEF AtNoon
    <3>2. CASE from # 0
      BY <1>3, <1>4, <3>2, HourStands
    <3> QED BY <3>1, <3>2
  <2>2. Stands(u, noonTo, Meant(u).last, 96 * cdOps + 12) /\ AtNoon(u, noonTo)
    <3>1. CASE to = 0
      BY <1>4, <3>1 DEF AtNoon
    <3>2. CASE to # 0
      BY <1>3, <1>4, <3>2, HourStands
    <3> QED BY <3>1, <3>2
  <2> HIDE DEF noonFrom, noonTo
  <2> QED BY <1>2, <1>4, <1>6, <2>1, <2>2, SaveKeeps
<1> QED BY <1>5, <1>6

LEMMA TypeTimeKeeps == ASSUME NEW u \in CdUsers, DatesInv, TypeTime(u)  PROVE DatesInv'
<1> DEFINE from == DateFrom(u, ValueIn(u)) to == DateTo(u, ValueIn(u))
<1>1. IsOpen(u)
  BY DEF TypeTime
<1>2. PICK h \in CdHours : \/ from # 0 /\ Save(u, AtHour(u, from, h), to, TRUE, Meant(u))
                           \/ to # 0 /\ Save(u, from, AtHour(u, to, h), TRUE, Meant(u))
  BY DEF TypeTime
<1>3. DialogShows(u, from, to) /\ cdOps \in Nat
  BY <1>1, DialogNow
<1> HIDE DEF from, to
<1>4. /\ Meant(u) \in [first : Nat, last : Nat]
      /\ Stands(u, from, Meant(u).first, 96 * cdOps + 12) /\ Stands(u, to, Meant(u).last, 96 * cdOps + 12)
      /\ Stands(u, from, Meant(u).first, 96 * cdOps + 82) /\ Stands(u, to, Meant(u).last, 96 * cdOps + 82)
  BY <1>3 DEF DialogShows
<1>5. h \in 0..23
  BY CdAssumption DEF CdAssumption
<1>6. CASE from # 0 /\ Save(u, AtHour(u, from, h), to, TRUE, Meant(u))
  <2>1. Stands(u, AtHour(u, from, h), Meant(u).first, 96 * cdOps + 12)
    BY <1>3, <1>4, <1>5, <1>6, HourStands
  <2> QED BY <1>4, <1>6, <2>1, SaveKeeps
<1>7. CASE to # 0 /\ Save(u, from, AtHour(u, to, h), TRUE, Meant(u))
  <2>1. Stands(u, AtHour(u, to, h), Meant(u).last, 96 * cdOps + 12)
    BY <1>3, <1>4, <1>5, <1>7, HourStands
  <2> QED BY <1>4, <1>7, <2>1, SaveKeeps
<1> QED BY <1>2, <1>6, <1>7

\* The noon of a day that is picked.
LEMMA PickedStands ==
  ASSUME NEW u \in CdUsers, DatesInv, NEW day \in CdDays
  PROVE  LET t == FromWall(u, day * 24 + 12) IN
         Stands(u, t, day, 96 * cdOps + 12) /\ AtNoon(u, t) /\ ToStored(u, t) = NoonOf(day) /\ day \in Nat \ {0}
<1> DEFINE t == FromWall(u, day * 24 + 12)
<1>1. day \in Nat /\ day # 0 /\ day * 24 >= 96 * cdOps + 26 /\ cdOps \in Nat
  BY PickedInTime DEF DayInTime, DatesInv
<1>2. day \in Int /\ 12 \in 0..23 /\ 96 * cdOps + 12 \in Nat /\ day * 24 >= (96 * cdOps + 12) + 14 /\ 96 * cdOps + 12 > 0
  BY <1>1
<1>3. Stands(u, t, day, 96 * cdOps + 12) /\ AtNoon(u, t) /\ Wall(u, t) = day * 24 + 12
  BY <1>2, DayStands
<1>4. t \in Int
  BY <1>1, <1>3 DEF Stands
<1> HIDE DEF t
<1>5. ToStored(u, t) = NoonOf(day)
  BY <1>1, <1>3, <1>4, Offsets DEF NoonOf
<1> QED BY <1>1, <1>3, <1>5 DEF t

LEMMA TypeDayKeeps == ASSUME NEW u \in CdUsers, DatesInv, TypeDay(u)  PROVE DatesInv'
<1> DEFINE from == DateFrom(u, ValueIn(u)) to == DateTo(u, ValueIn(u))
<1>1. IsOpen(u)
  BY DEF TypeDay
<1>2. PICK day \in CdDays :
        \/ Save(u, FromWall(u, day * 24 + 12), to, IsTimed(u), [Meant(u) EXCEPT !.first = day])
        \/ to # 0 /\ Save(u, from, FromWall(u, day * 24 + 12), IsTimed(u), [Meant(u) EXCEPT !.last = day])
  BY DEF TypeDay
<1>3. DialogShows(u, from, to) /\ cdOps \in Nat
  BY <1>1, DialogNow
<1> DEFINE t == FromWall(u, day * 24 + 12)
           one == [Meant(u) EXCEPT !.first = day] other == [Meant(u) EXCEPT !.last = day]
<1> HIDE DEF from, to
<1>4. Stands(u, t, day, 96 * cdOps + 12) /\ AtNoon(u, t) /\ day \in Nat
  BY PickedStands
<1>5. /\ Meant(u) \in [first : Nat, last : Nat] /\ IsTimed(u) \in BOOLEAN
      /\ Stands(u, from, Meant(u).first, 96 * cdOps + 12) /\ Stands(u, to, Meant(u).last, 96 * cdOps + 12)
      /\ ~IsTimed(u) => AtNoon(u, from) /\ AtNoon(u, to)
  BY <1>3 DEF DialogShows
<1>6. one \in [first : Nat, last : Nat] /\ one.first = day /\ one.last = Meant(u).last
  BY <1>4, <1>5
<1>7. other \in [first : Nat, last : Nat] /\ other.first = Meant(u).first /\ other.last = day
  BY <1>4, <1>5
<1> HIDE DEF t, one, other
<1>8. CASE Save(u, t, to, IsTimed(u), one)
  BY <1>4, <1>5, <1>6, <1>8, SaveKeeps
<1>9. CASE Save(u, from, t, IsTimed(u), other)
  BY <1>4, <1>5, <1>7, <1>9, SaveKeeps
<1> QED BY <1>2, <1>8, <1>9 DEF t, one, other

LEMMA OpenKeeps == ASSUME NEW u \in CdUsers, DatesInv, OpenDates(u)  PROVE DatesInv'
<1> DEFINE days == DaysShown(u, cdStored) new == [value |-> cdStored, timed |-> cdStored.timed, meant |-> days]
<1>1. CdClick /\ cdDialog' = [cdDialog EXCEPT ![u] = <<new>>] /\ UNCHANGED <<cdStored, cdFilter, cdMeant>>
  BY DEF OpenDates
<1>2. /\ cdStored \in CdValues /\ cdDialog \in [CdUsers -> Seq(CdDialogs)]
      /\ cdOps \in Nat /\ InTime(cdStored.from) /\ InTime(cdStored.to) /\ cdMeant \in [first : Nat, last : Nat]
      /\ (~cdStored.timed => AtNoons(cdStored, cdMeant))
  BY DEF DatesInv
<1>0. (cdStored.from = 0 \/ cdStored.from >= 96 * (cdOps + 1)) /\ (cdStored.to = 0 \/ cdStored.to >= 96 * (cdOps + 1))
  BY <1>2 DEF InTime
<1>3. days \in [first : Nat, last : Nat] /\ (~cdStored.timed => AtNoons(cdStored, days))
  BY <1>0, <1>2, ValueShown
<1> HIDE DEF days
<1>4. new \in CdDialogs /\ new.value = cdStored /\ new.timed = cdStored.timed /\ new.meant = days
  BY <1>2, <1>3 DEF CdDialogs, CdValues
<1> HIDE DEF new
<1>5. cdDialog' \in [CdUsers -> Seq(CdDialogs)] /\ cdDialog'[u] = <<new>>
  BY <1>1, <1>2, <1>4
<1>6. ValueIn(u)' = cdStored /\ Meant(u)' = days /\ IsTimed(u)' = cdStored.timed
  BY <1>4, <1>5 DEF ValueIn, Meant, IsTimed
<1>7. /\ cdStored' \in CdValues /\ cdMeant' \in [first : Nat, last : Nat] /\ cdOps' \in 0..CdMaxOps
      /\ InTime(cdStored.from)' /\ InTime(cdStored.to)' /\ (~cdStored.timed => AtNoons(cdStored, cdMeant))'
  BY <1>1, StoredStill
<1>8. DialogFits(u)'
  BY <1>1, <1>3, <1>6, <1>7 DEF DialogFits, AtNoons, DaysShown, days, InTime
<1>9. ASSUME NEW v \in CdUsers, IsOpen(v)'
      PROVE  DialogFits(v)'
  <2>1. CASE v = u
    BY <1>8, <2>1
  <2>2. CASE v # u
    <3>1. cdDialog'[v] = cdDialog[v] /\ IsOpen(v)
      BY <1>1, <1>2, <1>9, <2>2 DEF IsOpen
    <3> QED BY <1>1, <3>1, DialogStill
  <2> QED BY <2>1, <2>2
<1> QED BY <1>1, <1>5, <1>7, <1>9 DEF DatesInv

\* A patch of the property, with the dialogs that take it over.
LEMMA WriteKeeps ==
  ASSUME DatesInv, CdClick \/ cdOps' = cdOps, NEW value \in CdValues, NEW meant \in [first : Nat, last : Nat],
         NEW dialogs \in [CdUsers -> Seq(CdDialogs)], \A v \in CdUsers : dialogs[v] = <<>> \/ dialogs[v] = cdDialog[v],
         value.from = 0 \/ value.from >= 96 * (cdOps' + 1), value.to = 0 \/ value.to >= 96 * (cdOps' + 1),
         ~value.timed => AtNoons(value, meant), Write(value, meant, dialogs)
  PROVE  DatesInv'
<1> DEFINE New(v) == [value |-> value, timed |-> value.timed, meant |-> DaysShown(v, value)]
           Stays(v) == dialogs[v] = <<>> \/ value = cdStored \/ dialogs[v][1].value = value
<1>1. /\ cdStored' = value /\ cdMeant' = meant /\ UNCHANGED cdFilter
      /\ cdDialog' = [v \in CdUsers |-> IF Stays(v) THEN dialogs[v] ELSE <<New(v)>>]
  BY DEF Write
<1>2. cdOps \in 0..CdMaxOps /\ cdOps' \in 0..CdMaxOps /\ cdOps' \in Nat
  BY CdAssumption DEF DatesInv, CdClick, CdAssumption
<1>3. ASSUME NEW v \in CdUsers
      PROVE  New(v) \in CdDialogs /\ (~value.timed => AtNoons(value, DaysShown(v, value)))
  <2> DEFINE days == DaysShown(v, value)
  <2>1. days \in [first : Nat, last : Nat] /\ (~value.timed => AtNoons(value, days))
    BY <1>2, ValueShown
  <2> HIDE DEF days
  <2>2. [value |-> value, timed |-> value.timed, meant |-> days] \in CdDialogs
    BY <2>1 DEF CdDialogs, CdValues
  <2> QED BY <2>1, <2>2 DEF days
<1>4. ASSUME NEW v \in CdUsers, IsOpen(v)'
      PROVE  DialogFits(v)'
  <2>1. CASE Stays(v)
    <3>1. cdDialog'[v] = dialogs[v]
      BY <1>1, <2>1
    <3>2. cdDialog'[v] = cdDialog[v] /\ IsOpen(v)
      BY <1>4, <3>1 DEF IsOpen
    <3> QED BY <3>2, DialogStill
  <2>2. CASE ~Stays(v)
    <3>1. cdDialog'[v] = <<New(v)>>
      BY <1>1, <2>2
    <3>2. ValueIn(v)' = value /\ Meant(v)' = DaysShown(v, value) /\ IsTimed(v)' = value.timed
      BY <3>1 DEF ValueIn, Meant, IsTimed
    <3>3. InTime(ValueIn(v).from)' /\ InTime(ValueIn(v).to)'
      BY <3>2 DEF InTime
    <3> QED BY <1>3, <3>2, <3>3 DEF DialogFits, AtNoons, DaysShown
  <2> QED BY <2>1, <2>2
<1>5. cdDialog' \in [CdUsers -> Seq(CdDialogs)]
  <2>1. ASSUME NEW v \in CdUsers
        PROVE  dialogs[v] \in Seq(CdDialogs) /\ <<New(v)>> \in Seq(CdDialogs)
    <3> HIDE DEF New
    <3> QED BY <1>3
  <2> HIDE DEF New, Stays
  <2> QED BY <1>1, <2>1
<1>6. InTime(cdStored.from)' /\ InTime(cdStored.to)' /\ (~cdStored.timed => AtNoons(cdStored, cdMeant))'
  BY <1>1 DEF InTime, AtNoons
<1> HIDE DEF New, Stays
<1> QED BY <1>1, <1>2, <1>4, <1>5, <1>6 DEF DatesInv

LEMMA CloseKeeps == ASSUME NEW u \in CdUsers, DatesInv, CloseDates(u)  PROVE DatesInv'
<1> DEFINE value == ValueIn(u) dialogs == [cdDialog EXCEPT ![u] = <<>>]
<1>1. IsOpen(u) /\ Write(value, Meant(u), dialogs) /\ cdOps' = cdOps
  BY DEF CloseDates
<1>2. value \in CdValues /\ Meant(u) \in [first : Nat, last : Nat]
  BY <1>1, DialogStands
<1>3. DialogFits(u)
  BY <1>1 DEF DatesInv
<1> HIDE DEF value
<1>4. (value.from = 0 \/ value.from >= 96 * (cdOps' + 1)) /\ (value.to = 0 \/ value.to >= 96 * (cdOps' + 1))
  BY <1>1, <1>3 DEF DialogFits, InTime, value
<1>5. ~value.timed => AtNoons(value, Meant(u))
  BY <1>3 DEF DialogFits, value
<1>6. dialogs \in [CdUsers -> Seq(CdDialogs)] /\ \A v \in CdUsers : dialogs[v] = <<>> \/ dialogs[v] = cdDialog[v]
  BY DEF DatesInv
<1> HIDE DEF dialogs
<1> QED BY <1>1, <1>2, <1>4, <1>5, <1>6, WriteKeeps

----------------------------------------------------------------------------
\* What the calendar writes is noons.
LEMMA NoonsKeep ==
  ASSUME DatesInv, CdClick, NEW first \in CdDays, NEW last \in CdDays \cup {0}, NEW value, NEW meant,
         value = [from |-> NoonOf(first), to |-> NoonOf(last), timed |-> FALSE],
         meant = [first |-> first, last |-> last], Write(value, meant, cdDialog)
  PROVE  DatesInv'
<1>1. cdOps \in Nat /\ cdOps' + 1 = cdOps /\ cdDialog \in [CdUsers -> Seq(CdDialogs)]
  BY DEF DatesInv, CdClick
<1>2. first \in Nat /\ first # 0 /\ first * 24 >= 96 * cdOps + 26
  BY PickedInTime DEF DayInTime
<1>3. last \in Nat /\ (last = 0 \/ last * 24 >= 96 * cdOps + 26)
  BY PickedInTime DEF DayInTime
<1>4. NoonOf(first) \in Int /\ NoonOf(first) >= 96 * cdOps
  BY <1>1, <1>2 DEF NoonOf
<1>5. NoonOf(last) \in Int /\ (NoonOf(last) = 0 \/ NoonOf(last) >= 96 * cdOps)
  BY <1>1, <1>3 DEF NoonOf
<1>6. value \in CdValues /\ value.from = NoonOf(first) /\ value.to = NoonOf(last) /\ value.timed = FALSE
  BY <1>4, <1>5 DEF CdValues
<1>7. meant \in [first : Nat, last : Nat] /\ meant.first = first /\ meant.last = last
  BY <1>2, <1>3
<1> QED BY <1>1, <1>4, <1>5, <1>6, <1>7, WriteKeeps DEF AtNoons

\* The end of an event is the day before the midnight that the calendar gives.
LEMMA CalendarNoons ==
  ASSUME NEW u \in CdUsers, DatesInv, NEW first \in CdDays, NEW last \in CdDays
  PROVE  /\ CalendarDates(u, first, last) =
              [from |-> NoonOf(first), to |-> NoonOf(Days(first, last).last), timed |-> FALSE]
         /\ Days(first, last) = [first |-> first, last |-> Days(first, last).last]
         /\ Days(first, last).last \in CdDays \cup {0}
<1> DEFINE Noon(d) == ToStored(u, FromWall(u, d * 24 + 12))
<1>1. first \in Nat \ {0} /\ last \in Nat \ {0} /\ Noon(first) = NoonOf(first)
  BY PickedStands
<1>2. Noon(last + 1) = (last + 1) * 24 + 12
  <2> DEFINE w == (last + 1) * 24 + 12
  <2>1. last + 1 \in Int /\ 12 \in 0..23 /\ w \in Int
    BY <1>1
  <2>2. HourOf(w) = 12
    BY <2>1, Zenon, HourOfDay
  <2> HIDE DEF w
  <2>3. Wall(u, FromWall(u, w)) = w /\ FromWall(u, w) \in Int
    BY <2>1, <2>2, BackOnWall DEF WallBack
  <2> QED BY <2>3, Offsets DEF w
<1>3. Noon(last + 1) - 24 = NoonOf(last) /\ NoonOf(first) = first * 24 + 12 /\ NoonOf(last) = last * 24 + 12
  BY <1>1, <1>2 DEF NoonOf
<1>4. CalendarDates(u, first, last) =
        [from |-> Noon(first), to |-> IF Noon(last + 1) - 24 # Noon(first) THEN Noon(last + 1) - 24 ELSE 0, timed |-> FALSE]
  BY DEF CalendarDates
<1> HIDE DEF Noon
<1>5. CalendarDates(u, first, last) =
        [from |-> NoonOf(first), to |-> IF NoonOf(last) # NoonOf(first) THEN NoonOf(last) ELSE 0, timed |-> FALSE]
  BY <1>1, <1>3, <1>4
<1>6. Days(first, last) = [first |-> first, last |-> IF last = first THEN 0 ELSE last]
  BY DEF Days
<1>7. CASE last = first
  BY <1>5, <1>6, <1>7 DEF NoonOf
<1>8. CASE last # first
  <2>1. NoonOf(last) # NoonOf(first)
    BY <1>1, <1>3, <1>8
  <2> QED BY <1>5, <1>6, <1>8, <2>1
<1> QED BY <1>7, <1>8

LEMMA EventChangeKeeps == ASSUME NEW u \in CdUsers, DatesInv, EventChange(u)  PROVE DatesInv'
<1>1. PICK first \in CdDays, last \in CdDays : Write(CalendarDates(u, first, last), Days(first, last), cdDialog)
  BY DEF EventChange
<1>2. CdClick
  BY DEF EventChange
<1> QED BY <1>1, <1>2, CalendarNoons, NoonsKeep

LEMMA NewEventKeeps == ASSUME NEW u \in CdUsers, DatesInv, NewEvent(u)  PROVE DatesInv'
<1>1. CdClick
  BY DEF NewEvent
<1>2. CASE \E day \in CdDays :
             Write([NoDate EXCEPT !.from = ToStored(u, FromWall(u, day * 24 + 12))], Days(day, day), cdDialog)
  <2>1. PICK day \in CdDays :
             Write([NoDate EXCEPT !.from = ToStored(u, FromWall(u, day * 24 + 12))], Days(day, day), cdDialog)
    BY <1>2
  <2>2. ToStored(u, FromWall(u, day * 24 + 12)) = NoonOf(day)
    BY PickedStands
  <2>3. [NoDate EXCEPT !.from = NoonOf(day)] = [from |-> NoonOf(day), to |-> NoonOf(0), timed |-> FALSE]
    <3> DEFINE n == NoonOf(day) none == FALSE
    <3>1. NoonOf(0) = 0
      BY DEF NoonOf
    <3>2. NoDate = [from |-> 0, to |-> 0, timed |-> none]
      BY DEF NoDate
    <3> HIDE DEF n, none
    <3>3. [NoDate EXCEPT !.from = n] = [from |-> n, to |-> NoonOf(0), timed |-> none]
      BY <3>1, <3>2
    <3> QED BY <3>3 DEF n, none
  <2>4. Days(day, day) = [first |-> day, last |-> 0]
    BY DEF Days
  <2> QED BY <1>1, <2>1, <2>2, <2>3, <2>4, NoonsKeep
<1>3. CASE \E first, last \in CdDays : Write(CalendarDates(u, first, last), Days(first, last), cdDialog)
  BY <1>1, <1>3, CalendarNoons, NoonsKeep
<1> QED BY <1>2, <1>3 DEF NewEvent

----------------------------------------------------------------------------
\* The filter has nothing to do with the property and its dialogs.
LEMMA FilterKeeps ==
  ASSUME DatesInv, CdClick, UNCHANGED <<cdStored, cdDialog, cdMeant>>,
         cdFilter'.value = NoonOf(cdFilter'.day), cdFilter'.day = 0 \/ cdFilter'.day \in CdDays
  PROVE  DatesInv'
<1>1. cdDialog' \in [CdUsers -> Seq(CdDialogs)]
  BY DEF DatesInv
<1>2. ASSUME NEW v \in CdUsers, IsOpen(v)'
      PROVE  DialogFits(v)'
  <2>1. cdDialog'[v] = cdDialog[v] /\ IsOpen(v)
    BY <1>2 DEF IsOpen
  <2> QED BY <2>1, DialogStill
<1>3. (cdFilter.value = NoonOf(cdFilter.day) /\ (cdFilter.day = 0 \/ cdFilter.day \in CdDays))'
  OBVIOUS
<1> QED BY <1>1, <1>2, <1>3, StoredStill DEF DatesInv

LEMMA PickFilterKeeps == ASSUME NEW u \in CdUsers, DatesInv, PickFilterDay(u)  PROVE DatesInv'
<1>1. PICK day \in CdDays : cdFilter' = [value |-> FilterValue(u, FromWall(u, day * 24 + 12)), day |-> day]
  BY DEF PickFilterDay
<1>2. FilterValue(u, FromWall(u, day * 24 + 12)) = NoonOf(day)
  BY PickedStands DEF FilterValue
<1>3. cdFilter'.value = NoonOf(day) /\ cdFilter'.day = day
  BY <1>1, <1>2
<1> QED BY <1>3, FilterKeeps DEF PickFilterDay

LEMMA ClearFilterKeeps == ASSUME DatesInv, ClearFilterDay  PROVE DatesInv'
<1>1. cdFilter'.value = 0 /\ cdFilter'.day = 0
  BY DEF ClearFilterDay
<1> QED BY <1>1, FilterKeeps DEF ClearFilterDay, NoonOf

LEMMA DatesInit == CdInit => DatesInv
<1> SUFFICES ASSUME CdInit  PROVE DatesInv
  OBVIOUS
<1>1. cdStored \in CdValues /\ cdMeant \in [first : Nat, last : Nat] /\ cdOps \in 0..CdMaxOps
  BY CdAssumption DEF CdAssumption, CdInit, NoDate, NoDays, CdValues
<1>2. cdDialog \in [CdUsers -> Seq(CdDialogs)] /\ \A u \in CdUsers : ~IsOpen(u)
  BY DEF CdInit, IsOpen
<1>3. InTime(cdStored.from) /\ InTime(cdStored.to) /\ (~cdStored.timed => AtNoons(cdStored, cdMeant))
  BY DEF CdInit, NoDate, NoDays, InTime, AtNoons, NoonOf
<1>4. cdFilter.value = NoonOf(cdFilter.day) /\ cdFilter.day = 0
  BY DEF CdInit, NoonOf
<1> QED BY <1>1, <1>2, <1>3, <1>4 DEF DatesInv

LEMMA DatesStep == ASSUME DatesInv, CdNext  PROVE DatesInv'
<1>1. ASSUME NEW u \in CdUsers, InDates(u)  PROVE DatesInv'
  BY <1>1, OpenKeeps, DayClickKeeps, RangeClickKeeps, ClearKeeps, TimeToggleKeeps, TypeTimeKeeps, TypeDayKeeps, CloseKeeps
     DEF InDates
<1>2. ASSUME NEW u \in CdUsers, OnCalendar(u)  PROVE DatesInv'
  BY <1>2, EventChangeKeeps, NewEventKeeps, PickFilterKeeps DEF OnCalendar
<1> QED BY <1>1, <1>2, ClearFilterKeeps DEF CdNext

LEMMA DatesStill == ASSUME DatesInv, UNCHANGED cdVars  PROVE DatesInv'
BY DEF DatesInv, cdVars, InTime, AtNoons, IsOpen, DialogFits, ValueIn, IsTimed, Meant, DaysShown

\* Every clock shows the days that were meant, and the filter finds them.
LEMMA DatesShown == ASSUME DatesInv  PROVE CdTypeOK /\ SameDayForAll /\ FilterFindsDay
<1>1. CdTypeOK
  <2>1. ASSUME NEW u \in CdUsers, IsOpen(u)
        PROVE  cdDialog[u][1] \in CdDialogs
    BY <2>1 DEF DatesInv, IsOpen
  <2>0. CdDays \subseteq Nat
    BY CdAssumption DEF CdAssumption
  <2>2. cdFilter.value = NoonOf(cdFilter.day) /\ (cdFilter.day = 0 \/ cdFilter.day \in CdDays)
    BY DEF DatesInv
  <2>3. cdFilter.value \in Int
    <3> DEFINE day == cdFilter.day
    <3>1. 0 \in Nat
      OBVIOUS
    <3>2. day \in Nat
      BY <2>0, <2>2, <3>1, Zenon
    <3> HIDE DEF day
    <3>3. NoonOf(day) \in Int
      BY <3>2 DEF NoonOf
    <3> QED BY <2>2, <3>3 DEF day
  <2> QED BY <2>1, <2>3 DEF CdTypeOK, DatesInv, CdValues, CdDialogs
<1>2. ASSUME ~cdStored.timed
      PROVE  AtNoons(cdStored, cdMeant) /\ cdMeant \in [first : Nat, last : Nat]
  BY <1>2 DEF DatesInv
<1>3. ASSUME NEW u \in CdUsers, ~cdStored.timed
      PROVE  DaysShown(u, cdStored) = cdMeant
  <2>1. ASSUME NEW t \in Int, NEW day \in Nat, t = NoonOf(day)
        PROVE  DayShown(u, ToShow(u, cdStored, t)) = day
    <3>1. CASE day = 0
      BY <2>1, <3>1 DEF NoonOf, DayShown, ToShow
    <3>2. CASE day # 0
      <4>1. t # 0 /\ t = day * 24 + 12 /\ Wall(u, FromStored(u, t)) = t /\ DayOf(t) = day
        BY <2>1, <3>2, NoonStands
      <4>2. ToShow(u, cdStored, t) = FromStored(u, t)
        BY <1>3, <4>1 DEF ToShow
      <4>3. FromStored(u, t) # 0
        BY <2>1, <3>2, <4>1, Offsets
      <4> QED BY <4>1, <4>2, <4>3 DEF DayShown
    <3> QED BY <3>1, <3>2
  <2>2. /\ cdStored.from \in Int /\ cdStored.to \in Int /\ cdMeant.first \in Nat /\ cdMeant.last \in Nat
        /\ cdStored.from = NoonOf(cdMeant.first) /\ cdStored.to = NoonOf(cdMeant.last)
    BY <1>2, <1>3 DEF DatesInv, CdValues, AtNoons
  <2>3. DayShown(u, ToShow(u, cdStored, cdStored.from)) = cdMeant.first
    BY <2>1, <2>2
  <2>4. DayShown(u, ToShow(u, cdStored, cdStored.to)) = cdMeant.last
    BY <2>1, <2>2
  <2>5. cdMeant = [first |-> cdMeant.first, last |-> cdMeant.last]
    BY <1>2, <1>3
  <2> QED BY <2>3, <2>4, <2>5 DEF DaysShown, DateFrom, DateTo
<1>4. ASSUME ~cdStored.timed, cdStored.from # 0, cdFilter.value # 0
      PROVE  IsFound <=> IF cdStored.to # 0 THEN cdMeant.first <= cdFilter.day /\ cdFilter.day <= cdMeant.last
                         ELSE cdMeant.first = cdFilter.day
  <2>1. /\ cdMeant.first \in Nat /\ cdMeant.last \in Nat
        /\ cdStored.from = NoonOf(cdMeant.first) /\ cdStored.to = NoonOf(cdMeant.last)
    BY <1>2, <1>4 DEF AtNoons
  <2>0. CdDays \subseteq Nat
    BY CdAssumption DEF CdAssumption
  <2>4. cdFilter.value = NoonOf(cdFilter.day) /\ (cdFilter.day = 0 \/ cdFilter.day \in CdDays)
    BY DEF DatesInv
  <2>5. 0 \in Nat
    OBVIOUS
  <2>2. cdFilter.value = NoonOf(cdFilter.day) /\ cdFilter.day \in Nat
    BY <2>0, <2>4, <2>5, Zenon
  <2>3. cdFilter.day # 0 /\ cdMeant.first # 0 /\ (cdStored.to # 0 <=> cdMeant.last # 0)
    BY <1>4, <2>1, <2>2 DEF NoonOf
  <2> QED BY <2>1, <2>2, <2>3 DEF NoonOf, IsFound
<1> QED BY <1>1, <1>3, <1>4 DEF SameDayForAll, FilterFindsDay

LEMMA DatesKept ==
  ASSUME DatesInv, [WebNext]_<<screen, sbVars, muVars, naVars, bvVars, cfVars, cdVars, ccVars, shVars, clVars,
                               trVars, cbVars, btVars, ldVars, dgVars>>
  PROVE  DatesInv'
<1>1. CdNext \/ UNCHANGED cdVars
  BY Zenon DEF WebNext, OpenScreen, On, Apart
<1> QED BY <1>1, DatesStep, DatesStill

\* A date without a time is on the same days for the users of all zones, through
\* every change of the dialog and the calendar, and a filter for a day finds it.
THEOREM DatesAgreeAlways == WebSpec => []DatesAgree
<1>1. WebInit => DatesInv
  BY DatesInit DEF WebInit
<1>2. DatesInv /\ [WebNext]_<<screen, sbVars, muVars, naVars, bvVars, cfVars, cdVars, ccVars, shVars, clVars,
                               trVars, cbVars, btVars, ldVars, dgVars>> => DatesInv'
  BY DatesKept
<1>3. DatesInv => DatesAgree
  BY DatesShown DEF DatesAgree
<1> QED BY <1>1, <1>2, <1>3, PTL DEF WebSpec

----------------------------------------------------------------------------
(***************************************************************************)
(* The panel of a channel.                                                  *)
(***************************************************************************)
LEMMA PanelKept ==
  ASSUME PanelInv, [WebNext]_<<screen, sbVars, muVars, naVars, bvVars, cfVars, cdVars, ccVars, shVars, clVars,
                               trVars, cbVars, btVars, ldVars, dgVars>>
  PROVE  PanelInv'
<1>1. CbNext \/ UNCHANGED cbVars
  BY Zenon DEF WebNext, OpenScreen, On, Apart
<1> QED BY <1>1, PanelStep, PanelStill

\* At rest the panel of a channel lists the boards that the server links to it,
\* the results are those of the query, and the cards those of the selected board,
\* whatever the order in which answers, news and clicks came.
THEOREM PanelAgreesAlways == WebSpec => []PanelAgrees
<1>1. WebInit => PanelInv
  BY PanelInit DEF WebInit
<1>2. PanelInv /\ [WebNext]_<<screen, sbVars, muVars, naVars, bvVars, cfVars, cdVars, ccVars, shVars, clVars,
                               trVars, cbVars, btVars, ldVars, dgVars>> => PanelInv'
  BY PanelKept
<1>3. PanelInv => PanelAgrees
  BY PanelShown DEF PanelAgrees
<1> QED BY <1>1, <1>2, <1>3, PTL DEF WebSpec

----------------------------------------------------------------------------
(***************************************************************************)
(* The tour.                                                                *)
(***************************************************************************)
LEMMA TourKept ==
  ASSUME TourInv, [WebNext]_<<screen, sbVars, muVars, naVars, bvVars, cfVars, cdVars, ccVars, shVars, clVars,
                               trVars, cbVars, btVars, ldVars, dgVars>>
  PROVE  TourInv'
<1>1. TrNext \/ UNCHANGED trVars
  BY Zenon DEF WebNext, OpenScreen, On, Apart
<1> QED BY <1>1, TourStep, TourStill

\* The tour is never stuck while nothing failed, does not come back after its
\* end, keeps the page's copy at what the server has, and leaves no tip out, however
\* many requests are under way.
THEOREM TourGoesOnAlways == WebSpec => []TourGoesOn
<1>1. WebInit => TourInv
  BY TourInit DEF WebInit
<1>2. TourInv /\ [WebNext]_<<screen, sbVars, muVars, naVars, bvVars, cfVars, cdVars, ccVars, shVars, clVars,
                               trVars, cbVars, btVars, ldVars, dgVars>> => TourInv'
  BY TourKept
<1>3. TourInv => TourGoesOn
  BY TourShown DEF TourGoesOn
<1> QED BY <1>1, <1>2, <1>3, PTL DEF WebSpec

----------------------------------------------------------------------------
(***************************************************************************)
(* Boards from templates.                                                   *)
(***************************************************************************)
LEMMA TemplatesKept ==
  ASSUME BtInv, [WebNext]_<<screen, sbVars, muVars, naVars, bvVars, cfVars, cdVars, ccVars, shVars, clVars,
                            trVars, cbVars, btVars, ldVars, dgVars>>
  PROVE  BtInv'
<1>1. BtNext \/ UNCHANGED btVars
  BY Zenon DEF WebNext, OpenScreen, On, Apart
<1> QED BY <1>1, TemplatesStep, TemplatesStill

\* For any templates and channels, however often commands are undone: the preview is
\* of the active template, a board is linked to no other channel than it was asked
\* for, and every board can be taken back.  Until a creation is redone, a channel has
\* the one board that was chosen for it, unless a request for it failed or it was
\* undone, and the page shows no board that was removed.
THEOREM TemplatesAgreeAlways == WebSpec => []TemplatesAgree
<1>1. WebInit => BtInv
  BY TemplatesInit DEF WebInit
<1>2. BtInv /\ [WebNext]_<<screen, sbVars, muVars, naVars, bvVars, cfVars, cdVars, ccVars, shVars, clVars,
                            trVars, cbVars, btVars, ldVars, dgVars>> => BtInv'
  BY TemplatesKept
<1>3. BtInv => TemplatesAgree
  BY TemplatesShown DEF TemplatesAgree
<1> QED BY <1>1, <1>2, <1>3, PTL DEF WebSpec

----------------------------------------------------------------------------
(***************************************************************************)
(* Sharing.                                                                 *)
(***************************************************************************)
LEMMA SharingKept ==
  ASSUME ShInv, [WebNext]_<<screen, sbVars, muVars, naVars, bvVars, cfVars, cdVars, ccVars, shVars, clVars,
                            trVars, cbVars, btVars, ldVars, dgVars>>
  PROVE  ShInv'
<1>1. ShNext \/ UNCHANGED shVars
  BY Zenon DEF WebNext, OpenScreen, On, Apart
<1> QED BY <1>1, ShareStep, RestStep

\* For any users and channels, and any number of operations of two users who manage
\* the board, or did: while each was let end before the next and no request failed,
\* the dialog ends with the members and the link that the server has, and with its
\* roles and channel unless an undo put back a board that the other admin had changed;
\* undo brings back what there was before; and a copied link keeps its token until it
\* is made anew.
THEOREM SharingAgreesAlways == WebSpec => []SharingAgrees
<1>1. WebInit => ShInv
  BY Zenon, ShareStarts DEF WebInit
<1>2. ShInv /\ [WebNext]_<<screen, sbVars, muVars, naVars, bvVars, cfVars, cdVars, ccVars, shVars, clVars,
                            trVars, cbVars, btVars, ldVars, dgVars>> => ShInv'
  BY SharingKept
<1>3. ShInv => SharingAgrees
  BY ShareShown DEF SharingAgrees
<1> QED BY <1>1, <1>2, <1>3, PTL DEF WebSpec
=============================================================================
