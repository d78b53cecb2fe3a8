------------------------------ MODULE TeamLoad ------------------------------
(***************************************************************************)
(* The current team.  Five places keep it: the URL, the store, the client   *)
(* of the API, the browser's settings, and Mattermost, in whose sidebar a   *)
(* team is selected as well.  Each change of one goes to the others by      *)
(* effects and subscriptions, and has the lists of the team loaded anew:    *)
(* four requests each, and several loads may be under way.  A load that is  *)
(* refused leads to the error page.                                         *)
(*                                                                          *)
(* Boards within a team are in Navigation.tla.  What index.tsx expects of   *)
(* Mattermost (which team it selects when it is loaded) is external.  The   *)
(* pages without a login or a team (/welcome, /shared, /board) are left out, *)
(* and so is leaving Boards for another product.                            *)
(***************************************************************************)
EXTENDS Integers, Sequences, SequencesExt

CONSTANTS
  LdTeams,      \* all teams, in the order of their titles
  LdMine,       \* those that the user is in at first
  LdMaxClicks,  \* bound: what the user does
  LdMaxFaults,  \* bound: reads that fail, and what changes at the server
  LdMaxLoads    \* bound: the loads that are under way

ASSUME LdAssumption ==
  /\ LdTeams \in Seq(ToSet(LdTeams)) /\ LdMine \subseteq ToSet(LdTeams)
  /\ {"", "empty"} \cap ToSet(LdTeams) = {} /\ LdMaxLoads \in Nat

VARIABLES
  ldServer,   \* [session, teams]: whether the session is valid, the user's teams
  ldBrowser,  \* [kind, team, error, effects, asks, last]: the URL, effects to be run,
              \* what App and the home page asked for, lastTeamId
  ldMM,       \* [team, prev]: Mattermost's team, and the one the subscription saw last
  ldClient,   \* octoClient.teamId
  ldStore,    \* [id, team, boards, teams, loggedIn, error]; boards: whose boards
  ldReqs,     \* the loads under way
  ldPast      \* history and counters

ldVars == <<ldServer, ldBrowser, ldMM, ldClient, ldStore, ldReqs, ldPast>>

NoTeam == ""
StoreEmptied == [id |-> NoTeam, team |-> NoTeam, boards |-> NoTeam, teams |-> {}, loggedIn |-> "unknown", error |-> ""]

\* allTeams is sorted by title.
FirstTeam(teams) ==
  IF teams = {} THEN NoTeam ELSE LdTeams[SelectInSeq(LdTeams, LAMBDA t : t \in teams)]

AtTeam(t) == ldBrowser.kind = "team" /\ ldBrowser.team = t

----------------------------------------------------------------------------
(***************************************************************************)
(* The loads.                                                               *)
(***************************************************************************)

Reads == {"me", "team", "teams", "boards"}

\* initialLoad asks for all at once, for the team that the client has now.
Load(t) == [team |-> t, reads |-> Reads, me |-> FALSE, current |-> FALSE, teams |-> {}, boards |-> NoTeam]

SendLoads(loads) ==
  /\ Len(ldReqs) + Len(loads) <= LdMaxLoads
  /\ ldReqs' = ldReqs \o loads

LdClick(clean) ==
  /\ ldPast.clicks < LdMaxClicks
  /\ ldPast' = [ldPast EXCEPT !.clicks = @ + 1, !.clean = @ /\ clean]

LdFault ==
  /\ ldPast.faults < LdMaxFaults
  /\ ldPast' = [ldPast EXCEPT !.faults = @ + 1, !.torn = TRUE, !.clean = FALSE]

\* What the server lets the user read for a team, when the read of one of them
\* may fail: a refusal is told from the answer for no user and no team, but not
\* for lists.
ReadAnswered(load, reads, fails) ==
  LET served == {read \in reads : ldServer.session /\ read # fails}
      inTeam == load.team \in ldServer.teams IN
  [load EXCEPT !.reads = @ \ reads,
     !.me = @ \/ "me" \in served,
     !.current = @ \/ ("team" \in served /\ inTeam),
     !.teams = IF "teams" \in served THEN ldServer.teams ELSE @,
     !.boards = IF "boards" \notin reads THEN @ ELSE IF "boards" \in served /\ inTeam THEN load.team ELSE "empty"]

\* A read that finds no server ends the load, whatever the others bring.
BreakRead ==
  /\ \E i \in DOMAIN ldReqs : ldReqs[i].reads # {} /\ ldReqs' = RemoveAt(ldReqs, i)
  /\ ldStore' = [ldStore EXCEPT !.error = "unknown"]
  /\ LdFault
  /\ UNCHANGED <<ldServer, ldBrowser, ldMM, ldClient>>

\* A load without a user or a team is refused; else its lists take the place of
\* those in the store, whatever team is the current one by now.
Taken(r) ==
  IF ~r.me THEN [ldStore EXCEPT !.error = "not-logged-in"]
  ELSE IF ~r.current THEN [ldStore EXCEPT !.error = "team-undefined"]
  ELSE [ldStore EXCEPT !.team = r.team, !.boards = r.boards, !.teams = r.teams]

\* Each read is answered by itself and in any order, which matters to a change of
\* the server only (ServerChanges): those that no change comes after are answered
\* here, where the load has all.
ArriveLoad ==
  /\ \E i \in DOMAIN ldReqs :
       \E fails \in ldReqs[i].reads \cup {""} :
         /\ fails # "" => ldPast.faults < LdMaxFaults
         /\ ldReqs' = RemoveAt(ldReqs, i)
         /\ ldStore' = Taken(ReadAnswered(ldReqs[i], ldReqs[i].reads, fails))
         /\ ldPast' = [ldPast EXCEPT !.swapped = @ \/ i > 1, !.faults = IF fails # "" THEN @ + 1 ELSE @,
                         !.torn = @ \/ fails # "", !.clean = @ /\ fails = ""]
  /\ UNCHANGED <<ldServer, ldBrowser, ldMM, ldClient>>

----------------------------------------------------------------------------
(***************************************************************************)
(* One team in five places.                                                 *)
(***************************************************************************)

\* setTeam knows the team's name only if the list of teams has it.
SetTeam(t) ==
  ldStore' = [ldStore EXCEPT !.id = t, !.team = IF t \in ldStore.teams THEN t ELSE @]

\* The store's subscription selects the team in Mattermost, and Mattermost's
\* subscription loads it.
NoteTeam(t) == ldMM' = [ldMM EXCEPT !.prev = t]   \* without the selection
FollowTeam(t) == ldMM' = [team |-> t, prev |-> t]

\* The effects of the page: the team of the URL is remembered and is that of
\* the client from now on, then the page loads it as well.
RunEffects ==
  /\ ldBrowser.effects /\ ldBrowser.kind = "team"
  /\ LET t == ldBrowser.team IN
       /\ ldBrowser' = [ldBrowser EXCEPT !.effects = FALSE, !.last = t]
       /\ ldClient' = t
       /\ SetTeam(t)
       /\ IF ldStore.id # t THEN FollowTeam(t) ELSE UNCHANGED ldMM
       /\ SendLoads(IF ldStore.id # t /\ ldMM.prev # t THEN <<Load(t), Load(t)>> ELSE <<Load(t)>>)
  /\ UNCHANGED <<ldServer, ldPast>>

\* The user selects a team in Mattermost's sidebar, or Mattermost tells for the
\* first time which one it has: the page follows unless it shows that team, is
\* not that of Boards, or this is the first time.
SelectTeam ==
  /\ ~ldBrowser.effects
  /\ \E t \in ldServer.teams :
       /\ \/ t # ldMM.team /\ LdClick(TRUE)
          \/ t = ldMM.team /\ ldMM.prev = NoTeam /\ UNCHANGED ldPast
       /\ ldMM' = [team |-> t, prev |-> t]
       /\ ldBrowser' = IF ldMM.prev # NoTeam /\ ldBrowser.kind # "away" /\ ~AtTeam(t)
                       THEN [ldBrowser EXCEPT !.kind = "team", !.team = t, !.error = "", !.effects = TRUE]
                       ELSE ldBrowser
       /\ ldClient' = t
       /\ SetTeam(t)
       /\ SendLoads(<<Load(t)>>)
  /\ UNCHANGED ldServer

\* App asks for the user when it is mounted, the home page for the teams.
AppAsks == ldBrowser.asks \cup (IF ldBrowser.kind = "away" THEN {"me"} ELSE {})

\* A link to a board of a team, which the user may not be in.
FollowLink ==
  /\ ~ldBrowser.effects
  /\ \E t \in ToSet(LdTeams) :
       /\ ~AtTeam(t)
       /\ ldBrowser' = [ldBrowser EXCEPT !.kind = "team", !.team = t, !.error = "", !.effects = TRUE,
                                         !.asks = AppAsks]
       /\ LdClick(t \in ldServer.teams)
  /\ UNCHANGED <<ldServer, ldMM, ldClient, ldStore, ldReqs>>

\* Another board or view is shown, or Mattermost is connected again: all lists
\* are loaded again.
ShowAnother ==
  /\ ldBrowser.kind = "team" /\ ~ldBrowser.effects
  /\ SendLoads(<<Load(ldClient)>>)
  /\ LdClick(TRUE)
  /\ UNCHANGED <<ldServer, ldBrowser, ldMM, ldClient, ldStore>>

----------------------------------------------------------------------------
(***************************************************************************)
(* Opening Boards, and the error page.                                      *)
(***************************************************************************)

OpenBoards ==
  /\ ldBrowser.kind = "away"
  /\ ldBrowser' = [ldBrowser EXCEPT !.kind = "home", !.asks = AppAsks \cup {"teams"}]
  /\ LdClick(TRUE)
  /\ UNCHANGED <<ldServer, ldMM, ldClient, ldStore, ldReqs>>

\* fetchMe: the page shown loads its lists again when it learns who the user is.
FetchMe ==
  /\ "me" \in ldBrowser.asks
  /\ ldBrowser' = [ldBrowser EXCEPT !.asks = @ \ {"me"}]
  /\ \/ /\ ldServer.session
        /\ ldStore' = [ldStore EXCEPT !.loggedIn = "yes"]
        /\ IF ldBrowser.kind = "team" /\ ~ldBrowser.effects
           THEN SendLoads(<<Load(ldClient)>>) ELSE UNCHANGED ldReqs
        /\ UNCHANGED ldPast
     \/ /\ ldStore' = [ldStore EXCEPT !.loggedIn = "no"]
        /\ IF ldServer.session THEN LdFault ELSE UNCHANGED ldPast
        /\ UNCHANGED ldReqs
  /\ UNCHANGED <<ldServer, ldMM, ldClient>>

\* fetchTeams, whose failure is told from "no teams" only if the server is not found.
FetchTeams ==
  /\ "teams" \in ldBrowser.asks
  /\ ldBrowser' = [ldBrowser EXCEPT !.asks = @ \ {"teams"}]
  /\ \/ /\ ldStore' = [ldStore EXCEPT !.teams = IF ldServer.session THEN ldServer.teams ELSE {}]
        /\ UNCHANGED ldPast
     \/ LdFault /\ ldStore' = [ldStore EXCEPT !.teams = {}]
     \/ LdFault /\ UNCHANGED ldStore
  /\ UNCHANGED <<ldServer, ldMM, ldClient, ldReqs>>

\* getCurrentTeamId: "/" leads to the team that is selected in Mattermost, else to
\* the one that was shown last, else to the first that is known.
HomeTeam ==
  IF ldMM.team # NoTeam THEN ldMM.team
  ELSE IF ldBrowser.last # NoTeam THEN ldBrowser.last
  ELSE FirstTeam(ldStore.teams)

HomeToCurrentTeam ==
  /\ ldBrowser.kind = "home" /\ HomeTeam # NoTeam
  /\ ldBrowser' = [ldBrowser EXCEPT !.kind = "team", !.team = HomeTeam, !.effects = TRUE]
  /\ UNCHANGED <<ldServer, ldMM, ldClient, ldStore, ldReqs, ldPast>>

\* A page that needs a login.
LoginRedirect ==
  /\ ldBrowser.kind \in {"home", "team"} /\ ldStore.loggedIn = "no"
  /\ ldBrowser' = [ldBrowser EXCEPT !.kind = "error", !.error = "not-logged-in", !.effects = FALSE]
  /\ UNCHANGED <<ldServer, ldMM, ldClient, ldStore, ldReqs, ldPast>>

\* The error of a refused load is shown once; while Boards is not shown it waits.
GlobalErrorRedirect ==
  /\ ldStore.error # "" /\ ldBrowser.kind # "away" /\ ~ldBrowser.effects
  /\ ldStore' = [ldStore EXCEPT !.error = ""]
  /\ ldBrowser' = [ldBrowser EXCEPT !.kind = "error", !.error = ldStore.error]
  /\ UNCHANGED <<ldServer, ldMM, ldClient, ldReqs, ldPast>>

\* The browser loads Mattermost anew, which selects one of the user's teams.
Reloaded(browser) ==
  /\ ldStore' = StoreEmptied /\ ldReqs' = <<>> /\ ldClient' = NoTeam
  /\ \E t \in ldServer.teams \cup {NoTeam} : ldMM' = [team |-> t, prev |-> NoTeam]
  /\ ldBrowser' = [browser EXCEPT !.kind = "away", !.team = NoTeam, !.error = "", !.effects = FALSE,
                                  !.asks = {}]

\* "Back to Home" forgets the team.  ("Log in" leads to /login, which no route
\* has.)
ForgetLast(browser) == [browser EXCEPT !.last = NoTeam]

BackToHome ==
  /\ ldBrowser.kind = "error" /\ ldBrowser.error = "team-undefined"
  /\ Reloaded(ForgetLast(ldBrowser))
  /\ ldPast' = [ldPast EXCEPT !.clean = ldServer.session]
  /\ UNCHANGED ldServer

\* After any other error it leads to "/", and forgets nothing.
GoHome ==
  /\ ldBrowser.kind = "error" /\ ldBrowser.error = "unknown"
  /\ ldBrowser' = [ldBrowser EXCEPT !.kind = "home", !.error = "", !.asks = @ \cup {"teams"}]
  /\ UNCHANGED <<ldServer, ldMM, ldClient, ldStore, ldReqs, ldPast>>

GoToLogin ==
  /\ ldBrowser.kind = "error" /\ ldBrowser.error = "not-logged-in"
  /\ ldBrowser' = [ldBrowser EXCEPT !.kind = "login"]
  /\ UNCHANGED <<ldServer, ldMM, ldClient, ldStore, ldReqs, ldPast>>

----------------------------------------------------------------------------
(***************************************************************************)
(* The server.                                                              *)
(***************************************************************************)

\* The session ends, or the user leaves a team, after some reads of the loads
\* under way and before the others.
ServerChanges ==
  /\ ldPast.faults < LdMaxFaults
  /\ \/ ldServer' = [ldServer EXCEPT !.session = FALSE]
     \/ \E t \in ldServer.teams : ldServer' = [ldServer EXCEPT !.teams = @ \ {t}]
  /\ ldServer' # ldServer
  /\ \E before \in [DOMAIN ldReqs -> SUBSET Reads] :
       /\ \A i \in DOMAIN ldReqs : before[i] \subseteq ldReqs[i].reads
       /\ ldReqs' = [i \in DOMAIN ldReqs |-> ReadAnswered(ldReqs[i], before[i], "")]
       /\ ldPast' = [ldPast EXCEPT !.faults = @ + 1, !.clean = FALSE,
            !.torn = @ \/ \E i \in DOMAIN ldReqs : before[i] \notin {{}, ldReqs[i].reads}]
  /\ UNCHANGED <<ldBrowser, ldMM, ldClient, ldStore>>

LdInit ==
  /\ ldServer = [session |-> TRUE, teams |-> LdMine]
  /\ ldBrowser = [kind |-> "away", team |-> NoTeam, error |-> "", effects |-> FALSE, asks |-> {}, last |-> NoTeam]
  /\ ldMM = [team |-> NoTeam, prev |-> NoTeam]
  /\ ldClient = NoTeam /\ ldStore = StoreEmptied /\ ldReqs = <<>>
  /\ ldPast = [clicks |-> 0, faults |-> 0, torn |-> FALSE, swapped |-> FALSE, clean |-> TRUE]

LdNext ==
  \/ BreakRead \/ ArriveLoad \/ RunEffects \/ SelectTeam \/ FollowLink \/ ShowAnother
  \/ OpenBoards \/ FetchMe \/ FetchTeams \/ HomeToCurrentTeam \/ LoginRedirect \/ GlobalErrorRedirect
  \/ BackToHome \/ GoHome \/ GoToLogin \/ ServerChanges

LdSpec == LdInit /\ [][LdNext]_ldVars

----------------------------------------------------------------------------
(***************************************************************************)
(* Properties.                                                              *)
(***************************************************************************)

LdTypeOK ==
  LET teams == ToSet(LdTeams) \cup {NoTeam} IN
  /\ ldServer.session \in BOOLEAN /\ ldServer.teams \subseteq ToSet(LdTeams)
  /\ ldBrowser.kind \in {"away", "home", "team", "error", "login"} /\ ldBrowser.team \in teams
  /\ {ldBrowser.last, ldMM.team, ldMM.prev, ldClient, ldStore.id, ldStore.team} \subseteq teams
  /\ ldStore.boards \in teams \cup {"empty"} /\ Len(ldReqs) <= LdMaxLoads
  /\ \A i \in DOMAIN ldReqs : ldReqs[i].reads \subseteq Reads /\ ldReqs[i].team \in teams

\* Once its effects have run, a page of a team finds that team in the store,
\* the client, the settings and Mattermost, wherever it was selected.
TeamsAgree ==
  ldBrowser.kind = "team" /\ ~ldBrowser.effects =>
    {ldStore.id, ldClient, ldBrowser.last, ldMM.team, ldMM.prev} = {ldBrowser.team}

\* A page of a team lists that team's boards when all loads are answered in the
\* order in which they were sent, and none was refused.
ListsOfTeam ==
  ldBrowser.kind = "team" /\ ~ldBrowser.effects /\ ldReqs = <<>> /\ ldStore.error = ""
    /\ ~ldPast.swapped /\ ~ldPast.torn =>
      ldStore.boards = ldBrowser.team /\ ldStore.team = ldBrowser.team

\* A team that the user is not in, or cannot read, is not shown as one without
\* boards, unless a read fails alone or the team is left between two reads.
EmptyIsNotStored == ~ldPast.torn => ldStore.boards # "empty"

\* The error page can be left: from "Back to Home" the user gets back into a
\* team, unless something else goes wrong.
WayBack == ldPast.clean => ldBrowser.kind # "error"
=============================================================================
