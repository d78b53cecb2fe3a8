----------------------------- MODULE Onboarding -----------------------------
(***************************************************************************)
(* The welcome page and the guided tour of the web application.  How far a  *)
(* user is, is kept by the server in the user's preferences: the welcome    *)
(* page was seen, a tour was started, and the category and the step of the  *)
(* tour.  The page has a copy (myConfig) and a tip is shown where the copy  *)
(* says.  Every click on a tip sends a patch of some of the preferences and *)
(* the answer, all the preferences, replaces the copy.                      *)
(***************************************************************************)
EXTENDS Integers, Sequences, SequencesExt

CONSTANT TrMaxRaces   \* bound: the requests sent while others are not answered

VARIABLES
  trServer,  \* the preferences that the server keeps
  trLocal,   \* the page's copy of them
  trPage,    \* what the page shows
  trHidden,  \* the tip at the current step was put away
  trReqs,    \* the requests that are not answered
  trSeen,    \* history: the tips that were shown since the tour began
  trPast     \* history: how the tour went so far

trVars == <<trServer, trLocal, trPage, trHidden, trReqs, trSeen, trPast>>

FINISHED == 999
TOUR_BASE == "base"
TOUR_CARD == "card"
TOUR_BOARD == "board"
TOUR_SIDEBAR == "sidebar"
TOUR_ORDER == <<TOUR_BASE, TOUR_CARD, TOUR_BOARD, TOUR_SIDEBAR>>
NoStep == -1

\* The steps of each category (index.ts keeps them as 0, 1, 2, ...).
TourSteps == [c \in {TOUR_BASE, TOUR_CARD, TOUR_BOARD, TOUR_SIDEBAR} |->
                IF c = TOUR_BASE THEN {0} ELSE 0 .. 2]

Preferences == [viewed : BOOLEAN, started : BOOLEAN,
          category : {"", "onboarding"} \cup ToSet(TOUR_ORDER), step : {NoStep, 0, 1, 2, FINISHED}]

FirstPreferences == [viewed |-> FALSE, started |-> FALSE, category |-> "", step |-> NoStep]

----------------------------------------------------------------------------
(***************************************************************************)
(* The tips: where each one stands.  "board" is a copy of the welcome board *)
(* without a card open, "card" its first card opened, "other" another board.*)
(***************************************************************************)

TourTip(category, step, pages) == [category |-> category, step |-> step, pages |-> pages, hideNavButtons |-> FALSE]

OpenCardTourStep == [TourTip(TOUR_BASE, 0, {"board"}) EXCEPT !.hideNavButtons = TRUE]
AddPropertiesTourStep == TourTip(TOUR_CARD, 0, {"card"})
AddCommentTourStep == TourTip(TOUR_CARD, 1, {"card"})
AddDescriptionTourStep == TourTip(TOUR_CARD, 2, {"card"})
AddViewTourStep == TourTip(TOUR_BOARD, 0, {"board"})
CopyLinkTourStep == TourTip(TOUR_BOARD, 1, {"board"})
\* The button it stands at is there while a card is open, too.
ShareBoardTourStep == TourTip(TOUR_BOARD, 2, {"board", "card"})
\* The tips of the sidebar are shown on every board (showForce).
SidebarCategoriesTourStep == TourTip(TOUR_SIDEBAR, 0, {"board", "other"})
ManageCategoriesTourStep == TourTip(TOUR_SIDEBAR, 1, {"board", "other"})
SearchForBoardsTourStep == TourTip(TOUR_SIDEBAR, 2, {"board", "other"})

TourTips == {OpenCardTourStep, AddPropertiesTourStep, AddCommentTourStep, AddDescriptionTourStep,
         AddViewTourStep, CopyLinkTourStep, ShareBoardTourStep,
         SidebarCategoriesTourStep, ManageCategoriesTourStep, SearchForBoardsTourStep}

\* The tips that the page shows for a copy of the preferences; none or one.
TourTipRenderer(cfg, page) ==
  {t \in TourTips : cfg.started /\ cfg.category = t.category /\ cfg.step = t.step /\ page \in t.pages}

TipsShown == TourTipRenderer(trLocal, trPage)
OpenTips == IF trHidden THEN {} ELSE TipsShown

TipPlaces == {<<t.category, t.step>> : t \in TourTips}
PlaceOf(cfg) == <<cfg.category, cfg.step>>

----------------------------------------------------------------------------
(***************************************************************************)
(* Requests.  A patch keeps the fields that it does not name.               *)
(***************************************************************************)

Kept == "keep"
NoPatch == [viewed |-> Kept, started |-> Kept, category |-> Kept, step |-> <<>>]
StepTo(s) == [NoPatch EXCEPT !.step = <<s>>]
MoveOnTo(c, s) == [NoPatch EXCEPT !.category = c, !.step = <<s>>]

PatchedConfig(cfg, p) ==
  [viewed   |-> IF p.viewed = Kept THEN cfg.viewed ELSE TRUE,
   started  |-> IF p.started = Kept THEN cfg.started ELSE TRUE,
   category |-> IF p.category = Kept THEN cfg.category ELSE p.category,
   step     |-> IF p.step = <<>> THEN cfg.step ELSE p.step[1]]

\* A request, what runs when it is answered, and the answer (none at first).
TourReq(kind, patch, then) == [kind |-> kind, patch |-> patch, then |-> then, status |-> "sent", answer |-> <<>>]

Restarts(r) == r.patch.started # Kept \/ r.kind = "prepare"

\* The history notes a click that may pass over tips, and a click while a new
\* tour is being started.
SendPreferences(r, jumps) ==
  LET early == trReqs # <<>> IN
  /\ early => trPast.races < TrMaxRaces
  /\ trReqs' = Append(trReqs, r)
  /\ trPast' = [trPast EXCEPT !.races = @ + Len(trReqs), !.jumped = @ \/ jumps \/ early,
                  !.mixed = @ \/ (early /\ \E i \in 1 .. Len(trReqs') : Restarts(trReqs'[i]))]

SendPatch(p, jumps) == SendPreferences(TourReq("patch", p, "none"), jumps)

\* A route shows the welcome page instead until it was seen.
FBRoute(cfg, page) == IF page \in {"board", "card", "other"} /\ ~cfg.viewed THEN "welcome" ELSE page

\* The page after the copy changed or the user went elsewhere: a tip that
\* appears is open, and it counts as seen (kept while no click passed over one).
ShowsTour(cfg, page) ==
  LET to == FBRoute(cfg, page)
      tips == TourTipRenderer(cfg, to) IN
  /\ trLocal' = cfg /\ trPage' = to
  /\ trHidden' = (trHidden /\ tips = TipsShown)
  /\ trSeen' = IF trPast.jumped THEN {} ELSE trSeen \cup {<<t.category, t.step>> : t \in tips}

----------------------------------------------------------------------------
(***************************************************************************)
(* The welcome page.                                                        *)
(***************************************************************************)

\* The user has been through the tour of an older version, without a sidebar.
OlderVersion ==
  /\ trPage = "none" /\ trServer = FirstPreferences
  /\ trServer' = [viewed |-> TRUE, started |-> TRUE, category |-> TOUR_BOARD, step |-> FINISHED]
  /\ trPast' = [trPast EXCEPT !.jumped = TRUE]
  /\ UNCHANGED <<trLocal, trPage, trHidden, trReqs, trSeen>>

\* The page is loaded with the preferences.
LoadApp ==
  /\ trPage = "none"
  /\ ShowsTour(trServer, "other")
  /\ UNCHANGED <<trServer, trReqs, trPast>>

SetWelcomePageViewed(then, jumps) == SendPreferences(TourReq("patch", [NoPatch EXCEPT !.viewed = "1"], then), jumps)

StartTour ==
  /\ trPage = "welcome"
  /\ SetWelcomePageViewed("startTour", FALSE)
  /\ UNCHANGED <<trServer, trLocal, trPage, trHidden, trSeen>>

SkipTour ==
  /\ trPage = "welcome"
  /\ SetWelcomePageViewed("skipTour", TRUE)
  /\ UNCHANGED <<trServer, trLocal, trPage, trHidden, trSeen>>

\* The page leaves by itself as soon as the copy says that it was seen.
WelcomePage(cfg, page) == IF page = "welcome" /\ cfg.viewed THEN "other" ELSE page

----------------------------------------------------------------------------
(***************************************************************************)
(* The tips' buttons.                                                       *)
(***************************************************************************)

GetLastStep(category) == CHOOSE m \in TourSteps[category] : \A s \in TourSteps[category] : s <= m

\* The place after the last step of a category.
NextTourFinished(category) == StepTo(FINISHED)   \* without the next category
NextTour(category) ==
  LET i == CHOOSE j \in 1 .. Len(TOUR_ORDER) : TOUR_ORDER[j] = category IN
  IF i = Len(TOUR_ORDER) THEN MoveOnTo(category, FINISHED) ELSE MoveOnTo(TOUR_ORDER[i + 1], 0)

HandleSendToNextTour(category, jumps) == SendPatch(NextTour(category), jumps)

\* The tip is put away at once and only the step is sent.
HandleSavePreferences(step, jumps) == trHidden' = TRUE /\ SendPatch(StepTo(step), jumps)

HandleNext(t) ==
  /\ ~t.hideNavButtons
  /\ IF GetLastStep(t.category) = t.step
     THEN HandleSendToNextTour(t.category, FALSE) /\ UNCHANGED trHidden
     ELSE HandleSavePreferences(t.step + 1, FALSE)

HandlePrevious(t) ==
  /\ ~t.hideNavButtons /\ t.step # 0
  /\ HandleSavePreferences(t.step - 1, FALSE)

\* The dots: one for each step of the category, those ahead included.
HandleDot(t) ==
  \E s \in TourSteps[t.category] : HandleSavePreferences(s, s > t.step)

\* The cross and the backdrop skip the rest of the category.
HandleClose(t) ==
  /\ trHidden' = TRUE
  /\ HandleSendToNextTour(t.category, TRUE)

\* A click on the tip that is open.
TutorialTourTip ==
  /\ \E t \in OpenTips : HandleNext(t) \/ HandlePrevious(t) \/ HandleDot(t) \/ HandleClose(t)
  /\ UNCHANGED <<trServer, trLocal, trPage, trSeen>>

\* A click beside the tip hides it; the dot that stays opens it again.
HandleHide ==
  /\ TipsShown # {} /\ trHidden' = ~trHidden
  /\ UNCHANGED <<trServer, trLocal, trPage, trReqs, trSeen, trPast>>

----------------------------------------------------------------------------
(***************************************************************************)
(* Where a tour begins or passes to the next category by itself.            *)
(***************************************************************************)

\* Opening the welcome board's card ends the first category.
OpenTourCard ==
  /\ trPage = "board"
  /\ ShowsTour(trLocal, "card")
  /\ IF trLocal.started /\ PlaceOf(trLocal) = <<TOUR_BASE, 0>>
     THEN SendPatch(MoveOnTo(TOUR_CARD, 0), FALSE)
     ELSE UNCHANGED <<trReqs, trPast>>
  /\ UNCHANGED trServer

\* The user closes the card, or goes to the welcome board or to another one.
VisitBoard ==
  /\ trPage \in {"board", "card", "other"}
  /\ \E page \in {"board", "other"} \ {trPage} :
       /\ page = "board" => trServer.started
       /\ ShowsTour(trLocal, page)
  /\ UNCHANGED <<trServer, trReqs, trPast>>

\* Who finished the tour of an older version gets that of the sidebar, once
\* its tip stands on the page.
SidebarTour ==
  /\ trPage \in {"board", "other"} /\ PlaceOf(trLocal) = <<TOUR_BOARD, FINISHED>>
  /\ \A i \in 1 .. Len(trReqs) : trReqs[i].patch # MoveOnTo(TOUR_SIDEBAR, 0)
  /\ SendPatch(MoveOnTo(TOUR_SIDEBAR, 0), FALSE)
  /\ UNCHANGED <<trServer, trLocal, trPage, trHidden, trSeen>>

RestartTour(category) == [NoPatch EXCEPT !.started = "1", !.category = category, !.step = <<0>>]

\* A board made from the welcome template begins the tour anew.
ResetTour ==
  /\ trPage \in {"board", "card", "other"}
  /\ ShowsTour(trLocal, "board")
  /\ SendPatch(RestartTour(TOUR_BASE), FALSE)
  /\ UNCHANGED trServer

\* The menu's "Product tour" sends a category that no tip has; the board that
\* the server then prepares puts the first one in its place.
ProductTour ==
  /\ trPage \in {"board", "card", "other"}
  /\ SendPreferences(TourReq("patch", RestartTour("onboarding"), "productTour"), FALSE)
  /\ UNCHANGED <<trServer, trLocal, trPage, trHidden, trSeen>>

----------------------------------------------------------------------------
(***************************************************************************)
(* The server and the answers.                                              *)
(***************************************************************************)

\* The welcome board is copied and the preferences are put to the first step.
PrepareOnboardingTour(cfg) == [cfg EXCEPT !.started = TRUE, !.category = TOUR_BASE, !.step = 0]

\* The server answers a request, or it fails, which the page sees as undefined.
\* Requests are taken, and answers arrive, in the order they were sent.
ServeConfig ==
  \E i \in 1 .. Len(trReqs) :
    LET r == trReqs[i]
        cfg == CASE r.kind = "patch"   -> PatchedConfig(trServer, r.patch)
                 [] r.kind = "prepare" -> PrepareOnboardingTour(trServer)
                 [] r.kind = "fetch"   -> trServer IN
    /\ r.status = "sent" /\ \A j \in 1 .. i - 1 : trReqs[j].status # "sent"
    /\ \/ /\ trServer' = cfg
          /\ trReqs' = [trReqs EXCEPT ![i].status = "ok", ![i].answer = <<cfg>>]
          /\ trPast' = [trPast EXCEPT
                          !.ended = IF Restarts(r) THEN FALSE
                                    ELSE @ \/ PlaceOf(cfg) = <<TOUR_SIDEBAR, FINISHED>>]
       \/ /\ r.kind # "fetch" /\ ~trPast.failed
          /\ trReqs' = [trReqs EXCEPT ![i].status = "failed"]
          /\ trPast' = [trPast EXCEPT !.failed = TRUE]
          /\ UNCHANGED trServer
    /\ UNCHANGED <<trLocal, trPage, trHidden, trSeen>>

\* The request that follows one: the page awaits each before the next.
FollowUp(r) ==
  CASE r.then = "startTour"   -> <<TourReq("prepare", NoPatch, "prepared")>>
    [] r.then = "prepared"    -> <<TourReq("fetch", NoPatch, IF r.status = "ok" THEN "goToTour" ELSE "goNowhere")>>
    [] r.then = "productTour" -> <<TourReq("prepare", NoPatch, "goToTour")>>
    [] r.then = "skipTour"    -> <<TourReq("patch", MoveOnTo(TOUR_SIDEBAR, FINISHED), "skipped")>>
    [] OTHER                  -> <<>>

\* The copy takes what was patched or fetched; prepareOnboarding returns only
\* the ids of the team and of the board.
PatchProps(r) == IF r.kind # "prepare" /\ r.status = "ok" THEN r.answer[1] ELSE trLocal

\* Without an answer of prepareOnboarding the address is /team/undefined/undefined.
PageAfter(r) ==
  CASE r.then = "goToTour" /\ r.status = "ok" -> "board"
    [] r.then = "goNowhere" \/ (r.then = "goToTour" /\ r.status = "failed") -> "lost"
    [] r.then = "skipped" -> "other"
    [] OTHER -> trPage

AnswerComes ==
  /\ trReqs # <<>> /\ Head(trReqs).status # "sent"
  /\ trReqs' = Tail(trReqs) \o FollowUp(Head(trReqs))
  /\ LET cfg == PatchProps(Head(trReqs)) IN ShowsTour(cfg, WelcomePage(cfg, PageAfter(Head(trReqs))))
  /\ UNCHANGED <<trServer, trPast>>

\* A lost page is left by going to the start again.
LeaveLost ==
  /\ trPage = "lost" /\ trReqs = <<>>
  /\ trPage' = "none"
  /\ UNCHANGED <<trServer, trLocal, trHidden, trReqs, trSeen, trPast>>

TrInit ==
  /\ trServer = FirstPreferences /\ trLocal = FirstPreferences
  /\ trPage = "none" /\ trHidden = FALSE /\ trReqs = <<>> /\ trSeen = {}
  /\ trPast = [races |-> 0, failed |-> FALSE, ended |-> FALSE, mixed |-> FALSE, jumped |-> FALSE]

TrNext ==
  \/ OlderVersion \/ LoadApp \/ StartTour \/ SkipTour \/ TutorialTourTip \/ HandleHide
  \/ OpenTourCard \/ VisitBoard \/ SidebarTour \/ ResetTour \/ ProductTour
  \/ ServeConfig \/ AnswerComes \/ LeaveLost

TrSpec == TrInit /\ [][TrNext]_trVars

----------------------------------------------------------------------------
(***************************************************************************)
(* Properties.                                                              *)
(***************************************************************************)

TrTypeOK ==
  /\ trServer \in Preferences /\ trLocal \in Preferences
  /\ trPage \in {"none", "welcome", "board", "card", "other", "lost"}
  /\ trHidden \in BOOLEAN /\ trSeen \subseteq TipPlaces

\* The user waited for each click to take effect.
Patient == trPast.races = 0

\* The tour cannot get stuck: once nothing is on its way and nothing failed,
\* the place that the server keeps has a tip, or is the end or the beginning.
\* A click may patch the step alone, so this needs that no click on a tip goes
\* out while a new tour is being started.
TourHasTip ==
  ~trPast.mixed /\ ~trPast.failed /\ trReqs = <<>> =>
    PlaceOf(trServer) \in TipPlaces \cup {<<"", NoStep>>, <<TOUR_BOARD, FINISHED>>, <<TOUR_SIDEBAR, FINISHED>>}

\* Who has been through the tour, or declined it, is not shown a tip again
\* until a tour is asked for anew.
EndedStays ==
  Patient /\ trPast.ended => PlaceOf(trServer) = <<TOUR_SIDEBAR, FINISHED>> /\ (trReqs = <<>> => TipsShown = {})

\* The page's copy is what the server keeps once nothing is on its way; after
\* the menu's product tour the page keeps a category without tips.
CopyIsCurrent ==
  ~trPast.mixed /\ ~trPast.failed /\ trReqs = <<>> /\ trPage # "none" =>
    trLocal = trServer \/ (trLocal.category = "onboarding" /\ PlaceOf(trServer) = <<TOUR_BASE, 0>>)

PlaceIndex(c) == CHOOSE j \in 1 .. Len(TOUR_ORDER) : TOUR_ORDER[j] = c

\* Who only presses "Next" and "Previous" is shown every tip: a tip before the
\* place in the server's preferences has been on the page.
TipsInOrder ==
  ~trPast.jumped /\ trServer.category \in ToSet(TOUR_ORDER) =>
    \A t \in TourTips :
      \/ PlaceIndex(t.category) > PlaceIndex(trServer.category)
      \/ (t.category = trServer.category /\ t.step >= trServer.step)
      \/ <<t.category, t.step>> \in trSeen
=============================================================================
