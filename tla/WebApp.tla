------------------------------- MODULE WebApp -------------------------------
(***************************************************************************)
(* The parts of the web application side by side.  Each is a component with *)
(* variables of its own; a user is on one screen, whose component takes the *)
(* steps.  What connects the components, the store and the websocket client *)
(* below it, is in LiveClient.tla; here every component brings the part of  *)
(* the store and of the server that it depends on.                          *)
(***************************************************************************)
EXTENDS Sidebar, Mutator, Navigation, BoardViews, CardFilters, CardDates, CardContents, Sharing, Calculations,
  Onboarding, ChannelBoards, BoardTemplates, TeamLoad, CardDialog

VARIABLE screen   \* the component that is watched, or "" before one is picked

Screens == {"sidebar", "mutator", "navigation", "views", "filters", "dates", "contents", "sharing", "calculations",
            "onboarding", "channel", "templates", "team", "card"}

Apart(name) ==
  /\ UNCHANGED screen
  /\ name # "sidebar" => UNCHANGED sbVars
  /\ name # "mutator" => UNCHANGED muVars
  /\ name # "navigation" => UNCHANGED naVars
  /\ name # "views" => UNCHANGED bvVars
  /\ name # "filters" => UNCHANGED cfVars
  /\ name # "dates" => UNCHANGED cdVars
  /\ name # "contents" => UNCHANGED ccVars
  /\ name # "sharing" => UNCHANGED shVars
  /\ name # "calculations" => UNCHANGED clVars
  /\ name # "onboarding" => UNCHANGED trVars
  /\ name # "channel" => UNCHANGED cbVars
  /\ name # "templates" => UNCHANGED btVars
  /\ name # "team" => UNCHANGED ldVars
  /\ name # "card" => UNCHANGED dgVars

On(name) == screen = name /\ Apart(name)

OpenScreen ==
  /\ screen = "" /\ screen' \in Screens
  /\ UNCHANGED <<sbVars, muVars, naVars, bvVars, cfVars, cdVars, ccVars, shVars, clVars,
                trVars, cbVars, btVars, ldVars, dgVars>>

WebInit ==
  /\ screen = ""
  /\ SbInit /\ MuInit /\ NaInit /\ BvInit /\ CfInit /\ CdInit /\ CcInit /\ ShInit /\ ClInit /\ TrInit /\ CbInit /\ BtInit /\ LdInit /\ DgInit

WebNext ==
  \/ OpenScreen
  \/ On("sidebar") /\ SbNext
  \/ On("mutator") /\ MuNext
  \/ On("navigation") /\ NaNext
  \/ On("views") /\ BvNext
  \/ On("filters") /\ CfNext
  \/ On("dates") /\ CdNext
  \/ On("contents") /\ CcNext
  \/ On("sharing") /\ ShNext
  \/ On("calculations") /\ ClNext
  \/ On("onboarding") /\ TrNext
  \/ On("channel") /\ CbNext
  \/ On("templates") /\ BtNext
  \/ On("team") /\ LdNext
  \/ On("card") /\ DgNext

WebSpec ==
  WebInit /\ [][WebNext]_<<screen, sbVars, muVars, naVars, bvVars, cfVars, cdVars, ccVars, shVars, clVars,
                      trVars, cbVars, btVars, ldVars, dgVars>>

----------------------------------------------------------------------------
(***************************************************************************)
(* What the components guarantee; each is looked at while its component     *)
(* takes the steps, as nothing changes its variables otherwise.             *)
(***************************************************************************)
\* The sidebar, the server and hiddenBoardIDs agree, and no board is filed twice.
SidebarAgrees ==
  screen = "sidebar" => SbTypeOK /\ SidebarSettles /\ FiledOnce /\ HiddenAgrees

\* Properties, values, options and columns fit together whatever is changed, undone
\* and redone.
BoardStaysWhole ==
  screen = "mutator" => MuTypeOK /\ UndoRestores /\ ValuesFit /\ ColumnsExist

\* The page, the URL and the settings agree on the board and its view.
PageAgrees ==
  screen = "navigation" => NaTypeOK /\ PageSettles /\ LastBoardRemembered /\ ViewOfBoard

\* Each card is in one column, and at the place where it was dropped.
CardsInPlace ==
  screen = "views" => BvTypeOK /\ EachCardOnce /\ DropsLand /\ ViewFollows

\* The filter dialog, the clauses, new cards and the search field agree.
FiltersAgree ==
  screen = "filters" => CfTypeOK /\ NewCardIsShown /\ ShownConditionApplies /\ DaysApart /\ SearchApplies

\* A day is the same for users in all zones, on the card and in the filter.
DatesAgree ==
  screen = "dates" => CdTypeOK /\ SameDayForAll /\ FilterFindsDay

\* No content is lost or doubled; drags and undo lead where they should.
ContentsKept ==
  screen = "contents" => CcTypeOK /\ EachContentOnce /\ ContentsLand /\ ContentsUndone

\* The dialog and the server agree on members, roles and the public link, and undo
\* brings memberships back.
SharingAgrees ==
  screen = "sharing" => ShTypeOK /\ MembersFollow /\ RolesAgree /\ MembershipUndone /\ LinkWorks

\* Calculations of the same cards fit together, and both menus offer the same.
CalculationsAgree ==
  screen = "calculations" => ClTypeOK /\ NumbersAgree /\ CountsAgree /\ MenusAgree

\* The tour is never stuck, never comes back after its end, and leaves no tip out.
TourGoesOn ==
  screen = "onboarding" => TrTypeOK /\ TourHasTip /\ EndedStays /\ CopyIsCurrent /\ TipsInOrder

\* The panel and the search results follow the boards that are linked to the
\* channel, and linking changes nothing else.
PanelAgrees ==
  screen = "channel" => CbTypeOK /\ PanelListsLinked /\ ResultsAreFor /\ LinkKeepsOthers /\ CardsOfSelected

\* The preview is the one clicked, a board is linked to the channel it was made
\* for, and undo removes it and leaves its page.
TemplatesAgree ==
  screen = "templates" => BtTypeOK /\ PreviewOfActive /\ BoardForChannel /\ ChannelAsked /\ UndoRemoves /\ ShownExists

\* The five places of the current team and its lists agree, and an error page can
\* be left.
TeamAgrees ==
  screen = "team" => LdTypeOK /\ TeamsAgree /\ ListsOfTeam /\ EmptyIsNotStored /\ WayBack
=============================================================================
