----------------------------- MODULE LiveClient -----------------------------
(***************************************************************************)
(* A browser tab that shows one board while others change it: the websocket *)
(* client (WSClient) feeds the store (ClientStore), which is also loaded    *)
(* when the board page appears, changes team, or the connection is back     *)
(* (webapp/src/pages/boardPage/boardPage.tsx, webapp/src/index.tsx).        *)
(***************************************************************************)
EXTENDS WSClient, ClientStore

CONSTANTS
  Page,       \* the component that is the board page
  HomeTeam,   \* the team of the board
  MaxChanges, \* bound: changes of the board and its blocks
  MaxLoads    \* bound: loads that are under way when the page asks for another

ASSUME PageAssumption == Page \in Comps /\ HomeTeam \in Teams
ASSUME UpdatesAssumption == {"block", "board"} \subseteq Kinds
ASSUME BoardAssumption == Board \notin Blocks
ASSUME LiveBoundsAssumption == MaxChanges \in Nat /\ MaxLoads \in Nat

Objects == Blocks \cup {Board}

VARIABLES
  truth,    \* server: the version of each object, 0 before it is inserted, and if
            \* it is deleted
  store,    \* the store
  loads,    \* the answers that are on their way: versions when asked for
  changes,  \* how many changes there were
  missed,   \* history: objects whose last change did not get to the reducers
  crowded   \* history: blocks whose last update a reducer may have passed over

liveVars == <<wsVars, truth, store, loads, changes, missed, crowded>>

VersionNow(x) == IF truth[x].gone THEN 0 ELSE truth[x].ver

\* loadBoardData: all blocks of the board.  The page is on the board while
\* its team is the current one.
BlocksNow == [b \in Blocks |-> VersionNow(b)]

\* initialLoad: the boards of the current team.
BoardsNow(t) == [b \in {Board} |-> IF t = HomeTeam THEN VersionNow(Board) ELSE 0]

LiveTypeOK ==
  /\ WSTypeOK
  /\ truth \in [Objects -> [ver : 0..MaxChanges + 1, gone : BOOLEAN]]
  /\ loads \subseteq [Blocks -> 0..MaxChanges + 1] \cup [{Board} -> 0..MaxChanges + 1]
  /\ changes \in 0..MaxChanges
  /\ missed \in SUBSET Objects /\ crowded \in SUBSET Blocks

\* A board without blocks.
LiveInit ==
  /\ WSInit
  /\ truth = [x \in Objects |-> [ver |-> IF x = Board THEN 1 ELSE 0, gone |-> FALSE]]
  /\ store = EmptyStore
  /\ loads = {}
  /\ changes = 0
  /\ missed = Objects /\ crowded = {}

----------------------------------------------------------------------------
(***************************************************************************)
(* The environment: other users, who the server tells us about.             *)
(***************************************************************************)
KindOfObject(x) == IF x = Board THEN "board" ELSE "block"

\* Somebody inserts, changes or deletes a block, or changes the board.
Change(x, gone) ==
  /\ changes < MaxChanges /\ ~truth[x].gone /\ (gone => x # Board /\ truth[x].ver > 0)
  /\ truth' = [truth EXCEPT ![x] = [ver |-> @.ver + 1, gone |-> gone]]
  /\ changes' = changes + 1
  /\ WSMessage(HomeTeam, KindOfObject(x),
               [id |-> x, ver |-> truth[x].ver + 1, gone |-> gone])
  /\ missed' = IF Accepts(HomeTeam) THEN missed \ {x} ELSE missed \cup {x}
  /\ UNCHANGED <<store, loads, crowded>>

----------------------------------------------------------------------------
(***************************************************************************)
(* Loads.                                                                   *)
(***************************************************************************)

\* The effects of the page on a team: initialLoad, and, on the board,
\* loadBoardData.
PageLoads(t) == {BoardsNow(t)} \cup IF t = HomeTeam THEN {BlocksNow} ELSE {}

\* The page appears, or is rendered for another team.
PageAppears ==
  /\ Cardinality(loads) < MaxLoads
  /\ WSMount(Page)
  /\ loads' = loads \cup PageLoads(wsCurrent)
  /\ UNCHANGED <<truth, store, changes, missed, crowded>>

PageRerenders ==
  /\ Cardinality(loads) < MaxLoads
  /\ WSRerender(Page)
  /\ loads' = loads \cup IF wsOn[Page] = wsCurrent THEN {} ELSE PageLoads(wsCurrent)
  /\ UNCHANGED <<truth, store, changes, missed, crowded>>

\* A connection is back: the handler that the page registered, and in plugin
\* mode the one of index.tsx, dispatch initialLoad.
ReconnectLoads(always) ==
  IF wsOn[Page] # NoTeam \/ always THEN {BoardsNow(wsCurrent)} ELSE {}

Reconnects ==
  /\ \/ WSReopenTimer /\ loads' = loads \cup ReconnectLoads(FALSE)
     \/ WSPluginReconnect /\ loads' = loads \cup ReconnectLoads(TRUE)
     \/ WSPluginTimer /\ loads' = loads \cup ReconnectLoads(FALSE)
  /\ UNCHANGED <<truth, store, changes, missed, crowded>>

\* The updates that are queued.
UpdatesOf(k) == ToSet(wsQueue[k])
IdsIn(k) == {u.id : u \in UpdatesOf(k)}

\* An answer arrives; answers may overtake each other, and updates.
\* An object without a queued update is then as the answer says.
Loaded(s) ==
  /\ loads' = loads \ {s}
  /\ store' = IF Board \in DOMAIN s THEN BoardsLoaded(store, s[Board]) ELSE BoardDataLoaded(store, s)
  /\ LET settled == {x \in DOMAIN s : x \notin IdsIn(KindOfObject(x))} IN
       missed' = (missed \ settled) \cup {x \in settled : s[x] # VersionNow(x)}
  /\ crowded' = crowded \ DOMAIN s
  /\ UNCHANGED <<wsVars, truth, changes>>

----------------------------------------------------------------------------
(***************************************************************************)
(* Updates.                                                                 *)
(***************************************************************************)
\* Blocks that are kept in lists, behind other updates of a batch.
BehindOthers ==
  {wsQueue["block"][i].id : i \in 2..Len(wsQueue["block"])}
     \cap {b \in Blocks : KindOf[b] \in {"comment", "attachment", "text"}}

\* Attachments that are listed already, which the reducer leaves as they were.
ListedAttachments ==
  {b \in IdsIn("block") \cap Blocks : KindOf[b] = "attachment" /\ Listed(store.attachments, b)}

\* flushUpdateNotifications with the handlers of the page: blocks, then
\* boards.  Without a handler the updates are gone.
Flush ==
  /\ WSFlush
  /\ LET s1 == IF Handled("block") THEN IncrementalBlockUpdate(store, wsQueue["block"]) ELSE store
     IN store' = IF Handled("board") THEN IncrementalBoardUpdate(s1, wsQueue["board"]) ELSE s1
  /\ missed' = missed \cup UNION {IdsIn(k) : k \in {h \in Kinds : ~Handled(h)}}
  /\ crowded' = (crowded \ IdsIn("block")) \cup BehindOthers \cup ListedAttachments
  /\ UNCHANGED <<truth, loads, changes>>

Quietly(A) == A /\ UNCHANGED <<truth, store, loads, changes, missed, crowded>>

ConnectionStep ==
  \/ Quietly(WSOpen) \/ Quietly(WSAuthenticate) \/ Quietly(WSOnOpen) \/ Quietly(WSLose)
  \/ Quietly(WSOnClose) \/ Quietly(WSPluginRestart) \/ Reconnects

ComponentStep ==
  \/ PageAppears \/ PageRerenders
  \/ \E c \in Comps \ {Page} : Quietly(WSMount(c)) \/ Quietly(WSRerender(c))
  \/ \E c \in Comps : Quietly(WSUnmount(c))
  \/ Quietly(WSSwitchTeam)

LiveNext ==
  \/ ConnectionStep
  \/ ComponentStep
  \/ \E x \in Objects, gone \in BOOLEAN : Change(x, gone)
  \/ \E s \in loads : Loaded(s)
  \/ Flush

LiveSpec == LiveInit /\ [][LiveNext]_liveVars

\* Timers run out, a connection that is made opens, a lost one is noticed,
\* requests are answered, and a rendering ends.
LiveFairness ==
  /\ WF_liveVars(Quietly(WSOnOpen)) /\ WF_liveVars(Quietly(WSOnClose)) /\ WF_liveVars(Reconnects)
  /\ WF_liveVars(\E s \in loads : Loaded(s)) /\ WF_liveVars(Flush)

FairLiveSpec == LiveSpec /\ LiveFairness

----------------------------------------------------------------------------
(***************************************************************************)
(* What the tab guarantees.                                                 *)
(***************************************************************************)
Pending(x) == x \in IdsIn(KindOfObject(x)) \/ \E s \in loads : x \in DOMAIN s

Shown(x) ==
  IF x = Board THEN (IF store.board = 0 THEN {} ELSE {store.board}) ELSE ShownVersions(store, x)

Newest(x) == Shown(x) = {VersionNow(x)} \ {0}

\* What is on the screen is what the server has, once the updates and the
\* answers that are under way have arrived: unless the last change of the
\* object came while nobody listened, was older than an answer that overtook
\* it, or came behind others in a batch or to an attachment that was listed.
ShowsTheNewest ==
  \A x \in Objects : x \notin missed \cup crowded /\ ~Pending(x) => Newest(x)

\* The same of every update that was handled, in whatever company it came
\* (spec-docs/plan.md: changes of cards are reflected in real time).
ReflectsEveryChange == \A x \in Objects : x \notin missed /\ ~Pending(x) => Newest(x)

\* No object is on the screen twice, whatever order loads and updates came in.
ShownOnce == \A x \in Objects : Cardinality(Shown(x)) <= 1

----------------------------------------------------------------------------
\* The tab as a mirror of the server: its news are the answers to loads and
\* the queued updates.
QueuedNews ==
  {[x \in {u.id} |-> IF u.gone THEN 0 ELSE u.ver] : u \in UNION {UpdatesOf(k) : k \in Kinds}}

M == INSTANCE Mirror WITH
       shown <- [x \in Objects |-> IF Shown(x) = {} THEN 0 ELSE CHOOSE v \in Shown(x) : TRUE],
       news <- loads \cup QueuedNews

\* The screen shows each object as an update or an answer on its way told it,
\* at a version that the server had when it was sent: nothing is mixed up,
\* and nothing comes back that no news tell of.
ImplementsMirror == M!MirrorSpec

\* The components, the counts, the connection and the server agree on what the tab
\* is subscribed to, across changes of team, lost connections and restarts.
SubscriptionsInv ==
  /\ LiveTypeOK
  /\ CountsComponents
  /\ ListensToCurrentTeam
  /\ ServerKnowsSubscriptions

\* Each object is on the screen once, at the newest version that reached the tab.
ScreenInv == ShowsTheNewest /\ ShownOnce
=============================================================================
