------------------------------ MODULE WSClient ------------------------------
(***************************************************************************)
(* The websocket client of a browser tab: webapp/src/wsclient.ts, with the  *)
(* components that use it through webapp/src/hooks/websockets.tsx, and the  *)
(* subscriptions that the server holds for its connection.                  *)
(*                                                                          *)
(* It runs on a socket of its own ("standalone") or on the websocket client *)
(* of the host application ("plugin").  Components subscribe to the current *)
(* team when they are mounted, and are re-rendered one after the other when *)
(* the current team changes.  Updates that arrive are queued, the newest of *)
(* each object, and handed to the handlers of the components when none      *)
(* arrived for 100 ms.                                                      *)
(***************************************************************************)
EXTENDS Naturals, Sequences, FiniteSets, SequencesExt

CONSTANTS
  Comps,          \* the mounted components that call useWebsockets
  Teams, NoTeam,  \* NoTeam is the empty team id
  Kinds,          \* the types of updates (ChangeHandlerType)
  Handles,        \* the types for which a component registers a handler
  MaxRetries,     \* reopenMaxRetries
  WsMaxFaults,    \* bound: losses of a connection and restarts of the plugin
  MaxSwitches     \* bound: changes of the current team

ASSUME CompsAssumption == IsFiniteSet(Comps)
ASSUME NoTeamAssumption == NoTeam \notin Teams
ASSUME HandlesAssumption == Handles \in [Comps -> SUBSET Kinds]
ASSUME WSBoundsAssumption == MaxRetries \in Nat /\ WsMaxFaults \in Nat /\ MaxSwitches \in Nat

VARIABLES
  wsMode,       \* "plugin" or "standalone"
  wsState,      \* state
  wsLink,       \* the connection: "lost" until the browser notices
  wsToken,      \* the client has a session token
  wsRetry,      \* reopenRetryCount
  wsReopen,     \* the timer that reopens is running
  wsRestarting, \* the timer that resubscribes after a plugin update is running
  wsCount,      \* subscriptions.Teams; an absent team has count 0
  wsTeam,       \* teamId
  wsOn,         \* the team that each component has subscribed to
  wsCurrent,    \* the current team of the application
  wsHeard,      \* server: the teams this connection is subscribed to
  wsAuthed,     \* server: this connection is authenticated
  wsQueue,      \* updatedData
  wsTimer,      \* updateTimeout
  wsFaults, wsSwitches

wsConnVars == <<wsState, wsLink, wsToken, wsRetry, wsReopen, wsRestarting, wsFaults>>
wsSubVars == <<wsCount, wsTeam, wsOn>>
wsServerVars == <<wsHeard, wsAuthed>>
wsQueueVars == <<wsQueue, wsTimer>>
wsVars == <<wsMode, wsConnVars, wsSubVars, wsCurrent, wsServerVars, wsQueueVars, wsSwitches>>

NoUpdates == [k \in Kinds |-> <<>>]

WSTypeOK ==
  /\ wsMode \in {"plugin", "standalone"}
  /\ wsState \in {"init", "open", "close"}
  /\ wsLink \in {"none", "connecting", "up", "lost", "closed"}
  /\ wsToken \in BOOLEAN /\ wsReopen \in BOOLEAN /\ wsRestarting \in BOOLEAN
  /\ wsRetry \in 0..MaxRetries
  /\ wsCount \in [Teams -> Nat]
  /\ wsTeam \in Teams \cup {NoTeam}
  /\ wsOn \in [Comps -> Teams \cup {NoTeam}]
  /\ wsCurrent \in Teams
  /\ wsHeard \in SUBSET Teams
  /\ wsAuthed \in BOOLEAN
  /\ wsTimer \in BOOLEAN
  /\ wsFaults \in 0..WsMaxFaults /\ wsSwitches \in 0..MaxSwitches

\* In plugin mode the host's client is usually connected already; nothing of
\* the application is mounted.
WSInit ==
  /\ wsMode \in {"plugin", "standalone"}
  /\ wsState = "init"
  /\ wsLink = "none"
  /\ wsToken = FALSE
  /\ wsRetry = 0 /\ wsReopen = FALSE /\ wsRestarting = FALSE
  /\ wsCount = [t \in Teams |-> 0]
  /\ wsTeam = NoTeam
  /\ wsOn = [c \in Comps |-> NoTeam]
  /\ wsCurrent \in Teams
  /\ wsHeard = {} /\ wsAuthed = FALSE
  /\ wsQueue = NoUpdates /\ wsTimer = FALSE
  /\ wsFaults = 0 /\ wsSwitches = 0

----------------------------------------------------------------------------
(***************************************************************************)
(* Commands.                                                                *)
(***************************************************************************)

\* The host's client is there as soon as initPlugin ran, connected or not;
\* a socket that is lost still says that it is open.
HasConn == IF wsMode = "plugin" THEN wsLink # "none" ELSE wsLink \in {"up", "lost"}

\* sendCommand: a command reaches the server on a connection that works; the
\* exception of a socket that is not open yet is caught, so is it lost.
Reaches == HasConn /\ wsLink = "up"

\* The server takes subscriptions of authenticated connections only.
Subscribing(teams, reaches, authed) ==
  IF reaches /\ authed THEN wsHeard \cup teams ELSE wsHeard

\* subscribe(): the commands for all registered subscriptions.
Registered == {t \in Teams : wsCount[t] > 0}

----------------------------------------------------------------------------
(***************************************************************************)
(* Opening, closing and reopening.                                          *)
(***************************************************************************)

\* The effect of withWebSockets.tsx, which several roots of the application
\* run.  With a token in the storage it is remembered before the connection
\* opens.  In plugin mode the host's session is authenticated.
WSOpen ==
  /\ wsState = "init" /\ wsLink = "none"
  /\ \E token \in BOOLEAN :
       /\ wsMode = "plugin" => token
       /\ wsToken' = token
       /\ wsAuthed' = (wsMode = "plugin")
  /\ wsLink' = IF wsMode = "plugin" THEN "up" ELSE "connecting"
  /\ UNCHANGED <<wsMode, wsState, wsRetry, wsReopen, wsRestarting, wsFaults, wsSubVars,
                 wsCurrent, wsHeard, wsQueueVars, wsSwitches>>

\* The second effect of withWebSockets.tsx: a user logged in.
WSAuthenticate ==
  /\ wsMode = "standalone" /\ wsLink # "none" /\ ~wsToken
  /\ wsToken' = TRUE
  /\ wsAuthed' = (wsAuthed \/ Reaches)
  /\ UNCHANGED <<wsMode, wsState, wsLink, wsRetry, wsReopen, wsRestarting, wsFaults,
                 wsSubVars, wsCurrent, wsHeard, wsQueueVars, wsSwitches>>

\* onopen as it would be if it took the subscriptions for still there.
WSOnOpenSilent ==
  /\ wsMode = "standalone" /\ wsLink = "connecting"
  /\ wsLink' = "up" /\ wsState' = "open" /\ wsRetry' = 0
  /\ wsAuthed' = wsToken
  /\ wsHeard' = {}
  /\ UNCHANGED <<wsMode, wsToken, wsReopen, wsRestarting, wsFaults, wsSubVars, wsCurrent,
                 wsQueueVars, wsSwitches>>

\* onopen: the server starts with an empty session, then authentication and
\* the registered subscriptions arrive in this order.
WSOnOpen ==
  /\ wsMode = "standalone" /\ wsLink = "connecting"
  /\ wsLink' = "up" /\ wsState' = "open" /\ wsRetry' = 0
  /\ wsAuthed' = wsToken
  /\ wsHeard' = IF wsToken THEN Registered ELSE {}
  /\ UNCHANGED <<wsMode, wsToken, wsReopen, wsRestarting, wsFaults, wsSubVars, wsCurrent,
                 wsQueueVars, wsSwitches>>

\* The network or the server drops the connection, or refuses it, which the
\* attempts that are left bound.
WSLose ==
  /\ wsLink = "connecting" \/ (wsLink = "up" /\ wsFaults < WsMaxFaults)
  /\ wsLink' = "lost"
  /\ wsFaults' = IF wsLink = "up" THEN wsFaults + 1 ELSE wsFaults
  /\ UNCHANGED <<wsMode, wsState, wsToken, wsRetry, wsReopen, wsRestarting, wsSubVars,
                 wsCurrent, wsServerVars, wsQueueVars, wsSwitches>>

\* onclose.  A socket of its own is reopened later, unless that failed ten
\* times already; the host's client reopens by itself.
WSOnClose ==
  /\ wsLink = "lost"
  /\ wsLink' = "closed" /\ wsState' = "close"
  /\ wsReopen' = (wsMode = "standalone" /\ wsRetry < MaxRetries)
  /\ IF wsMode = "standalone" THEN wsHeard' = {} /\ wsAuthed' = FALSE
                              ELSE UNCHANGED wsServerVars
  /\ UNCHANGED <<wsMode, wsToken, wsRetry, wsRestarting, wsFaults, wsSubVars, wsCurrent,
                 wsQueueVars, wsSwitches>>

\* The timer of onclose.  The handlers of onReconnect run at once, before the
\* new socket is open.
WSReopenTimer ==
  /\ wsReopen
  /\ wsReopen' = FALSE /\ wsRetry' = wsRetry + 1 /\ wsLink' = "connecting"
  /\ UNCHANGED <<wsMode, wsState, wsToken, wsRestarting, wsFaults, wsSubVars, wsCurrent,
                 wsServerVars, wsQueueVars, wsSwitches>>

\* onReconnect in plugin mode.  The plugin may have forgotten the connection
\* while it was away.
WSPluginReconnect ==
  /\ wsMode = "plugin" /\ wsLink = "closed"
  /\ wsLink' = "up" /\ wsState' = "open"
  /\ \E kept \in {wsHeard, {}} : wsHeard' = kept \cup Registered
  /\ UNCHANGED <<wsMode, wsToken, wsRetry, wsReopen, wsRestarting, wsFaults, wsSubVars,
                 wsCurrent, wsAuthed, wsQueueVars, wsSwitches>>

\* The plugin is updated and restarts: it has forgotten every subscription,
\* and plugin_statuses_changed starts the timer.
WSPluginRestart ==
  /\ wsMode = "plugin" /\ wsLink = "up" /\ wsFaults < WsMaxFaults
  /\ wsHeard' = {} /\ wsRestarting' = TRUE /\ wsFaults' = wsFaults + 1
  /\ UNCHANGED <<wsMode, wsState, wsLink, wsToken, wsRetry, wsReopen, wsSubVars, wsCurrent,
                 wsAuthed, wsQueueVars, wsSwitches>>

\* The timer of pluginStatusesChangedHandler runs onPluginReconnect, which
\* says that the client is open whether it is or not.
WSPluginTimer ==
  /\ wsRestarting
  /\ wsRestarting' = FALSE /\ wsState' = "open"
  /\ wsHeard' = Subscribing(Registered, Reaches, wsAuthed)
  /\ UNCHANGED <<wsMode, wsLink, wsToken, wsRetry, wsReopen, wsFaults, wsSubVars, wsCurrent,
                 wsAuthed, wsQueueVars, wsSwitches>>

----------------------------------------------------------------------------
(***************************************************************************)
(* Subscriptions of the components.                                         *)
(***************************************************************************)

\* subscribeToTeam: the first component makes the team the current one.
SubscribeTo(t, count, team, heard) ==
  [count |-> [count EXCEPT ![t] = @ + 1],
   team |-> IF count[t] = 0 THEN t ELSE team,
   heard |-> IF count[t] = 0 /\ Reaches /\ wsAuthed THEN heard \cup {t} ELSE heard]

\* unsubscribeToTeam without the comparison with the current team.
UnsubscribeForgetting(t, count, team, heard) ==
  [count |-> [count EXCEPT ![t] = @ - 1],
   team |-> IF count[t] = 1 THEN NoTeam ELSE team,
   heard |-> IF count[t] = 1 /\ Reaches THEN heard \ {t} ELSE heard]

\* unsubscribeToTeam: the last component of a team ends its subscription.
UnsubscribeFrom(t, count, team, heard) ==
  [count |-> [count EXCEPT ![t] = @ - 1],
   team |-> IF count[t] = 1 /\ team = t THEN NoTeam ELSE team,
   heard |-> IF count[t] = 1 /\ Reaches THEN heard \ {t} ELSE heard]

Now(subs) == wsCount' = subs.count /\ wsTeam' = subs.team /\ wsHeard' = subs.heard

\* A component appears: only for a user who is logged in is there a team.
WSMount(c) ==
  /\ wsOn[c] = NoTeam /\ wsToken
  /\ wsOn' = [wsOn EXCEPT ![c] = wsCurrent]
  /\ Now(SubscribeTo(wsCurrent, wsCount, wsTeam, wsHeard))
  /\ UNCHANGED <<wsMode, wsConnVars, wsCurrent, wsAuthed, wsQueueVars, wsSwitches>>

\* The cleanup of the effect when the component disappears.
WSUnmount(c) ==
  /\ wsOn[c] # NoTeam
  /\ wsOn' = [wsOn EXCEPT ![c] = NoTeam]
  /\ Now(UnsubscribeFrom(wsOn[c], wsCount, wsTeam, wsHeard))
  /\ UNCHANGED <<wsMode, wsConnVars, wsCurrent, wsAuthed, wsQueueVars, wsSwitches>>

\* The component is rendered with the new team, or because another dependency
\* of its effect changed: the cleanup, then the effect.
WSRerender(c) ==
  /\ wsOn[c] # NoTeam
  /\ wsOn' = [wsOn EXCEPT ![c] = wsCurrent]
  /\ LET left == UnsubscribeFrom(wsOn[c], wsCount, wsTeam, wsHeard) IN
       Now(SubscribeTo(wsCurrent, left.count, left.team, left.heard))
  /\ UNCHANGED <<wsMode, wsConnVars, wsCurrent, wsAuthed, wsQueueVars, wsSwitches>>

\* Everybody has followed the last change of team.
Settled == \A c \in Comps : wsOn[c] \in {NoTeam, wsCurrent}

\* The current team changes, which re-renders the components before the user
\* can change it again.
WSSwitchTeam ==
  /\ Settled /\ wsSwitches < MaxSwitches
  /\ wsCurrent' \in Teams \ {wsCurrent}
  /\ wsSwitches' = wsSwitches + 1
  /\ UNCHANGED <<wsMode, wsConnVars, wsSubVars, wsServerVars, wsQueueVars>>

----------------------------------------------------------------------------
(***************************************************************************)
(* Updates.  Each has a kind, the id of its object, and what it says.       *)
(***************************************************************************)

\* The server sends to the connections that are subscribed to the team;
\* updateHandler drops what is not for the team it listens to.
Accepts(t) == wsLink = "up" /\ t \in wsHeard /\ t = wsTeam

\* queueUpdateNotification that keeps the first update of an object.
QueuedFirst(queue, k, data) ==
  [queue EXCEPT ![k] =
     IF \E i \in 1..Len(@) : @[i].id = data.id THEN @ ELSE Append(@, data)]

\* queueUpdateNotification: only the newest update of an object is kept.
Queued(queue, k, data) ==
  [queue EXCEPT ![k] =
     IF \E i \in 1..Len(@) : @[i].id = data.id
     THEN Append(RemoveAt(@, CHOOSE i \in 1..Len(@) : @[i].id = data.id), data)
     ELSE Append(@, data)]

\* A broadcast of the server about an object of team t.
WSMessage(t, k, data) ==
  /\ IF Accepts(t) THEN wsQueue' = Queued(wsQueue, k, data) /\ wsTimer' = TRUE
                   ELSE UNCHANGED wsQueueVars
  /\ UNCHANGED <<wsMode, wsConnVars, wsSubVars, wsCurrent, wsServerVars, wsSwitches>>

\* Somebody handles this type of update.
Handled(k) == \E c \in Comps : wsOn[c] # NoTeam /\ k \in Handles[c]

\* flushUpdateNotifications, when the timer is over.
WSFlush ==
  /\ wsTimer
  /\ wsQueue' = NoUpdates /\ wsTimer' = FALSE
  /\ UNCHANGED <<wsMode, wsConnVars, wsSubVars, wsCurrent, wsServerVars, wsSwitches>>

----------------------------------------------------------------------------
(***************************************************************************)
(* What the client guarantees.                                              *)
(***************************************************************************)

\* subscriptions.Teams counts the mounted components, whatever the order in
\* which they come, go and follow the team.
CountsComponents ==
  \A t \in Teams : wsCount[t] = Cardinality({c \in Comps : wsOn[c] = t})

\* The team whose messages updateHandler lets through is the current one when
\* all components have followed, although the first subscriber sets it, the
\* last one clears it, and they take turns in any order.
ListensToCurrentTeam ==
  Settled /\ (\E c \in Comps : wsOn[c] # NoTeam) => wsTeam = wsCurrent

\* While the connection works and no restart of the plugin is being repaired,
\* the server sends what the components subscribed to, whatever connections
\* were lost between.
ServerKnowsSubscriptions ==
  wsLink = "up" /\ ~wsRestarting => Registered \subseteq wsHeard

\* It gave up: as many attempts as allowed have failed.
GaveUp == wsMode = "standalone" /\ wsLink = "closed" /\ wsRetry = MaxRetries

\* After the last fault the server knows the subscriptions again, for good,
\* whatever connections, attempts and restarts of the plugin failed before;
\* unless the client gave up.
SubscribesAgain == <>[](Registered \subseteq wsHeard \/ GaveUp)
=============================================================================
