# Boards: models and proofs

TLA+ models of the Boards plugin (a Go server inside the host's plugin process and a
TypeScript web application), checked with TLC, and theorems about them checked
with TLAPS. Paths below are relative to the repository; those of the web application
to `webapp/src`.

## 1. The system

A *board* holds *blocks* (cards, views, contents, comments). The web
application changes them through a REST API; the server's app layer
(`server/app`) checks, stores (`server/services/store/sqlstore`) and then tells
everybody else: it *enqueues a callback* which broadcasts over websockets
(`server/ws`), calls webhooks and feeds the notification backends
(`server/services/notify`). Several plugin instances may run as a cluster over one
database. In the browser, a websocket client (`wsclient.ts`) feeds the redux store,
components read the store, and a mutator with an undo manager makes the requests.
Nothing holds the store and the server together but these requests, their answers
and the news, which overtake each other.

The server:

| Component | State | Operations | Why it is hard | What makes it correct |
|---|---|---|---|---|
| Callback queue, `server/utils/callbackqueue.go` | bounded channel, pool threads, `idone`, `done`, `alive` | Enqueue, loop, exec, Shutdown | check of `idone` before a blocking send; a callback that enqueues; random select; expiring shutdown | every callback sent is executed once, or left only by a documented refusal; a true Shutdown means that the pool is gone |
| Board membership, `server/app/boards.go`, `sqlstore/board.go` | rows of `board_members`, their history, the board's row and channel; what clients know | add, update, remove; link, unlink, delete, undelete; broadcasts | read, check and write are separate store calls; writes of two tables without a transaction; recipients computed at broadcast time | an admin remains; joins never demote; clients converge; history matches |
| Block store, `sqlstore/blocks.go`, `server/app/blocks.go` | `blocks`, `blocks_history` | insert, patch, delete and undelete with children | history keyed by millisecond; undelete from the latest history row | undelete restores what delete removed; edits are kept; history and tables agree |
| Websocket hub, `server/ws/plugin_adapter*.go` | listeners by session, user, team and block under three mutexes | connect, reconnect, subscribe, cluster messages | maps read under one lock and used under another | not modelled |
| Subscription notifier, `server/services/notify/notifysubscriptions` | hints, subscribers' watermark, the loop's timer | BlockChanged, upsert/peek/pop of hints, notify | several nodes on one table; a hint is removed before it is delivered; debounce moves the time | no change is lost or told twice; watermark never ahead of delivery |
| Mentions, `notifymentions` | known mentions of a block | BlockChanged | adds members from inside a callback | only the nested Enqueue is modelled |
| Sidebar categories, `server/app/category*.go` | categories and their boards per user | create, delete, move, reorder | check-then-create; delete against a concurrent move | as `Sidebar` needs it |
| Duplication, migrations, import and export, files, lifecycle | - | - | mostly sequential, or I/O | not modelled |

The web application:

| Component | State | Why it is hard | What makes it correct |
|---|---|---|---|
| Websocket client, `wsclient.ts`, `hooks/websockets.tsx` | connection, subscriptions with counts, queued updates | reconnect against stale sockets; components re-rendered one by one; debounced flush | subscriptions survive; every update is delivered, newest last |
| Client store, `store/*.ts` | boards, cards, views, contents, comments | loads that overtake updates; batches | the newest version that reached the tab is shown, once |
| Undo manager, `undomanager.ts` | commands, index, `isExecuting` | every command awaits requests, and user input interleaves | history and server agree; groups stay whole |
| Mutator, `mutator.ts`, `blocks/board.ts` | patches and undo patches of properties, options, columns | patches are computed from the store and sent again at redo | undo restores; values, options and columns fit |
| Navigation, `router.tsx`, `pages/boardPage` | URL, last board and view, store, requests | effects of renders, answers in any order | page, URL and settings agree |
| Teams, `index.tsx`, `store/initialLoad.ts` | the current team, in five places | each change of one goes to the others, with loads | all agree in the end; lists are those of the team |
| Sidebar, `components/sidebar`, `store/sidebar.ts` | categories, their order, hidden boards | optimistic moves of two requests with rollback, and news | sidebar and server agree |
| Board and table views, `components/centerPanel.tsx`, `kanban`, `table`, `boardUtils.ts` | columns, manual order, selection | order written apart from the cards | each card in one column, drops land |
| Card filters, `cardFilter.ts`, `components/viewHeader` | clauses, search text | the dialog, the filter and new cards each have their own rules | they agree |
| Dates, `properties/date`, `components/calendar` | from, to, time | zones and a change of the clock | the day is the same for all |
| Card contents, `components/cardDetail`, `contentBlock.tsx` | order with rows | positions before and after a drag | nothing lost or doubled |
| Card dialog, `components/cardDialog.tsx`, `cardDetail.tsx`, `store/attachments.ts` | title being typed, uploads | closed or switched at any time | titles and files go to their card |
| Sharing, `components/shareBoard`, `hooks/permissions.tsx` | members, roles, link | news and fetches, undo | dialog and server agree |
| Calculations, `components/calculations` | chosen calculations | empty, unordered and ill-typed values | counts and numbers fit together |
| Onboarding, `components/onboardingTour`, `tutorial_tour_tip` | tour preferences | many places move the tour on | never stuck, never back |
| Channel panel, `rhsChannelBoards.tsx`, `boardSelector.tsx` | lists, search, links | three sources of a board | lists follow the links |
| Board templates, `boardTemplateSelector`, `createBoardFromTemplate.tsx` | selector, preview, undo history | create and link are two commands | the right board is linked, undo removes it |
| What only draws; editor, comments, gallery, settings | - | - | not modelled |

The hazards of the code, line by line, with the properties that watch them,
are the `hazards` of `PROJECT.json`; it lists the forty most telling, and section 5 tells the
others that were met. Where the code runs into a hazard, so that no property can exclude it, its `note` says how the model
has the case and which history variable or premise keeps it out of the properties.

## 2. Modules

| Module | What it is |
|---|---|
| `CallbackQueue`, `MCCallbackQueue` | the callback queue, one action per channel operation; its instance |
| `BoardMembers`, `MCBoardMembers` | membership of one board, store call by store call, and the clients' view |
| `ServerProofs` | proofs about `CallbackQueue` and `BoardMembers` |
| `BlockStore`, `MCBlockStore`, `BlockStoreProofs` | a board and its blocks in the database, with their history, statement by statement |
| `UndoManager`, `MCUndoManager` | the undo history of a browser tab, await by await, with the server it talks to |
| `Notifier`, `MCNotifier`, `NotifierProofs` | subscriptions, hints and the notifier loops of several nodes, store call by store call |
| `WSClient` | the websocket client, the components that subscribe, and the server's end of the connection |
| `ClientStore` | the reducers of a board and its blocks, as operators |
| `LiveClient`, `MCLiveClient` | both composed, with loads and with others who change the board |
| `TabProofs` | proofs about a browser tab: `UndoManager` and `LiveClient` |
| `Mirror` | the abstract specification that `LiveClient` implements |
| `Sidebar`, `Mutator`, `Navigation`, `BoardViews`, `CardFilters`, `CardDates`, `CardContents`, `CardDialog`, `Sharing`, `Calculations`, `Onboarding`, `ChannelBoards`, `BoardTemplates`, `TeamLoad` | one component of the web application each |
| `DialogProofs` | proofs about `CardDialog`, lemmas about `BoardTemplates` |
| `WebPartsProofs`, `SharingProofs` | lemmas about `ChannelBoards` and `Onboarding`, and about `Sharing` |
| `WebApp`, `MCWebApp`, `WebAppProofs` | these fourteen side by side, and their instances; proofs |

### CallbackQueue

`sent` is the log of everything sent on the channel, `taken` the number of
entries received: the first `QueueSize` unread entries are the channel's buffer, the
others belong to senders blocked in `Enqueue` (the Go runtime serves blocked senders
first come first served). `enq[f]` is where the Enqueue call of callback `f` is:
the load of `idone` (`EnqueueCheck`) and the send (`EnqueueSend`) are two steps. A
pool thread's `select` is the choice between `WorkerReceive` and `WorkerExit`, which stays
nondeterministic when both channels are ready. `Finish` ends `exec`, after a
normal return, an error or a recovered panic alike; it waits while the callback is
inside an Enqueue of its own (`InNestedEnqueue`), as a mention of a user who is
not a member of the board does through `AddMemberToBoard`. `Shutdown` is one action
per blocking operation, and may time out wherever its select offers `context.Done()`.
What a callback does beyond enqueuing one other callback is not modelled.

### BoardMembers

One board; `rows`, `history`, `live` and `linked` are the tables, `view[u]` the
membership that user `u`'s client has been told. A request (`call`, `pc`) is one
handler; every step is one store call: `Begin` (GetBoard), `ReadMember`
(GetMemberForBoard and the early returns), `CheckAdmins` (isLastAdmin), then
`SaveRead`, `SaveUpsert`, `SaveRecord` for saveMember and `DropRow`, `DropRecord` for
deleteMember, which are not transactions; `PatchLink`, `DeleteBoard` and
`UndeleteBoard` are transactions of the store. `FailAfterWrite` is the error of the second
write. The `Tell...` actions are the callbacks; they run in any order, as ten pool
threads allow, and compute their recipients from the tables as they find them.
Abstractions: roles are admin, editor, viewer (the commenter behaves as the viewer here); the
admin right that team administrators have on top is left out, and so are the open
templates (the other source of synthetic members); the several reads of
getMemberForBoard are one step; every user is connected and has access to the team.
`stale` and `unsettled` are history variables: the requests overtaken by a write of another, and
the users about whom overlapping or failing requests were made.

### BlockStore

`rows` stands for the tables `boards` and `blocks`, `history` for their history tables; the board is an
id among those of its blocks, whose children are all blocks. A request goes through `Begin` (the
checks of the handler and the app layer, which may be out of date when the transaction starts), the first
statement (`InsertBegin`, `ReadRow`, `ReadHistory`), which also fixes `insert_at`, then
`CheckExisting` and `Write` (insertBlock, insertBoard), or `CopyChildren` and
`Remove` (the deletions), or `Restore` (the undeletions). What a transaction has written is seen
when it commits, so its last statements and the commit are one step; a statement that another
transaction's row lock would hold up runs, in the model as in PostgreSQL, after that commit.
`edits` are the patches whose values a row contains, which is all the data a row has
besides its parent. Left out: batches in one transaction, duplication, the files of deleted
blocks, the collision of two versions with the same `insert_at`, and the link to a channel, which an undeleted
board loses (that is in `BoardMembers`). `contended` and `undo` are history variables: the ids
that overlapping requests had in common, and the state before the last deletion.

### UndoManager

`commands` and `index` are the fields of `undomanager.ts` (`index` counts the done commands, so it is
one more than the code's), `run` is what `undo()` or `redo()` is awaiting, and `undoGroupId` the mutator's.
JavaScript runs to completion between two awaits, so the actions are what happens between them:
`Perform` makes the request and `PerformSucceeds` is its answer with the call of `registerUndo`;
`Undo` and `Redo` begin, `UndoStep` and `RedoStep` are the answers, and the loop goes on with the next
command of the group. `PerformFails` and `RunFails` are requests that fail before or after the server has
applied them; the second leaves `isExecuting` set for good, because `execute` has no `try`/`finally`.
The server is a set of operations whose effect is there (`visible`) and the number of times each block
was inserted (`version`), which stands for its id. Left out: `clear`, which only tests call, the limit, which
is 0, checkpoints, and the microtask between the end of `execute` and the change of the index, in which no
answer of another request can be handled. `mixed` is a history variable: the groups that another group or
operation, or an undo or redo, ran into.

### Notifier

`log` is what the history of the blocks says of cards: an index is an `update_at` (changes are a millisecond apart),
and a change is of a card itself or of one of its contents. `hints` counts the ticks until a hint falls due, `notifiedAt` is
the watermark of each subscription. A change enqueues a callback, which is `CheckSubscribers`,
`UpsertHint` and `SendHint`; the loop of a node is `Peek`, `Wake` (the `select` at its end), `Select` and `Delete`
(the two statements that pop a hint), `GetSubscribers`, `GenerateDiffs`, one `Deliver` for each subscriber, and `Mark`. Without a
difference there is nothing to deliver, but `Mark` still sets the watermark, to the last change of the card itself:
`generateDiffForBlock` returns a diff even if nothing changed. `PeekFails`, `Abort`, `DeliverFails` and `BlockChangedFails` are
errors of the store and of the delivery, `Crash` is a node that stops and starts. The reads of `generateDiffs` are one step. Left out: boards linked to a
channel, whose notification goes to the channel; the permission check of each subscriber; changes that compare equal in the
end (a title changed and changed back); the hints of boards, which no diff is made for. A new card subscribes its author
and a mention its target by the same call as a user does (`Subscribe`). `since`, `first`, `told`, `again`, `failed`,
`late`, `rewound`, `crowded` and `faulty` are history variables.

### WSClient, ClientStore, LiveClient and Mirror

`wsLink` is the connection as the network has it, `wsState` as the client believes; a lost connection is noticed
later (`WSOnClose`) and reopened by a timer, on a socket of its own ("standalone") or by the host ("plugin"), which
only tells when it is back. A component subscribes to the current team when it is mounted (`useWebsockets`), and when the team changes the
components are re-rendered one after the other, so that for a while old and new team are both counted. `wsHeard` and
`wsAuthed` are the server's end, which begins empty with every connection. Updates wait in `wsQueue`, the newest of each
object, until `Flush` hands them to the handlers. `ClientStore` has the reducers: what a batch of updates does to the lists by
card, with the `return`s that end it early, and what a load puts in their place.
`LiveClient` adds the server's objects (`truth`), the loads under way, and `Change`, which tells those who listen. `missed` and `crowded` are
history variables: objects whose last change found nobody listening or was overtaken by an older load, and
objects that came behind others in a batch. The reducers are written by what they leave behind (the newest of a batch, one update per
object, as the queue keeps no two of the same object), and not as a fold over the batch; where a `return` ends a batch early, the update
that is the first of its kind is named. `NoEntry` stands for an entry that a list does not have. `Mirror` promises that the screen shows each object at a version that some
piece of news on its way told; in the refinement, news are the answers to loads and the queued updates (`shown` and
`news` of the `INSTANCE` in `LiveClient`).

### The components of the web application

Each module has the component's state, the part of the store and of the server it depends on, the requests and news under
way, and one action per click, answer, message, timer or effect. JavaScript runs to completion, so an
action is what happens between two awaits. Requests are answered, and news arrive, in any order unless a module's comment says
that their order is kept. `WebApp` gives each one variables of its own: `OpenScreen` picks a component and only
that one takes steps, and every guarantee is stated for its screen. This is a run for each component under one roof, and no claim that the
components share nothing: what connects them, the store and the websocket client, is `LiveClient`.

* `Sidebar`: categories with their boards, `hiddenBoardIDs`, drags (changed in the store at once, then two requests with
  rollback; a drag within a category is made a second time after a refusal, and taken back whichever of its requests or steps throws), the
  menu, and the server's events from goroutines. `sbTainted` are the boards whose place may differ: those that came to a list or left it
  between a drag and the rollback that put the old list back, a board dragged by the index of another, one whose visibility was set in
  a category it had left, and those of events that overtook each other. A fetch of the categories tells all again. Left out: creating and
  renaming categories, duplication, and what is rendered while `undefined` is in a list.
* `Mutator`: properties, options, values, columns and the commands of the undo manager with their patches. Another user changes
  the board in between. The list of properties in a card's dialog asks before it deletes a property or changes its type: `muDialog` is the
  board as of that question. The interleavings of the awaits are in `UndoManager`. Left out: `onBoardSelected` of card properties.
* `Navigation`: routes, redirects and the effects of `BoardPage`, run to the end before anything else (`Rendered`); loads in any order; joining.
  The menu of views adds and deletes views, shows a new one from a timer (`showView`), and undoes both.
  `naOvertaken` marks where the answer for another board came last. Left out: guests, hidden boards, templates, read-only pages, the redo
  of the menu's commands, and the arrival of a view's request after a reload.
* `BoardViews`: filter, sort, groups, columns, selection, drops and the manual order with its request. `BvKeys` are the ids that columns have where
  they are not the value they collect. A change of the columns, the sort or the filter is answered before the next click. Left out: gallery,
  column widths, closed groups of a table, groups by author, the default template and links that fill in a card.
* `CardFilters`: a property of every kind, the dialog of clauses, new cards, and the debounced search text.
* `CardDates`: two users in two zones that change their clock, the dialog, the calendar and the date of a filter.
* `CardContents`: the order with rows, drags, deletions, pastes, Enter in a checkbox, undo; each operation is a list of requests.
* `CardDialog`: title, attachments, deletion and templates of the open card, with news in batches (the list of attachments by what a batch leaves
  behind, as in `ClientStore`). Left out: following, comments,
  properties, the undo of deletions, and the reload of the board while an upload runs.
* `Sharing`: members, roles, minimum role, channel and public link, with undo. A request is served (`ShSendNext`) and answered (`ShAnswer`) in
  two steps, so that its news come before the answer or after it; the answer to a patch puts the whole board of the click into the store
  (`Stored`), and the history `crossed` tells whether an undo put back a board that the other admin had changed, until news of the board that come
  after the answer. A refused patch throws (`ShThrow`); what the user does after it is left out. Left out too: templates, guests, team admins.
* `Calculations`: every calculation over the values of a property, and the menus. Numbers are in hundredths.
* `Onboarding`: the welcome page and the tour. Requests are served and answered in order. Left out: other tabs.
* `ChannelBoards`: the panel beside a channel and the dialog that links boards. Left out: members and deletion.
* `BoardTemplates`: selector, preview, the question in the new-channel dialog and the undo history of both. A
  request and its answer are one step. What others do, new templates, the ways from one board to another, an answer that is lost after its board
  was made, and a deletion or redo whose request throws are left out.
* `TeamLoad`: URL, store, client of the API, settings and Mattermost, and the loads that each change starts. `/` leads to Mattermost's
  team, without one to the team shown last, else to the first (`HomeTeam`). Which team Mattermost selects by itself is external. Left out: the pages without a login or a team, and leaving Boards for another product.

## 3. Runs

| Run | What it asks | Bounds |
|---|---|---|
| `callback_queue` | executed once, nothing dropped, pool gone after a true Shutdown, progress | 2 threads, 3 callbacks (one enqueues another), channel of 1, 2 Shutdown calls |
| `board_members` | last admin, no demotion by a join, clients and history settle, who is told of a deletion | 3 users (one guest, two in the channel), 2 requests |
| `board_members_last_admin` | a comment refuted: no admin remains | same |
| `block_store` | history and table agree, undelete succeeds and restores what was deleted, edits are kept | board, 2 cards, 1 text; 4 requests in any order, one at a time |
| `block_store_overlap` | visible rows are in the history | same blocks, 2 overlapping requests |
| `undo_manager` | history and server agree, groups stay whole, every undo and redo ends | 4 operations (an insertion, its patch as a group of one, a group of two), 3 undos or redos, 1 failing request |
| `undo_redo` | a test generalised and refuted: a redone patch of a redone insertion is lost | an insertion and its patch, 4 undos or redos |
| `notifier` | watermark, nothing forgotten, told once | 1 card, 2 users, 2 nodes, 2 changes, 1 subscription, crash or error; hints fall due at once |
| `notifier_fair` | every change is told in the end | 2 cards, 2 users, 1 node, 2 changes of contents; hints due after 1 tick |
| `live_client` | subscriptions survive, the newest version that came is shown, the tab implements `Mirror`, it listens again | 2 components, 2 teams, a board and a text, 2 changes, 1 fault, 1 change of team, both modes |
| `live_client_batch` | a document refuted: two new comments in one batch | 1 component, 2 comments |
| `webapp` | the guarantees of the fourteen components | see `MCWebApp.cfg`: two or three boards, cards, users or teams each, two to six clicks, one fault or change by others |

The bounds are small because the interesting cases need few actors: a channel of one slot
is full with one entry and blocks with two; two requests are enough for each pair of
handlers to overlap at every store call, and three users for a guest, a channel member and
somebody else. `block_store` needs four requests for a text to be moved, deleted with one parent
and undeleted with another. The initial states are every subset of the blocks, under every parent they may have.
In `notifier` a hint falls due at once: the loop may still take its time before every step, so no interleaving is lost, and the
wait itself (`Tick`, the timer, the channel) is the subject of `notifier_fair`. Two nodes and two changes
are enough for a hint to be written while another node works on the card; each of the initial subscriptions may be there or not.
In `live_client` one lost connection, plugin restart or late answer meets every step of a change of team. In `webapp` the bounds count clicks,
changes by others, failing requests and requests under way, and are set for each component so that each of its actions happens and
a changed definition of the code breaks the property that watches it: two drags with a refusal, two changes with an undo and a redo and another
user's change between them, a row of three contents and one beside it, a card of each kind of value. A component's clicks are few (two of `Navigation` with
one fault, six of `CardDates`) because all of them share one run, of about 1.3 million states. `Sharing` has three operations, which are what an
undo takes that puts back a board changed by the other admin in between.
Deadlock is not checked in these runs: all callbacks may be executed, all requests answered and all clicks made, and then the system
rightly stops.

Fairness. In `callback_queue`: weak fairness for each goroutine that can
go on (the Go scheduler starves none) and for the return of callbacks. Nothing is
assumed of the environment: nobody has to call Enqueue or Shutdown, and no context has to expire.
In `undo_manager`: weak fairness of the answers: a request that an undo or redo made is answered or fails, as `fetch` does;
the user need not do anything.
In `notifier_fair`: weak fairness of time, of each callback and of each loop: their calls return, and goroutines are scheduled. Changes are bounded, so
that a card comes to rest: one that never does is never told of, since every change postpones its hint.
In `live_client`: a connection that is made opens and a lost one is noticed, timers run out, requests are answered, and the queue is flushed; users
and network may do what they like.

## 4. Proofs

For every value of the constants under the named assumptions of the modules. The properties of the runs are conjunctions of named
parts (`QueueInv`, `MembersInv`, `StoreInv`, `UndoInv`, `NotifierInv`, `GroupsKept`, `TitlesKept`); each is proved as a whole by a theorem of its own from
those about its parts.

* `ServerProofs`, of `CallbackQueue`: `QueueTyped`, then the inductive invariant `QuInv` (`QueueInvariance`),
  from which `Once`, `TrueAfterExit` and `NoneDropped` follow; `OneThreadOrder` adds the
  invariant `OrderInv` for a pool of one thread; `QueueSafe`.
* `ServerProofs`, of `BoardMembers`: `TypeCorrect`; `KnowsInv` says what a request that
  nobody overtook still knows between its read and its write (another admin exists; the user
  is no explicit member). A write by one request makes every other active one stale if it changes
  a row, so `KnowsInv` is inductive (`Invariance`), and `LastAdmin` and `NoDemotion` are read off at
  the two actions that write a row. For convergence: a user who is not `unsettled` is concerned by at most one
  request (`Apart`), and what the client or the history still lacks is told by the phase of that request (`Local`, per user); when all is
  quiet no request is left that anything could lack (`Calm`). From this `ViewsAgree`, `HistoryTrue`, `DeletionTold` and `MembersAgree`.
* `BlockStoreProofs`: `LastTime` (a bounded set of times has a last one, from the well-foundedness of strict
  subsets) makes `Newest` meaningful; `IInv` adds to the types that what an undeletion was accepted for
  stays in the history; `Covered` shows that every visible row is a live version in the history; `StoreSafe`.
  An id is *settled* if no overlapping requests concerned it. Requests under way share no settled id
  (`Apart`), so what one has read of them is still so when it commits (`Knows`, `KnowsChildren`), and it is younger than all their versions
  (`Later`). Hence a commit adds at most one version to a settled id, which carries on where the newest one ended
  (`WriteGrows`, `RemoveGrows`, `RestoreGrows`), and the versions stay in order (`AddedVersion`): no two at a time, the newest says what is in
  the tables, and a deletion that is not the newest was followed by a version under the same parent. The last part is why
  `undeleteBlockChildren`, which looks at the versions under one parent only, does find the newest of all (`NewestUnder`). `FitInv` says that rows
  stay under parents they may have, without which the children of a block could not be told from the request. Theorems `HistoryIsRight`, `PatchesAreKept`,
  `UndeletionsGoThrough`.
* `TabProofs`, of `UndoManager`: `IInv` is the types, `Unique` (an operation has one command, and was registered), `Running`
  (what is executed is the command next to the index, and `isExecuting` is set exactly then or after a failure) and
  `InStep` itself: `HistoryInStep` is inductive only with the other two. `NotSplit` is proved from it. `WholeInv`: the commands of a group that nothing ran
  into are the last ones while it is open, with the index at their end, and contiguous afterwards; a registration cuts the history off at the index, which by `NotSplit` is
  never within a group. From it `GroupsAreWhole`, `GroupsStay`; and `UndoSafe`.
* `NotifierProofs`: a change is `Owed` to a user who has not been told of it. `IInv` says that who waits is owed nothing up to their
  watermark (`WatermarkIsTold`) and that a loop at work has on its list whoever is owed something it is about to pass (`LoopTells`);
  each is inductive only with the other, and `OwedStep` shows that a step makes nothing owed but the change it makes. `WatermarkNeverAhead` follows.
  `Remembered` adds `FollowedUp`: what is owed has a callback, a hint or a loop. `LastTime` and `FirstTime` are about `Max` and `Min`. `NotifierSafe`.
  `NobodyToldTwice` (`ToldOnce`) is about cards that are *quiet*: no error, crash or second hint has touched them. For these `OnceIInv` says that
  one loop at most works on a card (`OneWorker`), that what was told is marked or about to be (`ToldIsMarked`), and that the loop is about to tell only what
  lies behind the watermark (`LoopTellsNews`).
* `TabProofs`, of `LiveClient`: `SubscriptionsIInv`: the counts are those of the components (`CountsComponents`), while one of them is on the current team it is that
  team whose messages are let through (`ListensWhenNeeded`), the server knows the subscriptions (`ServerKnowsSubscriptions`), and a connection that works is authenticated
  (`SessionOK`), without which a new subscription would not reach the server. `Subscribed` proves `SubscriptionsInv`. `ScreenIInv` says that
  a card lists no block twice and only blocks of the map beside (`StoreOK`), and that, of an object no change of which was missed, a queued update
 is the last change, and without one the screen is at the newest version unless it was passed over in a batch (`UpToDate`). `ScreenIsRight` proves `ScreenInv`.
  `TabMirrorsServer` proves that
  every step implements one of `Mirror` or a stutter: a change is `ServerChanges`, a load that is asked is `Ask`, an answer and a flush are
  `Show`.
* `DialogProofs`: the field holds the store's title or what was typed last (`FieldInv`); a title that was typed has been seen, is requested, or is in the
  field (`SeenInv`, `SavedInv`); every upload, request and file of the server names the card for which it was chosen (`FilesInv`). Theorems
  `OnlyTyped`, `TypedGetsSaved`, `FilesStayWithCard`, `TitlesAreKept`. `DialogIsRight` (`DialogAgrees`) needs that no two uploads are of the
  same file and the list shows as "uploading" just those under way (`UploadsInv`), and that the last piece of news of a file or, without news, the list says
  whether the server has it, as long as no batch cut news off (`ToldInv`).
* `WebAppProofs`: since `OpenScreen` lets one component move, an invariant of `TeamLoad` is kept by every action of the others, and so with the other components. `TeamInv`: store, client
  and Mattermost have one team, and so has a page that has run its effects (`OneTeam`); a load is answered as a whole unless a change split it (`LoadsWhole`);
  the last load under way, or the lists if there is none, are of the team on the page (`LastLoad`); and until something goes wrong every team that
  is kept, Mattermost's included, is one of the user's (`NothingRefused`), so that a load is not refused. `TeamsAgreeAlways`. `DatesInv`: a date without a time
  is kept as noons UTC, those of the days that were meant, and what a dialog holds shows the days that its user means. Its arithmetic is in three lemmas: an instant found for a wall
  time is on the same day, and is noon if that was (`BackOnWall`); every clock shows a noon UTC as that noon (`NoonShown`); what is saved of an instant
  stands for its day again (`KeptStands`). `DatesAgreeAlways`. `PanelInv`: a copy of a board
  is one that the server has had, so that copies of one revision have one channel (`HadAt`); of every board, either its last news is under way, or the store, the
  results and every answer under way have the server's revision, unless an older copy was noted (`ListsInv`, `StoreInv`, `ResultsInv`); the last
  request of a kind is for the text or the board that is shown (`CardsInv`), and what undo puts back differs in the channel alone (`UndoInv`). Each of them is inductive only with
  the others, and the proof has one lemma per action, in `WebPartsProofs`. `PanelAgreesAlways`. `TourInv`, likewise: requests are served and answered in their turn, so that the last
  one taken has the server's preferences in its answer (`TourTypes`), and who waits sends one at a time (`OneRequest`); how far a start has come tells which requests are under way
  and what the server keeps (`WelcomeInv`, `StartInv`); the copy of the page is the server's unless a fetch is under way (`CopyInv`), and the server is at least as far
  as a copy that shows a tip (`PlaceInv`), without which a step alone could be patched into a category that lacks it; nothing under way leads back from an ended tour
  (`EndedInv`); and the tips before a place, whether it is that of the server, the copy or a request, were seen (`OrderInv`). `TourGoesOnAlways` holds for every `TrMaxRaces`.
  `BtInv`, with its lemmas in `DialogProofs`: a request for a preview that is listened to is that of the active template (`PreviewInv`); of the handler and the command that link a board
  there is one at most, and it has the channel for which the board was asked (`LinkInv`); a channel that the dialog made has, if the box was ticked, a handler that waits or a board,
  and never two (`ChosenInv`), until a creation is redone, which asks for the board anew; a board is made by one command at most that is done, and has its channel until it or its link is undone (`TakenBackInv`); and what
  a command shows when it is undone was made by a command before it (`ShownInv`), so that the page is left before its board is removed. `TemplatesAgreeAlways`.
  `ShInv`, with its lemmas in `SharingProofs`, is the types (`ShTypes`) and, while operations wait for each other and none failed: one request or answer is under way; a request will be served, for who sends
  it manages the board, it removes no last admin, and the board it will store is the server's with the patch (`Promised`); at an answer the server has what the client is about to store (`ShareHolds`), unless an undo
  crossed another admin's change (`CallsInv`); news say what the server has (`NewsInv`); of every member, this user included, either the client has the server's record, or news of it are on
  their way, or the members are about to be fetched (`MirrorInv`); the client has the server's link unless it is being changed, and both the token that was copied (`ShareLinkInv`); and what would
  undo an operation, sent after the request that is under way, leads back to the board of before (`UndoneInv`). What the client may show follows from three lemmas about roles: the hooks of the client and the server
  give the same permissions (`CanTheSame`), the row of a member that was loaded shows what the server applies (`LoadedReads`), and flags that are not below the minimum role, as those that a row offers, read
  the same without it (`AboveReads`), as they must, because news have no minimum role. `SharingAgreesAlways`.

Assumptions. Each is an `ASSUME` of the module that declares the constant, and TLC evaluates it in the runs. They say that constants have their types, that
requests, components and users are finitely many, and that special values are none of the ordinary ones: `None`, `NoEntry` and `NoTeam`, the board among its blocks, the template
among the cards, "" and "empty" among the teams, "", "empty" and "none" among the templates of boards, "" among the channels; and that the channels of the
dialog are new ones (`BtAssumption`). Beyond that, the queue has at least one slot and one thread; `block` and `board` are among the kinds of updates; every
team of the user is one of `LdTeams`; a search finds boards of the team; and of the clocks in `CardDates` (`CdAssumption`) that offsets are within -12 to 14 hours and change by two at most, at night: no noon is
skipped, no day ends early, and no change falls between a noon and the same noon UTC.

Only model-checked: liveness and what depends on fairness (`Progress`, `RunEnds`, `EventuallyTold`, `SubscribesAgain`); `RestoresDeleted`; and the guarantees of the other
components of the web application. Of these `CalculationsAgree`, `ContentsKept`, `FiltersAgree` and `SidebarAgrees` are about what a fold, a concatenation or a
recursive definition computes for every input, which is beyond the prover; so are the orders of columns and cards in `BoardStaysWhole` and `CardsInPlace`; `PageAgrees` has no proof yet.

## 5. Noticed while modelling

What the code does and no run is about; most of it is excluded from the properties by history variables
or by their premises, and some of it is beyond the models.

Server. A second `Shutdown` returns true while the
first still waits (`callbackqueue.go:57`); an Enqueue that tested `idone` before a shutdown
may leave its callback on the channel after the drain, where nobody receives it (`callbackqueue.go:91`); members through a channel are not told of the deletion of their
board (`app/boards.go:497`); `deleteBlockChildren` does not go below the first level (`sqlstore/blocks.go:953`);
of two overlapping patches the later writes back what it read before the earlier (`blocks.go:326`); a patch of a block that is deleted meanwhile leaves
a live version as its newest, so that it cannot be undeleted (`blocks.go:313`, `462`); undeleting a card or
board brings back children that had been deleted by themselves before (`sqlstore/blocks.go:1077`); a hint that finds no
news sets `notified_at` back, and the next notification repeats what was told (`notifier.go:280`); subscribing again sets it to now, and
changes that wait are not told (`subscriptions.go:82`, against the comment at line 60).

Undo and mutator. An action
answered during an undo or redo is not registered (`undomanager.ts:87`); a redo that throws leaves `isExecuting` set for good
(`undomanager.ts:49`), which create, link, two undos and two redos of a board from a template do, as the link is redone on the id of the removed
board, and so does the undo of a refused duplication; linking to no channel registers a command of an empty patch; undo patches hold
whole fields and overwrite what others wrote since; a changed order of options makes an empty patch; deleting a property, or changing its
type, reaches only the cards that the view shows; a select turned into a multiSelect with no cards shown loses its options; a reordering
drops properties that another user just added (`server/model/board.go:345`); inserting left of the first column puts it last. A confirmation uses the board of when
it was asked, so that after an undo behind
the dialog a column of a deleted property may stay; moving a property is two commands, and drops the title and the badges from the view's visible properties; an
undo that throws hangs the undo manager as a redo does, as the undo of a refused new view.

Websocket client and store. `close` and `subscribeToBlocks` have no caller; blocks edited during a disconnection stay unseen until the
board is loaded again, and a load that is older than a flushed update overwrites it; resubscribing after a plugin update assumes that
one second is enough; `updateContents`, `updateComments` and `updateAttachments` return early in a batch, and boardPage.tsx:125 hands all
deleted blocks to the last; an update of an attachment that is already listed is not shown (`store/attachments.ts:30`); members of several boards in one batch are
filed under the first one's (`store/boards.ts:108`).

Sidebar. The rollback of a refused reordering after a move leaves the board in no category; positions of a drag count visible boards, the list has
hidden ones; the deletion of an unknown category adds it; a failing fetch empties the sidebar;
a refused drag is made again by its first index, which is another board's by then or nobody's; the visibility of a board is told for the category that
the user saw it in, so a board hidden or shown while it is moved returns to the old one.

Navigation and teams. A load of a board that is rejected throws (`boardPage.tsx:218`) and the page stays empty; a late answer for another board overwrites the views (a blank page); the last view deleted leaves a blank page although
the comment at teamToBoardAndViewRedirect.tsx:69 says that the first one is picked; `/` opened before the boards are there erases the last board; joining
a board that was left meanwhile ends on the error page; `loadingBoard` is one flag for several loads. A board
whose deletion the server refuses stays, though the deletion is undone afterwards; stepping back to the URL of a deleted view, or remembering it, leaves an empty
page; the timer that
shows a new view brings the user back to a board that was left. A load of the former team that comes late replaces
the lists; failed reads of lists count as empty ones; `/login` has no route; entering a team by URL loads it twice.

Views. Cards come first if the column's last card is itself dragged (`kanban.tsx:106`); dropping a card in the group "undefined" of persons sets that string; a
table that is not grouped throws on such a drop; two quick additions overwrite each other's place in the order; only the last of several sort options
counts; selected cards stay selected when the filter hides them;
dragging the header of a column while cards are selected moves those; hiding a column writes the whole view as the tab has it; the comparison of ordered with
unordered cards is no order.

Filters. A new clause has the condition "includes" whatever the type of its property; a text filter puts itself but not the value in small letters;
a cleared text leaves `['']`; filters on deleted properties stay; at exactly twelve hours from a date no condition holds.

Dates. `displayValue` (`properties/date/property.tsx:33`, exports and calculations) does not convert the zone: the next day from twelve
hours east; dragging a timed date in the calendar drops its time; closing the dialog writes the value even if nothing changed; a start after the end is not
prevented. A clock
that skips the last hour of a day (Greenland's since 2024) puts a time typed into that hour on the next day; and a clock that
changed between noon and noon UTC, as none does, would move a date without time by an hour with each click. Both are assumed away (`CdAssumption`).

Contents. Positions clicked are those of the shown contents but are used in the whole order, so ids of deleted contents shift them; deleting an
empty checkbox in a row takes the row's others from view; dragging one of two above its own row leaves a row of one, and then an empty one; every patch writes
the whole order.

Card dialog. A title typed back before the news of the change is not saved, and the field then shows the former one; a save repeated at unmount overwrites
another user's title given in between, and registers a second command; the answer of a deletion closes whatever card is open; an upload
that is refused stays "uploading" until the board is loaded again; news of a deleted card leave its attachments in the store.

Sharing. A refused patch throws (`octoClient.ts:834`): the store does not learn of it, and an undo or redo that throws hangs the undo manager; an undo puts back the
board of its click (`mutator.ts:216`), so that a minimum role or channel that another admin changed in between is lost in the store when the news of the undo come before its
answer, until the next news of the board; one's own demotion cannot be undone; a failed read of the
link counts as none, and switching on then makes a token that ends the old links; two quick toggles race; news of members lack the minimum role.

Calculations. The percentage checked of no cards is "NaN%" (`calculations.ts:111`); percentages of empty and not empty may add up to 101; an
average is made of the rounded sum and may exceed the maximum; an emptied list counts as not empty although the filter finds it empty; the choice for all columns is
written whole.

Onboarding, channels, templates. The menu's "Product tour" sends a category without tips; a click on a tip while a new tour is being
started leaves a step without tip; `handleSkipTutorial` and the start at `centerPanel.tsx:284` are never reached; a failing `prepareOnboarding` leads to
`/team/undefined/undefined`. A waiting search text is sent though it was deleted; answers of searches out of order show the wrong list; the answer to a link closes a
dialog that was opened again. A template deleted in the selector stays active.

## 6. Not modelled

The websocket hub's maps under three locks and its cluster messages; compound creation and duplication of boards, with the files they copy; who is told of a
mention; migrations; import and export; files; the start and the stop of the server; the host's own permissions; the block editor, comments, the gallery,
settings and what only draws. Of the modelled components, what is left out is said with each module above and in the `note` of
each component in `PROJECT.json`. Several operations in one transaction are left out of `BlockStore`: two versions of a block would then
have the same key in the history (`migrations/000001_init.up.sql:14`), which its times, one for each transaction, cannot show.

What would come next: the hub, composed with `WSClient` and with several nodes; categories on the server with concurrent requests of one user, over which `Sidebar`
would run; duplication with its compensation; mentions, which would compose `Notifier` with `BoardMembers`; proofs of the
components of the web application whose guarantees only TLC checks, beginning with `PageAgrees`.
