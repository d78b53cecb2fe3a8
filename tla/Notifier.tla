------------------------------ MODULE Notifier ------------------------------
(***************************************************************************)
(* Notifications of subscribers about changed cards:                        *)
(* server/services/notify/notifysubscriptions on several nodes of a         *)
(* cluster, over the tables of notificationhints.go and subscriptions.go.   *)
(*                                                                          *)
(* A change makes a callback on its node, which writes a hint for the card. *)
(* The loop of any node takes a hint when its time has come, compares the   *)
(* card with what the subscribers were told of last, and tells them.        *)
(* Every step is one call of the store, of the delivery or of a channel.    *)
(***************************************************************************)
EXTENDS Naturals, Sequences, FiniteSets, FiniteSetsExt

CONSTANTS
  Cards, Users, Nodes,
  Parts,       \* what of a card is changed: "card" itself, a "content" of it
  QueueSize,   \* slots of the channel that wakes a loop (20 in the code)
  Freq,        \* ticks until a hint is due, counted from the last change
  Hour,        \* ticks that a loop sleeps when there is no hint
  MaxEdits,    \* bound: how many changes are made
  MaxTroubles, \* bound: how often somebody subscribes or unsubscribes, a node
               \* crashes or a call fails
  None

ASSUME SetsAssumption ==
  None \notin Cards /\ None \notin Users /\ None \notin Nat
ASSUME PartsAssumption == Parts \subseteq {"card", "content"}
ASSUME NumbersAssumption ==
  /\ QueueSize \in Nat \ {0} /\ Freq \in Nat /\ Hour \in Nat
  /\ MaxEdits \in Nat /\ MaxTroubles \in Nat

VARIABLES
  log,        \* the changes in the history; an index is an update_at
  callback,   \* where the callback of each change is
  home,       \* the node that runs it
  hints,      \* table: ticks left until notify_at of the card's hint, or None
  notifiedAt, \* table: of each card and subscriber, None if not subscribed
  pc,         \* where the loop of each node is
  sleep,      \* ticks until its timer wakes it
  wake,       \* entries of its channel
  card,       \* the card whose hint it took
  list,       \* the subscribers it has yet to tell
  from, upto, \* the changes it tells of are those after from, up to upto
  troubles,
  since,      \* history: when each subscriber subscribed last,
  first,      \*   and when they did so while they were not subscribed
  told,       \* history: the changes each user was told of,
  again,      \*   those that somebody was told of more than once
  failed,     \*   and those whose delivery failed
  late,       \* history: who subscribed between the two reads of a loop
  rewound,    \* history: the cards whose notified_at was set back
  crowded,    \* history: the cards that two nodes worked on at a time
  faulty      \* history: the cards that something failed about

tables == <<log, hints, notifiedAt>>
events == <<callback, home>>
loops == <<pc, sleep, wake, card, list, from, upto>>
job == <<card, list, from, upto>>
ghosts == <<since, first, told, again, failed, late, rewound, crowded, faulty>>
vars == <<tables, events, loops, troubles, ghosts>>

Edits == 1..MaxEdits
Made == 1..Len(log)
Working == {"subs", "diff", "deliver"}

TablesOK ==
  /\ log \in Seq([card : Cards, part : Parts, author : Users]) /\ Len(log) <= MaxEdits
  /\ hints \in [Cards -> 0..Freq \cup {None}]
  /\ notifiedAt \in [Cards -> [Users -> 0..Len(log) \cup {None}]]

EventsOK ==
  /\ callback \in [Edits -> {"none", "check", "upsert", "send", "done"}]
  /\ home \in [Edits -> Nodes \cup {None}]
  /\ \A e \in Made : home[e] \in Nodes
  /\ \A e \in Edits \ Made : callback[e] = "none"

LoopsOK ==
  /\ pc \in [Nodes -> {"peek", "sleep", "select", "delete"} \cup Working]
  /\ sleep \in [Nodes -> Nat]
  /\ wake \in [Nodes -> 0..QueueSize]
  /\ card \in [Nodes -> Cards \cup {None}]
  /\ \A n \in Nodes : pc[n] \in {"delete"} \cup Working => card[n] \in Cards
  /\ list \in [Nodes -> SUBSET Users]
  /\ from \in [Nodes -> 0..Len(log)]
  /\ upto \in [Nodes -> 0..Len(log)]

HistoryOK ==
  /\ since \in [Cards -> [Users -> 0..Len(log)]]
  /\ first \in [Cards -> [Users -> 0..Len(log)]]
  /\ told \in [Users -> SUBSET Made]
  /\ again \subseteq Users \X Made
  /\ failed \subseteq Users \X Made
  /\ late \subseteq Cards \X Users
  /\ rewound \subseteq Cards
  /\ crowded \subseteq Cards
  /\ faulty \subseteq Cards

TypeOK ==
  /\ TablesOK /\ EventsOK /\ LoopsOK /\ HistoryOK
  /\ troubles \in 0..MaxTroubles

----------------------------------------------------------------------------
(***************************************************************************)
(* Queries.                                                                 *)
(***************************************************************************)
Subscribers(c) == {u \in Users : notifiedAt[c][u] # None}

EditsOf(c) == {e \in Made : log[e].card = c}

Hinted == {c \in Cards : hints[c] # None}

\* getNextNotificationHint: ORDER BY notify_at LIMIT 1.
NextHints == {c \in Hinted : \A d \in Hinted : hints[c] <= hints[d]}

WorkOn(c) == {n \in Nodes : card[n] = c /\ pc[n] \in Working}

Init ==
  /\ log = <<>>
  /\ callback = [e \in Edits |-> "none"]
  /\ home = [e \in Edits |-> None]
  /\ hints = [c \in Cards |-> None]
  /\ notifiedAt \in [Cards -> [Users -> {0, None}]]
  /\ pc = [n \in Nodes |-> "peek"]
  /\ sleep = [n \in Nodes |-> 0]
  /\ wake = [n \in Nodes |-> 0]
  /\ card = [n \in Nodes |-> None]
  /\ list = [n \in Nodes |-> {}]
  /\ from = [n \in Nodes |-> 0]
  /\ upto = [n \in Nodes |-> 0]
  /\ troubles = 0
  /\ since = [c \in Cards |-> [u \in Users |-> 0]]
  /\ first = since
  /\ told = [u \in Users |-> {}]
  /\ again = {} /\ failed = {} /\ late = {} /\ rewound = {} /\ crowded = {} /\ faulty = {}

----------------------------------------------------------------------------
(***************************************************************************)
(* Changes, subscriptions and time.                                         *)
(***************************************************************************)

\* A request changes a card or one of its contents, and enqueues a callback.
Edit(u, c, part, n) ==
  LET e == Len(log) + 1
  IN /\ e <= MaxEdits
     /\ log' = Append(log, [card |-> c, part |-> part, author |-> u])
     /\ callback' = [callback EXCEPT ![e] = "check"]
     /\ home' = [home EXCEPT ![e] = n]
     /\ UNCHANGED <<hints, notifiedAt, loops, troubles, ghosts>>

\* createSubscription, for a new subscriber or an old one: notified_at is now.
Subscribe(u, c) ==
  /\ troubles < MaxTroubles
  /\ troubles' = troubles + 1
  /\ notifiedAt' = [notifiedAt EXCEPT ![c][u] = Len(log)]
  /\ since' = [since EXCEPT ![c][u] = Len(log)]
  /\ first' = IF notifiedAt[c][u] = None THEN [first EXCEPT ![c][u] = Len(log)] ELSE first
  /\ late' = IF \E n \in WorkOn(c) : pc[n] = "diff" /\ u \notin list[n]
             THEN late \cup {<<c, u>>} ELSE late
  /\ UNCHANGED <<log, hints, events, loops, told, again, failed, rewound, crowded, faulty>>

\* deleteSubscription.
Unsubscribe(u, c) ==
  /\ troubles < MaxTroubles
  /\ notifiedAt[c][u] # None
  /\ troubles' = troubles + 1
  /\ notifiedAt' = [notifiedAt EXCEPT ![c][u] = None]
  /\ UNCHANGED <<log, hints, events, loops, ghosts>>

Less(k) == IF k \in {0, None} THEN k ELSE k - 1

Tick ==
  /\ hints' = [c \in Cards |-> Less(hints[c])]
  /\ sleep' = [n \in Nodes |-> IF pc[n] = "sleep" THEN Less(sleep[n]) ELSE sleep[n]]
  /\ <<hints', sleep'>> # <<hints, sleep>>
  /\ UNCHANGED <<log, notifiedAt, events, pc, wake, job, troubles, ghosts>>

----------------------------------------------------------------------------
(***************************************************************************)
(* Backend.BlockChanged, in a callback.                                     *)
(***************************************************************************)
At(e, step) == callback[e] = step
Reach(e, step) == callback' = [callback EXCEPT ![e] = step]

\* GetSubscribersForBlock: no hint if there are none.
CheckSubscribers(e) ==
  /\ At(e, "check")
  /\ Reach(e, IF Subscribers(log[e].card) = {} THEN "done" ELSE "upsert")
  /\ UNCHANGED <<tables, home, loops, troubles, ghosts>>

\* upsertNotificationHint: a new hint, or a new time for the old one.
UpsertHint(e) ==
  /\ At(e, "upsert")
  /\ hints' = [hints EXCEPT ![log[e].card] = Freq]
  /\ Reach(e, "send")
  /\ UNCHANGED <<log, notifiedAt, home, loops, troubles, ghosts>>

\* onNotifyHint: wakes the loop of this node, or gives up when the channel
\* stays full.
SendHint(e) ==
  /\ At(e, "send")
  /\ wake' = [wake EXCEPT ![home[e]] = IF @ < QueueSize THEN @ + 1 ELSE @]
  /\ Reach(e, "done")
  /\ UNCHANGED <<tables, home, pc, sleep, job, troubles, ghosts>>

----------------------------------------------------------------------------
(***************************************************************************)
(* notifier.loop.                                                           *)
(***************************************************************************)
Goto(n, step) == pc' = [pc EXCEPT ![n] = step]

\* The local variables of notify are gone when it returns.
Return(n) ==
  /\ Goto(n, "peek")
  /\ card' = [card EXCEPT ![n] = None]
  /\ list' = [list EXCEPT ![n] = {}]
  /\ from' = [from EXCEPT ![n] = 0]
  /\ upto' = [upto EXCEPT ![n] = 0]

SleepFor(n, ticks) == sleep' = [sleep EXCEPT ![n] = ticks] /\ Goto(n, "sleep")

\* GetNextNotificationHint(false): sleep, or go on to notify.
Peek(n) ==
  /\ pc[n] = "peek"
  /\ \/ Hinted = {} /\ SleepFor(n, Hour)
     \/ \E c \in NextHints :
          IF hints[c] > 0 THEN SleepFor(n, hints[c]) ELSE Goto(n, "select") /\ UNCHANGED sleep
  /\ UNCHANGED <<tables, events, wake, job, troubles, ghosts>>

\* Mutant of Wake: the timer is left out.
WakeByHint(n) ==
  /\ pc[n] = "sleep"
  /\ wake[n] > 0 /\ wake' = [wake EXCEPT ![n] = @ - 1]
  /\ sleep' = [sleep EXCEPT ![n] = 0]
  /\ Goto(n, "peek")
  /\ UNCHANGED <<tables, events, job, troubles, ghosts>>

\* The select at the end of the loop.
Wake(n) ==
  /\ pc[n] = "sleep"
  /\ \/ wake[n] > 0 /\ wake' = [wake EXCEPT ![n] = @ - 1]
     \/ sleep[n] = 0 /\ UNCHANGED wake
  /\ sleep' = [sleep EXCEPT ![n] = 0]
  /\ Goto(n, "peek")
  /\ UNCHANGED <<tables, events, job, troubles, ghosts>>

\* GetNextNotificationHint(true) reads the next hint again ...
Select(n) ==
  /\ pc[n] = "select"
  /\ \/ Hinted = {} /\ Goto(n, "peek") /\ UNCHANGED card
     \/ \E c \in NextHints : card' = [card EXCEPT ![n] = c] /\ Goto(n, "delete")
  /\ UNCHANGED <<tables, events, sleep, wake, list, from, upto, troubles, ghosts>>

\* ... and deletes the hint of that card, unless another node has.
Delete(n) ==
  /\ pc[n] = "delete"
  /\ IF hints[card[n]] = None THEN Return(n) ELSE Goto(n, "subs") /\ UNCHANGED job
  /\ hints' = [hints EXCEPT ![card[n]] = None]
  /\ crowded' = IF hints[card[n]] # None /\ WorkOn(card[n]) # {}
                THEN crowded \cup {card[n]} ELSE crowded
  /\ UNCHANGED <<log, notifiedAt, events, sleep, wake, troubles,
                 since, first, told, again, failed, late, rewound, faulty>>

----------------------------------------------------------------------------
(***************************************************************************)
(* notifier.notifySubscribers.                                              *)
(***************************************************************************)

\* The subscribers, and what the first of them was told of last.
GetSubscribers(n) ==
  LET c == card[n]
  IN /\ pc[n] = "subs"
     /\ IF Subscribers(c) = {}
        THEN Return(n)
        ELSE /\ list' = [list EXCEPT ![n] = Subscribers(c)]
             /\ from' = [from EXCEPT ![n] = Min({notifiedAt[c][u] : u \in Subscribers(c)})]
             /\ Goto(n, "diff")
             /\ UNCHANGED <<card, upto>>
     /\ UNCHANGED <<tables, events, sleep, wake, troubles, ghosts>>

Changes(n, last) == {e \in EditsOf(card[n]) : from[n] < e /\ e <= last}

\* generateDiffs: the card now against the card as of then, and the time of
\* the newest difference, which is that of the card itself if there is none.
\* The only author of the changes is not told of them.
GenerateDiffs(n) ==
  LET all == EditsOf(card[n])
      last == Max(all \cup {0})
      authors == {log[e].author : e \in Changes(n, last)}
  IN /\ pc[n] = "diff"
     /\ IF authors = {}
        THEN /\ upto' = [upto EXCEPT ![n] = Max({e \in all : log[e].part = "card"} \cup {0})]
             /\ list' = [list EXCEPT ![n] = {}]
        ELSE /\ upto' = [upto EXCEPT ![n] = last]
             /\ list' = [list EXCEPT ![n] = {u \in @ : authors # {u}}]
     /\ Goto(n, "deliver")
     /\ UNCHANGED <<tables, events, sleep, wake, card, from, troubles, ghosts>>

\* SubscriptionDeliverSlackAttachments, to one subscriber after the other.
Deliver(n, u) ==
  LET news == Changes(n, upto[n])
  IN /\ pc[n] = "deliver"
     /\ u \in list[n]
     /\ list' = [list EXCEPT ![n] = @ \ {u}]
     /\ told' = [told EXCEPT ![u] = @ \cup news]
     /\ again' = again \cup ({u} \X (told[u] \cap news))
     /\ UNCHANGED <<tables, events, pc, sleep, wake, card, from, upto, troubles,
                    since, first, failed, late, rewound, crowded, faulty>>

DeliverFails(n, u) ==
  /\ pc[n] = "deliver"
  /\ u \in list[n]
  /\ troubles < MaxTroubles
  /\ troubles' = troubles + 1
  /\ list' = [list EXCEPT ![n] = @ \ {u}]
  /\ failed' = failed \cup ({u} \X Changes(n, upto[n]))
  /\ faulty' = faulty \cup {card[n]}
  /\ UNCHANGED <<tables, events, pc, sleep, wake, card, from, upto,
                 since, first, told, again, late, rewound, crowded>>

\* UpdateSubscribersNotifiedAt, of all subscribers there are by now.
Marked(c, k) ==
  /\ notifiedAt' = [notifiedAt EXCEPT ![c] = [u \in Users |-> IF @[u] = None THEN None ELSE k]]
  /\ rewound' = IF \E u \in Subscribers(c) : k < notifiedAt[c][u] THEN rewound \cup {c} ELSE rewound

\* Mutants of Mark: notified_at is the time of the call, ...
MarkNow(n) ==
  /\ pc[n] = "deliver" /\ list[n] = {}
  /\ Marked(card[n], Len(log))
  /\ Return(n)
  /\ UNCHANGED <<log, hints, events, sleep, wake, troubles,
                 since, first, told, again, failed, late, crowded, faulty>>

\* ... it is forgotten, ...
MarkNothing(n) ==
  /\ pc[n] = "deliver" /\ list[n] = {}
  /\ Return(n)
  /\ UNCHANGED <<tables, events, sleep, wake, troubles, ghosts>>

\* ... the hint is removed when the work is done, whoever has written it.
MarkAndRemove(n) ==
  /\ pc[n] = "deliver" /\ list[n] = {}
  /\ Marked(card[n], upto[n])
  /\ hints' = [hints EXCEPT ![card[n]] = None]
  /\ Return(n)
  /\ UNCHANGED <<log, events, sleep, wake, troubles,
                 since, first, told, again, failed, late, crowded, faulty>>

\* The end of notifySubscribers: the time of the newest difference is marked.
Mark(n) ==
  /\ pc[n] = "deliver" /\ list[n] = {}
  /\ Marked(card[n], upto[n])
  /\ Return(n)
  /\ UNCHANGED <<log, hints, events, sleep, wake, troubles,
                 since, first, told, again, failed, late, crowded, faulty>>

----------------------------------------------------------------------------
(***************************************************************************)
(* Failures.                                                                *)
(***************************************************************************)

Minute == 1

\* A call of the store fails: the loop tries again in a minute, or goes on
\* with the next hint if it has taken one.
PeekFails(n) ==
  /\ pc[n] = "peek"
  /\ troubles < MaxTroubles
  /\ troubles' = troubles + 1
  /\ SleepFor(n, Minute)
  /\ UNCHANGED <<tables, events, wake, job, ghosts>>

Abort(n) ==
  /\ \/ pc[n] \in {"select", "delete", "subs", "diff"}
     \/ pc[n] = "deliver" /\ list[n] = {}
  /\ troubles < MaxTroubles
  /\ troubles' = troubles + 1
  /\ faulty' = IF pc[n] \in Working THEN faulty \cup {card[n]} ELSE faulty
  /\ Return(n)
  /\ UNCHANGED <<tables, events, sleep, wake,
                 since, first, told, again, failed, late, rewound, crowded>>

\* Or the callback ends without a hint.
BlockChangedFails(e) ==
  /\ callback[e] \in {"check", "upsert"}
  /\ troubles < MaxTroubles
  /\ troubles' = troubles + 1
  /\ faulty' = faulty \cup {log[e].card}
  /\ Reach(e, "done")
  /\ UNCHANGED <<tables, home, loops,
                 since, first, told, again, failed, late, rewound, crowded>>

\* A node stops and starts again: its callbacks, its channel and what its
\* loop was about are gone.
Crash(n) ==
  LET gone == {e \in Made : home[e] = n /\ callback[e] # "done"}
  IN /\ troubles < MaxTroubles
     /\ troubles' = troubles + 1
     /\ callback' = [e \in Edits |-> IF e \in gone THEN "done" ELSE callback[e]]
     /\ faulty' = faulty \cup {log[e].card : e \in gone}
                         \cup (IF pc[n] \in Working THEN {card[n]} ELSE {})
     /\ wake' = [wake EXCEPT ![n] = 0]
     /\ sleep' = [sleep EXCEPT ![n] = 0]
     /\ Return(n)
     /\ UNCHANGED <<tables, home,
                    since, first, told, again, failed, late, rewound, crowded>>

----------------------------------------------------------------------------
Loop(n) ==
  \/ Peek(n) \/ Wake(n) \/ Select(n) \/ Delete(n)
  \/ GetSubscribers(n) \/ GenerateDiffs(n)
  \/ \E u \in Users : Deliver(n, u)
  \/ Mark(n)

BlockChanged(e) == CheckSubscribers(e) \/ UpsertHint(e) \/ SendHint(e)

Next ==
  \/ \E u \in Users, c \in Cards :
       Subscribe(u, c) \/ Unsubscribe(u, c) \/ \E part \in Parts, n \in Nodes : Edit(u, c, part, n)
  \/ Tick
  \/ \E e \in Edits : BlockChanged(e) \/ BlockChangedFails(e)
  \/ \E n \in Nodes :
       \/ Loop(n)
       \/ \E u \in Users : DeliverFails(n, u)
       \/ PeekFails(n) \/ Abort(n) \/ Crash(n)

Spec == Init /\ [][Next]_vars

\* Callbacks and loops go on, and so does time.
FairSpec ==
  /\ Spec
  /\ WF_vars(Tick)
  /\ \A e \in Edits : WF_vars(BlockChanged(e))
  /\ \A n \in Nodes : WF_vars(Loop(n))

----------------------------------------------------------------------------
(***************************************************************************)
(* What subscribers may rely on.                                            *)
(***************************************************************************)

\* Who is to be told of a change: those who had subscribed before it, other
\* than its author.
Concerns(e, u) ==
  /\ e \in Made
  /\ LET c == log[e].card
     IN notifiedAt[c][u] # None /\ since[c][u] < e /\ log[e].author # u /\ <<c, u>> \notin late

\* notified_at never runs ahead of what its subscriber was told, whatever
\* nodes, subscriptions and failures do in between; only who subscribed while
\* a loop was between its two reads may miss a change, and whose delivery
\* failed (updateSubscribersNotifiedAt).
NotifiedAtIsTold ==
  \A e \in Made, u \in Users :
    Concerns(e, u) /\ e <= notifiedAt[log[e].card][u] =>
      e \in told[u] \/ <<u, e>> \in failed

\* As long as nothing fails there is a hint, or a loop at work, for every
\* change that somebody has yet to be told of (upsertNotificationHint,
\* getNextNotificationHint).
NothingForgotten ==
  \A e \in Made, u \in Users :
    LET c == log[e].card
    IN Concerns(e, u) /\ callback[e] = "done" /\ c \notin faulty =>
         \/ e \in told[u]
         \/ hints[c] # None
         \/ \E n \in WorkOn(c) :
              \/ pc[n] = "subs"
              \/ pc[n] = "diff" /\ u \in list[n] /\ from[n] < e
              \/ pc[n] = "deliver" /\ u \in list[n] /\ e \in Changes(n, upto[n])

\* Nobody is told twice of a change, unless two nodes worked on the card at a
\* time, something failed, or a hint without news has set notified_at back
\* to the last change of the card itself (notifySubscribers).
ToldOnce == \A p \in again : log[p[2]].card \in crowded \cup faulty \cup rewound

\* Every change is told to those it concerns in the end, unless they
\* unsubscribe or subscribe anew, or something fails about its card.
EventuallyTold ==
  \A e \in Edits, u \in Users :
    Concerns(e, u) ~> (e \in told[u] \/ ~Concerns(e, u) \/ log[e].card \in faulty)

\* Types are kept, and no watermark runs ahead of what its subscriber was told.
NotifierInv == TypeOK /\ NotifiedAtIsTold
=============================================================================
