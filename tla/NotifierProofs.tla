--------------------------- MODULE NotifierProofs ---------------------------
(***************************************************************************)
(* What subscribers may rely on, for any cards, users, nodes and failures.  *)
(***************************************************************************)
EXTENDS Notifier, FiniteSetTheorems, WellFoundedInduction, TLAPS

\* A change that u is to be told of, and was not.
Owed(c, u, e) ==
  /\ e \in EditsOf(c)
  /\ since[c][u] < e
  /\ log[e].author # u
  /\ e \notin told[u]
  /\ <<u, e>> \notin failed

\* Who is subscribed, and was so when the loop that is at work began.
Waiting(c, u) == notifiedAt[c][u] # None /\ <<c, u>> \notin late

\* Who waits is owed nothing up to their notified_at.
WatermarkIsTold ==
  \A c \in Cards, u \in Users :
    Waiting(c, u) => \A e \in Made : Owed(c, u, e) => notifiedAt[c][u] < e

\* A loop at work is about to tell what is owed.
LoopTells ==
  \A n \in Nodes, u \in Users :
    /\ pc[n] = "diff" /\ Waiting(card[n], u) =>
         u \in list[n] /\ \A e \in Made : Owed(card[n], u, e) => from[n] < e
    /\ pc[n] = "deliver" /\ Waiting(card[n], u) =>
         \A e \in Made : Owed(card[n], u, e) /\ e <= upto[n] =>
           u \in list[n] /\ from[n] < e

IInv == TypeOK /\ WatermarkIsTold /\ LoopTells

----------------------------------------------------------------------------
\* Max and Min of sets of times.  (A set of times has a last one, since the
\* intervals from each to n have a smallest one.)
LEMMA LastTime ==
  ASSUME NEW n \in Nat, NEW A \in SUBSET (0..n), A # {}
  PROVE  Max(A) \in A /\ \A a \in A : a <= Max(A)
<1> DEFINE T == {a..n : a \in A}
           R == StrictSubsetOrdering(0..n)
<1>1. IsWellFoundedOn(R, FiniteSubsetsOf(0..n))
  BY FS_StrictSubsetOrderingWellFounded
<1>2. \A a \in A : IsFiniteSet(a..n) /\ a..n \subseteq 0..n
  BY FS_Interval
<1>3. T \subseteq FiniteSubsetsOf(0..n)
  BY <1>2 DEF FiniteSubsetsOf
<1>4. T # {}
  OBVIOUS
<1> HIDE DEF T, R
<1>5. PICK x \in T : \A y \in T : ~ (<<y, x>> \in R)
  BY <1>1, <1>3, <1>4, WFMin
<1>6. PICK m \in A : x = m..n
  BY DEF T
<1>7. ASSUME NEW a \in A, a > m
      PROVE  FALSE
  <2>1. a..n \in T
    BY DEF T
  <2>2. a..n \subseteq m..n /\ m \in m..n /\ m \notin a..n
    BY <1>7
  <2>3. a..n \in SUBSET (0..n) /\ x \in SUBSET (0..n)
    BY <1>6
  <2>4. <<a..n, x>> \in R
    BY <2>2, <2>3, <1>6 DEF R, StrictSubsetOrdering
  <2> QED BY <2>1, <2>4, <1>5
<1>8. \E k \in A : \A a \in A : k >= a
  BY <1>7
<1>9. Max(A) \in A /\ \A a \in A : Max(A) >= a
  BY <1>8 DEF Max
<1> QED BY <1>9

LEMMA FirstTime ==
  ASSUME NEW n \in Nat, NEW A \in SUBSET (0..n), A # {}
  PROVE  Min(A) \in A /\ \A a \in A : Min(A) <= a
<1> DEFINE B == {n - a : a \in A}
<1>0. \A a \in A : n - a \in 0..n
  OBVIOUS
<1>1. B \in SUBSET (0..n) /\ B # {}
  BY <1>0
<1>2. Max(B) \in B /\ \A b \in B : b <= Max(B)
  BY <1>1, LastTime
<1> HIDE DEF B
<1>3. PICK m \in A : Max(B) = n - m
  BY <1>2 DEF B
<1>4. \A a \in A : n - a <= n - m
  BY <1>2, <1>3 DEF B
<1>5. \A a \in A : m <= a
  BY <1>4
<1>6. \E k \in A : \A a \in A : k =< a
  BY <1>5
<1> QED BY <1>6 DEF Min

----------------------------------------------------------------------------
\* What GetSubscribers and GenerateDiffs compute.
LEMMA Oldest ==
  ASSUME TypeOK, NEW c \in Cards, Subscribers(c) # {}
  PROVE  LET k == Min({notifiedAt[c][u] : u \in Subscribers(c)})
         IN /\ k \in 0..Len(log) /\ \A u \in Subscribers(c) : k <= notifiedAt[c][u]
            /\ \E u \in Subscribers(c) : k = notifiedAt[c][u]
<1>1. Len(log) \in Nat
  BY DEF TypeOK, TablesOK, EventsOK, LoopsOK, HistoryOK
<1>2. \A u \in Subscribers(c) : notifiedAt[c][u] \in 0..Len(log)
  BY DEF TypeOK, TablesOK, EventsOK, LoopsOK, HistoryOK, Subscribers
<1> DEFINE A == {notifiedAt[c][u] : u \in Subscribers(c)}
<1>3. A \in SUBSET (0..Len(log)) /\ A # {}
  BY <1>2
<1> HIDE DEF A
<1>4. Min(A) \in A /\ \A a \in A : Min(A) <= a
  BY <1>1, <1>3, FirstTime
<1> QED BY <1>3, <1>4 DEF A

LEMMA Latest ==
  ASSUME TypeOK, NEW c \in Cards
  PROVE  /\ Max(EditsOf(c) \cup {0}) \in 0..Len(log)
         /\ Max({e \in EditsOf(c) : log[e].part = "card"} \cup {0}) \in 0..Len(log)
         /\ \A e \in EditsOf(c) : e <= Max(EditsOf(c) \cup {0})
<1>1. Len(log) \in Nat
  BY DEF TypeOK, TablesOK
<1> DEFINE A == EditsOf(c) \cup {0}
           B == {e \in EditsOf(c) : log[e].part = "card"} \cup {0}
<1>2. A \in SUBSET (0..Len(log)) /\ A # {} /\ B \in SUBSET (0..Len(log)) /\ B # {}
  BY <1>1 DEF EditsOf, Made
<1> HIDE DEF A, B
<1>3. Max(A) \in A /\ (\A a \in A : a <= Max(A)) /\ Max(B) \in B
  BY <1>1, <1>2, LastTime
<1> QED BY <1>2, <1>3 DEF A, B

\* The log grows by the changes only.
LEMMA LogStep ==
  ASSUME TypeOK, [Next]_vars
  PROVE  \/ log' = log
         \/ \E u \in Users, c \in Cards, p \in Parts, n \in Nodes : Edit(u, c, p, n)
BY DEF Next, vars, tables, events, Subscribe, Unsubscribe, Tick, BlockChanged, CheckSubscribers,
       UpsertHint, SendHint, BlockChangedFails, Loop, Peek, Wake, Select, Delete,
       GetSubscribers, GenerateDiffs, Deliver, DeliverFails, Mark, PeekFails, Abort, Crash

\* What is owed after a step was owed before it, or is a change just made.
LEMMA OwedStep ==
  ASSUME TypeOK, [Next]_vars, NEW c \in Cards, NEW u \in Users, NEW e, Owed(c, u, e)'
  PROVE  /\ e \in Nat
         /\ Owed(c, u, e) \/ e = Len(log) + 1
<1>1. Len(log) \in Nat /\ Len(log') \in Nat
  <2>1. CASE log' = log
    BY <2>1 DEF TypeOK, TablesOK, EventsOK, LoopsOK, HistoryOK
  <2>2. CASE \E v \in Users, d \in Cards, p \in Parts, n \in Nodes : Edit(v, d, p, n)
    BY <2>2 DEF TypeOK, TablesOK, EventsOK, LoopsOK, HistoryOK, Edit
  <2> QED BY <2>1, <2>2, LogStep
<1>2. CASE \E v \in Users, d \in Cards, p \in Parts, n \in Nodes : Edit(v, d, p, n)
  <2>1. PICK v \in Users, d \in Cards, p \in Parts, n \in Nodes : Edit(v, d, p, n)
    BY <1>2
  <2>2. Len(log') = Len(log) + 1 /\ \A k \in 1..Len(log) : log'[k] = log[k]
    BY <2>1 DEF TypeOK, TablesOK, EventsOK, LoopsOK, HistoryOK, Edit
  <2>3. since' = since /\ told' = told /\ failed' = failed
    BY <2>1 DEF Edit, ghosts
  <2> QED BY <1>1, <2>2, <2>3 DEF Owed, EditsOf, Made
<1>3. CASE log' = log /\ \E v \in Users, d \in Cards : Subscribe(v, d)
  <2>1. PICK v \in Users, d \in Cards : Subscribe(v, d)
    BY <1>3
  <2>2. told' = told /\ failed' = failed
    BY <2>1 DEF Subscribe
  <2>3. since[c][u] \in 0..Len(log) /\ (since'[c][u] = since[c][u] \/ since'[c][u] = Len(log))
    BY <2>1 DEF Subscribe, TypeOK, TablesOK, EventsOK, LoopsOK, HistoryOK
  <2> QED BY <1>1, <1>3, <2>2, <2>3 DEF Owed, EditsOf, Made
<1>4. CASE log' = log /\ \E n \in Nodes, v \in Users : Deliver(n, v)
  <2>1. PICK n \in Nodes, v \in Users : Deliver(n, v)
    BY <1>4
  <2>2. since' = since /\ failed' = failed /\ told[u] \subseteq told'[u]
    BY <2>1 DEF Deliver, TypeOK, TablesOK, EventsOK, LoopsOK, HistoryOK
  <2> QED BY <1>1, <1>4, <2>2 DEF Owed, EditsOf, Made
<1>5. CASE log' = log /\ \E n \in Nodes, v \in Users : DeliverFails(n, v)
  <2>1. PICK n \in Nodes, v \in Users : DeliverFails(n, v)
    BY <1>5
  <2>2. since' = since /\ told' = told /\ failed \subseteq failed'
    BY <2>1 DEF DeliverFails
  <2> QED BY <1>1, <1>5, <2>2 DEF Owed, EditsOf, Made
<1>6. CASE log' = log /\ since' = since /\ told' = told /\ failed' = failed
  BY <1>1, <1>6 DEF Owed, EditsOf, Made
<1>7. \/ \E v \in Users, d \in Cards, p \in Parts, n \in Nodes : Edit(v, d, p, n)
      \/ \E v \in Users, d \in Cards : Subscribe(v, d)
      \/ \E n \in Nodes, v \in Users : Deliver(n, v)
      \/ \E n \in Nodes, v \in Users : DeliverFails(n, v)
      \/ since' = since /\ told' = told /\ failed' = failed
  BY ZenonT(60) DEF Next, vars, ghosts, Unsubscribe, Tick, BlockChanged, CheckSubscribers,
       UpsertHint, SendHint, BlockChangedFails, Loop, Peek, Wake, Select, Delete,
       GetSubscribers, GenerateDiffs, Mark, PeekFails, Abort, Crash
<1> QED BY <1>2, <1>3, <1>4, <1>5, <1>6, <1>7, LogStep

----------------------------------------------------------------------------
\* Types.
LEMMA LogEntry ==
  ASSUME TypeOK, NEW e \in Made
  PROVE  log[e].card \in Cards /\ log[e].author \in Users
<1> DEFINE Entry == [card : Cards, part : Parts, author : Users]
<1>1. log \in Seq(Entry)
  BY DEF TypeOK, TablesOK
<1> HIDE DEF Entry
<1>2. log[e] \in Entry
  BY <1>1 DEF Made
<1> QED BY <1>2 DEF Entry

LEMMA Ticks ==
  /\ Freq \in 0..Freq /\ 0 \in 0..QueueSize
  /\ \A k \in 0..MaxTroubles : k < MaxTroubles => k + 1 \in 0..MaxTroubles
  /\ \A k \in 0..QueueSize : k > 0 => k - 1 \in 0..QueueSize
BY NumbersAssumption

LEMMA ReturnType ==
  ASSUME TypeOK, NEW n \in Nodes, Return(n)
  PROVE  /\ pc' \in [Nodes -> {"peek", "sleep", "select", "delete"} \cup Working]
         /\ card' \in [Nodes -> Cards \cup {None}]
         /\ \A m \in Nodes : pc'[m] \in {"delete"} \cup Working => card'[m] \in Cards
         /\ list' \in [Nodes -> SUBSET Users]
         /\ from' \in [Nodes -> 0..Len(log)]
         /\ upto' \in [Nodes -> 0..Len(log)]
<1>1. Len(log) \in Nat
  BY DEF TypeOK, TablesOK, EventsOK, LoopsOK, HistoryOK
<1> QED BY <1>1 DEF TypeOK, TablesOK, EventsOK, LoopsOK, HistoryOK, Return, Goto, Working

LEMMA TypeInit == Init => TypeOK
<1> SUFFICES ASSUME Init PROVE TypeOK
  OBVIOUS
<1>1. log \in Seq([card : Cards, part : Parts, author : Users]) /\ Len(log) = 0 /\ Made = {}
  BY DEF Init, Made
<1>2. notifiedAt \in [Cards -> [Users -> 0..Len(log) \cup {None}]]
  BY <1>1 DEF Init
<1>3. since \in [Cards -> [Users -> 0..Len(log)]] /\ first = since
  BY <1>1 DEF Init
<1>4. 0 \in 0..QueueSize /\ 0 \in 0..MaxTroubles /\ 0 \in 0..MaxTroubles /\ 0 <= MaxEdits
  BY NumbersAssumption
<1> QED BY <1>1, <1>2, <1>3, <1>4 DEF Init, TypeOK, TablesOK, EventsOK, LoopsOK, HistoryOK, Working

LEMMA TypeStep == TypeOK /\ [Next]_vars => TypeOK'
<1> SUFFICES ASSUME TypeOK, [Next]_vars PROVE TypeOK'
  OBVIOUS
<1> USE DEF tables, events, loops, job, ghosts
<1>1. ASSUME NEW u \in Users, NEW c \in Cards, NEW p \in Parts, NEW n \in Nodes, Edit(u, c, p, n)
      PROVE  TypeOK'
  <2>1. Len(log) \in Nat /\ Len(log) + 1 \in Edits
    BY <1>1 DEF TypeOK, TablesOK, EventsOK, LoopsOK, HistoryOK, Edit, Edits
  <2>2. /\ log' \in Seq([card : Cards, part : Parts, author : Users])
        /\ Len(log') = Len(log) + 1 /\ Len(log') <= MaxEdits
    BY <1>1 DEF TypeOK, TablesOK, EventsOK, LoopsOK, HistoryOK, Edit
  <2>3. Made \subseteq Made' /\ Made' = Made \cup {Len(log) + 1} /\ 0..Len(log) \subseteq 0..Len(log')
    BY <2>1, <2>2 DEF Made
  <2>4. callback' \in [Edits -> {"none", "check", "upsert", "send", "done"}]
    BY <1>1 DEF TypeOK, TablesOK, EventsOK, LoopsOK, HistoryOK, Edit
  <2>5. /\ home' \in [Edits -> Nodes \cup {None}]
        /\ \A e \in Made' : home'[e] \in Nodes
        /\ \A e \in Edits \ Made' : callback'[e] = "none"
    BY <1>1, <2>1, <2>3 DEF TypeOK, EventsOK, Edit, Edits, Made
  <2>6. /\ notifiedAt' \in [Cards -> [Users -> 0..Len(log') \cup {None}]]
        /\ since' \in [Cards -> [Users -> 0..Len(log')]]
        /\ first' \in [Cards -> [Users -> 0..Len(log')]]
        /\ from' \in [Nodes -> 0..Len(log')] /\ upto' \in [Nodes -> 0..Len(log')]
    BY <1>1, <2>3 DEF TypeOK, TablesOK, EventsOK, LoopsOK, HistoryOK, Edit
  <2>7. /\ told' \in [Users -> SUBSET Made'] /\ again' \subseteq Users \X Made'
        /\ failed' \subseteq Users \X Made'
    BY <1>1, <2>3 DEF TypeOK, TablesOK, EventsOK, LoopsOK, HistoryOK, Edit
  <2> QED BY <1>1, <2>2, <2>4, <2>5, <2>6, <2>7 DEF TypeOK, TablesOK, EventsOK, LoopsOK, HistoryOK, Edit
<1>2. ASSUME NEW u \in Users, NEW c \in Cards, Subscribe(u, c)
      PROVE  TypeOK'
  <2>1. Len(log) \in Nat /\ Made' = Made
    BY <1>2 DEF TypeOK, TablesOK, EventsOK, LoopsOK, HistoryOK, Subscribe, Made
  <2>2. /\ notifiedAt' \in [Cards -> [Users -> 0..Len(log) \cup {None}]]
        /\ since' \in [Cards -> [Users -> 0..Len(log)]]
    BY <1>2, <2>1 DEF TypeOK, TablesOK, EventsOK, LoopsOK, HistoryOK, Subscribe
  <2>3. first' \in [Cards -> [Users -> 0..Len(log)]]
    BY <1>2, <2>1 DEF TypeOK, TablesOK, EventsOK, LoopsOK, HistoryOK, Subscribe
  <2>4. late' \subseteq Cards \X Users /\ troubles' \in 0..MaxTroubles
    BY SMTT(40), <1>2, NumbersAssumption DEF TypeOK, HistoryOK, Subscribe
  <2> QED BY <1>2, <2>1, <2>2, <2>3, <2>4 DEF TypeOK, TablesOK, EventsOK, LoopsOK, HistoryOK, Subscribe
<1>3. ASSUME NEW u \in Users, NEW c \in Cards, Unsubscribe(u, c)
      PROVE  TypeOK'
  <2>1. troubles' \in 0..MaxTroubles
    BY <1>3, NumbersAssumption DEF TypeOK, TablesOK, EventsOK, LoopsOK, HistoryOK, Unsubscribe
  <2> QED BY <1>3, <2>1 DEF TypeOK, TablesOK, EventsOK, LoopsOK, HistoryOK, Unsubscribe, Made
<1>4. CASE Tick
  <2>1. /\ hints' \in [Cards -> 0..Freq \cup {None}]
        /\ sleep' \in [Nodes -> Nat]
    BY <1>4, NumbersAssumption, SetsAssumption DEF TypeOK, TablesOK, EventsOK, LoopsOK, HistoryOK, Tick, Less
  <2> QED BY <1>4, <2>1 DEF TypeOK, TablesOK, EventsOK, LoopsOK, HistoryOK, Tick, Made
<1>5. ASSUME NEW e \in Edits, BlockChanged(e) \/ BlockChangedFails(e)
      PROVE  TypeOK'
  <2>1. /\ callback' \in [Edits -> {"none", "check", "upsert", "send", "done"}] /\ Made' = Made
        /\ e \in Made /\ \A k \in Edits \ {e} : callback'[k] = callback[k]
    BY <1>5 DEF TypeOK, TablesOK, EventsOK, LoopsOK, HistoryOK, BlockChanged, CheckSubscribers, UpsertHint, SendHint, BlockChangedFails, At, Reach, Made
  <2>2. CASE CheckSubscribers(e)
    BY <2>1, <2>2 DEF TypeOK, TablesOK, EventsOK, LoopsOK, HistoryOK, CheckSubscribers
  <2>3. CASE UpsertHint(e)
    <3>1. hints' \in [Cards -> 0..Freq \cup {None}]
      BY <2>3, Ticks DEF TypeOK, TablesOK, UpsertHint
    <3> QED BY <2>1, <2>3, <3>1 DEF TypeOK, TablesOK, EventsOK, LoopsOK, HistoryOK, UpsertHint
  <2>4. CASE SendHint(e)
    <3>1. wake' \in [Nodes -> 0..QueueSize]
      BY <2>1, <2>4, NumbersAssumption DEF TypeOK, LoopsOK, EventsOK, SendHint
    <3> QED BY <2>1, <2>4, <3>1 DEF TypeOK, TablesOK, EventsOK, LoopsOK, HistoryOK, SendHint
  <2>5. CASE BlockChangedFails(e)
    <3>1. troubles' \in 0..MaxTroubles
      BY <2>5, NumbersAssumption DEF TypeOK, TablesOK, EventsOK, LoopsOK, HistoryOK, BlockChangedFails
    <3>2. log[e].card \in Cards
      BY <2>1, LogEntry
    <3>3. faulty' \subseteq Cards
      BY <2>5, <3>2 DEF TypeOK, TablesOK, EventsOK, LoopsOK, HistoryOK, BlockChangedFails
    <3> QED BY <2>1, <2>5, <3>1, <3>3 DEF TypeOK, TablesOK, EventsOK, LoopsOK, HistoryOK, BlockChangedFails
  <2> QED BY <1>5, <2>2, <2>3, <2>4, <2>5 DEF BlockChanged
<1>6. ASSUME NEW n \in Nodes, Peek(n) \/ Wake(n) \/ Select(n) \/ PeekFails(n)
      PROVE  TypeOK'
  <2>1. /\ pc' \in [Nodes -> {"peek", "sleep", "select", "delete"} \cup Working]
        /\ card' \in [Nodes -> Cards \cup {None}]
        /\ \A m \in Nodes : pc'[m] \in {"delete"} \cup Working => card'[m] \in Cards
    <3>1. CASE Select(n)
      BY ZenonT(60), <3>1 DEF TypeOK, LoopsOK, Select, Goto, NextHints, Hinted, Working
    <3>2. CASE Peek(n) \/ Wake(n) \/ PeekFails(n)
      BY <3>2 DEF TypeOK, TablesOK, EventsOK, LoopsOK, HistoryOK, Peek, Wake, PeekFails, Goto, SleepFor, Working
    <3> QED BY <1>6, <3>1, <3>2
  <2>2. sleep' \in [Nodes -> Nat] /\ Made' = Made
    <3>1. \A c \in Cards : hints[c] > 0 /\ hints[c] # None => hints[c] \in Nat
      BY NumbersAssumption DEF TypeOK, TablesOK, EventsOK, LoopsOK, HistoryOK
    <3>2. CASE Peek(n)
      <4>1. sleep' = [sleep EXCEPT ![n] = Hour] \/ sleep' = sleep
            \/ \E c \in Cards : hints[c] \in Nat /\ sleep' = [sleep EXCEPT ![n] = hints[c]]
        BY <3>1, <3>2 DEF Peek, SleepFor, NextHints, Hinted
      <4> QED BY <3>2, <4>1, NumbersAssumption DEF TypeOK, TablesOK, EventsOK, LoopsOK, HistoryOK, Peek, Made
    <3>3. CASE Wake(n) \/ Select(n) \/ PeekFails(n)
      BY <3>3 DEF TypeOK, TablesOK, EventsOK, LoopsOK, HistoryOK, Wake, Select, PeekFails, SleepFor, Minute, Made
    <3> QED BY <1>6, <3>2, <3>3
  <2>3. wake' \in [Nodes -> 0..QueueSize] /\ troubles' \in 0..MaxTroubles
    <3>1. wake' = wake \/ (wake[n] > 0 /\ wake' = [wake EXCEPT ![n] = wake[n] - 1])
      BY <1>6 DEF Peek, Wake, Select, PeekFails
    <3>2. troubles' = troubles \/ (troubles < MaxTroubles /\ troubles' = troubles + 1)
      BY <1>6 DEF Peek, Wake, Select, PeekFails
    <3> QED BY ZenonT(60), <3>1, <3>2, Ticks DEF TypeOK, LoopsOK
  <2>4. UNCHANGED <<log, notifiedAt, hints, events, list, from, upto, ghosts>>
    BY <1>6 DEF Peek, Wake, Select, PeekFails
  <2> QED BY <2>1, <2>2, <2>3, <2>4 DEF TypeOK, TablesOK, EventsOK, LoopsOK, HistoryOK
<1>7. ASSUME NEW n \in Nodes, Delete(n)
      PROVE  TypeOK'
  <2>1. card[n] \in Cards /\ Made' = Made
    BY <1>7 DEF TypeOK, TablesOK, EventsOK, LoopsOK, HistoryOK, Delete, Made
  <2>2. hints' \in [Cards -> 0..Freq \cup {None}] /\ crowded' \subseteq Cards
    BY <1>7, <2>1 DEF TypeOK, TablesOK, EventsOK, LoopsOK, HistoryOK, Delete
  <2>3. CASE Return(n)
    BY <1>7, <2>1, <2>2, <2>3, ReturnType DEF TypeOK, TablesOK, EventsOK, LoopsOK, HistoryOK, Delete
  <2>4. CASE Goto(n, "subs") /\ UNCHANGED job
    BY <1>7, <2>1, <2>2, <2>4 DEF TypeOK, TablesOK, EventsOK, LoopsOK, HistoryOK, Delete, Goto, Working
  <2> QED BY <1>7, <2>3, <2>4 DEF Delete
<1>8. ASSUME NEW n \in Nodes, GetSubscribers(n)
      PROVE  TypeOK'
  <2>1. card[n] \in Cards /\ Made' = Made
    BY <1>8 DEF TypeOK, TablesOK, EventsOK, LoopsOK, HistoryOK, GetSubscribers, Made, Working
  <2>2. CASE Subscribers(card[n]) = {}
    BY <1>8, <2>1, <2>2, ReturnType DEF TypeOK, TablesOK, EventsOK, LoopsOK, HistoryOK, GetSubscribers
  <2>3. CASE Subscribers(card[n]) # {}
    <3>1. Min({notifiedAt[card[n]][u] : u \in Subscribers(card[n])}) \in 0..Len(log)
      BY <2>1, <2>3, Oldest
    <3>2. from' \in [Nodes -> 0..Len(log)]
      BY <1>8, <2>3, <3>1 DEF TypeOK, TablesOK, EventsOK, LoopsOK, HistoryOK, GetSubscribers
    <3>3. list' \in [Nodes -> SUBSET Users]
      <4>1. Subscribers(card[n]) \in SUBSET Users
        BY DEF Subscribers
      <4>2. list' = [list EXCEPT ![n] = Subscribers(card[n])]
        BY <1>8, <2>3 DEF GetSubscribers
      <4> QED BY <4>1, <4>2 DEF TypeOK, LoopsOK
    <3>4. /\ pc' \in [Nodes -> {"peek", "sleep", "select", "delete"} \cup Working]
          /\ \A m \in Nodes : pc'[m] \in {"delete"} \cup Working => card'[m] \in Cards
      BY <1>8, <2>1, <2>3 DEF TypeOK, TablesOK, EventsOK, LoopsOK, HistoryOK, GetSubscribers, Goto, Working
    <3> QED BY <1>8, <2>1, <2>3, <3>2, <3>3, <3>4 DEF TypeOK, TablesOK, EventsOK, LoopsOK, HistoryOK, GetSubscribers
  <2> QED BY <2>2, <2>3
<1>9. ASSUME NEW n \in Nodes, GenerateDiffs(n)
      PROVE  TypeOK'
  <2>1. card[n] \in Cards /\ Made' = Made
    BY <1>9 DEF TypeOK, LoopsOK, GenerateDiffs, Made, Working
  <2>2. PICK k \in 0..Len(log) : upto' = [upto EXCEPT ![n] = k]
    BY <1>9, <2>1, Latest DEF GenerateDiffs
  <2>3. upto' \in [Nodes -> 0..Len(log)]
    BY <2>2 DEF TypeOK, LoopsOK
  <2>4. PICK names \in SUBSET list[n] : list' = [list EXCEPT ![n] = names]
    BY <1>9 DEF GenerateDiffs
  <2>5. list' \in [Nodes -> SUBSET Users]
    BY <2>4 DEF TypeOK, LoopsOK
  <2>6. /\ pc' \in [Nodes -> {"peek", "sleep", "select", "delete"} \cup Working]
        /\ \A m \in Nodes : pc'[m] \in {"delete"} \cup Working => card'[m] \in Cards
    BY <1>9, <2>1 DEF TypeOK, LoopsOK, GenerateDiffs, Goto, Working
  <2> QED BY <1>9, <2>1, <2>3, <2>5, <2>6 DEF TypeOK, TablesOK, EventsOK, LoopsOK, HistoryOK, GenerateDiffs
<1>10. ASSUME NEW n \in Nodes, NEW u \in Users, Deliver(n, u)
       PROVE  TypeOK'
  <2>1. Made' = Made /\ Changes(n, upto[n]) \subseteq Made
    BY <1>10 DEF Deliver, Made, Changes, EditsOf
  <2>2. told' \in [Users -> SUBSET Made] /\ again' \subseteq Users \X Made
    BY <1>10, <2>1 DEF TypeOK, TablesOK, EventsOK, LoopsOK, HistoryOK, Deliver
  <2>3. list' \in [Nodes -> SUBSET Users]
    BY <1>10 DEF TypeOK, TablesOK, EventsOK, LoopsOK, HistoryOK, Deliver
  <2> QED BY <1>10, <2>1, <2>2, <2>3 DEF TypeOK, TablesOK, EventsOK, LoopsOK, HistoryOK, Deliver
<1>11. ASSUME NEW n \in Nodes, NEW u \in Users, DeliverFails(n, u)
       PROVE  TypeOK'
  <2>1. Made' = Made /\ Changes(n, upto[n]) \subseteq Made /\ card[n] \in Cards
    BY <1>11 DEF DeliverFails, Made, Changes, EditsOf, TypeOK, TablesOK, EventsOK, LoopsOK, HistoryOK, Working
  <2>2. failed' \subseteq Users \X Made /\ faulty' \subseteq Cards /\ troubles' \in 0..MaxTroubles
    BY <1>11, <2>1, NumbersAssumption DEF TypeOK, TablesOK, EventsOK, LoopsOK, HistoryOK, DeliverFails
  <2>3. list' \in [Nodes -> SUBSET Users]
    BY <1>11 DEF TypeOK, TablesOK, EventsOK, LoopsOK, HistoryOK, DeliverFails
  <2> QED BY <1>11, <2>1, <2>2, <2>3 DEF TypeOK, TablesOK, EventsOK, LoopsOK, HistoryOK, DeliverFails
<1>12. ASSUME NEW n \in Nodes, Mark(n)
       PROVE  TypeOK'
  <2>1. Made' = Made /\ card[n] \in Cards /\ upto[n] \in 0..Len(log)
    BY <1>12 DEF TypeOK, TablesOK, EventsOK, LoopsOK, HistoryOK, Mark, Made, Working
  <2>2. notifiedAt' \in [Cards -> [Users -> 0..Len(log) \cup {None}]]
    BY <1>12, <2>1 DEF TypeOK, TablesOK, Mark, Marked
  <2>3. rewound' \subseteq Cards
    BY <1>12, <2>1 DEF TypeOK, HistoryOK, Mark, Marked
  <2> QED BY <1>12, <2>1, <2>2, <2>3, ReturnType DEF TypeOK, TablesOK, EventsOK, LoopsOK, HistoryOK, Mark
<1>13. ASSUME NEW n \in Nodes, Abort(n)
       PROVE  TypeOK'
  <2>1. troubles' \in 0..MaxTroubles /\ faulty' \subseteq Cards /\ Made' = Made
    BY <1>13, NumbersAssumption DEF TypeOK, TablesOK, EventsOK, LoopsOK, HistoryOK, Abort, Made
  <2> QED BY <1>13, <2>1, ReturnType DEF TypeOK, TablesOK, EventsOK, LoopsOK, HistoryOK, Abort
<1>14. ASSUME NEW n \in Nodes, Crash(n)
       PROVE  TypeOK'
  <2>1. \A e \in Made : log[e].card \in Cards
    BY LogEntry
  <2>2. troubles' \in 0..MaxTroubles /\ faulty' \subseteq Cards /\ Made' = Made
    <3>1. troubles' \in 0..MaxTroubles /\ Made' = Made
      BY <1>14, Ticks DEF TypeOK, Crash, Made
    <3>2. pc[n] \in Working => card[n] \in Cards
      BY DEF TypeOK, LoopsOK
    <3>3. {log[e].card : e \in {d \in Made : home[d] = n /\ callback[d] # "done"}} \subseteq Cards
      BY <2>1
    <3>4. faulty' = faulty \cup {log[e].card : e \in {d \in Made : home[d] = n /\ callback[d] # "done"}}
                           \cup (IF pc[n] \in Working THEN {card[n]} ELSE {})
      BY <1>14 DEF Crash
    <3> QED BY <3>1, <3>2, <3>3, <3>4 DEF TypeOK, HistoryOK
  <2>3. /\ callback' \in [Edits -> {"none", "check", "upsert", "send", "done"}]
        /\ \A e \in Edits \ Made' : callback'[e] = "none"
    BY <1>14, <2>2 DEF TypeOK, TablesOK, EventsOK, LoopsOK, HistoryOK, Crash
  <2>4. wake' \in [Nodes -> 0..QueueSize] /\ sleep' \in [Nodes -> Nat]
    BY <1>14, NumbersAssumption DEF TypeOK, TablesOK, EventsOK, LoopsOK, HistoryOK, Crash
  <2> QED BY <1>14, <2>2, <2>3, <2>4, ReturnType DEF TypeOK, TablesOK, EventsOK, LoopsOK, HistoryOK, Crash
<1>15. CASE UNCHANGED vars
  BY <1>15 DEF TypeOK, TablesOK, EventsOK, LoopsOK, HistoryOK, vars, Made
<1> QED BY <1>1, <1>2, <1>3, <1>4, <1>5, <1>6, <1>7, <1>8, <1>9, <1>10, <1>11, <1>12,
           <1>13, <1>14, <1>15 DEF Next, Loop

\* Every variable of the notifier keeps its type: no wake-up is lost track
\* of, no callback runs before its change, and no loop works on no card.
THEOREM TypeCorrect == Spec => []TypeOK
BY TypeInit, TypeStep, PTL DEF Spec

----------------------------------------------------------------------------
\* The watermark.
LEMMA WatermarkStep == IInv /\ [Next]_vars => WatermarkIsTold'
<1> SUFFICES ASSUME IInv, [Next]_vars, NEW c \in Cards, NEW u \in Users, Waiting(c, u)',
                    NEW e, Owed(c, u, e)'
             PROVE  notifiedAt'[c][u] < e
  BY DEF WatermarkIsTold
<1>1. TypeOK /\ Len(log) \in Nat
  BY DEF IInv, TypeOK, TablesOK
<1>2. e \in Nat /\ (Owed(c, u, e) \/ e = Len(log) + 1)
  BY <1>1, OwedStep
<1>3. log' = log => Owed(c, u, e)
  BY <1>1, <1>2 DEF Owed, EditsOf, Made
<1>4. Waiting(c, u) /\ Owed(c, u, e) => notifiedAt[c][u] < e
  BY DEF IInv, WatermarkIsTold, Owed, EditsOf
<1>5. CASE \E v \in Users, d \in Cards, p \in Parts, n \in Nodes : Edit(v, d, p, n)
  <2>1. notifiedAt' = notifiedAt /\ late' = late
    BY <1>5 DEF Edit, ghosts
  <2>2. Waiting(c, u) /\ notifiedAt[c][u] \in 0..Len(log)
    BY <1>1, <2>1 DEF Waiting, TypeOK, TablesOK
  <2> QED BY <1>1, <1>2, <1>4, <2>1, <2>2
<1>6. ASSUME NEW v \in Users, NEW d \in Cards, Subscribe(v, d)
      PROVE  notifiedAt'[c][u] < e
  <2>1. CASE c = d /\ u = v
    <3>1. since'[c][u] = Len(log) /\ notifiedAt'[c][u] = Len(log)
      BY <1>1, <1>6, <2>1 DEF Subscribe, TypeOK, TablesOK, HistoryOK
    <3> QED BY <3>1 DEF Owed
  <2>2. CASE ~(c = d /\ u = v)
    <3>1. notifiedAt'[c][u] = notifiedAt[c][u] /\ late \subseteq late' /\ log' = log
      BY <1>1, <1>6, <2>2 DEF Subscribe, TypeOK, TablesOK
    <3> QED BY <1>3, <1>4, <3>1 DEF Waiting
  <2> QED BY <2>1, <2>2
<1>7. ASSUME NEW v \in Users, NEW d \in Cards, Unsubscribe(v, d)
      PROVE  notifiedAt'[c][u] < e
  <2>1. /\ notifiedAt'[c][u] = notifiedAt[c][u] \/ notifiedAt'[c][u] = None
        /\ late' = late /\ log' = log
    BY <1>1, <1>7 DEF Unsubscribe, TypeOK, TablesOK, ghosts
  <2> QED BY <1>3, <1>4, <2>1 DEF Waiting
<1>8. ASSUME NEW n \in Nodes, Mark(n)
      PROVE  notifiedAt'[c][u] < e
  <2>1. late' = late /\ log' = log
    BY <1>8 DEF Mark, ghosts
  <2>2. CASE card[n] = c
    <3>1. notifiedAt'[c] = [w \in Users |-> IF notifiedAt[c][w] = None THEN None ELSE upto[n]]
      BY <1>1, <1>8, <2>2 DEF Mark, Marked, TypeOK, TablesOK
    <3>2. Waiting(c, u) /\ notifiedAt'[c][u] = upto[n]
      BY <2>1, <3>1 DEF Waiting
    <3>3. ~(e <= upto[n])
      BY <1>3, <1>8, <2>1, <2>2, <3>2 DEF Mark, IInv, LoopTells, Owed, EditsOf
    <3>4. upto[n] \in Nat
      BY <1>1 DEF TypeOK, LoopsOK
    <3> QED BY <1>2, <3>2, <3>3, <3>4
  <2>3. CASE card[n] # c
    <3>1. notifiedAt'[c][u] = notifiedAt[c][u]
      BY <1>1, <1>8, <2>3 DEF Mark, Marked, TypeOK, TablesOK
    <3> QED BY <1>3, <1>4, <2>1, <3>1 DEF Waiting
  <2> QED BY <2>2, <2>3
<1>9. CASE notifiedAt' = notifiedAt /\ late' = late /\ log' = log
  BY <1>3, <1>4, <1>9 DEF Waiting
<1> QED
  BY <1>5, <1>6, <1>7, <1>8, <1>9
     DEF Next, vars, tables, ghosts, Tick, BlockChanged, CheckSubscribers, UpsertHint, SendHint,
         BlockChangedFails, Loop, Peek, Wake, Select, Delete, GetSubscribers, GenerateDiffs,
         Deliver, DeliverFails, PeekFails, Abort, Crash

\* Who starts to wait has just subscribed: no change was made since, and a
\* loop between its two reads has them on its list.
LEMMA WaitingStep ==
  ASSUME TypeOK, [Next]_vars, NEW c \in Cards, NEW u \in Users, Waiting(c, u)'
  PROVE  \/ Waiting(c, u)
         \/ /\ log' = log /\ since'[c][u] = Len(log)
            /\ \A n \in Nodes : card[n] = c /\ pc[n] = "diff" => u \in list[n]
<1>1. ASSUME NEW v \in Users, NEW d \in Cards, Subscribe(v, d), ~Waiting(c, u)
      PROVE  /\ log' = log /\ since'[c][u] = Len(log)
             /\ \A n \in Nodes : card[n] = c /\ pc[n] = "diff" => u \in list[n]
  <2>1. c = d /\ u = v
    BY <1>1 DEF Subscribe, Waiting, TypeOK, TablesOK
  <2>2. log' = log /\ since'[c][u] = Len(log)
    BY <1>1, <2>1 DEF Subscribe, TypeOK, HistoryOK
  <2>3. ASSUME NEW n \in Nodes, card[n] = c, pc[n] = "diff", u \notin list[n]
        PROVE  FALSE
    <3>1. n \in WorkOn(c)
      BY <2>3 DEF WorkOn, Working
    <3>2. late' = late \cup {<<c, u>>}
      BY <1>1, <2>1, <2>3, <3>1 DEF Subscribe
    <3> QED BY <3>2 DEF Waiting
  <2> QED BY <2>2, <2>3
<1>2. ASSUME NEW v \in Users, NEW d \in Cards, Unsubscribe(v, d)
      PROVE  Waiting(c, u)
  BY <1>2 DEF Unsubscribe, Waiting, TypeOK, TablesOK, ghosts
<1>3. ASSUME NEW n \in Nodes, Mark(n)
      PROVE  Waiting(c, u)
  BY <1>3 DEF Mark, Marked, Waiting, TypeOK, TablesOK, ghosts
<1>4. CASE notifiedAt' = notifiedAt /\ late' = late
  BY <1>4 DEF Waiting
<1> QED
  BY <1>1, <1>2, <1>3, <1>4
     DEF Next, vars, tables, ghosts, Edit, Tick, BlockChanged, CheckSubscribers, UpsertHint, SendHint,
         BlockChangedFails, Loop, Peek, Wake, Select, Delete, GetSubscribers, GenerateDiffs,
         Deliver, DeliverFails, PeekFails, Abort, Crash

\* What a loop is about.
Job(m) == <<pc[m], card[m], list[m], from[m], upto[m]>>

\* The steps that the others make leave the job of a loop alone, and its own
\* steps are these.
LEMMA JobStep ==
  ASSUME TypeOK, [Next]_vars, NEW m \in Nodes
  PROVE  \/ Job(m)' = Job(m)
         \/ pc'[m] \notin {"diff", "deliver"}
         \/ GetSubscribers(m) \/ GenerateDiffs(m)
         \/ \E v \in Users : Deliver(m, v) \/ DeliverFails(m, v)
<1>1. ASSUME NEW n \in Nodes, Peek(n) \/ Wake(n) \/ Select(n) \/ Delete(n) \/ Mark(n)
                              \/ PeekFails(n) \/ Abort(n) \/ Crash(n)
      PROVE  Job(m)' = Job(m) \/ pc'[m] \notin {"diff", "deliver"}
  <2>1. CASE n = m
    <3>1. pc' \in {[pc EXCEPT ![n] = s] : s \in {"peek", "sleep", "select", "delete", "subs"}}
      BY <1>1 DEF Peek, Wake, Select, Delete, Mark, PeekFails, Abort, Crash, Return, SleepFor, Goto
    <3> QED BY <2>1, <3>1 DEF TypeOK, LoopsOK
  <2>2. CASE n # m
    BY <1>1, <2>2 DEF Peek, Wake, Select, Delete, Mark, PeekFails, Abort, Crash, Return, SleepFor,
                      Goto, Job, job, TypeOK, LoopsOK
  <2> QED BY <2>1, <2>2
<1>2. ASSUME NEW n \in Nodes, NEW v \in Users, n # m,
             GetSubscribers(n) \/ GenerateDiffs(n) \/ Deliver(n, v) \/ DeliverFails(n, v)
      PROVE  Job(m)' = Job(m)
  BY <1>2 DEF GetSubscribers, GenerateDiffs, Deliver, DeliverFails, Return, Goto, Job, TypeOK, LoopsOK
<1>3. ASSUME NEW n \in Nodes, n # m, GetSubscribers(n) \/ GenerateDiffs(n)
      PROVE  Job(m)' = Job(m)
  BY <1>3 DEF GetSubscribers, GenerateDiffs, Return, Goto, Job, TypeOK, LoopsOK
<1>4. CASE UNCHANGED <<pc, job>>
  BY <1>4 DEF Job, job
<1> QED
  BY <1>1, <1>2, <1>3, <1>4
     DEF Next, vars, loops, job, Edit, Subscribe, Unsubscribe, Tick, BlockChanged, CheckSubscribers,
         UpsertHint, SendHint, BlockChangedFails, Loop

LEMMA LoopStep == IInv /\ [Next]_vars => LoopTells'
<1> SUFFICES ASSUME IInv, [Next]_vars, NEW m \in Nodes, NEW u \in Users,
                    NEW c \in Cards, c = card'[m], Waiting(c, u)',
                    pc'[m] \in {"diff", "deliver"}
             PROVE  /\ pc'[m] = "diff" =>
                         u \in list'[m] /\ \A e \in Made' : Owed(c, u, e)' => from'[m] < e
                    /\ pc'[m] = "deliver" =>
                         \A e \in Made' : Owed(c, u, e)' /\ e <= upto'[m] =>
                           u \in list'[m] /\ from'[m] < e
  <2> SUFFICES ASSUME IInv, [Next]_vars, NEW m \in Nodes, NEW u \in Users,
                      pc'[m] \in {"diff", "deliver"}
               PROVE  Waiting(card[m], u)' =>
                      /\ pc'[m] = "diff" =>
                           u \in list'[m] /\ \A e \in Made' : Owed(card[m], u, e)' => from'[m] < e
                      /\ pc'[m] = "deliver" =>
                           \A e \in Made' : Owed(card[m], u, e)' /\ e <= upto'[m] =>
                             u \in list'[m] /\ from'[m] < e
    BY DEF LoopTells
  <2>1. card'[m] \in Cards
    BY TypeStep DEF IInv, TypeOK, LoopsOK, Working
  <2> QED BY <2>1 DEF Waiting, Owed, EditsOf
<1>1. TypeOK /\ Len(log) \in Nat /\ from[m] \in 0..Len(log) /\ upto[m] \in 0..Len(log)
  BY DEF IInv, TypeOK, TablesOK, LoopsOK
<1>2. \A e : Owed(c, u, e)' => e \in Nat /\ (Owed(c, u, e) \/ e = Len(log) + 1)
  BY <1>1, OwedStep
<1>3. log' = log => \A e : Owed(c, u, e)' => Owed(c, u, e) /\ e <= Len(log)
  BY <1>1, <1>2 DEF Owed, EditsOf, Made
<1>4. CASE Job(m)' = Job(m)
  <2>1. /\ pc'[m] = pc[m] /\ card[m] = c /\ list'[m] = list[m]
        /\ from'[m] = from[m] /\ upto'[m] = upto[m]
    BY <1>4 DEF Job
  <2>2. CASE Waiting(c, u)
    <3>1. ASSUME NEW e, Owed(c, u, e)', e # Len(log) + 1
          PROVE  e \in Made /\ Owed(c, u, e)
      BY <1>2, <3>1 DEF Owed, EditsOf
    <3>2. pc[m] = "diff" =>
            u \in list[m] /\ \A e \in Made : Owed(c, u, e) => from[m] < e
      BY <2>1, <2>2 DEF IInv, LoopTells
    <3>3. pc[m] = "deliver" =>
            \A e \in Made : Owed(c, u, e) /\ e <= upto[m] => u \in list[m] /\ from[m] < e
      BY <2>1, <2>2 DEF IInv, LoopTells
    <3> QED BY <1>1, <2>1, <3>1, <3>2, <3>3
  <2>3. CASE ~Waiting(c, u)
    <3>1. /\ log' = log /\ since'[c][u] = Len(log)
          /\ pc[m] = "diff" => u \in list[m]
      BY <1>1, <2>1, <2>3, WaitingStep
    <3>2. \A e : ~Owed(c, u, e)'
      <4> SUFFICES ASSUME NEW e, Owed(c, u, e)' PROVE FALSE
        OBVIOUS
      <4>1. e <= Len(log) /\ Len(log) < e /\ e \in Nat
        BY <1>2, <1>3, <3>1 DEF Owed
      <4> QED BY <1>1, <4>1
    <3> QED BY <2>1, <3>1, <3>2
  <2> QED BY <2>2, <2>3
<1>5. CASE GetSubscribers(m)
  <2>1. /\ log' = log /\ notifiedAt' = notifiedAt /\ late' = late
        /\ card[m] = c /\ pc'[m] = "diff" /\ Subscribers(c) # {}
        /\ list'[m] = Subscribers(c)
        /\ from'[m] = Min({notifiedAt[c][w] : w \in Subscribers(c)})
    <3>1. Subscribers(card[m]) # {}
      BY <1>1, <1>5 DEF GetSubscribers, Return, Goto, TypeOK, LoopsOK
    <3>2. /\ log' = log /\ notifiedAt' = notifiedAt /\ late' = late /\ card' = card
          /\ list' = [list EXCEPT ![m] = Subscribers(card[m])]
          /\ from' = [from EXCEPT ![m] = Min({notifiedAt[card[m]][w] : w \in Subscribers(card[m])})]
          /\ pc' = [pc EXCEPT ![m] = "diff"]
      BY <1>5, <3>1 DEF GetSubscribers, Goto, tables, ghosts
    <3>3. card[m] = c
      BY <3>2
    <3> QED BY <1>1, <3>1, <3>2, <3>3 DEF TypeOK, LoopsOK
  <2>2. Waiting(c, u) /\ u \in Subscribers(c)
    BY <2>1 DEF Waiting, Subscribers
  <2>3. from'[m] \in 0..Len(log) /\ from'[m] <= notifiedAt[c][u]
    BY <1>1, <2>1, <2>2, Oldest
  <2>4. notifiedAt[c][u] \in 0..Len(log)
    BY <1>1, <2>2 DEF TypeOK, TablesOK, Waiting
  <2>5. ASSUME NEW e, Owed(c, u, e)'
        PROVE  e \in Nat /\ notifiedAt[c][u] < e
    BY <1>2, <1>3, <2>1, <2>2, <2>5 DEF IInv, WatermarkIsTold, Owed, EditsOf
  <2>6. \A e \in Made' : Owed(c, u, e)' => from'[m] < e
    BY <1>1, <2>3, <2>4, <2>5
  <2> QED BY <2>1, <2>2, <2>6
<1>6. CASE GenerateDiffs(m)
  <2> DEFINE last == Max(EditsOf(card[m]) \cup {0})
             authors == {log[e].author : e \in Changes(m, last)}
  <2>1. /\ log' = log /\ notifiedAt' = notifiedAt /\ late' = late /\ pc[m] = "diff"
        /\ card[m] = c /\ pc' = [pc EXCEPT ![m] = "deliver"] /\ from'[m] = from[m]
    BY <1>6 DEF GenerateDiffs, Goto, tables, ghosts
  <2>2. Waiting(c, u)
    BY <2>1 DEF Waiting
  <2>3. ASSUME NEW e, Owed(c, u, e)'
        PROVE  e \in EditsOf(c) /\ from[m] < e /\ u \in list[m] /\ log[e].author # u
    BY <1>3, <2>1, <2>2, <2>3 DEF IInv, LoopTells, Owed, EditsOf
  <2>4. ASSUME NEW e, Owed(c, u, e)'
        PROVE  authors # {} /\ authors # {u}
    <3>1. e <= last
      BY <1>1, <2>1, <2>3, <2>4, Latest
    <3>2. e \in Changes(m, last)
      BY <2>1, <2>3, <2>4, <3>1 DEF Changes
    <3> QED BY <2>3, <2>4, <3>2
  <2>5. authors # {} => list' = [list EXCEPT ![m] = {w \in list[m] : authors # {w}}]
    BY <1>6 DEF GenerateDiffs
  <2> HIDE DEF authors, last
  <2>6. pc'[m] = "deliver" /\ (authors # {} => list'[m] = {w \in list[m] : authors # {w}})
    BY <1>1, <2>1, <2>5 DEF TypeOK, LoopsOK
  <2> QED BY <2>1, <2>3, <2>4, <2>6
<1>7. ASSUME NEW v \in Users, Deliver(m, v) \/ DeliverFails(m, v)
      PROVE  \A e \in Made' : Owed(c, u, e)' /\ e <= upto'[m] => u \in list'[m] /\ from'[m] < e
  <2>1. /\ log' = log /\ notifiedAt' = notifiedAt /\ late' = late /\ pc[m] = "deliver"
        /\ card[m] = c /\ list'[m] = list[m] \ {v} /\ from'[m] = from[m] /\ upto'[m] = upto[m]
    BY <1>1, <1>7 DEF Deliver, DeliverFails, TypeOK, LoopsOK, tables
  <2>2. Waiting(c, u)
    BY <2>1 DEF Waiting
  <2> SUFFICES ASSUME NEW e, Owed(c, u, e)', e <= upto[m]
               PROVE  u \in list'[m] /\ from'[m] < e
    BY <2>1
  <2>3. Owed(c, u, e) /\ u \in list[m] /\ from[m] < e
    BY <1>3, <2>1, <2>2 DEF IInv, LoopTells, Owed, EditsOf
  <2>4. e \in Changes(m, upto[m])
    BY <2>1, <2>3 DEF Changes, Owed
  <2>5. u # v
    <3>1. CASE Deliver(m, v)
      BY <1>1, <2>4, <3>1 DEF Deliver, Owed, TypeOK, HistoryOK
    <3>2. CASE DeliverFails(m, v)
      BY <2>4, <3>2 DEF DeliverFails, Owed
    <3> QED BY <1>7, <3>1, <3>2
  <2> QED BY <2>1, <2>3, <2>5
<1>8. ASSUME NEW v \in Users, Deliver(m, v) \/ DeliverFails(m, v)
      PROVE  pc'[m] = "deliver"
  BY <1>8 DEF Deliver, DeliverFails
<1> QED BY <1>1, <1>4, <1>5, <1>6, <1>7, <1>8, JobStep

LEMMA Invariance == Spec => []IInv
<1>1. Init => IInv
  <2>1. Init => Made = {} /\ \A n \in Nodes : pc[n] = "peek"
    BY DEF Init, Made
  <2> QED BY <2>1, TypeInit DEF IInv, WatermarkIsTold, LoopTells
<1>2. IInv /\ [Next]_vars => IInv'
  BY TypeStep, WatermarkStep, LoopStep DEF IInv
<1> QED BY <1>1, <1>2, PTL DEF Spec

\* However nodes, subscriptions and failures interleave, notified_at never
\* runs ahead of what its subscriber was told (updateSubscribersNotifiedAt).
THEOREM WatermarkNeverAhead == Spec => []NotifiedAtIsTold
<1>1. IInv => NotifiedAtIsTold
  <2> SUFFICES ASSUME IInv, NEW e \in Made, NEW u \in Users, Concerns(e, u),
                      e <= notifiedAt[log[e].card][u]
               PROVE  e \in told[u] \/ <<u, e>> \in failed
    BY DEF NotifiedAtIsTold
  <2>1. log[e].card \in Cards
    BY LogEntry DEF IInv
  <2>2. notifiedAt[log[e].card][u] \in Nat /\ e \in Nat
    BY <2>1 DEF IInv, TypeOK, TablesOK, Concerns, Made
  <2>3. ~Owed(log[e].card, u, e)
    BY <2>1, <2>2 DEF IInv, WatermarkIsTold, Waiting, Concerns
  <2> QED BY <2>3 DEF Owed, EditsOf, Concerns
<1> QED BY <1>1, Invariance, PTL

----------------------------------------------------------------------------
\* What is owed is followed up: by the callback of the change, a hint or a
\* loop.
Attends(n, c, e) ==
  /\ card[n] = c
  /\ \/ pc[n] \in {"subs", "diff"}
     \/ pc[n] = "deliver" /\ e <= upto[n]

Attended(c, e) ==
  \/ callback[e] \in {"check", "upsert"}
  \/ hints[c] # None
  \/ \E n \in Nodes : Attends(n, c, e)

FollowedUp ==
  \A c \in Cards, u \in Users : Waiting(c, u) /\ c \notin faulty =>
    \A e \in Made : Owed(c, u, e) => Attended(c, e)

FailedIsFaulty == \A u \in Users, e \in Made : <<u, e>> \in failed => log[e].card \in faulty

LEMMA FailedStep == IInv /\ FailedIsFaulty /\ [Next]_vars => FailedIsFaulty'
<1> SUFFICES ASSUME IInv, FailedIsFaulty, [Next]_vars, NEW u \in Users, NEW e \in Made', <<u, e>> \in failed'
             PROVE  log'[e].card \in faulty'
  BY DEF FailedIsFaulty
<1>1. TypeOK /\ Len(log) \in Nat
  BY DEF IInv, TypeOK, TablesOK
<1>2. faulty \subseteq faulty'
  BY ZenonT(60) DEF Next, vars, ghosts, Edit, Subscribe, Unsubscribe, Tick, BlockChanged, CheckSubscribers,
         UpsertHint, SendHint, BlockChangedFails, Loop, Peek, Wake, Select, Delete,
         GetSubscribers, GenerateDiffs, Deliver, DeliverFails, Mark, PeekFails, Abort, Crash
<1>3. CASE <<u, e>> \in failed
  <2>1. e \in Made
    BY <1>1, <1>3 DEF TypeOK, HistoryOK
  <2>2. log'[e] = log[e]
    <3>1. CASE \E v \in Users, d \in Cards, p \in Parts, n \in Nodes : Edit(v, d, p, n)
      BY <1>1, <2>1, <3>1 DEF Edit, Made, TypeOK, TablesOK
    <3> QED BY <1>1, <3>1, LogStep
  <2> QED BY <1>2, <1>3, <2>1, <2>2 DEF FailedIsFaulty
<1>4. CASE <<u, e>> \notin failed
  <2>1. PICK n \in Nodes, v \in Users : DeliverFails(n, v)
    BY ZenonT(60), <1>4 DEF Next, vars, ghosts, Edit, Subscribe, Unsubscribe, Tick, BlockChanged,
         CheckSubscribers, UpsertHint, SendHint, BlockChangedFails, Loop, Peek, Wake, Select, Delete,
         GetSubscribers, GenerateDiffs, Deliver, Mark, PeekFails, Abort, Crash
  <2>2. e \in Changes(n, upto[n]) /\ log' = log /\ faulty' = faulty \cup {card[n]}
    BY <1>4, <2>1 DEF DeliverFails, tables
  <2> QED BY <2>2 DEF Changes, EditsOf
<1> QED BY <1>3, <1>4

\* Whatever the others do, a loop that attends to a change goes on, up to
\* its last step.
LEMMA AttendsStep ==
  ASSUME TypeOK, [Next]_vars, NEW m \in Nodes, NEW c \in Cards, c \notin faulty', NEW e,
         Attends(m, c, e)
  PROVE  Attends(m, c, e)' \/ GetSubscribers(m) \/ GenerateDiffs(m) \/ Mark(m)
<1>1. ASSUME NEW n \in Nodes, Peek(n) \/ Wake(n) \/ Select(n) \/ Delete(n) \/ PeekFails(n)
      PROVE  Attends(m, c, e)'
  <2>1. n # m
    BY <1>1 DEF Attends, Peek, Wake, Select, Delete, PeekFails
  <2> QED BY <1>1, <2>1 DEF Attends, Peek, Wake, Select, Delete, PeekFails, Return, SleepFor, Goto,
                            job, TypeOK, LoopsOK
<1>2. ASSUME NEW n \in Nodes, Abort(n) \/ Crash(n)
      PROVE  Attends(m, c, e)'
  <2>1. pc[n] \in Working => card[n] \in faulty'
    BY <1>2 DEF Abort, Crash
  <2>2. n # m
    BY <2>1 DEF Attends, Working
  <2> QED BY <1>2, <2>2 DEF Attends, Abort, Crash, Return, Goto, TypeOK, LoopsOK
<1>3. ASSUME NEW n \in Nodes, n # m, GetSubscribers(n) \/ GenerateDiffs(n) \/ Mark(n)
      PROVE  Attends(m, c, e)'
  BY <1>3 DEF Attends, GetSubscribers, GenerateDiffs, Mark, Return, Goto, TypeOK, LoopsOK
<1>4. CASE pc' = pc /\ card' = card /\ upto' = upto
  BY <1>4 DEF Attends
<1> QED
  BY <1>1, <1>2, <1>3, <1>4
     DEF Next, vars, loops, job, Edit, Subscribe, Unsubscribe, Tick, BlockChanged, CheckSubscribers,
         UpsertHint, SendHint, BlockChangedFails, Loop, Deliver, DeliverFails

\* A hint stays until a loop takes it.
LEMMA HintStep ==
  ASSUME TypeOK, [Next]_vars, NEW c \in Cards, hints[c] # None, NEW e
  PROVE  hints'[c] # None \/ \E n \in Nodes : Attends(n, c, e)'
<1>1. ASSUME NEW n \in Nodes, Delete(n), card[n] = c
      PROVE  Attends(n, c, e)'
  <2>1. hints[card[n]] # None
    BY <1>1
  <2>2. pc' = [pc EXCEPT ![n] = "subs"] /\ card' = card
    BY <1>1, <2>1 DEF Delete, Goto, job
  <2> QED BY <1>1, <2>2 DEF Attends, TypeOK, LoopsOK
<1>2. ASSUME NEW n \in Nodes, Delete(n), card[n] # c
      PROVE  hints'[c] # None
  BY <1>2 DEF Delete, TypeOK, TablesOK
<1>3. CASE Tick
  <2>1. hints[c] \in 0..Freq /\ hints'[c] = Less(hints[c])
    BY <1>3 DEF Tick, TypeOK, TablesOK
  <2> QED BY <2>1, SetsAssumption, NumbersAssumption DEF Less
<1>4. ASSUME NEW k \in Edits, UpsertHint(k)
      PROVE  hints'[c] # None
  BY <1>4, SetsAssumption, NumbersAssumption DEF UpsertHint, TypeOK, TablesOK
<1>5. CASE hints' = hints
  BY <1>5
<1> QED
  BY <1>1, <1>2, <1>3, <1>4, <1>5
     DEF Next, vars, tables, Edit, Subscribe, Unsubscribe, BlockChanged, CheckSubscribers,
         SendHint, BlockChangedFails, Loop, Peek, Wake, Select, GetSubscribers, GenerateDiffs,
         Deliver, DeliverFails, Mark, PeekFails, Abort, Crash

\* Only CheckSubscribers, finding nobody, and failures end a callback early.
LEMMA CallbackStep ==
  ASSUME TypeOK, [Next]_vars, NEW c \in Cards, c \notin faulty', Subscribers(c) # {},
         NEW e \in Made, log[e].card = c, callback[e] \in {"check", "upsert"}
  PROVE  callback'[e] \in {"check", "upsert"} \/ hints'[c] # None
<1>1. e \in Edits
  <2>1. Len(log) \in Nat /\ Len(log) <= MaxEdits
    BY DEF TypeOK, TablesOK
  <2> QED BY <2>1, NumbersAssumption DEF Made, Edits
<1>2. ASSUME NEW k \in Edits, CheckSubscribers(k)
      PROVE  callback'[e] \in {"check", "upsert"}
  BY <1>1, <1>2 DEF CheckSubscribers, Reach, TypeOK, EventsOK
<1>3. ASSUME NEW k \in Edits, UpsertHint(k)
      PROVE  callback'[e] \in {"check", "upsert"} \/ hints'[c] # None
  <2>1. CASE k = e
    <3>1. hints' = [hints EXCEPT ![c] = Freq]
      BY <1>3, <2>1 DEF UpsertHint
    <3> QED BY <3>1, SetsAssumption, NumbersAssumption DEF TypeOK, TablesOK
  <2>2. CASE k # e
    BY <1>1, <1>3, <2>2 DEF UpsertHint, Reach, TypeOK, EventsOK
  <2> QED BY <2>1, <2>2
<1>4. ASSUME NEW k \in Edits, SendHint(k)
      PROVE  callback'[e] \in {"check", "upsert"}
  BY <1>1, <1>4 DEF SendHint, At, Reach, TypeOK, EventsOK
<1>5. ASSUME NEW k \in Edits, BlockChangedFails(k)
      PROVE  callback'[e] \in {"check", "upsert"}
  <2>1. k # e
    BY <1>5 DEF BlockChangedFails
  <2> QED BY <1>1, <1>5, <2>1 DEF BlockChangedFails, Reach, TypeOK, EventsOK
<1>6. ASSUME NEW u \in Users, NEW d \in Cards, NEW p \in Parts, NEW n \in Nodes, Edit(u, d, p, n)
      PROVE  callback'[e] \in {"check", "upsert"}
  BY <1>1, <1>6 DEF Edit, TypeOK, EventsOK
<1>7. ASSUME NEW n \in Nodes, Crash(n)
      PROVE  callback'[e] \in {"check", "upsert"}
  <2>1. ~(home[e] = n /\ callback[e] # "done")
    BY <1>7 DEF Crash
  <2> QED BY <1>1, <1>7, <2>1 DEF Crash
<1>8. CASE callback' = callback
  BY <1>8
<1> QED
  BY <1>2, <1>3, <1>4, <1>5, <1>6, <1>7, <1>8
     DEF Next, vars, events, Subscribe, Unsubscribe, Tick, BlockChanged, Loop, Peek, Wake, Select,
         Delete, GetSubscribers, GenerateDiffs, Deliver, DeliverFails, Mark, PeekFails, Abort

LEMMA FollowStep == IInv /\ FollowedUp /\ [Next]_vars => FollowedUp'
<1> SUFFICES ASSUME IInv, FollowedUp, [Next]_vars, NEW c \in Cards, NEW u \in Users,
                    Waiting(c, u)', c \notin faulty', NEW e \in Made', Owed(c, u, e)'
             PROVE  Attended(c, e)'
  BY DEF FollowedUp
<1>1. TypeOK /\ Len(log) \in Nat
  BY DEF IInv, TypeOK, TablesOK
<1>2. e \in Nat /\ (Owed(c, u, e) \/ e = Len(log) + 1)
  BY <1>1, OwedStep
<1>3. CASE e = Len(log) + 1
  <2>1. PICK v \in Users, d \in Cards, p \in Parts, n \in Nodes : Edit(v, d, p, n)
    BY <1>1, <1>3, LogStep DEF Made
  <2>2. callback'[e] = "check"
    BY <1>1, <1>3, <2>1 DEF Edit, Edits, TypeOK, EventsOK
  <2> QED BY <2>2 DEF Attended
<1>4. CASE e # Len(log) + 1
  <2>1. Owed(c, u, e) /\ e \in Made /\ log[e].card = c
    BY <1>2, <1>4 DEF Owed, EditsOf
  <2>2. Waiting(c, u)
    <3>1. ~(log' = log /\ since'[c][u] = Len(log))
      BY <1>1, <1>2 DEF Owed, EditsOf, Made
    <3> QED BY <1>1, <3>1, WaitingStep
  <2>3. u \in Subscribers(c)
    BY <2>2 DEF Waiting, Subscribers
  <2>4. Attended(c, e)
    <3>1. faulty \subseteq faulty'
      BY ZenonT(60) DEF Next, vars, ghosts, Edit, Subscribe, Unsubscribe, Tick, BlockChanged, CheckSubscribers,
         UpsertHint, SendHint, BlockChangedFails, Loop, Peek, Wake, Select, Delete,
         GetSubscribers, GenerateDiffs, Deliver, DeliverFails, Mark, PeekFails, Abort, Crash
    <3> QED BY <2>1, <2>2, <3>1 DEF FollowedUp
  <2>5. CASE callback[e] \in {"check", "upsert"}
    BY <1>1, <2>1, <2>3, <2>5, CallbackStep DEF Attended
  <2>6. CASE hints[c] # None
    BY <1>1, <2>6, HintStep DEF Attended
  <2>7. ASSUME NEW m \in Nodes, Attends(m, c, e)
        PROVE  Attends(m, c, e)'
    <3>1. CASE GetSubscribers(m)
      <4>1. Subscribers(card[m]) # {}
        BY <2>3, <2>7 DEF Attends
      <4>2. pc' = [pc EXCEPT ![m] = "diff"] /\ card' = card
        BY <3>1, <4>1 DEF GetSubscribers, Goto
      <4> QED BY <1>1, <2>7, <4>2 DEF Attends, TypeOK, LoopsOK
    <3>2. CASE GenerateDiffs(m)
      <4> DEFINE last == Max(EditsOf(card[m]) \cup {0})
                 authors == {log[k].author : k \in Changes(m, last)}
      <4>1. card[m] = c /\ e \in EditsOf(c)
        BY <2>1, <2>7 DEF Attends, Owed
      <4>2. e <= last
        BY <1>1, <4>1, Latest
      <4>3. from[m] < e
        BY <2>1, <2>2, <3>2, <4>1 DEF GenerateDiffs, IInv, LoopTells
      <4>4. authors # {}
        BY <4>1, <4>2, <4>3 DEF Changes
      <4>5. /\ pc' = [pc EXCEPT ![m] = "deliver"] /\ card' = card
            /\ upto' = [upto EXCEPT ![m] = last]
        BY <3>2, <4>4 DEF GenerateDiffs, Goto
      <4> HIDE DEF last, authors
      <4> QED BY <1>1, <4>1, <4>2, <4>5 DEF Attends, TypeOK, LoopsOK
    <3>3. CASE Mark(m)
      <4>1. card[m] = c /\ pc[m] = "deliver" /\ e <= upto[m] /\ list[m] = {}
        BY <2>7, <3>3 DEF Attends, Mark
      <4>2. u \in list[m]
        BY <2>1, <2>2, <4>1 DEF IInv, LoopTells
      <4> QED BY <4>1, <4>2
    <3> QED BY <1>1, <2>7, <3>1, <3>2, <3>3, AttendsStep
  <2> QED BY <2>4, <2>5, <2>6, <2>7 DEF Attended
<1> QED BY <1>3, <1>4

\* As long as nothing fails about a card there is a hint, or a loop at work,
\* for every change of it that somebody has yet to be told of.
THEOREM Remembered == Spec => []NothingForgotten
<1>1. Init => FollowedUp /\ FailedIsFaulty
  BY DEF Init, FollowedUp, FailedIsFaulty, Made
<1>2. IInv /\ FollowedUp /\ FailedIsFaulty => NothingForgotten
  <2> SUFFICES ASSUME IInv, FollowedUp, FailedIsFaulty, NEW e \in Made, NEW u \in Users,
                      Concerns(e, u), callback[e] = "done", log[e].card \notin faulty,
                      e \notin told[u], hints[log[e].card] = None
               PROVE  \E n \in WorkOn(log[e].card) :
                        \/ pc[n] = "subs"
                        \/ pc[n] = "diff" /\ u \in list[n] /\ from[n] < e
                        \/ pc[n] = "deliver" /\ u \in list[n] /\ e \in Changes(n, upto[n])
    BY DEF NothingForgotten
  <2> DEFINE c == log[e].card
  <2>1. c \in Cards
    BY LogEntry DEF IInv
  <2>2. Waiting(c, u) /\ Owed(c, u, e)
    BY DEF Concerns, Waiting, Owed, EditsOf, FailedIsFaulty
  <2>3. Attended(c, e)
    BY <2>1, <2>2 DEF FollowedUp
  <2>4. PICK n \in Nodes : Attends(n, c, e)
    BY <2>3 DEF Attended
  <2>5. n \in WorkOn(c)
    BY <2>4 DEF Attends, WorkOn, Working
  <2>6. pc[n] = "diff" => u \in list[n] /\ from[n] < e
    BY <2>2, <2>4 DEF Attends, IInv, LoopTells
  <2>7. pc[n] = "deliver" => u \in list[n] /\ e \in Changes(n, upto[n])
    BY <2>2, <2>4 DEF Attends, IInv, LoopTells, Changes, EditsOf
  <2> QED BY <2>4, <2>5, <2>6, <2>7 DEF Attends
<1> QED BY <1>1, <1>2, Invariance, FollowStep, FailedStep, PTL DEF Spec

----------------------------------------------------------------------------
(***************************************************************************)
(* Nobody is told twice: of a card on which nothing has gone wrong.         *)
(***************************************************************************)
Quiet == Cards \ (crowded \cup faulty \cup rewound)

ToldOf(c, u) == told[u] \cap EditsOf(c)

OneWorker == \A c \in Quiet : \A m, n \in WorkOn(c) : m = n

\* What somebody was told of a card is behind the watermarks of all its
\* subscribers, or is so as soon as the loop at work has marked them.
ToldIsMarked ==
  \A c \in Quiet : \A u \in Users, v \in Subscribers(c) : \A e \in ToldOf(c, u) :
    \/ e <= notifiedAt[c][v]
    \/ \E n \in WorkOn(c) : pc[n] = "deliver" /\ e <= upto[n]

\* Who is about to be told.
ToTell(n, u) == pc[n] = "diff" \/ (pc[n] = "deliver" /\ u \in list[n])

\* What a loop is about to tell is news to those it tells.
LoopTellsNews ==
  \A n \in Nodes, u \in Users :
    card[n] \in Quiet /\ ToTell(n, u) => \A e \in ToldOf(card[n], u) : e <= from[n]

OnceIInv == TypeOK /\ OneWorker /\ ToldIsMarked /\ LoopTellsNews /\ ToldOnce

\* What went wrong with a card is not forgotten.
LEMMA QuietStep == [Next]_vars => Quiet' \subseteq Quiet
<1> SUFFICES ASSUME [Next]_vars
             PROVE  crowded \subseteq crowded' /\ faulty \subseteq faulty' /\ rewound \subseteq rewound'
  BY DEF Quiet
<1> QED
  BY ZenonT(60) DEF Next, vars, ghosts, Edit, Subscribe, Unsubscribe, Tick, BlockChanged, CheckSubscribers,
         UpsertHint, SendHint, BlockChangedFails, Loop, Peek, Wake, Select, Delete, GetSubscribers,
         GenerateDiffs, Deliver, DeliverFails, Mark, Marked, PeekFails, Abort, Crash

\* A loop starts to work when it takes a hint that is there.
LEMMA WorkStep ==
  ASSUME TypeOK, [Next]_vars, NEW m \in Nodes, NEW c \in Cards, m \in WorkOn(c)'
  PROVE  m \in WorkOn(c) \/ (Delete(m) /\ card[m] = c /\ hints[c] # None)
<1>1. pc'[m] \in Working /\ card'[m] = c
  BY DEF WorkOn
<1>2. ASSUME NEW n \in Nodes, n = m, Peek(n) \/ Wake(n) \/ Select(n) \/ Mark(n)
                              \/ PeekFails(n) \/ Abort(n) \/ Crash(n)
      PROVE  FALSE
  <2>1. pc' \in {[pc EXCEPT ![n] = s] : s \in {"peek", "sleep", "select", "delete"}}
    BY <1>2 DEF Peek, Wake, Select, Mark, PeekFails, Abort, Crash, Return, SleepFor, Goto
  <2> QED BY <1>1, <1>2, <2>1 DEF TypeOK, LoopsOK, Working
<1>3. ASSUME NEW n \in Nodes, n # m, Peek(n) \/ Wake(n) \/ Select(n) \/ Delete(n) \/ Mark(n)
                              \/ PeekFails(n) \/ Abort(n) \/ Crash(n)
                              \/ GetSubscribers(n) \/ GenerateDiffs(n)
      PROVE  pc'[m] = pc[m] /\ card'[m] = card[m]
  BY <1>3 DEF Peek, Wake, Select, Delete, Mark, PeekFails, Abort, Crash, GetSubscribers,
              GenerateDiffs, Return, SleepFor, Goto, job, TypeOK, LoopsOK
<1>4. ASSUME Delete(m)
      PROVE  card[m] = c /\ hints[c] # None
  <2>1. CASE hints[card[m]] = None
    <3>1. pc'[m] = "peek"
      BY <1>4, <2>1 DEF Delete, Return, Goto, TypeOK, LoopsOK
    <3> QED BY <1>1, <3>1 DEF Working
  <2>2. CASE hints[card[m]] # None
    BY <1>1, <1>4, <2>2 DEF Delete, job
  <2> QED BY <2>1, <2>2
<1>5. ASSUME GetSubscribers(m) \/ GenerateDiffs(m)
      PROVE  m \in WorkOn(c)
  <2>1. CASE GetSubscribers(m)
    <3>1. Subscribers(card[m]) = {} => pc'[m] = "peek"
      BY <2>1 DEF GetSubscribers, Return, Goto, TypeOK, LoopsOK
    <3> QED BY <1>1, <2>1, <3>1 DEF GetSubscribers, WorkOn, Working
  <2>2. CASE GenerateDiffs(m)
    BY <1>1, <2>2 DEF GenerateDiffs, WorkOn, Working
  <2> QED BY <1>5, <2>1, <2>2
<1>6. pc'[m] = pc[m] /\ card'[m] = card[m] => m \in WorkOn(c)
  BY <1>1 DEF WorkOn
<1> QED
  BY <1>2, <1>3, <1>4, <1>5, <1>6
     DEF Next, vars, loops, job, Edit, Subscribe, Unsubscribe, Tick, BlockChanged, CheckSubscribers,
         UpsertHint, SendHint, BlockChangedFails, Loop, Deliver, DeliverFails

LEMMA OneWorkerStep == OnceIInv /\ [Next]_vars => OneWorker'
<1> SUFFICES ASSUME OnceIInv, [Next]_vars, NEW c \in Quiet', NEW m \in WorkOn(c)', NEW n \in WorkOn(c)'
             PROVE  m = n
  BY DEF OneWorker
<1>1. c \in Quiet /\ c \in Cards /\ m \in Nodes /\ n \in Nodes /\ TypeOK
  BY QuietStep DEF Quiet, WorkOn, OnceIInv
<1>2. ASSUME NEW i \in Nodes, NEW j \in WorkOn(c), Delete(i), card[i] = c, hints[c] # None
      PROVE  FALSE
  <2>1. c \in crowded'
    BY <1>2 DEF Delete
  <2> QED BY <2>1 DEF Quiet
<1>3. ASSUME Delete(m), Delete(n)
      PROVE  m = n
  <2>1. m # n => pc'[n] = pc[n]
    BY <1>1, <1>3 DEF Delete, Return, Goto, TypeOK, LoopsOK
  <2>2. pc[n] = "delete" /\ pc'[n] \in Working
    BY <1>3 DEF Delete, WorkOn
  <2> QED BY <2>1, <2>2 DEF Working
<1>4. m \in WorkOn(c) /\ n \in WorkOn(c) => m = n
  BY <1>1 DEF OnceIInv, OneWorker
<1> QED BY <1>1, <1>2, <1>3, <1>4, WorkStep

\* Only a delivery tells.
LEMMA ToldStep ==
  ASSUME TypeOK, [Next]_vars, NEW c \in Cards, NEW u \in Users, NEW e \in ToldOf(c, u)'
  PROVE  /\ e \in Made
         /\ \/ e \in ToldOf(c, u)
            \/ \E n \in Nodes : Deliver(n, u) /\ card[n] = c /\ e \in Changes(n, upto[n])
<1>1. told[u] \subseteq Made /\ e \in told'[u] /\ log'[e].card = c
  BY DEF TypeOK, HistoryOK, ToldOf, EditsOf
<1>2. ASSUME NEW v \in Users, NEW d \in Cards, NEW p \in Parts, NEW n \in Nodes, Edit(v, d, p, n)
      PROVE  e \in ToldOf(c, u)
  <2>1. told' = told /\ log' = Append(log, [card |-> d, part |-> p, author |-> v])
    BY <1>2 DEF Edit, ghosts
  <2>2. e \in Made /\ log'[e] = log[e]
    BY <1>1, <2>1 DEF Made, TypeOK, TablesOK
  <2> QED BY <1>1, <2>1, <2>2 DEF ToldOf, EditsOf
<1>3. ASSUME NEW n \in Nodes, NEW v \in Users, Deliver(n, v)
      PROVE  \/ e \in ToldOf(c, u)
             \/ Deliver(n, u) /\ card[n] = c /\ e \in Changes(n, upto[n])
  <2>1. log' = log /\ told' = [told EXCEPT ![v] = @ \cup Changes(n, upto[n])]
    BY <1>3 DEF Deliver, tables
  <2>2. CASE e \in told[u]
    BY <1>1, <2>1, <2>2 DEF ToldOf, EditsOf
  <2>3. CASE e \notin told[u]
    <3>1. u = v /\ e \in Changes(n, upto[n])
      BY <1>1, <2>1, <2>3 DEF TypeOK, HistoryOK
    <3> QED BY <1>1, <1>3, <2>1, <3>1 DEF Changes, EditsOf
  <2> QED BY <2>2, <2>3
<1>4. CASE told' = told /\ log' = log
  BY <1>1, <1>4 DEF ToldOf, EditsOf
<1>5. \/ e \in ToldOf(c, u)
      \/ \E n \in Nodes : Deliver(n, u) /\ card[n] = c /\ e \in Changes(n, upto[n])
  BY <1>2, <1>3, <1>4
     DEF Next, vars, tables, ghosts, Subscribe, Unsubscribe, Tick, BlockChanged, CheckSubscribers,
         UpsertHint, SendHint, BlockChangedFails, Loop, Peek, Wake, Select, Delete, GetSubscribers,
         GenerateDiffs, DeliverFails, Mark, PeekFails, Abort, Crash
<1> QED BY <1>5 DEF ToldOf, EditsOf, Changes

\* A loop that delivers goes on until it marks the watermarks.
LEMMA DeliveringStep ==
  ASSUME TypeOK, [Next]_vars, NEW m \in Nodes, NEW c \in Cards, c \notin faulty',
         card[m] = c, pc[m] = "deliver"
  PROVE  Mark(m) \/ (m \in WorkOn(c)' /\ pc'[m] = "deliver" /\ upto'[m] = upto[m])
<1>1. ASSUME NEW n \in Nodes, n = m, Abort(n) \/ Crash(n)
      PROVE  FALSE
  BY <1>1 DEF Abort, Crash, Working
<1>2. ASSUME NEW n \in Nodes, n # m, Peek(n) \/ Wake(n) \/ Select(n) \/ Delete(n) \/ PeekFails(n)
                              \/ GetSubscribers(n) \/ GenerateDiffs(n) \/ Mark(n)
                              \/ Abort(n) \/ Crash(n)
      PROVE  pc'[m] = pc[m] /\ card'[m] = card[m] /\ upto'[m] = upto[m]
  BY <1>2 DEF Peek, Wake, Select, Delete, PeekFails, GetSubscribers, GenerateDiffs, Mark,
              Abort, Crash, Return, SleepFor, Goto, job, TypeOK, LoopsOK
<1>3. ~(Peek(m) \/ Wake(m) \/ Select(m) \/ Delete(m) \/ PeekFails(m)
        \/ GetSubscribers(m) \/ GenerateDiffs(m))
  BY DEF Peek, Wake, Select, Delete, PeekFails, GetSubscribers, GenerateDiffs
<1>4. pc'[m] = pc[m] /\ card'[m] = card[m] /\ upto'[m] = upto[m] =>
        m \in WorkOn(c)' /\ pc'[m] = "deliver" /\ upto'[m] = upto[m]
  BY DEF WorkOn, Working
<1> QED
  BY <1>1, <1>2, <1>3, <1>4
     DEF Next, vars, loops, job, Edit, Subscribe, Unsubscribe, Tick, BlockChanged, CheckSubscribers,
         UpsertHint, SendHint, BlockChangedFails, Loop, Deliver, DeliverFails

LEMMA MarkedStep == OnceIInv /\ [Next]_vars => ToldIsMarked'
<1> SUFFICES ASSUME OnceIInv, [Next]_vars, NEW c \in Quiet', NEW u \in Users,
                    NEW v \in Subscribers(c)', NEW e \in ToldOf(c, u)'
             PROVE  \/ e <= notifiedAt'[c][v]
                    \/ \E n \in WorkOn(c)' : pc'[n] = "deliver" /\ e <= upto'[n]
  BY DEF ToldIsMarked
<1> DEFINE Goal == \/ e <= notifiedAt'[c][v]
                   \/ \E n \in WorkOn(c)' : pc'[n] = "deliver" /\ e <= upto'[n]
           Delivered(n) == Deliver(n, u) /\ card[n] = c /\ e \in Changes(n, upto[n])
<1>1. c \in Quiet /\ c \in Cards /\ c \notin faulty' /\ c \notin rewound' /\ TypeOK
  BY QuietStep DEF Quiet, OnceIInv
<1>2. /\ e \in Made /\ e \in Nat /\ e <= Len(log) /\ Len(log) \in Nat
      /\ e \in ToldOf(c, u) \/ \E n \in Nodes : Delivered(n)
  BY <1>1, ToldStep DEF Made, TypeOK, TablesOK
<1>3. v \in Users /\ notifiedAt'[c][v] # None
  BY DEF Subscribers
<1>4. e \in ToldOf(c, u) /\ v \in Subscribers(c) =>
        \/ e <= notifiedAt[c][v]
        \/ \E n \in WorkOn(c) : pc[n] = "deliver" /\ e <= upto[n]
  BY <1>1 DEF OnceIInv, ToldIsMarked
<1>5. ASSUME NEW n \in Nodes, Delivered(n)
      PROVE  Goal
  <2>1. pc' = pc /\ card' = card /\ upto' = upto /\ pc[n] = "deliver" /\ e <= upto[n]
    BY <1>5 DEF Deliver, Changes
  <2>2. n \in WorkOn(c)'
    BY <1>5, <2>1 DEF WorkOn, Working
  <2> QED BY <2>1, <2>2
<1>6. ASSUME e \in ToldOf(c, u), NEW i \in Nodes, Mark(i), card[i] = c
      PROVE  Goal
  <2>1. i \in WorkOn(c) /\ upto[i] \in 0..Len(log)
    BY <1>1, <1>6 DEF Mark, WorkOn, Working, TypeOK, LoopsOK
  <2>2. notifiedAt'[c] = [w \in Users |-> IF notifiedAt[c][w] = None THEN None ELSE upto[i]]
    BY <1>1, <1>6 DEF Mark, Marked, TypeOK, TablesOK
  <2>3. v \in Subscribers(c) /\ notifiedAt'[c][v] = upto[i]
    BY <1>3, <2>2 DEF Subscribers
  <2>4. notifiedAt[c][v] \in 0..Len(log)
    BY <1>1, <1>3, <2>3 DEF Subscribers, TypeOK, TablesOK
  <2>5. ~(upto[i] < notifiedAt[c][v])
    BY <1>1, <1>6, <2>3 DEF Mark, Marked
  <2>6. \A n \in WorkOn(c) : n = i
    BY <1>1, <2>1 DEF OnceIInv, OneWorker
  <2> QED BY <1>2, <1>4, <1>6, <2>1, <2>3, <2>4, <2>5, <2>6
<1>7. ASSUME e \in ToldOf(c, u), NEW n \in WorkOn(c), pc[n] = "deliver", e <= upto[n],
             \A i \in Nodes : card[i] = c => ~Mark(i)
      PROVE  Goal
  <2>1. n \in Nodes /\ card[n] = c
    BY DEF WorkOn
  <2> QED BY <1>1, <1>7, <2>1, DeliveringStep
<1>8. ASSUME NEW w \in Users, NEW d \in Cards, Subscribe(w, d)
      PROVE  \/ v \in Subscribers(c) /\ notifiedAt'[c][v] = notifiedAt[c][v]
             \/ e <= notifiedAt'[c][v]
  <2>1. CASE d = c /\ w = v
    BY <1>1, <1>2, <1>3, <1>8, <2>1 DEF Subscribe, TypeOK, TablesOK
  <2>2. CASE ~(d = c /\ w = v)
    BY <1>1, <1>3, <1>8, <2>2 DEF Subscribe, Subscribers, TypeOK, TablesOK
  <2> QED BY <2>1, <2>2
<1>9. ASSUME NEW w \in Users, NEW d \in Cards, Unsubscribe(w, d)
      PROVE  v \in Subscribers(c) /\ notifiedAt'[c][v] = notifiedAt[c][v]
  BY <1>1, <1>3, <1>9 DEF Unsubscribe, Subscribers, TypeOK, TablesOK
<1>10. ASSUME NEW i \in Nodes, Mark(i), card[i] # c
       PROVE  v \in Subscribers(c) /\ notifiedAt'[c][v] = notifiedAt[c][v]
  BY <1>1, <1>3, <1>10 DEF Mark, Marked, Subscribers, TypeOK, TablesOK
<1>11. notifiedAt' = notifiedAt => v \in Subscribers(c) /\ notifiedAt'[c][v] = notifiedAt[c][v]
  BY DEF Subscribers
<1>12. \/ v \in Subscribers(c) /\ notifiedAt'[c][v] = notifiedAt[c][v]
       \/ e <= notifiedAt'[c][v]
       \/ \E i \in Nodes : Mark(i) /\ card[i] = c
  BY <1>8, <1>9, <1>10, <1>11
     DEF Next, vars, tables, Edit, Tick, BlockChanged, CheckSubscribers, UpsertHint, SendHint,
         BlockChangedFails, Loop, Peek, Wake, Select, Delete, GetSubscribers, GenerateDiffs,
         Deliver, DeliverFails, PeekFails, Abort, Crash
<1> HIDE DEF Delivered, Goal
<1>13. e \in ToldOf(c, u) /\ v \in Subscribers(c) /\ notifiedAt'[c][v] = notifiedAt[c][v]
         /\ (\A i \in Nodes : card[i] = c => ~Mark(i)) => Goal
  BY <1>4, <1>7 DEF Goal
<1>14. Goal
  BY <1>2, <1>5, <1>6, <1>12, <1>13 DEF Goal
<1> QED BY <1>14 DEF Goal

LEMMA NewsStep == OnceIInv /\ [Next]_vars => LoopTellsNews'
<1> SUFFICES ASSUME OnceIInv, [Next]_vars, NEW m \in Nodes, NEW u \in Users, NEW c \in Quiet',
                    c = card'[m], ToTell(m, u)', NEW e \in ToldOf(c, u)'
             PROVE  e <= from'[m]
  BY DEF LoopTellsNews
<1> DEFINE Delivered(n) == Deliver(n, u) /\ card[n] = c /\ e \in Changes(n, upto[n])
<1>1. c \in Quiet /\ c \in Cards /\ c \notin faulty' /\ TypeOK
  BY QuietStep DEF Quiet, OnceIInv
<1>2. /\ e \in Made /\ e \in Nat /\ Len(log) \in Nat
      /\ e \in ToldOf(c, u) \/ \E n \in Nodes : Delivered(n)
  BY <1>1, ToldStep DEF Made, TypeOK, TablesOK
<1>3. card[m] = c /\ ToTell(m, u) /\ e \in ToldOf(c, u) => e <= from[m]
  BY <1>1 DEF OnceIInv, LoopTellsNews
<1>4. \A n \in WorkOn(c), i \in WorkOn(c) : n = i
  BY <1>1 DEF OnceIInv, OneWorker
<1>5. CASE Job(m)' = Job(m)
  <2>1. pc'[m] = pc[m] /\ card[m] = c /\ list'[m] = list[m] /\ from'[m] = from[m]
    BY <1>5 DEF Job
  <2>2. ToTell(m, u) /\ m \in WorkOn(c)
    BY <2>1 DEF ToTell, WorkOn, Working
  <2>3. ASSUME NEW n \in Nodes, Delivered(n)
        PROVE  FALSE
    <3>1. n = m
      BY <1>4, <2>2, <2>3 DEF Deliver, WorkOn, Working
    <3>2. pc[m] = "deliver" /\ u \in list[m] /\ list'[m] = list[m] \ {u}
      BY <1>1, <2>3, <3>1 DEF Deliver, TypeOK, LoopsOK
    <3> QED BY <2>1, <3>2
  <2> QED BY <1>2, <1>3, <2>1, <2>2, <2>3
<1>6. CASE GetSubscribers(m)
  <2>1. Subscribers(card[m]) # {} /\ card' = card
    <3>1. Subscribers(card[m]) = {} => pc'[m] = "peek"
      BY <1>1, <1>6 DEF GetSubscribers, Return, Goto, TypeOK, LoopsOK
    <3> QED BY <1>6, <3>1 DEF GetSubscribers, ToTell
  <2>2. card[m] = c /\ m \in WorkOn(c) /\ pc[m] = "subs" /\ told' = told /\ log' = log
    BY <1>6, <2>1 DEF GetSubscribers, WorkOn, Working, tables, ghosts
  <2>3. from'[m] = Min({notifiedAt[c][w] : w \in Subscribers(c)})
    BY <1>1, <1>6, <2>1, <2>2 DEF GetSubscribers, TypeOK, LoopsOK
  <2>4. PICK w \in Subscribers(c) : from'[m] = notifiedAt[c][w]
    BY <1>1, <2>1, <2>2, <2>3, Oldest
  <2>5. e \in ToldOf(c, u)
    BY <2>2 DEF ToldOf, EditsOf, Made
  <2>6. ~\E n \in WorkOn(c) : pc[n] = "deliver" /\ e <= upto[n]
    BY <1>4, <2>2
  <2> QED BY <1>1, <2>4, <2>5, <2>6 DEF OnceIInv, ToldIsMarked
<1>7. CASE GenerateDiffs(m)
  <2>1. pc[m] = "diff" /\ card' = card /\ from' = from /\ told' = told /\ log' = log
    BY <1>7 DEF GenerateDiffs, tables, ghosts
  <2>2. e \in ToldOf(c, u)
    BY <2>1 DEF ToldOf, EditsOf, Made
  <2> QED BY <1>3, <2>1, <2>2 DEF ToTell
<1>8. ASSUME NEW v \in Users, Deliver(m, v)
      PROVE  e <= from'[m]
  <2>1. /\ pc[m] = "deliver" /\ pc' = pc /\ card' = card /\ from' = from /\ log' = log
        /\ list'[m] = list[m] \ {v} /\ told'[u] = IF u = v THEN told'[u] ELSE told[u]
    BY <1>1, <1>8 DEF Deliver, tables, TypeOK, LoopsOK, HistoryOK
  <2>2. u \in list[m] /\ u # v
    BY <2>1 DEF ToTell
  <2>3. e \in ToldOf(c, u)
    BY <2>1, <2>2 DEF ToldOf, EditsOf, Made
  <2> QED BY <1>3, <2>1, <2>2, <2>3 DEF ToTell
<1>9. ASSUME NEW v \in Users, DeliverFails(m, v)
      PROVE  FALSE
  BY <1>1, <1>9 DEF DeliverFails
<1>10. pc'[m] \in {"diff", "deliver"}
  BY DEF ToTell
<1> QED BY <1>1, <1>5, <1>6, <1>7, <1>8, <1>9, <1>10, JobStep

LEMMA OnceStep == OnceIInv /\ [Next]_vars => ToldOnce'
<1> SUFFICES ASSUME OnceIInv, [Next]_vars, NEW p \in again', log'[p[2]].card \in Quiet'
             PROVE  FALSE
  <2> SUFFICES ASSUME OnceIInv, [Next]_vars, NEW p \in again'
               PROVE  log'[p[2]].card \in (crowded \cup faulty \cup rewound)'
    BY DEF ToldOnce
  <2>1. again' \subseteq Users \X Made'
    BY TypeStep DEF OnceIInv, TypeOK, HistoryOK
  <2>2. p[2] \in Made'
    BY <2>1
  <2>3. log'[p[2]].card \in Cards
    <3> DEFINE Entry == [card : Cards, part : Parts, author : Users]
    <3>1. log' \in Seq(Entry)
      BY TypeStep DEF OnceIInv, TypeOK, TablesOK
    <3> HIDE DEF Entry
    <3>2. log'[p[2]] \in Entry
      BY <2>2, <3>1 DEF Made
    <3> QED BY <3>2 DEF Entry
  <2> QED BY <2>3 DEF Quiet
<1> DEFINE c == log'[p[2]].card
<1>1. TypeOK /\ Quiet' \subseteq Quiet /\ again \subseteq Users \X Made
  BY QuietStep DEF OnceIInv, TypeOK, HistoryOK
<1>2. ASSUME p \in again
      PROVE  FALSE
  <2>1. p[2] \in Made
    BY <1>1, <1>2
  <2>2. log'[p[2]] = log[p[2]]
    <3>1. ASSUME NEW u \in Users, NEW d \in Cards, NEW q \in Parts, NEW n \in Nodes, Edit(u, d, q, n)
          PROVE  log'[p[2]] = log[p[2]]
      BY <1>1, <2>1, <3>1 DEF Edit, Made, TypeOK, TablesOK
    <3> QED BY <1>1, <3>1, LogStep
  <2> QED BY <1>1, <1>2, <2>2 DEF OnceIInv, ToldOnce, Quiet
<1>3. ASSUME NEW n \in Nodes, NEW u \in Users, Deliver(n, u), p \notin again
      PROVE  FALSE
  <2>1. /\ pc[n] = "deliver" /\ u \in list[n] /\ log' = log
        /\ p \in {u} \X (told[u] \cap Changes(n, upto[n]))
    BY <1>3 DEF Deliver, tables
  <2>2. p[2] \in told[u] /\ p[2] \in Changes(n, upto[n])
    BY <2>1
  <2>3. c = card[n] /\ from[n] < p[2] /\ p[2] \in ToldOf(card[n], u)
    BY <2>1, <2>2 DEF Changes, ToldOf, EditsOf
  <2>4. p[2] <= from[n]
    BY <1>1, <2>1, <2>3 DEF OnceIInv, LoopTellsNews, ToTell
  <2>5. p[2] \in Nat /\ from[n] \in Nat
    BY <1>1, <2>2 DEF Changes, EditsOf, Made, TypeOK, TablesOK, LoopsOK
  <2> HIDE DEF c
  <2> QED BY <2>3, <2>4, <2>5
<1>4. again' = again \/ \E n \in Nodes, u \in Users : Deliver(n, u)
  BY DEF Next, vars, ghosts, Edit, Subscribe, Unsubscribe, Tick, BlockChanged, CheckSubscribers,
         UpsertHint, SendHint, BlockChangedFails, Loop, Peek, Wake, Select, Delete, GetSubscribers,
         GenerateDiffs, DeliverFails, Mark, PeekFails, Abort, Crash
<1> QED BY <1>2, <1>3, <1>4

\* Nobody is told twice of a change, unless two nodes worked on the card at a
\* time, something failed, or a hint without news has set notified_at back
\* (notifySubscribers).
THEOREM NobodyToldTwice == Spec => []ToldOnce
<1>1. Init => OnceIInv
  <2> SUFFICES ASSUME Init PROVE OnceIInv
    OBVIOUS
  <2>1. \A c \in Cards, u \in Users : ToldOf(c, u) = {}
    BY DEF Init, ToldOf
  <2>2. \A c \in Cards : WorkOn(c) = {}
    BY DEF Init, WorkOn, Working
  <2>3. again = {} /\ Quiet \subseteq Cards
    BY DEF Init, Quiet
  <2> QED BY <2>1, <2>2, <2>3, TypeInit DEF OnceIInv, OneWorker, ToldIsMarked, LoopTellsNews, ToldOnce
<1>2. OnceIInv /\ [Next]_vars => OnceIInv'
  BY TypeStep, OneWorkerStep, MarkedStep, NewsStep, OnceStep DEF OnceIInv
<1>3. OnceIInv => ToldOnce
  BY DEF OnceIInv
<1> QED BY <1>1, <1>2, <1>3, PTL DEF Spec

\* Types are kept, and no watermark runs ahead of what its subscriber was told.
THEOREM NotifierSafe == Spec => []NotifierInv
<1>1. TypeOK /\ NotifiedAtIsTold => NotifierInv
  BY DEF NotifierInv
<1> QED BY <1>1, TypeCorrect, WatermarkNeverAhead, PTL
=============================================================================
