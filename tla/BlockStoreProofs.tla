-------------------------- MODULE BlockStoreProofs --------------------------
(* Proofs about BlockStore, for every set of blocks, parents and requests. *)
EXTENDS BlockStore, FiniteSetTheorems, WellFoundedInduction, TLAPS

(***************************************************************************)
(* A set of times that is not empty has a last one: of the intervals from   *)
(* its members to the bound there is a smallest.                            *)
(***************************************************************************)
LEMMA LastTime ==
  ASSUME NEW n \in Nat, NEW A \in SUBSET (0..n), A # {}
  PROVE  \E m \in A : \A a \in A : a <= m
<1> DEFINE T == {a..n : a \in A}
           R == StrictSubsetOrdering(0..n)
<1>1. IsWellFoundedOn(R, FiniteSubsetsOf(0..n))
  BY FS_StrictSubsetOrderingWellFounded
<1>2. \A a \in A : IsFiniteSet(a..n) /\ a..n \subseteq 0..n
  BY FS_Interval
<1>3. T \subseteq FiniteSubsetsOf(0..n)
  BY <1>2 DEF FiniteSubsetsOf
<1>4. T # {}
  OBVIOUS
<1> HIDE DEF T, R
<1>5. PICK x \in T : \A y \in T : ~ (<<y, x>> \in R)
  BY <1>1, <1>3, <1>4, WFMin
<1>6. PICK m \in A : x = m..n
  BY DEF T
<1>7. ASSUME NEW a \in A, a > m
      PROVE  FALSE
  <2>1. a..n \in T
    BY DEF T
  <2>2. a..n \subseteq m..n /\ m \in m..n /\ m \notin a..n
    BY <1>7
  <2>3. a..n \in SUBSET (0..n) /\ x \in SUBSET (0..n)
    BY <1>6
  <2>4. <<a..n, x>> \in R
    BY <2>2, <2>3, <1>6 DEF R, StrictSubsetOrdering
  <2> QED BY <2>1, <2>4, <1>5
<1> QED BY <1>7

\* The newest of some versions is one of them.
LEMMA NewestIsOne ==
  ASSUME NEW H \in SUBSET Entry, H # {}
  PROVE  /\ Newest(H) \in H
         /\ \A k \in H : k.at <= Newest(H).at
<1> DEFINE n == Cardinality(Requests)
           A == {h.at : h \in H}
<1>1. n \in Nat
  BY RequestsAssumption, FS_CardinalityType
<1>2. \A h \in H : h.at \in 0..n
  BY DEF Entry
<1>3. A \in SUBSET (0..n) /\ A # {}
  BY <1>2
<1> HIDE DEF n
<1>4. PICK m \in A : \A a \in A : a <= m
  <2> HIDE DEF A
  <2> QED BY <1>1, <1>3, LastTime
<1>5. \E h \in H : \A k \in H : k.at <= h.at
  BY <1>4
<1> QED BY <1>5 DEF Newest

----------------------------------------------------------------------------
\* What an undeletion was accepted for stays in the history.
KnownHistory ==
  \A r \in Requests :
    pc[r] \notin {"idle", "done"} /\ call[r].op = "undelete" =>
      HistoryOf(call[r].id) # {}

IInv == TypeOK /\ KnownHistory

LEMMA CallFields ==
  ASSUME NEW c \in Call
  PROVE  /\ c.op \in {"insert", "patch", "delete", "undelete"}
         /\ c.id \in Ids /\ c.parent \in Ids \cup {None}
BY DEF Call

\* There is a time for every request that began.
LEMMA ClockBound ==
  ASSUME TypeOK
  PROVE  /\ IsFiniteSet(Begun) /\ Cardinality(Begun) \in Nat
         /\ Cardinality(Begun) <= Cardinality(Requests)
         /\ Cardinality(Requests) \in Nat
         /\ clock \in Nat /\ clock <= Cardinality(Begun)
<1>1. Begun \in SUBSET Requests
  BY DEF Begun
<1>2. /\ IsFiniteSet(Begun) /\ Cardinality(Begun) \in Nat
      /\ Cardinality(Begun) <= Cardinality(Requests)
      /\ Cardinality(Requests) \in Nat
  BY <1>1, RequestsAssumption, FS_Subset, FS_CardinalityType
<1> QED BY <1>2 DEF TypeOK

LEMMA EntryType ==
  ASSUME TypeOK, NEW r \in Requests, NEW x \in Ids, NEW row \in Row, NEW g \in BOOLEAN
  PROVE  EntryOf(r, x, row, g) \in Entry
<1>1. stamp[r] \in 0..clock
  BY DEF TypeOK
<1>2. stamp[r] \in 0..Cardinality(Requests)
  BY <1>1, ClockBound
<1> QED BY <1>2 DEF EntryOf, Entry

\* A step that begins no transaction: clock and stamp keep their type.
LEMMA SameClock ==
  ASSUME TypeOK, clock' = clock, stamp' = stamp, Begun \subseteq Begun'
  PROVE  clock' \in 0..Cardinality(Begun') /\ stamp' \in [Requests -> 0..clock']
<1>1. Begun' \in SUBSET Requests
  BY DEF Begun
<1>2. IsFiniteSet(Begun') /\ Cardinality(Begun') \in Nat
  BY <1>1, RequestsAssumption, FS_Subset, FS_CardinalityType
<1>3. Cardinality(Begun) <= Cardinality(Begun')
  BY <1>2, FS_Subset
<1>4. clock' \in 0..Cardinality(Begun')
  BY <1>2, <1>3, ClockBound
<1> QED BY <1>4 DEF TypeOK

LEMMA NextClock ==
  ASSUME TypeOK, NEW r \in Requests, BeginTx(r), r \notin Begun, Begun' = Begun \cup {r}
  PROVE  clock' \in 0..Cardinality(Begun') /\ stamp' \in [Requests -> 0..clock']
<1>1. Cardinality(Begun') = Cardinality(Begun) + 1
  BY ClockBound, FS_AddElement
<1>2. clock' \in 0..Cardinality(Begun')
  BY <1>1, ClockBound DEF BeginTx
<1>3. \A q \in Requests : stamp[q] \in 0..clock'
  BY ClockBound DEF BeginTx, TypeOK
<1>4. clock' \in 0..clock'
  BY ClockBound DEF BeginTx
<1> QED BY <1>2, <1>3, <1>4 DEF BeginTx, TypeOK

\* The rows that an undeletion brings back are rows of ids.
LEMMA RestoredType ==
  ASSUME TypeOK, NEW r \in Requests, NEW x \in Ids, saved[r] \in Row
  PROVE  /\ DOMAIN Restored(r, x) \subseteq Ids
         /\ \A c \in DOMAIN Restored(r, x) : Restored(r, x)[c] \in Row
<1>1. DOMAIN Restored(r, x) = Restorable(x) \cup {x}
  BY DEF Restored
<1>2. Restorable(x) \subseteq Ids
  BY DEF Restorable, Ids
<1>3. ASSUME NEW c \in Restorable(x) PROVE Newest(HistoryUnder(c, x)).row \in Row
  <2>1. HistoryUnder(c, x) \in SUBSET Entry /\ HistoryUnder(c, x) # {}
    BY <1>3 DEF HistoryUnder, HistoryOf, Restorable, TypeOK
  <2>2. Newest(HistoryUnder(c, x)) \in Entry
    BY <2>1, NewestIsOne
  <2> QED BY <2>2 DEF Entry
<1> QED BY <1>1, <1>2, <1>3 DEF Restored

\* The type of what every step leaves alone or sets by itself.
LEMMA IInvInit == Init => IInv
<1> SUFFICES ASSUME Init PROVE IInv
  OBVIOUS
<1>1. rows \in [Ids -> Row \cup {None}]
  BY DEF Init, Row, Ids
<1>2. history \in SUBSET Entry
  <2>1. Cardinality(Requests) \in Nat
    BY RequestsAssumption, FS_CardinalityType
  <2>2. \A x \in Ids : rows[x] # None => rows[x] \in Row
    BY <1>1
  <2>3. history = {[id |-> x, at |-> 0, row |-> rows[x], gone |-> FALSE] :
                     x \in {y \in Ids : rows[y] # None}}
    BY DEF Init
  <2>4. \A x \in Ids :
          rows[x] # None => [id |-> x, at |-> 0, row |-> rows[x], gone |-> FALSE] \in Entry
    BY <2>1, <2>2 DEF Entry
  <2> QED BY <2>3, <2>4
<1>3. Begun = {}
  BY DEF Init, Begun
<1>4. clock = 0 /\ clock \in 0..Cardinality(Begun)
  BY <1>3, FS_EmptySet DEF Init
<1>5. KnownHistory
  BY DEF Init, KnownHistory
<1>6. stamp \in [Requests -> 0..clock]
  BY <1>4 DEF Init
<1>7. undo \in [id : Ids, rows : [Ids -> Row \cup {None}]] \cup {None} /\ contended \in SUBSET Ids
  BY DEF Init
<1>8. \A r \in Requests : pc[r] = "idle"
  BY DEF Init
<1>9. /\ pc \in [Requests -> Steps]
      /\ call \in [Requests -> Call \cup {None}]
      /\ saved \in [Requests -> Row \cup {None}]
      /\ found \in [Requests -> BOOLEAN]
      /\ kids \in [Requests -> SUBSET Entry]
      /\ outcome \in [Requests -> {"none", "ok", "duplicate"}]
  BY DEF Init, Steps
<1> QED BY <1>1, <1>2, <1>4, <1>5, <1>6, <1>7, <1>8, <1>9 DEF IInv, TypeOK

LEMMA IInvStep == IInv /\ [Next]_vars => IInv'
<1> SUFFICES ASSUME IInv, [Next]_vars PROVE IInv'
  OBVIOUS
<1> USE DEF IInv
<1>0. TypeOK
  OBVIOUS
<1>1. ASSUME NEW r \in Requests, NEW c \in Call, Begin(r, c) PROVE IInv'
  <2> USE <1>1 DEF Begin, tables
  <2>1. pc' \in [Requests -> Steps] /\ call' \in [Requests -> Call \cup {None}]
    BY DEF TypeOK, Goto, Steps
  <2>2. Begun \subseteq Begun'
    BY DEF Begun, TypeOK, Goto
  <2>3. clock' \in 0..Cardinality(Begun') /\ stamp' \in [Requests -> 0..clock']
    BY <2>2, SameClock
  <2>4. contended' \in SUBSET Ids
    <3>1. Concerns(c) \subseteq Ids
      BY CallFields DEF Concerns, Ids
    <3> QED BY <3>1 DEF TypeOK
  <2>5. \A q \in Requests : pc'[q] # "idle" => call'[q] \in Call
    BY DEF TypeOK, Goto
  <2>6. \A q \in Requests :
          pc'[q] \in {"check", "write", "select", "remove", "restore"} => saved'[q] \in Row
    BY DEF TypeOK, Goto
  <2>7. KnownHistory'
    BY DEF KnownHistory, TypeOK, Goto, Accepted, HistoryOf
  <2> QED BY <2>1, <2>3, <2>4, <2>5, <2>6, <2>7 DEF TypeOK
<1>2. ASSUME NEW r \in Requests, InsertBegin(r) PROVE IInv'
  <2> USE <1>2 DEF InsertBegin, tables, At
  <2>1. pc' \in [Requests -> Steps]
    BY DEF TypeOK, Goto, Steps
  <2>2. r \notin Begun /\ Begun' = Begun \cup {r}
    BY DEF Begun, TypeOK, Goto
  <2>3. clock' \in 0..Cardinality(Begun') /\ stamp' \in [Requests -> 0..clock']
    BY <2>2, NextClock
  <2>4. [parent |-> call[r].parent, edits |-> {}] \in Row
    BY CallFields DEF Row, TypeOK
  <2>5. saved' \in [Requests -> Row \cup {None}] /\ saved'[r] \in Row
    BY <2>4 DEF TypeOK
  <2>6. \A q \in Requests :
          pc'[q] \in {"check", "write", "select", "remove", "restore"} => saved'[q] \in Row
    BY <2>5 DEF TypeOK, Goto
  <2>7. \A q \in Requests : pc'[q] # "idle" => call'[q] \in Call
    BY DEF TypeOK, Goto
  <2>8. KnownHistory'
    BY DEF KnownHistory, TypeOK, Goto, HistoryOf
  <2> QED BY <2>1, <2>3, <2>5, <2>6, <2>7, <2>8 DEF TypeOK
<1>3. ASSUME NEW r \in Requests, ReadRow(r) PROVE IInv'
  <2> USE <1>3 DEF ReadRow, tables
  <2>1. pc' \in [Requests -> Steps]
    BY DEF TypeOK, Goto, Steps
  <2>2. r \notin Begun /\ Begun' = Begun \cup {r}
    BY DEF Begun, TypeOK, Goto
  <2>3. clock' \in 0..Cardinality(Begun') /\ stamp' \in [Requests -> 0..clock']
    BY <2>2, NextClock
  <2>4. rows[call[r].id] \in Row \cup {None}
    BY CallFields DEF TypeOK
  <2>5. saved' \in [Requests -> Row \cup {None}] /\ saved'[r] = rows[call[r].id]
    BY <2>4 DEF TypeOK
  <2>6. \A q \in Requests :
          pc'[q] \in {"check", "write", "select", "remove", "restore"} => saved'[q] \in Row
    BY <2>4, <2>5 DEF TypeOK, Goto
  <2>7. \A q \in Requests : pc'[q] # "idle" => call'[q] \in Call
    BY DEF TypeOK, Goto
  <2>8. KnownHistory'
    BY DEF KnownHistory, TypeOK, Goto, HistoryOf
  <2> QED BY <2>1, <2>3, <2>5, <2>6, <2>7, <2>8 DEF TypeOK
<1>4. ASSUME NEW r \in Requests, ReadHistory(r) PROVE IInv'
  <2> USE <1>4 DEF ReadHistory, tables, At
  <2> DEFINE last == Newest(HistoryOf(call[r].id))
  <2>1. pc' \in [Requests -> Steps]
    BY DEF TypeOK, Goto, Steps
  <2>2. r \notin Begun /\ Begun' = Begun \cup {r}
    BY DEF Begun, TypeOK, Goto
  <2>3. clock' \in 0..Cardinality(Begun') /\ stamp' \in [Requests -> 0..clock']
    BY <2>2, NextClock
  <2>4. last.row \in Row
    <3>1. HistoryOf(call[r].id) \in SUBSET Entry /\ HistoryOf(call[r].id) # {}
      BY DEF KnownHistory, HistoryOf, TypeOK
    <3>2. last \in Entry
      BY <3>1, NewestIsOne
    <3> QED BY <3>2 DEF Entry
  <2>5. saved' \in [Requests -> Row \cup {None}] /\ saved'[r] \in Row
    BY <2>4 DEF TypeOK
  <2>6. \A q \in Requests :
          pc'[q] \in {"check", "write", "select", "remove", "restore"} => saved'[q] \in Row
    BY <2>5 DEF TypeOK, Goto
  <2>7. \A q \in Requests : pc'[q] # "idle" => call'[q] \in Call
    BY DEF TypeOK, Goto
  <2>8. KnownHistory'
    BY DEF KnownHistory, TypeOK, Goto, HistoryOf
  <2> QED BY <2>1, <2>3, <2>5, <2>6, <2>7, <2>8 DEF TypeOK
<1>5. ASSUME NEW r \in Requests, CheckExisting(r) PROVE IInv'
  <2> USE <1>5 DEF CheckExisting, tables
  <2>1. Begun \subseteq Begun'
    BY DEF Begun, TypeOK, Goto
  <2>2. clock' \in 0..Cardinality(Begun') /\ stamp' \in [Requests -> 0..clock']
    BY <2>1, SameClock
  <2>3. KnownHistory'
    BY DEF KnownHistory, TypeOK, Goto, HistoryOf
  <2> QED BY <2>2, <2>3 DEF TypeOK, Goto, Steps
<1>6. ASSUME NEW r \in Requests, Write(r) PROVE IInv'
  <2> USE <1>6 DEF Write, tables
  <2>1. Begun \subseteq Begun'
    BY DEF Begun, TypeOK, Goto, End
  <2>2. clock' \in 0..Cardinality(Begun') /\ stamp' \in [Requests -> 0..clock']
    BY <2>1, SameClock
  <2>3. call[r].id \in Ids /\ Written(r) \in Row
    BY CallFields DEF TypeOK, Written, Row
  <2>4. rows' \in [Ids -> Row \cup {None}]
    BY <2>3 DEF TypeOK
  <2>5. history' \in SUBSET Entry /\ history \subseteq history'
    <3>1. EntryOf(r, call[r].id, Written(r), FALSE) \in Entry
      BY <2>3, EntryType
    <3> QED BY <3>1 DEF TypeOK
  <2>6. pc' = [pc EXCEPT ![r] = "done"] /\ outcome' \in [Requests -> {"none", "ok", "duplicate"}]
    BY DEF End, Goto, TypeOK
  <2>7. undo' = undo \/ undo' = None
    OBVIOUS
  <2>8. KnownHistory'
    BY <2>5, <2>6 DEF KnownHistory, TypeOK, HistoryOf
  <2> QED BY <2>2, <2>4, <2>5, <2>6, <2>7, <2>8 DEF TypeOK, Steps
<1>7. ASSUME NEW r \in Requests, CopyChildren(r) PROVE IInv'
  <2> USE <1>7 DEF CopyChildren, tables
  <2>1. Begun \subseteq Begun'
    BY DEF Begun, TypeOK, Goto
  <2>2. clock' \in 0..Cardinality(Begun') /\ stamp' \in [Requests -> 0..clock']
    BY <2>1, SameClock
  <2>3. \A c \in Children(call[r].id) : EntryOf(r, c, rows[c], TRUE) \in Entry
    BY EntryType DEF Children, TypeOK, Ids
  <2>4. KnownHistory'
    BY DEF KnownHistory, TypeOK, Goto, HistoryOf
  <2>5. kids' \in [Requests -> SUBSET Entry]
    <3>1. {EntryOf(r, c, rows[c], TRUE) : c \in Children(call[r].id) \ {call[r].id}} \in SUBSET Entry
      BY <2>3
    <3> QED BY <3>1 DEF TypeOK
  <2>6. /\ pc' \in [Requests -> Steps]
        /\ \A q \in Requests : pc'[q] # "idle" => call'[q] \in Call
        /\ \A q \in Requests :
             pc'[q] \in {"check", "write", "select", "remove", "restore"} => saved'[q] \in Row
    BY DEF TypeOK, Goto, Steps
  <2> QED BY <2>2, <2>4, <2>5, <2>6 DEF TypeOK
<1>8. ASSUME NEW r \in Requests, Remove(r) PROVE IInv'
  <2> USE <1>8 DEF Remove, tables
  <2>1. Begun \subseteq Begun'
    BY DEF Begun, TypeOK, Goto, End
  <2>2. clock' \in 0..Cardinality(Begun') /\ stamp' \in [Requests -> 0..clock']
    BY <2>1, SameClock
  <2>3. call[r].id \in Ids /\ saved[r] \in Row
    BY CallFields DEF TypeOK
  <2>4. rows' \in [Ids -> Row \cup {None}]
    BY DEF TypeOK
  <2>5. history' \in SUBSET Entry /\ history \subseteq history'
    <3>1. EntryOf(r, call[r].id, saved[r], TRUE) \in Entry
      BY <2>3, EntryType
    <3>2. kids[r] \subseteq Entry /\ history \subseteq Entry
      BY DEF TypeOK
    <3> QED BY <3>1, <3>2
  <2>6. pc' = [pc EXCEPT ![r] = "done"] /\ outcome' \in [Requests -> {"none", "ok", "duplicate"}]
    BY DEF End, Goto, TypeOK
  <2>7. undo' \in [id : Ids, rows : [Ids -> Row \cup {None}]]
    BY <2>3 DEF TypeOK
  <2>8. KnownHistory'
    BY ZenonT(60), <2>5, <2>6 DEF KnownHistory, TypeOK, HistoryOf
  <2> QED BY <2>2, <2>4, <2>5, <2>6, <2>7, <2>8 DEF TypeOK, Steps
<1>9. ASSUME NEW r \in Requests, Restore(r) PROVE IInv'
  <2> USE <1>9 DEF Restore, tables
  <2> DEFINE back == Restored(r, call[r].id)
  <2>1. Begun \subseteq Begun'
    BY DEF Begun, TypeOK, Goto, End
  <2>2. clock' \in 0..Cardinality(Begun') /\ stamp' \in [Requests -> 0..clock']
    BY <2>1, SameClock
  <2>3. call[r].id \in Ids /\ saved[r] \in Row
    BY CallFields DEF TypeOK
  <2>4. DOMAIN back \subseteq Ids /\ \A c \in DOMAIN back : back[c] \in Row
    BY <2>3, RestoredType
  <2>5. rows' \in [Ids -> Row \cup {None}]
    BY <2>4 DEF TypeOK
  <2>6. history' \in SUBSET Entry /\ history \subseteq history'
    <3>1. \A c \in DOMAIN back : EntryOf(r, c, back[c], FALSE) \in Entry
      BY <2>4, EntryType
    <3>2. history' = history \/
            history' = history \cup {EntryOf(r, c, back[c], FALSE) : c \in DOMAIN back}
      OBVIOUS
    <3> HIDE DEF back
    <3> QED BY <3>1, <3>2 DEF TypeOK
  <2>7. pc' = [pc EXCEPT ![r] = "done"] /\ outcome' \in [Requests -> {"none", "ok", "duplicate"}]
    BY DEF End, Goto, TypeOK
  <2>8. undo' = undo \/ undo' = None
    OBVIOUS
  <2>9. KnownHistory'
    BY <2>6, <2>7 DEF KnownHistory, TypeOK, HistoryOf
  <2> QED BY <2>2, <2>5, <2>6, <2>7, <2>8, <2>9 DEF TypeOK, Steps
<1>10. CASE UNCHANGED vars
  BY <1>10 DEF vars, tables, TypeOK, KnownHistory, HistoryOf, Begun
<1> QED
  BY <1>1, <1>2, <1>3, <1>4, <1>5, <1>6, <1>7, <1>8, <1>9, <1>10 DEF Next

\* Every variable of BlockStore keeps its type; in particular no transaction
\* works on a row that it did not find.
THEOREM TypeCorrect == Spec => []TypeOK
<1>1. IInv => TypeOK
  BY DEF IInv
<1> QED BY IInvInit, IInvStep, <1>1, PTL DEF Spec

----------------------------------------------------------------------------
\* A row that stays, with a history that grows, stays covered.
LEMMA StaysCovered ==
  ASSUME HistoryCovers, history \subseteq history', NEW x \in Ids, rows'[x] = rows[x],
         rows'[x] # None
  PROVE  \E h \in HistoryOf(x)' : ~h.gone /\ h.row = rows'[x]
BY DEF HistoryCovers, HistoryOf

\* A row that is written together with its version is covered.
LEMMA WrittenCovered ==
  ASSUME NEW r \in Requests, NEW x \in Ids, NEW row,
         EntryOf(r, x, row, FALSE) \in history', rows'[x] = row
  PROVE  \E h \in HistoryOf(x)' : ~h.gone /\ h.row = rows'[x]
BY DEF HistoryOf, EntryOf

\* Whatever the requests and however they overlap, nothing is ever visible
\* that the history does not have, so that no deletion can lose it.
THEOREM Covered == Spec => []HistoryCovers
<1>1. Init => HistoryCovers
  <2> SUFFICES ASSUME Init, NEW x \in Ids, rows[x] # None
               PROVE  \E h \in HistoryOf(x) : ~h.gone /\ h.row = rows[x]
    BY DEF HistoryCovers
  <2>1. [id |-> x, at |-> 0, row |-> rows[x], gone |-> FALSE] \in HistoryOf(x)
    BY DEF Init, HistoryOf
  <2> QED BY <2>1
<1>2. IInv /\ HistoryCovers /\ [Next]_vars => HistoryCovers'
  <2> SUFFICES ASSUME IInv, HistoryCovers, [Next]_vars,
                      NEW x \in Ids, rows'[x] # None
               PROVE  \E h \in HistoryOf(x)' : ~h.gone /\ h.row = rows'[x]
    BY DEF HistoryCovers
  <2>1. ASSUME UNCHANGED tables
        PROVE  \E h \in HistoryOf(x)' : ~h.gone /\ h.row = rows'[x]
    BY <2>1, StaysCovered DEF tables
  <2>2. ASSUME NEW r \in Requests, Write(r)
        PROVE  \E h \in HistoryOf(x)' : ~h.gone /\ h.row = rows'[x]
    <3>1. CASE UNCHANGED tables
      BY <3>1, <2>1
    <3>2. CASE /\ rows' = [rows EXCEPT ![call[r].id] = Written(r)]
               /\ history' = history \cup {EntryOf(r, call[r].id, Written(r), FALSE)}
      <4>1. CASE x = call[r].id
        <5>1. rows'[x] = Written(r) /\ EntryOf(r, x, Written(r), FALSE) \in history'
          BY <3>2, <4>1 DEF IInv, TypeOK
        <5> QED BY <5>1, WrittenCovered
      <4>2. CASE x # call[r].id
        BY <3>2, <4>2, StaysCovered DEF IInv, TypeOK
      <4> QED BY <4>1, <4>2
    <3>3. CASE rows' = rows /\ history \subseteq history'
      BY <3>3, StaysCovered
    <3> QED BY <2>2, <3>1, <3>2, <3>3 DEF Write
  <2>3. ASSUME NEW r \in Requests, Remove(r)
        PROVE  \E h \in HistoryOf(x)' : ~h.gone /\ h.row = rows'[x]
    <3>1. rows'[x] = rows[x] /\ history \subseteq history'
      BY <2>3 DEF Remove
    <3> QED BY <3>1, StaysCovered
  <2>4. ASSUME NEW r \in Requests, Restore(r)
        PROVE  \E h \in HistoryOf(x)' : ~h.gone /\ h.row = rows'[x]
    <3> DEFINE back == Restored(r, call[r].id)
    <3>1. CASE UNCHANGED tables
      BY <3>1, <2>1
    <3>2. CASE /\ rows' = [y \in Ids |-> IF y \in DOMAIN back THEN back[y] ELSE rows[y]]
               /\ history' = history \cup {EntryOf(r, c, back[c], FALSE) : c \in DOMAIN back}
      <4> HIDE DEF back
      <4>1. CASE x \in DOMAIN back
        <5>1. rows'[x] = back[x] /\ EntryOf(r, x, back[x], FALSE) \in history'
          BY <3>2, <4>1
        <5> QED BY <5>1, WrittenCovered
      <4>2. CASE x \notin DOMAIN back
        BY <3>2, <4>2, StaysCovered
      <4> QED BY <4>1, <4>2
    <3> QED BY <2>4, <3>1, <3>2 DEF Restore
  <2>5. CASE UNCHANGED vars
    BY <2>5, <2>1 DEF vars, tables
  <2> QED
    BY <2>1, <2>2, <2>3, <2>4, <2>5
       DEF Next, Begin, InsertBegin, ReadRow, ReadHistory, CheckExisting, CopyChildren
<1> QED BY <1>1, <1>2, IInvInit, IInvStep, PTL DEF Spec

\* Types are kept, and the history has whatever is visible.
THEOREM StoreSafe == Spec => []StoreInv
<1>1. TypeOK /\ HistoryCovers => StoreInv
  BY DEF StoreInv
<1> QED BY <1>1, TypeCorrect, Covered, PTL

----------------------------------------------------------------------------
(***************************************************************************)
(* The newest version of a block tells what is in the tables, for the ids   *)
(* that no overlapping requests concern.                                    *)
(***************************************************************************)
Settled == Ids \ contended

InTransaction == {"check", "write", "select", "remove", "restore"}

\* Requests that overlap have no settled id in common.
Apart ==
  \A r, q \in Active : r # q => Concerns(call[r]) \cap Concerns(call[q]) \cap Settled = {}

\* Wherever a row is, its parent is one that the block may have.
Fits(x, row) == x \in Blocks => row.parent \in Parents[x]

RowsFit == \A x \in Ids : rows[x] # None => Fits(x, rows[x])
HistoryFits == \A h \in history : Fits(h.id, h.row)
SavedFits == \A r \in Requests : pc[r] \in InTransaction => Fits(call[r].id, saved[r])

AsksFit ==
  \A r \in Active :
    /\ call[r].id \in Blocks /\ call[r].op \in {"insert", "patch"} /\ call[r].parent # None =>
         call[r].parent \in Parents[call[r].id]
    /\ call[r].op = "insert" => call[r].id \in Blocks /\ call[r].parent # None

\* What a deletion has copied are children of its own, as of its time.
KidsFit ==
  \A r \in Requests : pc[r] = "remove" =>
    \A k \in kids[r] : k.id \in Concerns(call[r]) /\ k.at = stamp[r] /\ Fits(k.id, k.row)

\* Each operation has steps of its own, and an outcome when it is done.
OwnSteps ==
  \A r \in Requests :
    /\ pc[r] \in {"check", "write"} => call[r].op \in {"insert", "patch"}
    /\ pc[r] \in {"select", "remove"} => call[r].op = "delete"
    /\ pc[r] = "restore" => call[r].op = "undelete"
    /\ outcome[r] # "none" => pc[r] = "done"

Past == \A h \in history : h.at <= clock

\* What the shape of a request does not depend on settled ids for.
FitInv == RowsFit /\ HistoryFits /\ SavedFits /\ AsksFit /\ KidsFit /\ OwnSteps /\ Past

\* A transaction is younger than every version of the settled ids it concerns.
Later(r) ==
  pc[r] \in InTransaction =>
    \A x \in Concerns(call[r]) \cap Settled : \A h \in HistoryOf(x) : h.at < stamp[r]

\* What a request knows of the id it is about, if that is settled ...
Knows(r) ==
  LET x == call[r].id
  IN pc[r] \notin {"idle", "done"} /\ x \in Settled =>
       /\ call[r].op = "insert" => HistoryOf(x) = {}
       /\ call[r].op \in {"patch", "delete"} /\ pc[r] # "begin" => rows[x] = saved[r]
       /\ call[r].op = "undelete" /\ pc[r] # "begin" =>
            HistoryOf(x) # {} /\ Newest(HistoryOf(x)).gone /\ Newest(HistoryOf(x)).row = saved[r]
       /\ pc[r] = "write" => (found[r] <=> rows[x] # None)

\* ... and a deletion of the children it has copied.
KnowsChildren(r) ==
  pc[r] = "remove" =>
    \A c \in Settled :
      /\ c \in Children(call[r].id) \ {call[r].id} => EntryOf(r, c, rows[c], TRUE) \in kids[r]
      /\ \A k \in kids[r] :
           k.id = c =>
             c \in Children(call[r].id) \ {call[r].id} /\ k = EntryOf(r, c, rows[c], TRUE)

\* The versions of an id: no two of a time, the newest says what is in the
\* tables, and what was deleted came back, if it did, under the same parent.
Versions(x) ==
  /\ \A h, k \in HistoryOf(x) : h.at = k.at => h = k
  /\ \A h \in HistoryOf(x) :
       h.gone => \/ \A k \in HistoryOf(x) : k.at <= h.at
                 \/ \E k \in HistoryOf(x) : k.at > h.at /\ k.row.parent = h.row.parent
  /\ HistoryOf(x) # {} =>
       rows[x] = IF Newest(HistoryOf(x)).gone THEN None ELSE Newest(HistoryOf(x)).row

\* The newest version has the edits of all patches.
HasEdits(x) ==
  \A r \in Requests :
    pc[r] = "done" /\ call[r].id = x /\ call[r].op = "patch" /\ outcome[r] = "ok" =>
      HistoryOf(x) # {} /\ r \in Newest(HistoryOf(x)).row.edits

AgreeInv ==
  /\ Apart
  /\ \A r \in Requests : Later(r) /\ Knows(r) /\ KnowsChildren(r)
  /\ \A x \in Settled : Versions(x) /\ HasEdits(x)

----------------------------------------------------------------------------
(***************************************************************************)
(* Versions.                                                                *)
(***************************************************************************)

\* One version that is younger than all others is the newest.
LEMMA NewestIsYoungest ==
  ASSUME NEW H \in SUBSET Entry, NEW e \in H, \A k \in H : k # e => k.at < e.at
  PROVE  Newest(H) = e
<1>1. \A h \in H : h.at \in Nat
  BY RequestsAssumption, FS_CardinalityType DEF Entry
<1>2. \A k \in H : k.at <= e.at
  BY <1>1
<1>3. \A h \in H : (\A k \in H : k.at <= h.at) => h = e
  BY <1>1
<1> QED BY <1>2, <1>3 DEF Newest

LEMMA HistoryType ==
  ASSUME TypeOK, NEW x
  PROVE  /\ HistoryOf(x) \in SUBSET Entry
         /\ \A h \in HistoryOf(x) :
              h.id = x /\ h.at \in Nat /\ h.row \in Row /\ h.gone \in BOOLEAN /\ h \in history
<1>1. HistoryOf(x) \in SUBSET Entry
  BY DEF HistoryOf, TypeOK
<1>2. Cardinality(Requests) \in Nat
  BY RequestsAssumption, FS_CardinalityType
<1> QED BY <1>1, <1>2 DEF HistoryOf, Entry

\* A version of x is added, and the tables follow it.
Adds(r, x, row, g) ==
  /\ HistoryOf(x)' = HistoryOf(x) \cup {EntryOf(r, x, row, g)}
  /\ rows'[x] = IF g THEN None ELSE row

\* The new version carries on where the newest one ended.
CarriesOn(r, x, row) ==
  /\ HistoryOf(x) # {} =>
       /\ Newest(HistoryOf(x)).row.edits \subseteq row.edits
       /\ Newest(HistoryOf(x)).gone => row.parent = Newest(HistoryOf(x)).row.parent
  /\ call[r].op = "patch" /\ call[r].id = x => r \in row.edits

Grows(r, x) ==
  \E row \in Row, g \in BOOLEAN : Adds(r, x, row, g) /\ CarriesOn(r, x, row)

Same(x) == rows'[x] = rows[x] /\ HistoryOf(x)' = HistoryOf(x)

Kept(r, x) ==
  Same(x) /\ ~(call[r].op = "patch" /\ call[r].id = x /\ outcome'[r] = "ok")

\* Versions stay in order when one is added.
LEMMA AddedVersion ==
  ASSUME TypeOK, TypeOK', NEW r \in Requests, NEW x \in Ids, NEW row \in Row, NEW g \in BOOLEAN,
         Versions(x), \A h \in HistoryOf(x) : h.at < stamp[r],
         Adds(r, x, row, g), CarriesOn(r, x, row)
  PROVE  Versions(x)' /\ HistoryOf(x)' # {} /\ Newest(HistoryOf(x)') = EntryOf(r, x, row, g)
<1> DEFINE e == EntryOf(r, x, row, g)
           H == HistoryOf(x)
           G == HistoryOf(x)'
<1>1. /\ e.id = x /\ e.at = stamp[r] /\ e.row = row /\ e.gone = g
      /\ stamp[r] \in Nat
  BY ClockBound DEF EntryOf, TypeOK
<1>2. H \in SUBSET Entry /\ G \in SUBSET Entry
  BY HistoryType DEF HistoryOf, TypeOK
<1>3. G = H \cup {e}
  BY DEF Adds
<1>4. \A h \in H : h.at \in Nat /\ h.at < e.at /\ h \in Entry
  BY <1>1, HistoryType
<1>5. rows'[x] = IF g THEN None ELSE row
  BY DEF Adds
<1>6. /\ \A h, k \in H : h.at = k.at => h = k
      /\ \A h \in H :
           h.gone => \/ \A k \in H : k.at <= h.at
                     \/ \E k \in H : k.at > h.at /\ k.row.parent = h.row.parent
  BY DEF Versions
<1>7. H # {} /\ Newest(H).gone => row.parent = Newest(H).row.parent
  BY DEF CarriesOn
<1> HIDE DEF e, H, G
<1>8. Newest(G) = e /\ G # {}
  BY <1>2, <1>3, <1>4, NewestIsYoungest
<1>9. \A h, k \in G : h.at = k.at => h = k
  BY <1>1, <1>3, <1>4, <1>6
<1>10. ASSUME NEW h \in G, h.gone
       PROVE  \/ \A k \in G : k.at <= h.at
              \/ \E k \in G : k.at > h.at /\ k.row.parent = h.row.parent
  <2>1. CASE h = e
    BY <2>1, <1>1, <1>3, <1>4
  <2>2. CASE h \in H /\ \A k \in H : k.at <= h.at
    <3>1. \A k \in H : k # h => k.at < h.at
      BY <2>2, <1>4, <1>6
    <3>2. Newest(H) = h
      BY <2>2, <3>1, <1>2, NewestIsYoungest
    <3>3. row.parent = h.row.parent
      BY <2>2, <3>2, <1>7, <1>10
    <3> QED BY <2>2, <3>3, <1>1, <1>3, <1>4
  <2>3. CASE h \in H /\ \E k \in H : k.at > h.at /\ k.row.parent = h.row.parent
    BY <2>3, <1>3
  <2> QED BY <2>1, <2>2, <2>3, <1>3, <1>6, <1>10
<1>11. G # {} => rows'[x] = IF Newest(G).gone THEN None ELSE Newest(G).row
  BY <1>1, <1>5, <1>8
<1>12. Versions(x)'
  BY <1>9, <1>10, <1>11 DEF Versions, G
<1> QED BY <1>8, <1>12 DEF G, e

\* ... and the edits of patches are in the newest.
LEMMA AddedEdits ==
  ASSUME TypeOK, TypeOK', NEW r \in Requests, NEW x \in Ids, NEW row \in Row, NEW g \in BOOLEAN,
         Versions(x), HasEdits(x), \A h \in HistoryOf(x) : h.at < stamp[r],
         Adds(r, x, row, g), CarriesOn(r, x, row),
         call' = call, \A q \in Requests \ {r} : pc'[q] = pc[q] /\ outcome'[q] = outcome[q]
  PROVE  HasEdits(x)'
<1>1. HistoryOf(x)' # {} /\ Newest(HistoryOf(x)').row = row
  BY AddedVersion DEF EntryOf
<1>2. ASSUME NEW q \in Requests, pc'[q] = "done", call[q].id = x, call[q].op = "patch", outcome'[q] = "ok"
      PROVE  q \in row.edits
  <2>1. CASE q = r
    BY <2>1, <1>2 DEF CarriesOn
  <2>2. CASE q # r
    <3>1. HistoryOf(x) # {} /\ q \in Newest(HistoryOf(x)).row.edits
      BY <2>2, <1>2 DEF HasEdits
    <3> QED BY <3>1 DEF CarriesOn
  <2> QED BY <2>1, <2>2
<1> HIDE DEF Versions
<1>3. \A q \in Requests :
        pc'[q] = "done" /\ call'[q].id = x /\ call'[q].op = "patch" /\ outcome'[q] = "ok" =>
          HistoryOf(x)' # {} /\ q \in Newest(HistoryOf(x)').row.edits
  BY <1>1, <1>2
<1> QED BY <1>3 DEF HasEdits

\* What is kept keeps its versions and its edits.
LEMMA KeptAgrees ==
  ASSUME NEW r \in Requests, NEW x \in Ids, Kept(r, x), Versions(x), HasEdits(x),
         call' = call, \A q \in Requests \ {r} : pc'[q] = pc[q] /\ outcome'[q] = outcome[q]
  PROVE  Versions(x)' /\ HasEdits(x)'
<1>1. rows'[x] = rows[x] /\ HistoryOf(x)' = HistoryOf(x)
  BY DEF Kept, Same
<1>2. Versions(x)'
  BY <1>1 DEF Versions
<1>3. ASSUME NEW q \in Requests,
             pc'[q] = "done", call[q].id = x, call[q].op = "patch", outcome'[q] = "ok"
      PROVE  HistoryOf(x) # {} /\ q \in Newest(HistoryOf(x)).row.edits
  <2>1. q # r
    BY <1>3 DEF Kept
  <2> QED BY <2>1, <1>3 DEF HasEdits
<1>4. HasEdits(x)'
  BY <1>1, <1>3 DEF HasEdits
<1> QED BY <1>2, <1>4

----------------------------------------------------------------------------
(***************************************************************************)
(* The children.                                                            *)
(***************************************************************************)

\* A request concerns its own id, the children of that, and what it restores.
LEMMA ChildrenConcerned ==
  ASSUME TypeOK, RowsFit, HistoryFits, NEW c \in Call
  PROVE  /\ c.id \in Concerns(c) /\ Concerns(c) \subseteq Ids
         /\ c.op \in {"delete", "undelete"} =>
              Children(c.id) \subseteq Concerns(c) /\ Restorable(c.id) \subseteq Concerns(c)
<1>1. c.id \in Ids /\ c.op \in {"insert", "patch", "delete", "undelete"}
  BY CallFields
<1>2. c.id \in Concerns(c) /\ Concerns(c) \subseteq Ids
  BY <1>1 DEF Concerns, Ids
<1>3. ASSUME c.op \in {"delete", "undelete"}, c.id = Board
      PROVE  Children(c.id) \subseteq Concerns(c) /\ Restorable(c.id) \subseteq Concerns(c)
  BY <1>3 DEF Concerns, Children, Restorable, Ids
<1>4. ASSUME c.op \in {"delete", "undelete"}, c.id # Board
      PROVE  Children(c.id) \subseteq Concerns(c) /\ Restorable(c.id) \subseteq Concerns(c)
  <2>1. ASSUME NEW b \in Children(c.id) PROVE b \in Concerns(c)
    <3>1. b \in Blocks /\ rows[b] # None /\ rows[b].parent = c.id /\ b \in Ids
      BY <1>4, <2>1 DEF Children, IsChild, Ids
    <3>2. c.id \in Parents[b]
      BY <3>1 DEF RowsFit, Fits
    <3> QED BY <1>4, <3>1, <3>2 DEF Concerns
  <2>2. ASSUME NEW b \in Restorable(c.id) PROVE b \in Concerns(c)
    <3>1. b \in Blocks /\ HistoryUnder(b, c.id) # {}
      BY <2>2 DEF Restorable
    <3>2. PICK h \in history : h.id = b /\ h.row.parent = c.id
      BY <1>4, <3>1 DEF HistoryUnder, HistoryOf, IsChild
    <3>3. c.id \in Parents[b]
      BY <3>1, <3>2 DEF HistoryFits, Fits
    <3> QED BY <1>4, <3>1, <3>3 DEF Concerns
  <2> QED BY <2>1, <2>2
<1> QED BY <1>2, <1>3, <1>4

\* If the newest version under a parent is a deletion, it is the newest of all.
LEMMA NewestUnder ==
  ASSUME TypeOK, NEW x \in Ids, NEW c \in Restorable(x), Versions(c)
  PROVE  /\ HistoryOf(c) # {} /\ Newest(HistoryOf(c)) = Newest(HistoryUnder(c, x))
         /\ Newest(HistoryOf(c)).gone
<1> DEFINE H == HistoryOf(c)
           U == HistoryUnder(c, x)
           n == Newest(U)
<1>1. U # {} /\ n.gone /\ U \subseteq H /\ \A h \in H : IsChild(h.row, x) => h \in U
  BY DEF Restorable, HistoryUnder
<1>2. H \in SUBSET Entry /\ \A h \in H : h.at \in Nat
  BY HistoryType
<1>3. n \in U /\ \A k \in U : k.at <= n.at
  BY <1>1, <1>2, NewestIsOne
<1>4. IsChild(n.row, x)
  BY <1>3 DEF HistoryUnder
<1>5. /\ \A h, k \in H : h.at = k.at => h = k
      /\ \A h \in H :
           h.gone => \/ \A k \in H : k.at <= h.at
                     \/ \E k \in H : k.at > h.at /\ k.row.parent = h.row.parent
  BY DEF Versions
<1> HIDE DEF H, U, n
<1>6. ASSUME NEW k \in H, k.at > n.at, k.row.parent = n.row.parent PROVE FALSE
  <2>1. IsChild(k.row, x)
    BY <1>4, <1>6 DEF IsChild
  <2>2. k \in U
    BY <1>1, <2>1
  <2> QED BY <1>1, <1>2, <1>3, <1>6, <2>2
<1>7. n \in H /\ \A k \in H : k.at <= n.at
  BY <1>1, <1>3, <1>5, <1>6
<1>8. \A k \in H : k # n => k.at < n.at
  BY <1>2, <1>5, <1>7
<1>9. Newest(H) = n
  BY <1>2, <1>7, <1>8, NewestIsYoungest
<1> QED BY <1>1, <1>7, <1>9 DEF H, U, n

----------------------------------------------------------------------------
(***************************************************************************)
(* A commit leaves alone what it does not concern, and adds one version at  *)
(* most to a settled id, which carries on where the newest one ended.       *)
(***************************************************************************)

\* A row is there exactly if the newest version is no deletion, and is that one.
LEMMA RowIsNewest ==
  ASSUME TypeOK, NEW x \in Ids, Versions(x), HistoryOf(x) # {}
  PROVE  /\ rows[x] # None => ~Newest(HistoryOf(x)).gone /\ rows[x] = Newest(HistoryOf(x)).row
         /\ rows[x] = None => Newest(HistoryOf(x)).gone
<1>1. Newest(HistoryOf(x)) \in HistoryOf(x)
  BY HistoryType, NewestIsOne
<1>2. Newest(HistoryOf(x)).row \in Row
  BY <1>1, HistoryType
<1>3. Newest(HistoryOf(x)).row # None
  BY <1>2, RowAssumption
<1> QED BY <1>3 DEF Versions

LEMMA WriteGrows ==
  ASSUME IInv, FitInv, AgreeInv, NEW r \in Requests, Write(r), NEW x \in Ids
  PROVE  /\ x \notin Concerns(call[r]) => Kept(r, x)
         /\ x \in Settled => Kept(r, x) \/ Grows(r, x)
<1> DEFINE e == EntryOf(r, call[r].id, Written(r), FALSE)
<1>1. TypeOK /\ pc[r] = "write" /\ call[r] \in Call /\ saved[r] \in Row
  BY DEF IInv, TypeOK, Write
<1>2. call[r].op \in {"insert", "patch"} /\ call[r].id \in Ids /\ call[r].parent \in Ids \cup {None}
  BY <1>1, CallFields DEF FitInv, OwnSteps
<1>3. Concerns(call[r]) = {call[r].id}
  BY <1>2 DEF Concerns
<1>4. Written(r) \in Row /\ saved[r].edits \subseteq Written(r).edits
      /\ (call[r].op = "patch" => r \in Written(r).edits)
  BY <1>1, <1>2 DEF Written, Row
<1>5. CASE UNCHANGED tables /\ outcome'[r] = "duplicate"
  BY <1>5 DEF Kept, Same, HistoryOf, tables
<1>6. CASE /\ rows' = IF found[r] /\ rows[call[r].id] = None
                      THEN rows ELSE [rows EXCEPT ![call[r].id] = Written(r)]
           /\ history' = history \cup {e}
           /\ found[r] \/ rows[call[r].id] = None
  <2>1. e.id = call[r].id
    BY DEF EntryOf
  <2>2. CASE x # call[r].id
    <3>1. HistoryOf(x)' = HistoryOf(x)
      BY <1>6, <2>1, <2>2 DEF HistoryOf
    <3>2. rows'[x] = rows[x]
      BY <1>1, <1>6, <2>2 DEF TypeOK
    <3> QED BY <2>2, <3>1, <3>2 DEF Kept, Same
  <2>3. CASE x = call[r].id /\ x \in Settled
    <3>1. /\ call[r].op = "insert" => HistoryOf(x) = {}
          /\ call[r].op = "patch" => rows[x] = saved[r]
          /\ found[r] <=> rows[x] # None
      BY <1>1, <2>3 DEF AgreeInv, Knows
    <3>2. rows'[x] = Written(r)
      BY <1>1, <1>6, <2>3, <3>1 DEF TypeOK
    <3>3. HistoryOf(x)' = HistoryOf(x) \cup {e}
      BY <1>6, <2>1, <2>3 DEF HistoryOf
    <3>4. Adds(r, x, Written(r), FALSE)
      BY <2>3, <3>2, <3>3 DEF Adds
    <3>5. CarriesOn(r, x, Written(r))
      <4>1. CASE call[r].op = "insert"
        BY <3>1, <4>1 DEF CarriesOn
      <4>2. CASE call[r].op = "patch" /\ HistoryOf(x) # {}
        <5>1. rows[x] = saved[r] /\ rows[x] # None
          BY <1>1, <3>1, <4>2, RowAssumption
        <5>2. ~Newest(HistoryOf(x)).gone /\ Newest(HistoryOf(x)).row = saved[r]
          BY <1>1, <2>3, <4>2, <5>1, RowIsNewest DEF AgreeInv
        <5> QED BY <1>4, <5>2 DEF CarriesOn
      <4>3. CASE call[r].op = "patch" /\ HistoryOf(x) = {}
        BY <1>4, <4>3 DEF CarriesOn
      <4> QED BY <1>2, <4>1, <4>2, <4>3
    <3> QED BY <1>4, <2>3, <1>3, <3>4, <3>5 DEF Grows
  <2> QED BY <1>3, <2>2, <2>3
<1>7. \/ UNCHANGED tables /\ outcome'[r] = "duplicate"
      \/ /\ rows' = IF found[r] /\ rows[call[r].id] = None
                     THEN rows ELSE [rows EXCEPT ![call[r].id] = Written(r)]
         /\ history' = history \cup {e}
         /\ found[r] \/ rows[call[r].id] = None
  BY <1>1 DEF Write, End, TypeOK
<1> QED BY <1>5, <1>6, <1>7

LEMMA RemoveGrows ==
  ASSUME IInv, FitInv, AgreeInv, NEW r \in Requests, Remove(r), NEW x \in Ids
  PROVE  /\ x \notin Concerns(call[r]) => Kept(r, x)
         /\ x \in Settled => Kept(r, x) \/ Grows(r, x)
<1> DEFINE y == call[r].id
           e == EntryOf(r, y, saved[r], TRUE)
<1>1. TypeOK /\ pc[r] = "remove" /\ call[r] \in Call /\ saved[r] \in Row
  BY DEF IInv, TypeOK, Remove
<1>2. call[r].op = "delete" /\ y \in Ids
  BY <1>1, CallFields DEF FitInv, OwnSteps
<1>3. y \in Concerns(call[r]) /\ Children(y) \subseteq Concerns(call[r])
  BY <1>1, <1>2, ChildrenConcerned DEF FitInv
<1>4. \A k \in kids[r] : k.id \in Concerns(call[r])
  BY <1>1 DEF FitInv, KidsFit
<1>5. /\ rows' = [z \in Ids |-> IF z = y \/ z \in Children(y) THEN None ELSE rows[z]]
      /\ history' = history \cup {e} \cup kids[r]
  BY DEF Remove
<1>6. e.id = y
  BY DEF EntryOf
<1> HIDE DEF e
<1>7. ASSUME rows'[x] = rows[x], HistoryOf(x)' = HistoryOf(x) PROVE Kept(r, x)
  BY <1>2, <1>7 DEF Kept, Same
<1>8. CASE x \notin Concerns(call[r])
  <2>1. rows'[x] = rows[x]
    BY <1>3, <1>5, <1>8
  <2>2. HistoryOf(x)' = HistoryOf(x)
    BY <1>3, <1>4, <1>5, <1>6, <1>8 DEF HistoryOf
  <2> QED BY <1>7, <1>8, <2>1, <2>2
<1>9. ASSUME x \in Settled, Adds(r, x, rows[x], TRUE), rows[x] \in Row PROVE Grows(r, x)
  <2>1. CarriesOn(r, x, rows[x])
    <3>1. CASE HistoryOf(x) # {}
      <4>1. ~Newest(HistoryOf(x)).gone /\ rows[x] = Newest(HistoryOf(x)).row
        BY <1>1, <1>9, <3>1, RowIsNewest, RowAssumption DEF AgreeInv
      <4> QED BY <1>2, <4>1 DEF CarriesOn
    <3>2. CASE HistoryOf(x) = {}
      BY <1>2, <3>2 DEF CarriesOn
    <3> QED BY <3>1, <3>2
  <2> QED BY <1>9, <2>1 DEF Grows
<1>10. CASE x \in Settled /\ x = y
  <2>1. rows[x] = saved[r]
    BY <1>1, <1>2, <1>10 DEF AgreeInv, Knows
  <2>2. \A k \in kids[r] : k.id # x
    BY <1>1, <1>10 DEF AgreeInv, KnowsChildren
  <2>3. HistoryOf(x)' = HistoryOf(x) \cup {e}
    BY <1>5, <1>6, <1>10, <2>2 DEF HistoryOf
  <2>4. Adds(r, x, rows[x], TRUE)
    BY <1>5, <1>10, <2>1, <2>3 DEF Adds, e
  <2> QED BY <1>1, <1>3, <1>9, <1>10, <2>1, <2>4
<1>11. CASE x \in Settled /\ x # y /\ x \in Children(y)
  <2> DEFINE d == EntryOf(r, x, rows[x], TRUE)
  <2>1. d \in kids[r] /\ \A k \in kids[r] : k.id = x => k = d
    BY <1>1, <1>11 DEF AgreeInv, KnowsChildren
  <2>2. d.id = x
    BY DEF EntryOf
  <2> HIDE DEF d
  <2>3. HistoryOf(x)' = HistoryOf(x) \cup {d}
    BY <1>5, <1>6, <1>11, <2>1, <2>2 DEF HistoryOf
  <2>4. Adds(r, x, rows[x], TRUE)
    BY <1>5, <1>11, <2>3 DEF Adds, d
  <2>5. rows[x] \in Row
    BY <1>1, <1>11 DEF Children, TypeOK
  <2> QED BY <1>3, <1>9, <1>11, <2>4, <2>5
<1>12. CASE x \in Settled /\ x # y /\ x \notin Children(y)
  <2>1. \A k \in kids[r] : k.id # x
    BY <1>1, <1>12 DEF AgreeInv, KnowsChildren
  <2>2. HistoryOf(x)' = HistoryOf(x) /\ rows'[x] = rows[x]
    BY <1>5, <1>6, <1>12, <2>1 DEF HistoryOf
  <2> QED BY <1>7, <2>2
<1> QED BY <1>3, <1>8, <1>10, <1>11, <1>12

LEMMA RestoreGrows ==
  ASSUME IInv, FitInv, AgreeInv, NEW r \in Requests, Restore(r), NEW x \in Ids
  PROVE  /\ x \notin Concerns(call[r]) => Kept(r, x)
         /\ x \in Settled => Kept(r, x) \/ Grows(r, x)
<1> DEFINE y == call[r].id
           back == Restored(r, y)
           added == {EntryOf(r, c, back[c], FALSE) : c \in DOMAIN back}
<1>1. TypeOK /\ pc[r] = "restore" /\ call[r] \in Call /\ saved[r] \in Row
  BY DEF IInv, TypeOK, Restore
<1>2. call[r].op = "undelete" /\ y \in Ids
  BY <1>1, CallFields DEF FitInv, OwnSteps
<1>3. y \in Concerns(call[r]) /\ Restorable(y) \subseteq Concerns(call[r])
  BY <1>1, <1>2, ChildrenConcerned DEF FitInv
<1>4. DOMAIN back = Restorable(y) \cup {y} /\ back[y] = saved[r]
      /\ \A c \in Restorable(y) \ {y} : back[c] = Newest(HistoryUnder(c, y)).row
  BY DEF Restored
<1>5. DOMAIN back \subseteq Ids /\ \A c \in DOMAIN back : back[c] \in Row
  BY <1>1, <1>2, RestoredType
<1>6. \/ UNCHANGED tables
      \/ /\ rows' = [z \in Ids |-> IF z \in DOMAIN back THEN back[z] ELSE rows[z]]
         /\ history' = history \cup added
  BY DEF Restore
<1>7. \A h : h \in added <=> \E c \in DOMAIN back : h = EntryOf(r, c, back[c], FALSE)
  OBVIOUS
<1> HIDE DEF back, added
<1>8. ASSUME rows'[x] = rows[x], HistoryOf(x)' = HistoryOf(x) PROVE Kept(r, x)
  BY <1>2, <1>8 DEF Kept, Same
<1>9. CASE UNCHANGED tables
  BY <1>8, <1>9 DEF tables, HistoryOf
<1>10. CASE /\ rows' = [z \in Ids |-> IF z \in DOMAIN back THEN back[z] ELSE rows[z]]
            /\ history' = history \cup added
  <2>1. CASE x \notin DOMAIN back
    <3>1. \A h \in added : h.id # x
      BY <1>7, <2>1 DEF EntryOf
    <3>2. HistoryOf(x)' = HistoryOf(x) /\ rows'[x] = rows[x]
      BY <1>10, <2>1, <3>1 DEF HistoryOf
    <3> QED BY <1>8, <3>2
  <2>2. CASE x \in DOMAIN back /\ x \in Settled
    <3> DEFINE d == EntryOf(r, x, back[x], FALSE)
    <3>1. d \in added /\ d.id = x /\ \A h \in added : h.id = x => h = d
      BY <1>7, <2>2 DEF EntryOf
    <3> HIDE DEF d
    <3>2. HistoryOf(x)' = HistoryOf(x) \cup {d}
      BY <1>10, <3>1 DEF HistoryOf
    <3>3. Adds(r, x, back[x], FALSE)
      BY <1>10, <2>2, <3>2 DEF Adds, d
    <3>4. HistoryOf(x) # {} /\ Newest(HistoryOf(x)).row = back[x]
      <4>1. CASE x = y
        BY <1>1, <1>2, <1>4, <2>2, <4>1 DEF AgreeInv, Knows
      <4>2. CASE x # y
        <5>1. x \in Restorable(y) /\ back[x] = Newest(HistoryUnder(x, y)).row
          BY <1>4, <2>2, <4>2
        <5>2. Versions(x)
          BY <2>2 DEF AgreeInv
        <5> QED BY <1>1, <1>2, <5>1, <5>2, NewestUnder
      <4> QED BY <4>1, <4>2
    <3>5. CarriesOn(r, x, back[x])
      BY <1>2, <3>4 DEF CarriesOn
    <3> QED BY <1>3, <1>4, <1>5, <2>2, <3>3, <3>5 DEF Grows
  <2> QED BY <1>3, <1>4, <2>1, <2>2
<1> QED BY <1>6, <1>9, <1>10

----------------------------------------------------------------------------
(***************************************************************************)
(* Steps that commit, and steps that do not.                                *)
(***************************************************************************)
Commit(r) ==
  /\ pc[r] \in InTransaction /\ pc' = [pc EXCEPT ![r] = "done"]
  /\ \A q \in Requests \ {r} : outcome'[q] = outcome[q]
  /\ UNCHANGED <<call, clock, stamp, saved, found, kids, contended>>

LEMMA Commits ==
  ASSUME TypeOK, NEW r \in Requests, Write(r) \/ Remove(r) \/ Restore(r)
  PROVE  Commit(r)
<1>1. CASE Write(r)
  BY <1>1 DEF Write, Commit, InTransaction, End, Goto, TypeOK
<1>2. CASE Remove(r)
  BY <1>2 DEF Remove, Commit, InTransaction, End, Goto, TypeOK
<1>3. CASE Restore(r)
  BY <1>3 DEF Restore, Commit, InTransaction, End, Goto, TypeOK
<1> QED BY <1>1, <1>2, <1>3

\* r goes on, and only what it has read changes.
Reads(r) ==
  /\ pc[r] \notin {"idle", "done"}
  /\ \A q \in Requests \ {r} :
       pc'[q] = pc[q] /\ stamp'[q] = stamp[q] /\ saved'[q] = saved[q] /\ found'[q] = found[q] /\ kids'[q] = kids[q]
  /\ pc'[r] # "idle"
  /\ UNCHANGED <<tables, call, outcome, contended>>

LEMMA ReadingSteps ==
  ASSUME TypeOK, NEW r \in Requests,
         InsertBegin(r) \/ ReadRow(r) \/ ReadHistory(r) \/ CheckExisting(r) \/ CopyChildren(r)
  PROVE  Reads(r)
<1>1. CASE InsertBegin(r)
  BY <1>1 DEF InsertBegin, At, BeginTx, Reads, Goto, TypeOK
<1>2. CASE ReadRow(r)
  BY <1>2 DEF ReadRow, BeginTx, Reads, Goto, TypeOK
<1>3. CASE ReadHistory(r)
  BY <1>3 DEF ReadHistory, At, BeginTx, Reads, Goto, TypeOK
<1>4. CASE CheckExisting(r)
  BY <1>4 DEF CheckExisting, Reads, Goto, TypeOK
<1>5. CASE CopyChildren(r)
  BY <1>5 DEF CopyChildren, Reads, Goto, TypeOK
<1> QED BY <1>1, <1>2, <1>3, <1>4, <1>5

----------------------------------------------------------------------------
(***************************************************************************)
(* Parents fit, and steps are those of the operation.                       *)
(***************************************************************************)
LEMMA FirstVersions ==
  ASSUME Init
  PROVE  \A h \in history :
           h.at = 0 /\ h.id \in Ids /\ rows[h.id] # None /\ h.row = rows[h.id] /\ ~h.gone
<1>1. ASSUME NEW h \in history
      PROVE  h.at = 0 /\ h.id \in Ids /\ rows[h.id] # None /\ h.row = rows[h.id] /\ ~h.gone
  <2>1. history = {[id |-> x, at |-> 0, row |-> rows[x], gone |-> FALSE] :
                     x \in {y \in Ids : rows[y] # None}}
    BY DEF Init
  <2>2. PICK x \in {y \in Ids : rows[y] # None} :
          h = [id |-> x, at |-> 0, row |-> rows[x], gone |-> FALSE]
    BY <2>1
  <2> QED BY <2>2
<1> QED BY <1>1

LEMMA FitInit == Init => FitInv
<1> SUFFICES ASSUME Init PROVE FitInv
  OBVIOUS
<1>1. \A h \in history :
        h.at = 0 /\ h.id \in Ids /\ rows[h.id] # None /\ h.row = rows[h.id] /\ ~h.gone
  BY FirstVersions
<1>2. RowsFit
  BY IdsAssumption DEF Init, RowsFit, Fits, Ids
<1>3. HistoryFits
  BY <1>1, <1>2 DEF HistoryFits, RowsFit
<1>4. Past
  BY <1>1 DEF Past, Init
<1>5. SavedFits /\ AsksFit /\ KidsFit /\ OwnSteps
  BY DEF Init, SavedFits, AsksFit, KidsFit, OwnSteps, InTransaction, Active
<1> QED BY <1>2, <1>3, <1>4, <1>5 DEF FitInv

\* A commit keeps the fit of what it writes.
LEMMA CommitFits ==
  ASSUME TypeOK, FitInv, NEW r \in Requests, Commit(r), RowsFit', HistoryFits', Past'
  PROVE  FitInv'
<1>1. SavedFits'
  BY DEF Commit, FitInv, SavedFits, InTransaction, TypeOK, Fits
<1>2. AsksFit'
  BY DEF Commit, FitInv, AsksFit, Active, TypeOK
<1>3. KidsFit'
  BY DEF Commit, FitInv, KidsFit, TypeOK, Fits, Concerns
<1>4. OwnSteps'
  BY DEF Commit, FitInv, OwnSteps, TypeOK, InTransaction
<1> QED BY <1>1, <1>2, <1>3, <1>4 DEF FitInv

LEMMA WriteFits ==
  ASSUME IInv, FitInv, NEW r \in Requests, Write(r)
  PROVE  RowsFit' /\ HistoryFits' /\ Past'
<1> DEFINE e == EntryOf(r, call[r].id, Written(r), FALSE)
<1>1. TypeOK /\ pc[r] = "write" /\ call[r] \in Call /\ call[r].id \in Ids
  BY CallFields DEF IInv, TypeOK, Write
<1>2. call[r].op \in {"insert", "patch"} /\ r \in Active
  BY <1>1 DEF FitInv, OwnSteps, Active
<1>3. Fits(call[r].id, Written(r))
  <2>1. Fits(call[r].id, saved[r])
    BY <1>1 DEF FitInv, SavedFits, InTransaction
  <2>2. call[r].id \in Blocks /\ call[r].parent # None => call[r].parent \in Parents[call[r].id]
    BY <1>2 DEF FitInv, AsksFit
  <2> QED BY <2>1, <2>2 DEF Fits, Written
<1>4. e.at = stamp[r] /\ stamp[r] <= clock /\ e.id = call[r].id /\ e.row = Written(r)
  BY <1>1, ClockBound DEF EntryOf, TypeOK
<1>5. clock' = clock
  BY DEF Write
<1>6. /\ \A x \in Ids : rows'[x] = rows[x] \/ (x = call[r].id /\ rows'[x] = Written(r))
      /\ history' = history \/ history' = history \cup {e}
  <2>1. \/ rows' = rows /\ history' = history
        \/ /\ rows' \in {rows, [rows EXCEPT ![call[r].id] = Written(r)]}
           /\ history' = history \cup {e}
    BY DEF Write, tables
  <2>2. rows \in [Ids -> Row \cup {None}]
    BY <1>1 DEF TypeOK
  <2> QED BY <2>1, <2>2
<1> HIDE DEF e
<1>7. RowsFit'
  BY <1>3, <1>6 DEF RowsFit, FitInv, Fits
<1>8. HistoryFits'
  BY <1>3, <1>4, <1>6 DEF HistoryFits, FitInv, Fits
<1>9. Past'
  BY <1>4, <1>5, <1>6 DEF Past, FitInv
<1> QED BY <1>7, <1>8, <1>9

LEMMA RemoveFits ==
  ASSUME IInv, FitInv, NEW r \in Requests, Remove(r)
  PROVE  RowsFit' /\ HistoryFits' /\ Past'
<1> DEFINE e == EntryOf(r, call[r].id, saved[r], TRUE)
<1>1. TypeOK /\ pc[r] = "remove"
  BY DEF IInv, Remove
<1>2. Fits(call[r].id, saved[r])
  BY <1>1 DEF FitInv, SavedFits, InTransaction
<1>3. e.at = stamp[r] /\ stamp[r] <= clock /\ e.id = call[r].id /\ e.row = saved[r]
  BY <1>1, ClockBound DEF EntryOf, TypeOK
<1>4. \A k \in kids[r] : k.at = stamp[r] /\ Fits(k.id, k.row)
  BY <1>1 DEF FitInv, KidsFit
<1>5. /\ clock' = clock /\ \A x \in Ids : rows'[x] \in {None, rows[x]}
      /\ history' = history \cup {e} \cup kids[r]
  BY DEF Remove
<1> HIDE DEF e
<1>6. RowsFit'
  BY <1>5 DEF RowsFit, FitInv, Fits
<1>7. HistoryFits'
  BY <1>2, <1>3, <1>4, <1>5 DEF HistoryFits, FitInv, Fits
<1>8. Past'
  BY <1>3, <1>4, <1>5 DEF Past, FitInv
<1> QED BY <1>6, <1>7, <1>8

LEMMA RestoreFits ==
  ASSUME IInv, FitInv, NEW r \in Requests, Restore(r)
  PROVE  RowsFit' /\ HistoryFits' /\ Past'
<1> DEFINE y == call[r].id
           back == Restored(r, y)
           added == {EntryOf(r, c, back[c], FALSE) : c \in DOMAIN back}
<1>1. TypeOK /\ pc[r] = "restore" /\ stamp[r] <= clock
  BY ClockBound DEF IInv, Restore, TypeOK
<1>2. \A c \in DOMAIN back : Fits(c, back[c])
  <2>1. DOMAIN back = Restorable(y) \cup {y} /\ back[y] = saved[r]
        /\ \A c \in Restorable(y) \ {y} : back[c] = Newest(HistoryUnder(c, y)).row
    BY DEF Restored
  <2>2. Fits(y, saved[r])
    BY <1>1 DEF FitInv, SavedFits, InTransaction
  <2>3. ASSUME NEW c \in Restorable(y) PROVE Fits(c, Newest(HistoryUnder(c, y)).row)
    <3>1. HistoryUnder(c, y) # {} /\ HistoryUnder(c, y) \in SUBSET Entry
      BY <1>1, <2>3 DEF Restorable, HistoryUnder, HistoryOf, TypeOK
    <3>2. Newest(HistoryUnder(c, y)) \in HistoryUnder(c, y)
      BY <3>1, NewestIsOne
    <3>3. Newest(HistoryUnder(c, y)) \in history /\ Newest(HistoryUnder(c, y)).id = c
      BY <3>2 DEF HistoryUnder, HistoryOf
    <3> QED BY <3>3 DEF FitInv, HistoryFits
  <2> HIDE DEF back
  <2> QED BY <2>1, <2>2, <2>3
<1>3. \A h \in added : \E c \in DOMAIN back : h.id = c /\ h.row = back[c] /\ h.at = stamp[r]
  BY DEF EntryOf
<1>4. /\ clock' = clock
      /\ \/ UNCHANGED tables
         \/ /\ rows' = [z \in Ids |-> IF z \in DOMAIN back THEN back[z] ELSE rows[z]]
            /\ history' = history \cup added
  BY DEF Restore
<1> HIDE DEF back, added
<1>5. RowsFit'
  BY <1>2, <1>4 DEF RowsFit, FitInv, Fits, tables
<1>6. HistoryFits'
  BY <1>2, <1>3, <1>4 DEF HistoryFits, FitInv, Fits, tables
<1>7. Past'
  BY <1>1, <1>3, <1>4 DEF Past, FitInv, tables
<1> QED BY <1>5, <1>6, <1>7

\* What r reads fits.
LEMMA ReadsFit ==
  ASSUME IInv, FitInv, NEW r \in Requests, Reads(r), clock <= clock', clock' \in Nat,
         pc'[r] \in InTransaction => Fits(call[r].id, saved'[r]),
         pc'[r] = "remove" =>
           \A k \in kids'[r] : k.id \in Concerns(call[r]) /\ k.at = stamp'[r] /\ Fits(k.id, k.row),
         pc'[r] \in {"check", "write"} => call[r].op \in {"insert", "patch"},
         pc'[r] \in {"select", "remove"} => call[r].op = "delete",
         pc'[r] = "restore" => call[r].op = "undelete"
  PROVE  FitInv'
<1>1. TypeOK
  BY DEF IInv
<1>2. RowsFit' /\ HistoryFits'
  BY DEF Reads, tables, FitInv, RowsFit, HistoryFits, Fits
<1>3. SavedFits'
  BY DEF Reads, FitInv, SavedFits, Fits
<1>4. AsksFit'
  BY DEF Reads, FitInv, AsksFit, Active
<1>5. KidsFit'
  BY ZenonT(60) DEF Reads, FitInv, KidsFit, Fits, Concerns
<1>6. OwnSteps'
  BY DEF Reads, FitInv, OwnSteps
<1>7. Past'
  <2>1. \A h \in history : h.at \in Nat
    BY <1>1, HistoryType DEF HistoryOf
  <2>2. clock \in Nat
    BY <1>1, ClockBound
  <2> QED BY <2>1, <2>2 DEF Reads, tables, FitInv, Past
<1> QED BY <1>2, <1>3, <1>4, <1>5, <1>6, <1>7 DEF FitInv

LEMMA FitStep == IInv /\ FitInv /\ [Next]_vars => FitInv'
<1> SUFFICES ASSUME IInv, FitInv, [Next]_vars PROVE FitInv'
  OBVIOUS
<1>0. TypeOK /\ clock \in Nat
  BY ClockBound DEF IInv
<1>1. ASSUME NEW r \in Requests, NEW c \in Call, Begin(r, c) PROVE FitInv'
  <2>1. /\ pc[r] = "idle" /\ pc'[r] \in {"begin", "done"} /\ call'[r] = c
        /\ \A q \in Requests \ {r} : pc'[q] = pc[q] /\ call'[q] = call[q]
        /\ UNCHANGED <<tables, clock, stamp, saved, found, kids, outcome>>
    BY <1>0, <1>1 DEF Begin, Goto, TypeOK
  <2>2. /\ c.id \in Blocks /\ c.op \in {"insert", "patch"} /\ c.parent # None => c.parent \in Parents[c.id]
        /\ c.op = "insert" => c.id \in Blocks /\ c.parent # None
    BY <1>1 DEF Begin
  <2>3. RowsFit' /\ HistoryFits' /\ Past'
    BY <2>1 DEF tables, FitInv, RowsFit, HistoryFits, Fits, Past
  <2>4. SavedFits'
    BY <2>1 DEF FitInv, SavedFits, Fits, InTransaction
  <2>5. AsksFit'
    BY <2>1, <2>2 DEF FitInv, AsksFit, Active
  <2>6. KidsFit'
    BY <2>1 DEF FitInv, KidsFit, Fits, Concerns
  <2>7. OwnSteps'
    BY <2>1 DEF FitInv, OwnSteps
  <2> QED BY <2>3, <2>4, <2>5, <2>6, <2>7 DEF FitInv
<1>2. ASSUME NEW r \in Requests, InsertBegin(r) PROVE FitInv'
  <2>1. /\ pc[r] = "begin" /\ pc'[r] = "check" /\ call[r].op = "insert" /\ clock' = clock + 1
        /\ saved'[r] = [parent |-> call[r].parent, edits |-> {}]
    BY <1>0, <1>2 DEF InsertBegin, At, BeginTx, Goto, TypeOK
  <2>2. Fits(call[r].id, saved'[r])
    BY <2>1 DEF FitInv, AsksFit, Active, Fits
  <2> QED BY <1>0, <1>2, <2>1, <2>2, ReadingSteps, ReadsFit
<1>3. ASSUME NEW r \in Requests, ReadRow(r) PROVE FitInv'
  <2>1. /\ pc[r] = "begin" /\ clock' = clock + 1 /\ saved'[r] = rows[call[r].id]
        /\ pc'[r] \in {"done", "check", "select"} /\ (pc'[r] # "done" => rows[call[r].id] # None)
        /\ (pc'[r] = "check" => call[r].op = "patch") /\ (pc'[r] = "select" => call[r].op = "delete")
    BY <1>0, <1>3 DEF ReadRow, BeginTx, Goto, TypeOK
  <2>2. call[r].id \in Ids
    BY <1>0, <2>1, CallFields DEF TypeOK
  <2>3. pc'[r] \in InTransaction => Fits(call[r].id, saved'[r])
    BY <2>1, <2>2 DEF FitInv, RowsFit, InTransaction
  <2> QED BY <1>0, <1>3, <2>1, <2>3, ReadingSteps, ReadsFit
<1>4. ASSUME NEW r \in Requests, ReadHistory(r) PROVE FitInv'
  <2> DEFINE last == Newest(HistoryOf(call[r].id))
  <2>1. /\ pc[r] = "begin" /\ call[r].op = "undelete" /\ clock' = clock + 1 /\ saved'[r] = last.row
        /\ pc'[r] \in {"done", "restore"}
    BY <1>0, <1>4 DEF ReadHistory, At, BeginTx, Goto, TypeOK
  <2>2. HistoryOf(call[r].id) # {} /\ HistoryOf(call[r].id) \in SUBSET Entry
    BY <1>0, <2>1, HistoryType DEF IInv, KnownHistory
  <2>3. last \in HistoryOf(call[r].id)
    BY <2>2, NewestIsOne
  <2>4. Fits(call[r].id, saved'[r])
    BY <2>1, <2>3 DEF FitInv, HistoryFits, HistoryOf
  <2> HIDE DEF last
  <2> QED BY <1>0, <1>4, <2>1, <2>4, ReadingSteps, ReadsFit
<1>5. ASSUME NEW r \in Requests, CheckExisting(r) PROVE FitInv'
  <2>1. pc[r] = "check" /\ pc'[r] = "write" /\ saved'[r] = saved[r] /\ clock' = clock
    BY <1>0, <1>5 DEF CheckExisting, Goto, TypeOK
  <2>2. Fits(call[r].id, saved'[r]) /\ call[r].op \in {"insert", "patch"}
    BY <2>1 DEF FitInv, SavedFits, InTransaction, OwnSteps
  <2> QED BY <1>0, <1>5, <2>1, <2>2, ReadingSteps, ReadsFit
<1>6. ASSUME NEW r \in Requests, CopyChildren(r) PROVE FitInv'
  <2> DEFINE K == {EntryOf(r, c, rows[c], TRUE) : c \in Children(call[r].id) \ {call[r].id}}
  <2>1. /\ pc[r] = "select" /\ pc'[r] = "remove" /\ saved'[r] = saved[r] /\ clock' = clock /\ stamp' = stamp
        /\ kids'[r] = K
    BY <1>0, <1>6 DEF CopyChildren, Goto, TypeOK
  <2>2. Fits(call[r].id, saved'[r]) /\ call[r].op = "delete"
    BY <2>1 DEF FitInv, SavedFits, InTransaction, OwnSteps
  <2>3. call[r] \in Call
    BY <1>0, <2>1 DEF TypeOK
  <2>4. Children(call[r].id) \subseteq Concerns(call[r])
    BY <1>0, <2>2, <2>3, ChildrenConcerned DEF FitInv
  <2>5. \A c \in Children(call[r].id) : Fits(c, rows[c])
    BY DEF FitInv, RowsFit, Children, Ids
  <2>6. \A k \in K : k.id \in Concerns(call[r]) /\ k.at = stamp[r] /\ Fits(k.id, k.row)
    BY <2>4, <2>5 DEF EntryOf
  <2> HIDE DEF K
  <2> QED BY <1>0, <1>6, <2>1, <2>2, <2>6, ReadingSteps, ReadsFit
<1>7. ASSUME NEW r \in Requests, Write(r) PROVE FitInv'
  BY <1>0, <1>7, Commits, WriteFits, CommitFits
<1>8. ASSUME NEW r \in Requests, Remove(r) PROVE FitInv'
  BY <1>0, <1>8, Commits, RemoveFits, CommitFits
<1>9. ASSUME NEW r \in Requests, Restore(r) PROVE FitInv'
  BY <1>0, <1>9, Commits, RestoreFits, CommitFits
<1>10. CASE UNCHANGED vars
  BY <1>10 DEF vars, FitInv, RowsFit, HistoryFits, SavedFits, AsksFit, KidsFit, OwnSteps, Past, Active, Fits, Concerns
<1> QED
  BY <1>1, <1>2, <1>3, <1>4, <1>5, <1>6, <1>7, <1>8, <1>9, <1>10 DEF Next

----------------------------------------------------------------------------
(***************************************************************************)
(* What requests know of settled ids stays true.                            *)
(***************************************************************************)
LEMMA AgreeInit == Init => AgreeInv
<1> SUFFICES ASSUME Init PROVE AgreeInv
  OBVIOUS
<1>1. TypeOK
  BY IInvInit DEF IInv
<1>2. /\ \A r \in Requests : pc[r] = "idle"
      /\ Active = {}
  BY DEF Init, Active
<1>3. \A r \in Requests : Later(r) /\ Knows(r) /\ KnowsChildren(r)
  BY <1>2 DEF Later, Knows, KnowsChildren, InTransaction
<1>4. ASSUME NEW x \in Ids PROVE Versions(x) /\ HasEdits(x)
  <2>1. \A h \in HistoryOf(x) : h.at = 0 /\ rows[x] # None /\ h.row = rows[x] /\ ~h.gone /\ h.id = x
    BY FirstVersions DEF HistoryOf
  <2>2. \A h, k \in HistoryOf(x) : h = k
    <3>1. HistoryOf(x) \in SUBSET Entry
      BY <1>1, HistoryType
    <3> QED BY <2>1, <3>1 DEF Entry
  <2>3. HistoryOf(x) # {} => Newest(HistoryOf(x)) \in HistoryOf(x)
    BY <1>1, HistoryType, NewestIsOne
  <2>4. Versions(x)
    BY <2>1, <2>2, <2>3 DEF Versions
  <2> QED BY <1>2, <2>4 DEF HasEdits
<1> QED BY <1>2, <1>3, <1>4 DEF AgreeInv, Apart, Settled

LEMMA BeginAgrees ==
  ASSUME IInv, FitInv, AgreeInv, NEW r \in Requests, NEW c \in Call, Begin(r, c)
  PROVE  AgreeInv'
<1>0. TypeOK
  BY DEF IInv
<1>1. /\ pc[r] = "idle" /\ pc'[r] \in {"begin", "done"} /\ call'[r] = c
      /\ \A q \in Requests \ {r} : pc'[q] = pc[q] /\ call'[q] = call[q]
      /\ rows' = rows /\ history' = history /\ stamp' = stamp /\ saved' = saved
      /\ found' = found /\ kids' = kids /\ outcome' = outcome
  BY <1>0 DEF Begin, Goto, TypeOK, tables
<1>2. /\ c.op = "insert" => HistoryOf(c.id) = {}
      /\ \A q \in Active : Concerns(c) \cap Concerns(call[q]) \subseteq contended'
      /\ contended \subseteq contended'
  BY DEF Begin, Fresh
<1>3. Settled' \subseteq Settled /\ \A x : HistoryOf(x)' = HistoryOf(x)
  BY <1>1, <1>2 DEF Settled, HistoryOf
<1>4. Apart'
  <2>1. \A q \in Active' : q = r \/ q \in Active
    BY <1>1 DEF Active
  <2>2. \A x \in Settled' : x \notin contended'
    BY DEF Settled
  <2> SUFFICES ASSUME NEW p \in Active', NEW q \in Active', p # q
               PROVE  (Concerns(call[p]) \cap Concerns(call[q]) \cap Settled)' = {}
    BY DEF Apart
  <2>3. p \in Requests /\ q \in Requests
    BY DEF Active
  <2>4. CASE p # r /\ q # r
    BY <2>1, <2>3, <2>4, <1>1, <1>3 DEF AgreeInv, Apart, Concerns
  <2>5. CASE p = r
    <3>1. q \in Active /\ call'[q] = call[q] /\ call'[p] = c
      BY <2>1, <2>3, <2>5, <1>1
    <3>2. Concerns(c) \cap Concerns(call[q]) \subseteq contended'
      BY <1>2, <3>1
    <3> QED BY <2>2, <3>1, <3>2 DEF Concerns
  <2>6. CASE q = r
    <3>1. p \in Active /\ call'[p] = call[p] /\ call'[q] = c
      BY <2>1, <2>3, <2>6, <1>1
    <3>2. Concerns(c) \cap Concerns(call[p]) \subseteq contended'
      BY <1>2, <3>1
    <3> QED BY <2>2, <3>1, <3>2 DEF Concerns
  <2> QED BY <2>4, <2>5, <2>6
<1>5. ASSUME NEW q \in Requests PROVE (Later(q) /\ Knows(q) /\ KnowsChildren(q))'
  <2>1. CASE q = r
    <3>1. Later(q)' /\ KnowsChildren(q)'
      BY <2>1, <1>1 DEF Later, KnowsChildren, InTransaction
    <3>2. Knows(q)'
      BY <2>1, <1>1, <1>2, <1>3 DEF Knows
    <3> QED BY <3>1, <3>2
  <2>2. CASE q # r
    <3>1. Later(q)'
      BY <2>2, <1>1, <1>3 DEF AgreeInv, Later, InTransaction, Concerns
    <3>2. Knows(q)'
      BY <2>2, <1>1, <1>3 DEF AgreeInv, Knows
    <3>3. KnowsChildren(q)'
      BY <2>2, <1>1, <1>3 DEF AgreeInv, KnowsChildren, Children, EntryOf
    <3> QED BY <3>1, <3>2, <3>3
  <2> QED BY <2>1, <2>2
<1>6. ASSUME NEW x \in Settled' PROVE (Versions(x) /\ HasEdits(x))'
  <2>1. Versions(x) /\ HasEdits(x)
    BY <1>3 DEF AgreeInv
  <2>2. Versions(x)'
    BY <2>1, <1>1, <1>3 DEF Versions
  <2>3. outcome[r] # "ok"
    BY <1>1 DEF FitInv, OwnSteps
  <2>4. HasEdits(x)'
    BY <2>1, <2>3, <1>1, <1>3 DEF HasEdits
  <2> QED BY <2>2, <2>4
<1> QED BY <1>4, <1>5, <1>6 DEF AgreeInv

\* A request that reads leaves to others what they know.
LEMMA ReadsAgree ==
  ASSUME IInv, FitInv, AgreeInv, NEW r \in Requests, Reads(r),
         (Later(r) /\ Knows(r) /\ KnowsChildren(r))'
  PROVE  AgreeInv'
<1>1. /\ pc[r] \notin {"idle", "done"}
      /\ \A q \in Requests \ {r} : pc'[q] = pc[q] /\ stamp'[q] = stamp[q] /\ saved'[q] = saved[q]
                                  /\ found'[q] = found[q] /\ kids'[q] = kids[q]
      /\ rows' = rows /\ history' = history /\ call' = call /\ outcome' = outcome
      /\ contended' = contended
  BY DEF Reads, tables
<1>2. Settled' = Settled /\ \A x : HistoryOf(x)' = HistoryOf(x)
  BY <1>1 DEF Settled, HistoryOf
<1>3. Apart'
  <2>1. Active' \subseteq Active
    BY <1>1 DEF Active
  <2> QED BY <2>1, <1>1, <1>2 DEF AgreeInv, Apart, Concerns
<1>4. ASSUME NEW q \in Requests, q # r PROVE (Later(q) /\ Knows(q) /\ KnowsChildren(q))'
  <2>1. Later(q)'
    BY <1>1, <1>2, <1>4 DEF AgreeInv, Later, InTransaction, Concerns
  <2>2. Knows(q)'
    BY <1>1, <1>2, <1>4 DEF AgreeInv, Knows
  <2>3. KnowsChildren(q)'
    BY <1>1, <1>2, <1>4 DEF AgreeInv, KnowsChildren, Children, EntryOf
  <2> QED BY <2>1, <2>2, <2>3
<1>5. ASSUME NEW x \in Settled' PROVE (Versions(x) /\ HasEdits(x))'
  <2>1. Versions(x) /\ HasEdits(x)
    BY <1>2 DEF AgreeInv
  <2>2. Versions(x)'
    BY <2>1, <1>1, <1>2 DEF Versions
  <2>3. outcome[r] # "ok"
    BY <1>1 DEF FitInv, OwnSteps
  <2>4. HasEdits(x)'
    BY <2>1, <2>3, <1>1, <1>2 DEF HasEdits
  <2> QED BY <2>2, <2>4
<1> QED BY <1>3, <1>4, <1>5 DEF AgreeInv

\* A transaction that begins is younger than all versions.
LEMMA BeginsLater ==
  ASSUME IInv, FitInv, NEW r \in Requests, BeginTx(r), history' = history
  PROVE  Later(r)'
<1>1. TypeOK /\ clock \in Nat
  BY ClockBound DEF IInv
<1>2. stamp'[r] = clock + 1
  BY <1>1 DEF BeginTx, TypeOK
<1>3. \A h \in history : h.at \in Nat /\ h.at <= clock
  BY <1>1, HistoryType DEF HistoryOf, FitInv, Past
<1>4. \A h \in history : h.at < stamp'[r]
  BY <1>1, <1>2, <1>3
<1> QED BY <1>4 DEF Later, HistoryOf

\* The requests that read.
LEMMA ReadingAgrees ==
  ASSUME IInv, FitInv, AgreeInv, NEW r \in Requests,
         InsertBegin(r) \/ ReadRow(r) \/ ReadHistory(r) \/ CheckExisting(r) \/ CopyChildren(r)
  PROVE  AgreeInv'
<1>0. TypeOK /\ Reads(r)
  BY ReadingSteps DEF IInv
<1>1. /\ rows' = rows /\ history' = history /\ call' = call
      /\ Settled' = Settled /\ \A x : HistoryOf(x)' = HistoryOf(x)
  BY <1>0 DEF Reads, tables, Settled, HistoryOf
<1>2. Later(r) /\ Knows(r)
  BY DEF AgreeInv
<1>3. CASE InsertBegin(r)
  <2>1. pc[r] = "begin" /\ pc'[r] = "check" /\ call[r].op = "insert" /\ BeginTx(r)
    BY <1>0, <1>3 DEF InsertBegin, At, Goto, TypeOK
  <2>2. Later(r)'
    BY <1>1, <2>1, BeginsLater
  <2>3. Knows(r)' /\ KnowsChildren(r)'
    BY <1>1, <1>2, <2>1 DEF Knows, KnowsChildren
  <2> QED BY <1>0, <2>2, <2>3, ReadsAgree
<1>4. CASE ReadRow(r)
  <2>1. /\ pc[r] = "begin" /\ pc'[r] \in {"done", "check", "select"} /\ BeginTx(r)
        /\ call[r].op \in {"patch", "delete"} /\ saved'[r] = rows[call[r].id]
    BY <1>0, <1>4 DEF ReadRow, Goto, TypeOK
  <2>2. Later(r)'
    BY <1>1, <2>1, BeginsLater
  <2>3. Knows(r)' /\ KnowsChildren(r)'
    BY <1>1, <2>1 DEF Knows, KnowsChildren
  <2> QED BY <1>0, <2>2, <2>3, ReadsAgree
<1>5. CASE ReadHistory(r)
  <2>1. /\ pc[r] = "begin" /\ BeginTx(r) /\ call[r].op = "undelete"
        /\ \/ pc'[r] = "done"
           \/ pc'[r] = "restore" /\ Newest(HistoryOf(call[r].id)).gone
        /\ saved'[r] = Newest(HistoryOf(call[r].id)).row
    BY <1>0, <1>5 DEF ReadHistory, At, Goto, TypeOK
  <2>2. HistoryOf(call[r].id) # {}
    BY <2>1 DEF IInv, KnownHistory
  <2>3. Later(r)'
    BY <1>1, <2>1, BeginsLater
  <2>4. Knows(r)' /\ KnowsChildren(r)'
    BY <1>1, <2>1, <2>2 DEF Knows, KnowsChildren
  <2> QED BY <1>0, <2>3, <2>4, ReadsAgree
<1>6. CASE CheckExisting(r)
  <2>1. /\ pc[r] = "check" /\ pc'[r] = "write" /\ stamp' = stamp /\ saved' = saved
        /\ found'[r] = (rows[call[r].id] # None)
    BY <1>0, <1>6 DEF CheckExisting, Goto, TypeOK
  <2>2. Later(r)'
    BY <1>1, <1>2, <2>1 DEF Later, InTransaction, Concerns
  <2>3. Knows(r)'
    BY <1>1, <1>2, <2>1 DEF Knows
  <2>4. KnowsChildren(r)'
    BY <2>1 DEF KnowsChildren
  <2> QED BY <1>0, <2>2, <2>3, <2>4, ReadsAgree
<1>7. CASE CopyChildren(r)
  <2>1. /\ pc[r] = "select" /\ pc'[r] = "remove" /\ stamp' = stamp /\ saved' = saved
        /\ kids'[r] = {EntryOf(r, c, rows[c], TRUE) : c \in Children(call[r].id) \ {call[r].id}}
    BY <1>0, <1>7 DEF CopyChildren, Goto, TypeOK
  <2>2. Later(r)'
    BY <1>1, <1>2, <2>1 DEF Later, InTransaction, Concerns
  <2>3. Knows(r)'
    BY <1>1, <1>2, <2>1 DEF Knows
  <2>4. KnowsChildren(r)'
    <3> SUFFICES ASSUME NEW c \in Settled
                 PROVE  /\ c \in Children(call[r].id) \ {call[r].id} =>
                             EntryOf(r, c, rows[c], TRUE) \in kids'[r]
                        /\ \A k \in kids'[r] :
                             k.id = c => /\ c \in Children(call[r].id) \ {call[r].id}
                                         /\ k = EntryOf(r, c, rows[c], TRUE)
      BY <1>1, <2>1 DEF KnowsChildren, Children, EntryOf
    <3> DEFINE E(d) == EntryOf(r, d, rows[d], TRUE)
               C == Children(call[r].id) \ {call[r].id}
    <3>1. \A d : E(d).id = d
      BY DEF EntryOf
    <3>2. kids'[r] = {E(d) : d \in C}
      BY <2>1
    <3> HIDE DEF E, C
    <3>3. c \in C => E(c) \in kids'[r]
      BY <3>2
    <3>4. ASSUME NEW k \in kids'[r], k.id = c PROVE c \in C /\ k = E(c)
      <4>1. PICK d \in C : k = E(d)
        BY <3>2
      <4> QED BY <3>1, <3>4, <4>1
    <3> QED BY <3>3, <3>4 DEF E, C
  <2> QED BY <1>0, <2>2, <2>3, <2>4, ReadsAgree
<1> QED BY <1>3, <1>4, <1>5, <1>6, <1>7

\* A commit touches no settled id of another request.
LEMMA CommitAgrees ==
  ASSUME IInv, IInv', FitInv, FitInv', AgreeInv, NEW r \in Requests, Commit(r),
         \A x \in Ids :
           /\ x \notin Concerns(call[r]) => Kept(r, x)
           /\ x \in Settled => Kept(r, x) \/ Grows(r, x)
  PROVE  AgreeInv'
<1>0. TypeOK /\ TypeOK'
  BY DEF IInv
<1>1. /\ pc[r] \in InTransaction /\ pc'[r] = "done" /\ r \in Active
      /\ \A q \in Requests \ {r} : pc'[q] = pc[q] /\ outcome'[q] = outcome[q]
      /\ call' = call /\ stamp' = stamp /\ saved' = saved /\ found' = found /\ kids' = kids
      /\ contended' = contended
  BY <1>0 DEF Commit, TypeOK, Active, InTransaction
<1>2. Settled' = Settled /\ Active' \subseteq Active
  BY <1>1 DEF Settled, Active
<1>3. Apart'
  BY <1>1, <1>2 DEF AgreeInv, Apart, Concerns
<1>4. (Later(r) /\ Knows(r) /\ KnowsChildren(r))'
  BY <1>1 DEF Later, Knows, KnowsChildren, InTransaction
<1>5. ASSUME NEW q \in Requests, q # r, q \in Active PROVE (Later(q) /\ Knows(q) /\ KnowsChildren(q))'
  <2>1. Later(q) /\ Knows(q) /\ KnowsChildren(q) /\ pc'[q] = pc[q]
    BY <1>1, <1>5 DEF AgreeInv
  <2>2. call[q] \in Call
    BY <1>0, <1>5 DEF TypeOK, Active
  <2>3. Concerns(call[q]) \subseteq Ids /\ call[q].id \in Concerns(call[q])
    BY <1>0, <2>2, ChildrenConcerned DEF FitInv
  <2>4. \A x \in Concerns(call[q]) \cap Settled : rows'[x] = rows[x] /\ HistoryOf(x)' = HistoryOf(x)
    <3> SUFFICES ASSUME NEW x \in Concerns(call[q]) \cap Settled
                 PROVE  rows'[x] = rows[x] /\ HistoryOf(x)' = HistoryOf(x)
      OBVIOUS
    <3>1. Concerns(call[r]) \cap Concerns(call[q]) \cap Settled = {}
      BY <1>1, <1>5 DEF AgreeInv, Apart
    <3>2. x \in Ids /\ x \notin Concerns(call[r])
      BY <2>3, <3>1
    <3>3. Kept(r, x)
      BY <3>2
    <3> QED BY <3>3 DEF Kept, Same
  <2>5. Later(q)'
    BY <1>1, <1>2, <2>1, <2>4 DEF Later, Concerns
  <2>6. Knows(q)'
    BY <1>1, <1>2, <2>1, <2>3, <2>4 DEF Knows
  <2>7. KnowsChildren(q)'
    <3> SUFFICES ASSUME pc[q] = "remove", NEW c \in Settled
                 PROVE  /\ c \in Children(call[q].id)' \ {call[q].id} =>
                             EntryOf(q, c, rows'[c], TRUE) \in kids[q]
                        /\ \A k \in kids[q] :
                             k.id = c => /\ c \in Children(call[q].id)' \ {call[q].id}
                                         /\ k = EntryOf(q, c, rows'[c], TRUE)
      BY <1>1, <1>2, <2>1 DEF KnowsChildren, EntryOf
    <3>1. call[q].op = "delete"
      BY DEF FitInv, OwnSteps
    <3>2. CASE c \in Concerns(call[q])
      <4>1. rows'[c] = rows[c]
        BY <2>4, <3>2
      <4>2. c \in Children(call[q].id)' <=> c \in Children(call[q].id)
        BY <1>1, <4>1 DEF Children
      <4> QED BY <2>1, <4>1, <4>2 DEF KnowsChildren
    <3>3. CASE c \notin Concerns(call[q])
      <4>1. \A k \in kids[q] : k.id # c
        BY <3>3 DEF FitInv, KidsFit
      <4>2. c \notin Children(call[q].id)'
        <5> SUFFICES ASSUME c \in Children(call[q].id)' PROVE FALSE
          OBVIOUS
        <5>1. c \in Blocks /\ rows'[c] # None /\ IsChild(rows'[c], call[q].id)
          BY <1>1 DEF Children
        <5>2. rows'[c].parent \in Parents[c]
          BY <5>1 DEF FitInv, RowsFit, Fits, Ids
        <5> QED BY <3>1, <3>3, <5>1, <5>2 DEF Concerns, IsChild, Ids
      <4> QED BY <4>1, <4>2
    <3> QED BY <3>2, <3>3
  <2> QED BY <2>5, <2>6, <2>7
<1>6. ASSUME NEW q \in Requests, q # r, q \notin Active PROVE (Later(q) /\ Knows(q) /\ KnowsChildren(q))'
  <2>1. pc'[q] \in {"idle", "done"}
    BY <1>1, <1>6 DEF Active
  <2> QED BY <2>1 DEF Later, Knows, KnowsChildren, InTransaction
<1>7. ASSUME NEW x \in Settled' PROVE (Versions(x) /\ HasEdits(x))'
  <2>1. x \in Settled /\ x \in Ids /\ Versions(x) /\ HasEdits(x)
    BY <1>2, <1>7 DEF AgreeInv, Settled
  <2>2. CASE Kept(r, x)
    BY <1>1, <2>1, <2>2, KeptAgrees
  <2>3. CASE ~Kept(r, x)
    <3>1. x \in Concerns(call[r]) /\ Grows(r, x)
      BY <2>1, <2>3
    <3>2. \A h \in HistoryOf(x) : h.at < stamp[r]
      BY <1>1, <2>1, <3>1 DEF AgreeInv, Later
    <3>3. PICK row \in Row, g \in BOOLEAN : Adds(r, x, row, g) /\ CarriesOn(r, x, row)
      BY <3>1 DEF Grows
    <3>4. Versions(x)'
      BY <1>0, <2>1, <3>2, <3>3, AddedVersion
    <3>5. HasEdits(x)'
      BY <1>0, <1>1, <2>1, <3>2, <3>3, AddedEdits
    <3> QED BY <3>4, <3>5
  <2> QED BY <2>2, <2>3
<1> QED BY <1>3, <1>4, <1>5, <1>6, <1>7 DEF AgreeInv

LEMMA AgreeStep ==
  IInv /\ IInv' /\ FitInv /\ FitInv' /\ AgreeInv /\ [Next]_vars => AgreeInv'
<1> SUFFICES ASSUME IInv, IInv', FitInv, FitInv', AgreeInv, [Next]_vars PROVE AgreeInv'
  OBVIOUS
<1>0. TypeOK
  BY DEF IInv
<1>1. ASSUME NEW r \in Requests, NEW c \in Call, Begin(r, c) PROVE AgreeInv'
  BY <1>1, BeginAgrees
<1>2. ASSUME NEW r \in Requests,
             InsertBegin(r) \/ ReadRow(r) \/ ReadHistory(r) \/ CheckExisting(r) \/ CopyChildren(r)
      PROVE  AgreeInv'
  BY <1>2, ReadingAgrees
<1>3. ASSUME NEW r \in Requests, Write(r) PROVE AgreeInv'
  BY <1>0, <1>3, Commits, WriteGrows, CommitAgrees
<1>4. ASSUME NEW r \in Requests, Remove(r) PROVE AgreeInv'
  BY <1>0, <1>4, Commits, RemoveGrows, CommitAgrees
<1>5. ASSUME NEW r \in Requests, Restore(r) PROVE AgreeInv'
  BY <1>0, <1>5, Commits, RestoreGrows, CommitAgrees
<1>6. CASE UNCHANGED vars
  BY <1>6 DEF vars, tables, AgreeInv, Apart, Later, Knows, KnowsChildren, Versions, HasEdits,
              Active, Settled, Concerns, Children, HistoryOf, EntryOf
<1> QED BY <1>1, <1>2, <1>3, <1>4, <1>5, <1>6 DEF Next

----------------------------------------------------------------------------
(***************************************************************************)
(* What follows.                                                            *)
(***************************************************************************)

\* An undeletion that finds a row concerns an id that is not settled.
LEMMA RefusedIsContended ==
  ASSUME IInv, FitInv, AgreeInv, NEW r \in Requests, Restore(r), outcome'[r] = "duplicate"
  PROVE  contended \cap Concerns(call[r]) # {}
<1> DEFINE y == call[r].id
<1>1. TypeOK /\ pc[r] = "restore" /\ call[r] \in Call
  BY DEF IInv, TypeOK, Restore
<1>2. call[r].op = "undelete" /\ y \in Ids
  BY <1>1, CallFields DEF FitInv, OwnSteps
<1>3. y \in Concerns(call[r]) /\ Restorable(y) \subseteq Concerns(call[r]) /\ Concerns(call[r]) \subseteq Ids
  BY <1>1, <1>2, ChildrenConcerned DEF FitInv
<1>4. PICK c \in Restorable(y) \cup {y} : rows[c] # None
  BY <1>1 DEF Restore, End, Restored, TypeOK
<1>5. SUFFICES ASSUME c \in Settled PROVE FALSE
  BY <1>3, <1>4 DEF Settled
<1>6. Versions(c)
  BY <1>5 DEF AgreeInv
<1>7. HistoryOf(c) # {} /\ Newest(HistoryOf(c)).gone
  <2>1. CASE c = y
    BY <1>1, <1>2, <1>5, <2>1 DEF AgreeInv, Knows
  <2>2. CASE c \in Restorable(y)
    BY <1>1, <1>2, <1>6, <2>2, NewestUnder
  <2> QED BY <1>4, <2>1, <2>2
<1> QED BY <1>4, <1>6, <1>7 DEF Versions

LEMMA UndeletesStep ==
  IInv /\ FitInv /\ AgreeInv /\ UndeleteSucceeds /\ [Next]_vars => UndeleteSucceeds'
<1> SUFFICES ASSUME IInv, FitInv, AgreeInv, UndeleteSucceeds, [Next]_vars,
                    NEW q \in Requests, outcome'[q] = "duplicate", call'[q].op = "undelete"
             PROVE  contended' \cap Concerns(call'[q]) # {}
  BY DEF UndeleteSucceeds, Concerns
<1>0. TypeOK
  BY DEF IInv
<1>1. ASSUME outcome'[q] = outcome[q], call'[q] = call[q], contended \subseteq contended'
      PROVE  contended' \cap Concerns(call'[q]) # {}
  BY <1>1 DEF UndeleteSucceeds
<1>2. ASSUME NEW r \in Requests, NEW c \in Call, Begin(r, c)
      PROVE  contended' \cap Concerns(call'[q]) # {}
  <2>1. pc[r] = "idle" /\ outcome' = outcome /\ contended \subseteq contended'
    BY <1>2 DEF Begin
  <2>2. q # r
    BY <2>1 DEF FitInv, OwnSteps
  <2>3. call'[q] = call[q]
    BY <1>0, <1>2, <2>2 DEF Begin, TypeOK
  <2> QED BY <1>1, <2>1, <2>3
<1>3. ASSUME NEW r \in Requests,
             InsertBegin(r) \/ ReadRow(r) \/ ReadHistory(r) \/ CheckExisting(r) \/ CopyChildren(r)
      PROVE  contended' \cap Concerns(call'[q]) # {}
  <2>1. Reads(r)
    BY <1>0, <1>3, ReadingSteps
  <2> QED BY <1>1, <2>1 DEF Reads
<1>4. ASSUME NEW r \in Requests, Write(r) \/ Remove(r) \/ Restore(r), q # r
      PROVE  contended' \cap Concerns(call'[q]) # {}
  BY <1>0, <1>1, <1>4, Commits DEF Commit
<1>5. CASE Write(q)
  BY <1>5 DEF Write, FitInv, OwnSteps
<1>6. CASE Remove(q)
  BY <1>0, <1>6 DEF Remove, FitInv, OwnSteps
<1>7. CASE Restore(q)
  BY <1>7, RefusedIsContended DEF Restore
<1>8. CASE UNCHANGED vars
  BY <1>1, <1>8 DEF vars
<1> QED BY <1>2, <1>3, <1>4, <1>5, <1>6, <1>7, <1>8 DEF Next

LEMMA WholeCorrect == Spec => [](IInv /\ FitInv /\ AgreeInv /\ UndeleteSucceeds)
<1>1. Init => IInv /\ FitInv /\ AgreeInv /\ UndeleteSucceeds
  <2>1. Init => UndeleteSucceeds
    BY DEF Init, UndeleteSucceeds
  <2> QED BY <2>1, IInvInit, FitInit, AgreeInit
<1>2. IInv /\ FitInv /\ AgreeInv /\ UndeleteSucceeds /\ [Next]_vars
        => (IInv /\ FitInv /\ AgreeInv /\ UndeleteSucceeds)'
  BY IInvStep, FitStep, AgreeStep, UndeletesStep
<1> QED BY <1>1, <1>2, PTL DEF Spec

(***************************************************************************)
(* The newest version of an id tells whether it exists and what it          *)
(* contains, whatever requests there were, unless overlapping ones          *)
(* concerned it: undeleteBlock and undeleteBlockChildren can rely on it.    *)
(***************************************************************************)
THEOREM HistoryIsRight == Spec => []HistoryAgrees
<1>1. AgreeInv => HistoryAgrees
  BY DEF AgreeInv, Versions, HistoryAgrees, Settled
<1> QED BY <1>1, WholeCorrect, PTL

(***************************************************************************)
(* What a patch wrote is there for as long as its block is, whatever moves, *)
(* deletions and undeletions follow, unless requests about it overlapped.   *)
(***************************************************************************)
THEOREM PatchesAreKept == Spec => []EditsKept
<1>1. ASSUME IInv, FitInv, AgreeInv, NEW r \in Requests, call[r] # None,
             call[r].op = "patch", outcome[r] = "ok", call[r].id \notin contended,
             rows[call[r].id] # None
      PROVE  r \in rows[call[r].id].edits
  <2>1. TypeOK /\ call[r] \in Call /\ pc[r] = "done"
    BY <1>1 DEF IInv, TypeOK, FitInv, OwnSteps
  <2>2. call[r].id \in Settled
    BY <1>1, <2>1, CallFields DEF Settled
  <2>3. HistoryOf(call[r].id) # {} /\ r \in Newest(HistoryOf(call[r].id)).row.edits
    BY <1>1, <2>1, <2>2 DEF AgreeInv, HasEdits
  <2>4. rows[call[r].id] = Newest(HistoryOf(call[r].id)).row
    BY <1>1, <2>1, <2>2, <2>3, RowIsNewest DEF AgreeInv, Settled
  <2> QED BY <2>3, <2>4
<1>2. IInv /\ FitInv /\ AgreeInv => EditsKept
  BY <1>1 DEF EditsKept
<1> QED BY <1>2, WholeCorrect, PTL

(***************************************************************************)
(* An undeletion that overlaps no other request never runs into a row that  *)
(* is there already, wherever its children have been before.                *)
(***************************************************************************)
THEOREM UndeletionsGoThrough == Spec => []UndeleteSucceeds
BY WholeCorrect, PTL

=============================================================================
