----------------------------- MODULE BlockStore -----------------------------
(***************************************************************************)
(* One board and its blocks in the database: the transactions of            *)
(* server/services/store/sqlstore/blocks.go and board.go that insert,       *)
(* patch, delete and undelete them, with the checks that server/app/        *)
(* blocks.go and boards.go make before they start one.                      *)
(*                                                                          *)
(* The tables boards and blocks hold what exists, the tables                *)
(* boards_history and blocks_history every version of it; a deletion moves  *)
(* the row to the history and an undeletion takes it back from there.       *)
(*                                                                          *)
(* Transactions run at the isolation level of PostgreSQL: each statement    *)
(* sees what is committed when it starts, what a transaction writes is seen *)
(* when it commits, and insert_at, the time by which the history is         *)
(* ordered, is the time the transaction began.                              *)
(***************************************************************************)
EXTENDS Naturals, FiniteSets

CONSTANTS
  Board, Blocks,
  Parents,    \* the ids that each block may have as its parent
  Requests,   \* the calls, of one operation each
  MaxActive,  \* bound: how many requests are under way at the same time
  None

Ids == Blocks \cup {Board}

ASSUME IdsAssumption == Board \notin Blocks /\ None \notin Ids
ASSUME ParentsAssumption == Parents \in [Blocks -> SUBSET Ids]
ASSUME RequestsAssumption == IsFiniteSet(Requests)
ASSUME MaxActiveAssumption == MaxActive \in Nat

\* A row: the parent, and the requests whose edits the other columns contain.
Row == [parent : Ids \cup {None}, edits : SUBSET Requests]
ASSUME RowAssumption == None \notin Row

\* A row of a history table; gone means a delete_at that is not zero.
Entry == [id : Ids, at : 0..Cardinality(Requests), row : Row, gone : BOOLEAN]

\* parent is the one that the request asks for, None if it does not say.
Call == [op : {"insert", "patch", "delete", "undelete"}, id : Ids, parent : Ids \cup {None}]
ASSUME CallAssumption == None \notin Call

VARIABLES
  rows,       \* the tables: the row of each id that exists
  history,    \* the history tables
  pc, call,   \* the step each request is at, and what it asks for
  clock,      \* the transactions that began
  stamp,      \* the time at which each transaction began
  saved,      \* the row a transaction read first
  found,      \* insertBlock found an existing block
  kids,       \* the rows that deleteBlockChildren copied to the history
  outcome,    \* how each request ended
  undo,       \* history: the last commit, if it was a deletion, and the tables before
  contended   \* history: the ids that overlapping requests concern

tables == <<rows, history>>
vars == <<rows, history, pc, call, clock, stamp, saved, found, kids, outcome,
          undo, contended>>

----------------------------------------------------------------------------
(***************************************************************************)
(* The queries.                                                             *)
(***************************************************************************)

\* The last version of an id among some rows of the history.
Newest(H) == CHOOSE h \in H : \A k \in H : k.at <= h.at

HistoryOf(x) == {h \in history : h.id = x}

\* The children of a block are those with its id as parent, those of the
\* board all its blocks.
IsChild(row, x) == x = Board \/ row.parent = x

Children(x) == {c \in Blocks : rows[c] # None /\ IsChild(rows[c], x)}

\* The versions of c that were a child of x.
HistoryUnder(c, x) == {h \in HistoryOf(c) : IsChild(h.row, x)}

\* Mutant of Restorable: looks for the newest deleted version.
RestorableOnceDeleted(x) ==
  {c \in Blocks : \E h \in HistoryUnder(c, x) : h.gone}

\* undeleteBlockChildren: the newest version under x is a deleted one.
Restorable(x) ==
  {c \in Blocks : HistoryUnder(c, x) # {} /\ Newest(HistoryUnder(c, x)).gone}

----------------------------------------------------------------------------
Steps == {"idle", "begin", "check", "write", "select", "remove", "restore", "done"}

\* The requests whose transaction began, or never will.
Begun == {r \in Requests : pc[r] \notin {"idle", "begin"}}

TypeOK ==
  /\ rows \in [Ids -> Row \cup {None}]
  /\ history \in SUBSET Entry
  /\ pc \in [Requests -> Steps]
  /\ call \in [Requests -> Call \cup {None}]
  /\ \A r \in Requests : pc[r] # "idle" => call[r] \in Call
  /\ clock \in 0..Cardinality(Begun)
  /\ stamp \in [Requests -> 0..clock]
  /\ saved \in [Requests -> Row \cup {None}]
  /\ \A r \in Requests : pc[r] \in {"check", "write", "select", "remove", "restore"} => saved[r] \in Row
  /\ found \in [Requests -> BOOLEAN]
  /\ kids \in [Requests -> SUBSET Entry]
  /\ outcome \in [Requests -> {"none", "ok", "duplicate"}]
  /\ undo \in [id : Ids, rows : [Ids -> Row \cup {None}]] \cup {None}
  /\ contended \in SUBSET Ids

\* A board and blocks that have been inserted, each under one of its parents.
Init ==
  /\ \E B \in SUBSET Blocks : \E P \in [B -> Ids] :
       /\ \A b \in B : P[b] \in Parents[b]
       /\ rows = [x \in Ids |->
                    IF x \in B THEN [parent |-> P[x], edits |-> {}]
                    ELSE IF x = Board THEN [parent |-> None, edits |-> {}] ELSE None]
  /\ history = {[id |-> x, at |-> 0, row |-> rows[x], gone |-> FALSE] :
                  x \in {y \in Ids : rows[y] # None}}
  /\ pc = [r \in Requests |-> "idle"]
  /\ call = [r \in Requests |-> None]
  /\ clock = 0
  /\ stamp = [r \in Requests |-> 0]
  /\ saved = [r \in Requests |-> None]
  /\ found = [r \in Requests |-> FALSE]
  /\ kids = [r \in Requests |-> {}]
  /\ outcome = [r \in Requests |-> "none"]
  /\ undo = None
  /\ contended = {}

----------------------------------------------------------------------------
Active == {r \in Requests : pc[r] \notin {"idle", "done"}}

At(r, step, op) == pc[r] = step /\ call[r].op = op
Goto(r, step) == pc' = [pc EXCEPT ![r] = step]

\* The ids whose rows a request may write.
Concerns(c) ==
  IF c.op \in {"insert", "patch"} THEN {c.id}
  ELSE IF c.id = Board THEN Ids
  ELSE {c.id} \cup {b \in Blocks : c.id \in Parents[b]}

(***************************************************************************)
(* A request arrives.  Ids of new blocks are new (GenerateBlockIDs).  The   *)
(* handler looks for the board, unless that is what it undeletes, and for   *)
(* the block or its history, and gives up if one is not there.              *)
(***************************************************************************)
Fresh(x) ==
  HistoryOf(x) = {} /\ \A r \in Active : call[r].op = "insert" => call[r].id # x

Accepted(c) ==
  /\ (c.op = "undelete" /\ c.id = Board) \/ rows[Board] # None
  /\ CASE c.op = "insert" -> TRUE
       [] c.op = "undelete" -> HistoryOf(c.id) # {}
       [] OTHER -> rows[c.id] # None

Begin(r, c) ==
  /\ pc[r] = "idle"
  /\ Cardinality(Active) < MaxActive
  /\ c.id \in Blocks /\ c.op \in {"insert", "patch"} /\ c.parent # None =>
       c.parent \in Parents[c.id]
  /\ c.op = "insert" => c.id \in Blocks /\ c.parent # None /\ Fresh(c.id)
  /\ c.id = Board \/ c.op \in {"delete", "undelete"} => c.parent = None
  /\ call' = [call EXCEPT ![r] = c]
  /\ Goto(r, IF Accepted(c) THEN "begin" ELSE "done")
  /\ contended' = contended \cup UNION {Concerns(c) \cap Concerns(call[q]) : q \in Active}
  /\ UNCHANGED <<tables, clock, stamp, saved, found, kids, outcome, undo>>

\* The transaction begins with its first statement.
BeginTx(r) ==
  /\ clock' = clock + 1
  /\ stamp' = [stamp EXCEPT ![r] = clock']

\* insertBlock of a new block starts with the look for an existing one.
InsertBegin(r) ==
  /\ At(r, "begin", "insert")
  /\ BeginTx(r)
  /\ saved' = [saved EXCEPT ![r] = [parent |-> call[r].parent, edits |-> {}]]
  /\ Goto(r, "check")
  /\ UNCHANGED <<tables, call, found, kids, outcome, undo, contended>>

\* patchBlock, patchBoard and deleteBlockAndChildren, deleteBoardAndChildren
\* read the row, and end if it is not there any more.
ReadRow(r) ==
  /\ pc[r] = "begin" /\ call[r].op \in {"patch", "delete"}
  /\ BeginTx(r)
  /\ saved' = [saved EXCEPT ![r] = rows[call[r].id]]
  /\ Goto(r, IF rows[call[r].id] = None THEN "done"
             ELSE IF call[r].op = "patch" THEN "check" ELSE "select")
  /\ UNCHANGED <<tables, call, found, kids, outcome, undo, contended>>

\* undeleteBlock, undeleteBoard: only what its last version says is deleted.
ReadHistory(r) ==
  /\ At(r, "begin", "undelete")
  /\ BeginTx(r)
  /\ LET last == Newest(HistoryOf(call[r].id))
     IN /\ saved' = [saved EXCEPT ![r] = last.row]
        /\ Goto(r, IF last.gone THEN "restore" ELSE "done")
  /\ UNCHANGED <<tables, call, found, kids, outcome, undo, contended>>

\* insertBlock, insertBoard: is it an update?
CheckExisting(r) ==
  /\ pc[r] = "check"
  /\ found' = [found EXCEPT ![r] = rows[call[r].id] # None]
  /\ Goto(r, "write")
  /\ UNCHANGED <<tables, call, clock, stamp, saved, kids, outcome, undo, contended>>

End(r, how) ==
  /\ outcome' = [outcome EXCEPT ![r] = how]
  /\ Goto(r, "done")

EntryOf(r, x, row, isGone) == [id |-> x, at |-> stamp[r], row |-> row, gone |-> isGone]

\* Mutant of Written: a patch starts from a block without its edits.
WrittenAnew(r) ==
  [parent |-> IF call[r].parent = None THEN saved[r].parent ELSE call[r].parent,
   edits |-> IF call[r].op = "patch" THEN {r} ELSE {}]

\* The row that a patch makes of what it read, or the row that is inserted.
Written(r) ==
  [parent |-> IF call[r].parent = None THEN saved[r].parent ELSE call[r].parent,
   edits |-> saved[r].edits \cup (IF call[r].op = "patch" THEN {r} ELSE {})]

\* Mutant of Write: the history gets the row as it was read.
WriteOldHistory(r) ==
  LET x == call[r].id
  IN /\ pc[r] = "write"
     /\ IF ~found[r] /\ rows[x] # None
        THEN End(r, "duplicate") /\ UNCHANGED <<tables, undo>>
        ELSE /\ rows' = IF found[r] /\ rows[x] = None
                        THEN rows ELSE [rows EXCEPT ![x] = Written(r)]
             /\ history' = history \cup {EntryOf(r, x, saved[r], FALSE)}
             /\ undo' = None
             /\ End(r, "ok")
     /\ UNCHANGED <<call, clock, stamp, saved, found, kids, contended>>

\* insertBlock, insertBoard: UPDATE what was found, which may be gone by now,
\* or INSERT what was not, which may be there by now; then the history.
Write(r) ==
  LET x == call[r].id
  IN /\ pc[r] = "write"
     /\ IF ~found[r] /\ rows[x] # None
        THEN End(r, "duplicate") /\ UNCHANGED <<tables, undo>>
        ELSE /\ rows' = IF found[r] /\ rows[x] = None
                        THEN rows ELSE [rows EXCEPT ![x] = Written(r)]
             /\ history' = history \cup {EntryOf(r, x, Written(r), FALSE)}
             /\ undo' = None
             /\ End(r, "ok")
     /\ UNCHANGED <<call, clock, stamp, saved, found, kids, contended>>

\* Mutant of CopyChildren: the children are deleted without their history.
CopyNoChildren(r) ==
  /\ pc[r] = "select"
  /\ Goto(r, "remove")
  /\ UNCHANGED <<tables, call, clock, stamp, saved, found, kids, outcome, undo, contended>>

\* deleteBlockChildren copies the children to the history as deleted ...
CopyChildren(r) ==
  /\ pc[r] = "select"
  /\ kids' = [kids EXCEPT ![r] =
                {EntryOf(r, c, rows[c], TRUE) : c \in Children(call[r].id) \ {call[r].id}}]
  /\ Goto(r, "remove")
  /\ UNCHANGED <<tables, call, clock, stamp, saved, found, outcome, undo, contended>>

\* ... and then deletes those that are there when it does; the row itself
\* was deleted before them.
Remove(r) ==
  LET x == call[r].id
  IN /\ pc[r] = "remove"
     /\ rows' = [y \in Ids |-> IF y = x \/ y \in Children(x) THEN None ELSE rows[y]]
     /\ history' = history \cup {EntryOf(r, x, saved[r], TRUE)} \cup kids[r]
     /\ undo' = [id |-> x, rows |-> rows]
     /\ End(r, "ok")
     /\ UNCHANGED <<call, clock, stamp, saved, found, kids, contended>>

\* The rows that an undeletion of x by r brings back.
Restored(r, x) ==
  [c \in Restorable(x) \cup {x} |->
     IF c = x THEN saved[r] ELSE Newest(HistoryUnder(c, x)).row]

\* Mutant of Restore: no history for the row itself.
RestoreSilently(r) ==
  LET x == call[r].id
      back == Restored(r, x)
  IN /\ pc[r] = "restore"
     /\ IF \E c \in DOMAIN back : rows[c] # None
        THEN End(r, "duplicate") /\ UNCHANGED <<tables, undo>>
        ELSE /\ rows' = [y \in Ids |-> IF y \in DOMAIN back THEN back[y] ELSE rows[y]]
             /\ history' = history \cup
                  {EntryOf(r, c, back[c], FALSE) : c \in DOMAIN back \ {x}}
             /\ undo' = None
             /\ End(r, "ok")
     /\ UNCHANGED <<call, clock, stamp, saved, found, kids, contended>>

\* undeleteBlock, undeleteBoard and undeleteBlockChildren: the inserts fail,
\* and with them the transaction, if a row is there already.
Restore(r) ==
  LET x == call[r].id
      back == Restored(r, x)
  IN /\ pc[r] = "restore"
     /\ IF \E c \in DOMAIN back : rows[c] # None
        THEN End(r, "duplicate") /\ UNCHANGED <<tables, undo>>
        ELSE /\ rows' = [y \in Ids |-> IF y \in DOMAIN back THEN back[y] ELSE rows[y]]
             /\ history' = history \cup {EntryOf(r, c, back[c], FALSE) : c \in DOMAIN back}
             /\ undo' = None
             /\ End(r, "ok")
     /\ UNCHANGED <<call, clock, stamp, saved, found, kids, contended>>

----------------------------------------------------------------------------
Next ==
  \E r \in Requests :
    \/ \E c \in Call : Begin(r, c)
    \/ InsertBegin(r) \/ ReadRow(r) \/ ReadHistory(r)
    \/ CheckExisting(r) \/ Write(r)
    \/ CopyChildren(r) \/ Remove(r)
    \/ Restore(r)

Spec == Init /\ [][Next]_vars

----------------------------------------------------------------------------
(***************************************************************************)
(* What the store promises.                                                 *)
(***************************************************************************)

\* Whatever the tables show is a version that the history has, so that
\* nothing that was ever visible can be lost to it (insertBlock,
\* undeleteBlockChildren: rows and history are written together).
HistoryCovers ==
  \A x \in Ids :
    rows[x] # None =>
      \E h \in HistoryOf(x) : ~h.gone /\ h.row = rows[x]

\* The last version of an id tells whether it exists and what it contains,
\* which undeleteBlock and undeleteBlockChildren rely on, unless overlapping
\* requests concerned it.
HistoryAgrees ==
  \A x \in Ids \ contended :
    HistoryOf(x) # {} =>
      LET last == Newest(HistoryOf(x))
      IN rows[x] = IF last.gone THEN None ELSE last.row

\* An undeletion that overlaps no other request never runs into a row that is
\* there already, wherever its children have been moved, deleted and undeleted
\* before (undeleteBlockChildren looks at the versions under one parent only).
UndeleteSucceeds ==
  \A r \in Requests :
    outcome[r] = "duplicate" /\ call[r].op = "undelete" =>
      contended \cap Concerns(call[r]) # {}

\* "ensure the card children were restored": undeleting what the last request
\* deleted brings it back with all that was deleted with it, as it was.
RestoresDeleted ==
  [][ \A r \in Requests :
        (/\ At(r, "restore", "undelete")
         /\ outcome'[r] = "ok"
         /\ undo # None
         /\ undo.id = call[r].id) =>
            \A x \in Ids : undo.rows[x] # None => rows'[x] = undo.rows[x] ]_vars

\* A patch "partially updates a block": what it wrote is there for as long as
\* the block is, whatever patches, moves, deletions and undeletions follow,
\* unless a request about the same block overlapped another.
EditsKept ==
  \A r \in Requests :
    call[r] # None =>
      LET x == call[r].id
      IN call[r].op = "patch" /\ outcome[r] = "ok" /\ x \notin contended /\ rows[x] # None
           => r \in rows[x].edits

\* Types are kept, so that no transaction works on a row it did not find, and the
\* history has whatever is visible.
StoreInv == TypeOK /\ HistoryCovers
=============================================================================
