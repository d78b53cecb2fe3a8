---------------------------- MODULE UndoManager -----------------------------
(***************************************************************************)
(* The undo history of one browser tab: webapp/src/undomanager.ts and the   *)
(* undo groups of webapp/src/mutator.ts.                                    *)
(*                                                                          *)
(* Every operation awaits a request to the server, and so do its undo and   *)
(* its redo; what the user does next interleaves at these awaits.  Between  *)
(* two awaits the code runs to completion.                                  *)
(***************************************************************************)
EXTENDS Naturals, Sequences

CONSTANTS
  Ops,        \* the operations of the user, performed once each
  Inserts,    \* those that insert a block
  On,         \* the insertion whose block an operation patches, or None
  Groups,     \* the calls of performAsUndoGroup
  GroupOf,    \* the call that performs an operation, or None
  MaxCalls,   \* bound: how often the user presses undo or redo
  MaxFaults,  \* bound: how many requests fail
  None

ASSUME OpsAssumption == Inserts \subseteq Ops /\ None \notin Ops /\ None \notin Groups
ASSUME OnAssumption ==
  On \in [Ops -> Inserts \cup {None}] /\ \A o \in Inserts : On[o] = None
ASSUME GroupOfAssumption == GroupOf \in [Ops -> Groups \cup {None}]
ASSUME BoundsAssumption == MaxCalls \in Nat /\ MaxFaults \in Nat

VARIABLES
  commands,     \* the commands, each with its operation and its group
  index,        \* how many of them are done (the code counts from -1)
  isExecuting,  \* an undo or a redo is under way
  run,          \* what undo() or redo() awaits: direction and command
  undoGroupId,  \* the group that the mutator tags new commands with
  group,        \* where each call of performAsUndoGroup is
  op,           \* where each operation is
  tag,          \* the group that an operation was tagged with
  visible,      \* on the server: the operations whose effect is there
  version,      \* on the server: the id of the last block of each insertion
  target,       \* the id that a patch was made for
  calls, faults,
  stuck,        \* the operation whose undo or redo failed
  mixed         \* history: the groups that something else ran into

manager == <<commands, index, isExecuting, run>>
mutator == <<undoGroupId, group, tag>>
server == <<visible, version>>
vars == <<manager, mutator, server, op, target, calls, faults, stuck, mixed>>

Command == [op : Ops, group : Groups \cup {None}]
Execution == [dir : {"undo", "redo"}, command : Command]
ASSUME ExecutionAssumption == None \notin Execution

TypeOK ==
  /\ commands \in Seq(Command)
  /\ index \in 0..Len(commands)
  /\ isExecuting \in BOOLEAN
  /\ run \in Execution \cup {None}
  /\ run # None => isExecuting
  /\ undoGroupId \in Groups \cup {None}
  /\ group \in [Groups -> {"new", "open", "nested", "ended"}]
  /\ op \in [Ops -> {"new", "performing", "registered", "ignored", "failed"}]
  /\ tag \in [Ops -> Groups \cup {None}]
  /\ visible \subseteq Ops
  /\ version \in [Inserts -> Nat]
  /\ target \in [Ops -> Nat]
  /\ calls \in 0..MaxCalls
  /\ faults \in 0..MaxFaults
  /\ stuck \in Ops \cup {None}
  /\ mixed \subseteq Groups

Init ==
  /\ commands = <<>>
  /\ index = 0
  /\ isExecuting = FALSE
  /\ run = None
  /\ undoGroupId = None
  /\ group = [g \in Groups |-> "new"]
  /\ op = [o \in Ops |-> "new"]
  /\ tag = [o \in Ops |-> None]
  /\ visible = {}
  /\ version = [o \in Inserts |-> 0]
  /\ target = [o \in Ops |-> 0]
  /\ calls = 0
  /\ faults = 0
  /\ stuck = None
  /\ mixed = {}

----------------------------------------------------------------------------
(***************************************************************************)
(* The server.  An insertion gets a new id each time; a patch of a block    *)
(* that is not there is answered with an error that nobody looks at.        *)
(***************************************************************************)
Redone(o) ==
  IF o \in Inserts
  THEN /\ visible' = visible \cup {o}
       /\ version' = [version EXCEPT ![o] = @ + 1]
  ELSE /\ visible' = IF On[o] # None
                        => On[o] \in visible /\ version[On[o]] = target[o]
                     THEN visible \cup {o} ELSE visible
       /\ UNCHANGED version

Undone(o) ==
  /\ visible' = visible \ ({o} \cup {p \in Ops : On[p] = o})
  /\ UNCHANGED version

----------------------------------------------------------------------------
(***************************************************************************)
(* The mutator.                                                             *)
(***************************************************************************)
Performing == {o \in Ops : op[o] = "performing"}

\* performAsUndoGroup: beginUndoGroup refuses a second group.
BeginGroup(g) ==
  /\ group[g] = "new"
  /\ IF undoGroupId = None
     THEN /\ undoGroupId' = g
          /\ group' = [group EXCEPT ![g] = "open"]
          /\ mixed' = IF Performing = {} /\ run = None THEN mixed ELSE mixed \cup {g}
     ELSE /\ group' = [group EXCEPT ![g] = "nested"]
          /\ mixed' = mixed \cup {g, undoGroupId}
          /\ UNCHANGED undoGroupId
  /\ UNCHANGED <<manager, server, tag, op, target, calls, faults, stuck>>

\* The actions are over, or one of them failed: endUndoGroup.
EndGroup(g) ==
  /\ group[g] \in {"open", "nested"}
  /\ \/ \A o \in Performing : GroupOf[o] # g
     \/ \E o \in Ops : GroupOf[o] = g /\ op[o] = "failed"
  /\ group' = [group EXCEPT ![g] = "ended"]
  /\ undoGroupId' = IF group[g] = "open" THEN None ELSE undoGroupId
  /\ UNCHANGED <<manager, server, tag, op, target, calls, faults, stuck, mixed>>

\* perform sends its request.  A patch is of a block that the user sees.
Perform(o) ==
  /\ op[o] = "new"
  /\ GroupOf[o] # None => group[GroupOf[o]] \in {"open", "nested"}
  /\ On[o] # None => On[o] \in visible
  /\ op' = [op EXCEPT ![o] = "performing"]
  /\ tag' = [tag EXCEPT ![o] = undoGroupId]
  /\ target' = IF On[o] = None THEN target ELSE [target EXCEPT ![o] = version[On[o]]]
  /\ mixed' = IF undoGroupId \in {None, GroupOf[o]} THEN mixed ELSE mixed \cup {undoGroupId}
  /\ UNCHANGED <<manager, undoGroupId, group, server, calls, faults, stuck>>

\* A request fails: before it is applied, or on its way back.
PerformFails(o) ==
  /\ op[o] = "performing"
  /\ faults < MaxFaults
  /\ faults' = faults + 1
  /\ Redone(o) \/ UNCHANGED server
  /\ op' = [op EXCEPT ![o] = "failed"]
  /\ UNCHANGED <<manager, mutator, target, calls, stuck, mixed>>

----------------------------------------------------------------------------
(***************************************************************************)
(* The undo manager.                                                        *)
(***************************************************************************)

\* registerUndo: the new command takes the place of the undone ones.
Register(o) ==
  /\ commands' = Append(SubSeq(commands, 1, index), [op |-> o, group |-> tag[o]])
  /\ index' = index + 1
  /\ op' = [op EXCEPT ![o] = "registered"]

\* Mutants of PerformSucceeds: registers while something is executed, ...
RegistersAlways(o) ==
  /\ op[o] = "performing"
  /\ Redone(o)
  /\ Register(o)
  /\ UNCHANGED <<isExecuting, run, mutator, target, calls, faults, stuck, mixed>>

\* perform gets its answer and calls registerUndo, which does nothing while
\* an undo or a redo is executed.
PerformSucceeds(o) ==
  /\ op[o] = "performing"
  /\ Redone(o)
  /\ IF isExecuting
     THEN op' = [op EXCEPT ![o] = "ignored"] /\ UNCHANGED <<commands, index>>
     ELSE Register(o)
  /\ UNCHANGED <<isExecuting, run, mutator, target, calls, faults, stuck, mixed>>

\* undo() and redo(): the user may press the keys at any time.
Call(dir, command) ==
  /\ ~isExecuting
  /\ calls < MaxCalls
  /\ calls' = calls + 1
  /\ isExecuting' = TRUE
  /\ run' = [dir |-> dir, command |-> command]
  /\ mixed' = IF undoGroupId = None THEN mixed ELSE mixed \cup {undoGroupId}
  /\ UNCHANGED <<commands, index, mutator, server, op, target, faults, stuck>>

Undo == index > 0 /\ Call("undo", commands[index])
Redo == index < Len(commands) /\ Call("redo", commands[index + 1])

\* The loops of undo() and redo() go on with the commands of the same group.
Continues(i) == run.command.group # None /\ commands[i].group = run.command.group

Rest == run' = None /\ isExecuting' = FALSE
GoOn(i) == run' = [run EXCEPT !.command = commands[i]] /\ UNCHANGED isExecuting

\* Mutants of UndoStep: undoes one command of a group only, ...
UndoStepNoLoop ==
  /\ run # None
  /\ run.dir = "undo"
  /\ Undone(run.command.op)
  /\ index' = index - 1
  /\ Rest
  /\ UNCHANGED <<commands, mutator, op, target, calls, faults, stuck, mixed>>

\* ... forgets that it is not executing any more.
UndoStepKeepsExecuting ==
  /\ run # None
  /\ run.dir = "undo"
  /\ Undone(run.command.op)
  /\ index' = index - 1
  /\ IF index > 1 /\ Continues(index - 1) THEN GoOn(index - 1) ELSE run' = None /\ UNCHANGED isExecuting
  /\ UNCHANGED <<commands, mutator, op, target, calls, faults, stuck, mixed>>

UndoStep ==
  /\ run # None
  /\ run.dir = "undo"
  /\ Undone(run.command.op)
  /\ index' = index - 1
  /\ IF index > 1 /\ Continues(index - 1) THEN GoOn(index - 1) ELSE Rest
  /\ UNCHANGED <<commands, mutator, op, target, calls, faults, stuck, mixed>>

RedoStep ==
  /\ run # None
  /\ run.dir = "redo"
  /\ Redone(run.command.op)
  /\ index' = index + 1
  /\ IF index + 1 < Len(commands) /\ Continues(index + 2) THEN GoOn(index + 2) ELSE Rest
  /\ UNCHANGED <<commands, mutator, op, target, calls, faults, stuck, mixed>>

\* The request of an undo or a redo fails, applied or not: execute does not
\* get to reset isExecuting.
RunFails ==
  /\ run # None
  /\ faults < MaxFaults
  /\ faults' = faults + 1
  /\ stuck' = run.command.op
  /\ \/ UNCHANGED server
     \/ run.dir = "undo" /\ Undone(run.command.op)
     \/ run.dir = "redo" /\ Redone(run.command.op)
  /\ run' = None
  /\ UNCHANGED <<commands, index, isExecuting, mutator, op, target, calls, mixed>>

----------------------------------------------------------------------------
Next ==
  \/ \E g \in Groups : BeginGroup(g) \/ EndGroup(g)
  \/ \E o \in Ops : Perform(o) \/ PerformSucceeds(o) \/ PerformFails(o)
  \/ Undo \/ Redo
  \/ UndoStep \/ RedoStep \/ RunFails

Spec == Init /\ [][Next]_vars

\* Requests are answered.
FairSpec == Spec /\ WF_vars(UndoStep \/ RedoStep \/ RunFails)

----------------------------------------------------------------------------
(***************************************************************************)
(* What the undo history promises.                                          *)
(***************************************************************************)

\* The commands up to the index are those whose effect is on the server,
\* whatever was performed while others were undone or redone (registerUndo,
\* isExecuting); only the one whose undo or redo failed may be off.
\* Patches of inserted blocks are the subject of RedoneIsBack.
InStep ==
  \A i \in 1..Len(commands) :
    LET o == commands[i].op
    IN On[o] = None /\ o # stuck => (i <= index <=> o \in visible)

\* Between two calls of undo and redo the index does not stand within a group
\* (the loops of undo and redo).
GroupsNotSplit ==
  run = None /\ stuck = None =>
    \A i \in 1..Len(commands) - 1 :
      index = i => commands[i].group = None \/ commands[i].group # commands[i + 1].group

\* A group that nothing else ran into is in the history as a whole and in one
\* piece, or not at all (performAsUndoGroup).
GroupsWhole ==
  \A g \in Groups \ mixed :
    group[g] = "ended" /\ faults = 0 =>
      LET of == {i \in 1..Len(commands) : commands[i].group = g}
      IN of # {} =>
           /\ \A i, k \in of : \A j \in i..k : j \in of
           /\ {commands[i].op : i \in of} = {o \in Ops : GroupOf[o] = g /\ op[o] # "new"}

\* Every undo and redo comes to its end, unless a request fails.
RunEnds == isExecuting ~> ~isExecuting \/ faults > 0

----------------------------------------------------------------------------
(***************************************************************************)
(* What a test says, and the code does not do.                              *)
(***************************************************************************)

\* After undo and redo things are as before: what the history says is done
\* is done, patches of inserted blocks included.
RedoneIsBack ==
  run = None /\ faults = 0 /\ Performing = {} =>
    \A i \in 1..index : commands[i].op \in visible

\* Types are kept, and the commands up to the index are those whose effect is on
\* the server.
UndoInv == TypeOK /\ InStep

\* Groups are never split by the index, and stay in one piece if nothing ran into
\* them.
GroupsKept == GroupsNotSplit /\ GroupsWhole
=============================================================================
