------------------------------ MODULE TabProofs ------------------------------
(***************************************************************************)
(* What a tab of the browser may rely on: its undo history, for any         *)
(* operations, groups and calls; and its live data, for any components,     *)
(* teams, blocks, faults and changes.                                       *)
(***************************************************************************)
EXTENDS UndoManager, LiveClient, FiniteSetTheorems, SequenceTheorems, TLAPS

\* Each operation has one command, and only if it was registered.
Unique ==
  /\ \A i \in 1..Len(commands) : op[commands[i].op] = "registered"
  /\ \A i, k \in 1..Len(commands) : commands[i].op = commands[k].op => i = k

\* What undo() and redo() work on is the command next to the index.
Running ==
  /\ isExecuting <=> run # None \/ stuck # None
  /\ run # None =>
       /\ stuck = None
       /\ run.dir = "undo" => index > 0 /\ run.command = commands[index]
       /\ run.dir = "redo" => index < Len(commands) /\ run.command = commands[index + 1]

IInv == TypeOK /\ Unique /\ Running /\ InStep

----------------------------------------------------------------------------
\* The history after a registration: the done commands, then the new one.
LEMMA RegisteredLast ==
  ASSUME TypeOK, NEW o \in Ops, Register(o)
  PROVE  /\ commands' \in Seq(Command)
         /\ Len(commands') = index + 1
         /\ index' = Len(commands')
         /\ \A i \in 1..index : commands'[i] = commands[i]
         /\ commands'[index + 1] = [op |-> o, group |-> tag[o]]
<1>1. [op |-> o, group |-> tag[o]] \in Command
  BY DEF TypeOK, Command, Execution
<1>2. SubSeq(commands, 1, index) \in Seq(Command) /\ Len(SubSeq(commands, 1, index)) = index
  BY DEF TypeOK
<1>3. \A i \in 1..index : SubSeq(commands, 1, index)[i] = commands[i]
  BY DEF TypeOK
<1> QED BY <1>1, <1>2, <1>3 DEF Register, TypeOK

\* What the server does keeps its types, and for an operation on its own it
\* shows or hides just that one.
LEMMA ServerRedone ==
  ASSUME TypeOK, NEW o \in Ops, Redone(o)
  PROVE  /\ visible' \subseteq Ops /\ version' \in [Inserts -> Nat]
         /\ visible \subseteq visible' /\ visible' \subseteq visible \cup {o}
         /\ On[o] = None => o \in visible'
<1>1. CASE o \in Inserts
  <2>1. visible' = visible \cup {o} /\ version' = [version EXCEPT ![o] = @ + 1]
    BY <1>1 DEF Redone
  <2>2. version' \in [Inserts -> Nat]
    BY <1>1, <2>1 DEF TypeOK
  <2> QED BY <2>1, <2>2 DEF TypeOK
<1>2. CASE o \notin Inserts
  <2>1. visible' = visible \cup {o} \/ visible' = visible
    BY <1>2 DEF Redone
  <2>2. On[o] = None => visible' = visible \cup {o}
    BY <1>2 DEF Redone
  <2> QED BY <1>2, <2>1, <2>2 DEF TypeOK, Redone
<1> QED BY <1>1, <1>2

LEMMA ServerUndone ==
  ASSUME TypeOK, NEW o \in Ops, Undone(o)
  PROVE  /\ visible' \subseteq Ops /\ version' \in [Inserts -> Nat]
         /\ o \notin visible'
         /\ \A p \in Ops : On[p] = None /\ p # o => (p \in visible' <=> p \in visible)
BY OpsAssumption, OnAssumption DEF TypeOK, Undone

LEMMA CommandFields ==
  ASSUME TypeOK
  PROVE  /\ \A i \in 1..Len(commands) : commands[i] \in Command /\ commands[i].op \in Ops
         /\ run # None => run.command \in Command /\ run.command.op \in Ops /\ run.dir \in {"undo", "redo"}
<1>1. \A c \in Command : c.op \in Ops
  BY DEF Command
<1>2. \A i \in 1..Len(commands) : commands[i] \in Command
  BY DEF TypeOK
<1>3. run # None => run.command \in Command /\ run.dir \in {"undo", "redo"}
  BY DEF TypeOK, Execution
<1> QED BY <1>1, <1>2, <1>3

LEMMA IInvInit == Init => IInv
<1> SUFFICES ASSUME Init PROVE IInv
  OBVIOUS
<1>1. commands \in Seq(Command) /\ Len(commands) = 0
  BY DEF Init
<1>2. /\ version \in [Inserts -> Nat] /\ target \in [Ops -> Nat]
      /\ calls \in 0..MaxCalls /\ faults \in 0..MaxFaults
      /\ index \in 0..Len(commands)
  BY <1>1, BoundsAssumption DEF Init
<1>3. /\ group \in [Groups -> {"new", "open", "nested", "ended"}]
      /\ op \in [Ops -> {"new", "performing", "registered", "ignored", "failed"}]
      /\ tag \in [Ops -> Groups \cup {None}]
  BY DEF Init
<1>4. TypeOK
  BY <1>1, <1>2, <1>3 DEF Init, TypeOK
<1> QED BY <1>1, <1>4 DEF Init, IInv, Unique, Running, InStep

\* What touches neither the manager, nor the server, nor where operations are.
LEMMA Frame ==
  ASSUME IInv, UNCHANGED <<manager, visible, stuck>>,
         \A o \in Ops : op[o] = "registered" => op'[o] = "registered"
  PROVE  Unique' /\ Running' /\ InStep'
<1> USE DEF IInv, manager
<1>1. Unique'
  BY CommandFields DEF Unique
<1>2. Running'
  BY DEF Running
<1>3. InStep'
  BY DEF InStep
<1> QED BY <1>1, <1>2, <1>3

LEMMA IInvStep == IInv /\ [Next]_vars => IInv'
<1> SUFFICES ASSUME IInv, [Next]_vars PROVE IInv'
  OBVIOUS
<1>0. TypeOK /\ Unique /\ Running /\ InStep
  BY DEF IInv
<1>1. ASSUME NEW g \in Groups, BeginGroup(g) PROVE IInv'
  <2>0. /\ mixed' \subseteq Groups /\ undoGroupId' \in Groups \cup {None}
        /\ group' \in [Groups -> {"new", "open", "nested", "ended"}]
    <3> USE <1>0 DEF TypeOK
    <3>1. undoGroupId # None => undoGroupId \in Groups
      OBVIOUS
    <3>2. mixed' \subseteq Groups
      <4>1. \/ mixed' = mixed
            \/ mixed' = mixed \cup {g}
            \/ undoGroupId # None /\ mixed' = mixed \cup {g, undoGroupId}
        BY <1>1 DEF BeginGroup
      <4> QED BY <4>1, <3>1
    <3>3. undoGroupId' \in Groups \cup {None}
      BY <1>1 DEF BeginGroup
    <3>4. group' = [group EXCEPT ![g] = "open"] \/ group' = [group EXCEPT ![g] = "nested"]
      BY <1>1 DEF BeginGroup
    <3> QED BY <3>2, <3>3, <3>4
  <2>1. TypeOK'
    BY <1>0, <1>1, <2>0 DEF BeginGroup, TypeOK, manager, server
  <2>2. Unique' /\ Running' /\ InStep'
    BY <1>1, Frame DEF BeginGroup, server
  <2> QED BY <2>1, <2>2 DEF IInv
<1>2. ASSUME NEW g \in Groups, EndGroup(g) PROVE IInv'
  <2>1. TypeOK'
    BY <1>0, <1>2 DEF EndGroup, TypeOK, manager, server
  <2>2. Unique' /\ Running' /\ InStep'
    BY <1>2, Frame DEF EndGroup, server
  <2> QED BY <2>1, <2>2 DEF IInv
<1>3. ASSUME NEW o \in Ops, Perform(o) PROVE IInv'
  <2>1. On[o] # None => version[On[o]] \in Nat
    BY <1>0, OnAssumption DEF TypeOK
  <2>2. TypeOK'
    BY <1>0, <1>3, <2>1 DEF Perform, TypeOK, manager, server
  <2>3. Unique' /\ Running' /\ InStep'
    BY <1>0, <1>3, Frame DEF Perform, server, TypeOK
  <2> QED BY <2>2, <2>3 DEF IInv
<1>4. ASSUME NEW o \in Ops, PerformFails(o) PROVE IInv'
  <2>1. visible' \subseteq Ops /\ version' \in [Inserts -> Nat]
    BY <1>0, <1>4, ServerRedone DEF PerformFails, server, TypeOK
  <2>0. /\ faults' \in 0..MaxFaults
        /\ op' \in [Ops -> {"new", "performing", "registered", "ignored", "failed"}]
    BY <1>0, <1>4, BoundsAssumption DEF PerformFails, TypeOK
  <2>2. TypeOK'
    BY <1>0, <1>4, <2>0, <2>1 DEF PerformFails, TypeOK, manager, mutator
  <2>3. \A p \in Ops : p # o => (p \in visible' <=> p \in visible)
    BY <1>0, <1>4, ServerRedone DEF PerformFails, server
  <2>4. \A i \in 1..Len(commands) : commands[i].op # o
    BY <1>0, <1>4 DEF PerformFails, Unique
  <2>5. Unique'
    BY <1>0, <1>4, <2>4, CommandFields DEF PerformFails, Unique, manager, TypeOK
  <2>6. Running'
    BY <1>0, <1>4 DEF PerformFails, Running, manager
  <2>7. InStep'
    BY <1>0, <1>4, <2>3, <2>4, CommandFields DEF PerformFails, InStep, manager
  <2> QED BY <2>2, <2>5, <2>6, <2>7 DEF IInv
<1>5. ASSUME NEW o \in Ops, PerformSucceeds(o) PROVE IInv'
  <2> USE <1>0
  <2>1. visible' \subseteq Ops /\ version' \in [Inserts -> Nat]
    BY <1>5, ServerRedone DEF PerformSucceeds
  <2>2. \A p \in Ops : p # o => (p \in visible' <=> p \in visible)
    BY <1>5, ServerRedone DEF PerformSucceeds
  <2>3. \A i \in 1..Len(commands) : commands[i].op # o
    BY <1>5 DEF PerformSucceeds, Unique
  <2>4. CASE isExecuting
    <3>1. op' = [op EXCEPT ![o] = "ignored"] /\ UNCHANGED <<manager, mutator, target, calls, faults, stuck, mixed>>
      BY <1>5, <2>4 DEF PerformSucceeds, manager
    <3>2. TypeOK'
      BY <2>1, <3>1 DEF TypeOK, manager, mutator
    <3>3. Unique'
      BY <2>3, <3>1, CommandFields DEF Unique, manager, TypeOK
    <3>4. Running'
      BY <3>1 DEF Running, manager
    <3>5. InStep'
      BY <2>2, <2>3, <3>1, CommandFields DEF InStep, manager
    <3> QED BY <3>2, <3>3, <3>4, <3>5 DEF IInv
  <2>5. CASE ~isExecuting
    <3>1. Register(o) /\ UNCHANGED <<isExecuting, run, mutator, target, calls, faults, stuck, mixed>>
      BY <1>5, <2>5 DEF PerformSucceeds
    <3>2. /\ commands' \in Seq(Command)
          /\ Len(commands') = index + 1
          /\ index' = Len(commands')
          /\ \A i \in 1..index : commands'[i] = commands[i]
          /\ commands'[index + 1].op = o
      <4>1. commands'[index + 1] = [op |-> o, group |-> tag[o]]
        BY <3>1, RegisteredLast
      <4> QED BY <3>1, <4>1, RegisteredLast
    <3>3. op' = [op EXCEPT ![o] = "registered"]
      BY <3>1 DEF Register
    <3>4. TypeOK'
      BY <2>1, <3>1, <3>2, <3>3 DEF TypeOK, mutator
    <3>5. index \in Nat /\ index <= Len(commands) /\ Len(commands) \in Nat
      BY DEF TypeOK
    <3>6. Unique'
      <4>1. \A i \in 1..index : /\ commands'[i].op \in Ops /\ commands'[i].op # o
                                /\ op[commands'[i].op] = "registered"
        BY <2>3, <3>2, <3>5, CommandFields DEF Unique
      <4>2. op'[o] = "registered" /\ \A p \in Ops : p # o => op'[p] = op[p]
        BY <3>3 DEF TypeOK
      <4>3. \A i \in 1..Len(commands') : i \in 1..index \/ i = index + 1
        BY <3>2, <3>5
      <4>4. \A i \in 1..Len(commands') : op'[commands'[i].op] = "registered"
        BY <3>2, <4>1, <4>2, <4>3
      <4>5. ASSUME NEW i \in 1..Len(commands'), NEW k \in 1..Len(commands'),
                   commands'[i].op = commands'[k].op
            PROVE  i = k
        <5>1. CASE i \in 1..index /\ k \in 1..index
          BY <4>5, <5>1, <3>2, <3>5 DEF Unique
        <5>2. CASE i = index + 1 \/ k = index + 1
          BY <4>5, <5>2, <3>2, <4>1, <4>3
        <5> QED BY <5>1, <5>2, <4>3
      <4> QED BY <4>4, <4>5 DEF Unique
    <3>7. Running'
      BY <2>5, <3>1 DEF Running
    <3>8. InStep'
      <4>1. o \in visible' \/ On[o] # None
        BY <1>5, ServerRedone DEF PerformSucceeds
      <4>2. stuck = None /\ stuck' = None
        BY <2>5, <3>1 DEF Running
      <4> SUFFICES ASSUME NEW i \in 1..Len(commands'), On[commands'[i].op] = None
                   PROVE  i <= index' <=> commands'[i].op \in visible'
        BY DEF InStep
      <4>3. CASE i = index + 1
        BY <3>2, <4>1, <4>3
      <4>4. CASE i \in 1..index
        <5>1. i \in 1..Len(commands) /\ commands'[i] = commands[i] /\ i <= index
          BY <3>2, <3>5, <4>4
        <5>2. commands[i].op \in Ops /\ commands[i].op # stuck
          BY <5>1, <4>2, CommandFields, OpsAssumption
        <5>3. commands[i].op \in visible
          BY <5>1, <5>2 DEF InStep
        <5>4. commands'[i].op \in visible'
          BY <5>1, <5>2, <5>3, <2>2, <2>3
        <5> QED BY <5>4, <3>2, <3>5, <4>4
      <4> QED BY <3>2, <3>5, <4>3, <4>4
    <3> QED BY <3>4, <3>6, <3>7, <3>8 DEF IInv
  <2> QED BY <2>4, <2>5
<1>6. ASSUME Undo \/ Redo PROVE IInv'
  <2> USE <1>0
  <2>1. index \in Nat /\ Len(commands) \in Nat /\ index <= Len(commands)
    BY DEF TypeOK
  <2>2. PICK d \in {"undo", "redo"}, c \in Command :
          /\ Call(d, c)
          /\ d = "undo" => index > 0 /\ c = commands[index]
          /\ d = "redo" => index < Len(commands) /\ c = commands[index + 1]
    BY <1>6, <2>1, CommandFields DEF Undo, Redo
  <2>3. /\ run = None /\ stuck = None /\ run' = [dir |-> d, command |-> c]
        /\ isExecuting' = TRUE
        /\ UNCHANGED <<commands, index, mutator, server, op, target, faults, stuck>>
    BY <2>2 DEF Call, Running
  <2>4. run' \in Execution /\ run' # None
    BY <2>3, ExecutionAssumption DEF Execution
  <2>5. calls' \in 0..MaxCalls /\ mixed' \subseteq Groups
    BY <2>2, BoundsAssumption DEF Call, TypeOK
  <2>6. TypeOK'
    BY <2>3, <2>4, <2>5 DEF TypeOK, mutator, server
  <2>7. Unique' /\ InStep'
    BY <2>3 DEF Unique, InStep, server
  <2>8. Running'
    BY <2>2, <2>3, <2>4 DEF Running
  <2> QED BY <2>6, <2>7, <2>8 DEF IInv
<1>7. ASSUME UndoStep PROVE IInv'
  <2> USE <1>0
  <2> DEFINE o == run.command.op
  <2>1. /\ index \in 1..Len(commands) /\ Len(commands) \in Nat
        /\ run.command = commands[index] /\ o \in Ops
        /\ stuck = None
    BY <1>7, CommandFields DEF UndoStep, Running, TypeOK
  <2>2. /\ index' = index - 1
        /\ UNCHANGED <<commands, mutator, op, target, calls, faults, stuck, mixed>>
    BY <1>7 DEF UndoStep
  <2>3. /\ visible' \subseteq Ops /\ version' \in [Inserts -> Nat] /\ o \notin visible'
        /\ \A p \in Ops : On[p] = None /\ p # o => (p \in visible' <=> p \in visible)
    BY <1>7, <2>1, ServerUndone DEF UndoStep
  <2>4. \/ Rest
        \/ /\ index > 1 /\ run' = [run EXCEPT !.command = commands[index - 1]]
           /\ UNCHANGED isExecuting
    BY <1>7 DEF UndoStep, GoOn
  <2>5. run # None /\ run \in Execution /\ run.dir = "undo"
    BY <1>7 DEF UndoStep, TypeOK
  <2>6. index > 1 => commands[index - 1] \in Command
    BY <2>1, CommandFields
  <2>7. run' \in Execution \cup {None} /\ (run' # None => isExecuting') /\ isExecuting' \in BOOLEAN
    BY <2>4, <2>5, <2>6 DEF Rest, Execution, TypeOK
  <2>8. TypeOK'
    BY <2>1, <2>2, <2>3, <2>7 DEF TypeOK, mutator
  <2>9. Unique'
    BY <2>2 DEF Unique
  <2>10. Running'
    <3>1. CASE Rest
      BY <3>1, <2>1, <2>2 DEF Rest, Running
    <3>2. CASE /\ index > 1 /\ run' = [run EXCEPT !.command = commands[index - 1]]
               /\ UNCHANGED isExecuting
      <4>1. run' \in Execution /\ run'.dir = "undo" /\ run'.command = commands[index - 1]
        BY <3>2, <2>5, <2>6 DEF Execution
      <4>2. run' # None
        BY <4>1, ExecutionAssumption
      <4>3. isExecuting'
        BY <3>2, <2>5 DEF Running
      <4> QED BY <4>1, <4>2, <4>3, <3>2, <2>1, <2>2 DEF Running
    <3> QED BY <2>4, <3>1, <3>2
  <2>11. InStep'
    <3> SUFFICES ASSUME NEW i \in 1..Len(commands), On[commands[i].op] = None
                 PROVE  i <= index' <=> commands[i].op \in visible'
      BY <2>2 DEF InStep
    <3>1. commands[i].op \in Ops /\ commands[i].op # stuck
      BY <2>1, CommandFields, OpsAssumption
    <3>2. CASE i = index
      BY <3>2, <2>1, <2>2, <2>3
    <3>3. CASE i # index
      <4>1. commands[i].op # o
        BY <3>3, <2>1 DEF Unique
      <4>2. i <= index <=> commands[i].op \in visible
        BY <3>1 DEF InStep
      <4> QED BY <3>1, <3>3, <4>1, <4>2, <2>1, <2>2, <2>3
    <3> QED BY <3>2, <3>3
  <2> QED BY <2>8, <2>9, <2>10, <2>11 DEF IInv
<1>8. ASSUME RedoStep PROVE IInv'
  <2> USE <1>0
  <2> DEFINE o == run.command.op
  <2>1. /\ index \in Nat /\ Len(commands) \in Nat /\ index < Len(commands)
        /\ run.command = commands[index + 1] /\ o \in Ops
        /\ stuck = None
    BY <1>8, CommandFields DEF RedoStep, Running, TypeOK
  <2>2. /\ index' = index + 1
        /\ UNCHANGED <<commands, mutator, op, target, calls, faults, stuck, mixed>>
    BY <1>8 DEF RedoStep
  <2>3. /\ visible' \subseteq Ops /\ version' \in [Inserts -> Nat]
        /\ \A p \in Ops : p # o => (p \in visible' <=> p \in visible)
        /\ On[o] = None => o \in visible'
    BY <1>8, <2>1, ServerRedone DEF RedoStep
  <2>4. \/ Rest
        \/ /\ index + 1 < Len(commands) /\ run' = [run EXCEPT !.command = commands[index + 2]]
           /\ UNCHANGED isExecuting
    BY <1>8 DEF RedoStep, GoOn
  <2>5. run # None /\ run \in Execution /\ run.dir = "redo"
    BY <1>8 DEF RedoStep, TypeOK, Execution
  <2>6. index + 1 < Len(commands) => commands[index + 2] \in Command
    BY <2>1, CommandFields
  <2>7. run' \in Execution \cup {None} /\ (run' # None => isExecuting') /\ isExecuting' \in BOOLEAN
    BY <2>4, <2>5, <2>6 DEF Rest, Execution, TypeOK
  <2>8. TypeOK'
    BY <2>1, <2>2, <2>3, <2>7 DEF TypeOK, mutator
  <2>9. Unique'
    BY <2>2 DEF Unique
  <2>10. Running'
    <3>1. CASE Rest
      BY <3>1, <2>1, <2>2 DEF Rest, Running
    <3>2. CASE /\ index + 1 < Len(commands) /\ run' = [run EXCEPT !.command = commands[index + 2]]
               /\ UNCHANGED isExecuting
      <4>1. run' \in Execution /\ run'.dir = "redo" /\ run'.command = commands[index + 2]
        BY <3>2, <2>5, <2>6 DEF Execution
      <4>2. run' # None
        BY <4>1, ExecutionAssumption
      <4>3. isExecuting'
        BY <3>2, <2>5 DEF Running
      <4>4. commands[index + 2] = commands'[index' + 1] /\ index' < Len(commands')
        BY <3>2, <2>1, <2>2
      <4> QED BY <4>1, <4>2, <4>3, <4>4, <2>1, <2>2 DEF Running
    <3> QED BY <2>4, <3>1, <3>2
  <2>11. InStep'
    <3> SUFFICES ASSUME NEW i \in 1..Len(commands), On[commands[i].op] = None
                 PROVE  i <= index' <=> commands[i].op \in visible'
      BY <2>2 DEF InStep
    <3>1. commands[i].op \in Ops /\ commands[i].op # stuck
      BY <2>1, CommandFields, OpsAssumption
    <3>2. CASE i = index + 1
      BY <3>2, <2>1, <2>2, <2>3
    <3>3. CASE i # index + 1
      <4>1. commands[i].op # o
        BY <3>3, <2>1 DEF Unique
      <4>2. i <= index <=> commands[i].op \in visible
        BY <3>1 DEF InStep
      <4> QED BY <3>1, <3>3, <4>1, <4>2, <2>1, <2>2, <2>3
    <3> QED BY <3>2, <3>3
  <2> QED BY <2>8, <2>9, <2>10, <2>11 DEF IInv
<1>9. ASSUME RunFails PROVE IInv'
  <2> USE <1>0
  <2> DEFINE o == run.command.op
  <2>1. /\ run # None /\ o \in Ops /\ stuck = None /\ isExecuting
        /\ stuck' = o /\ run' = None
        /\ UNCHANGED <<commands, index, isExecuting, mutator, op, target, calls, mixed>>
    BY <1>9, CommandFields DEF RunFails, Running
  <2>2. /\ visible' \subseteq Ops /\ version' \in [Inserts -> Nat]
        /\ \A p \in Ops : On[p] = None /\ p # o => (p \in visible' <=> p \in visible)
    <3>1. CASE UNCHANGED server
      BY <3>1 DEF server, TypeOK
    <3>2. CASE Undone(o)
      BY <3>2, <2>1, ServerUndone
    <3>3. CASE Redone(o)
      BY <3>3, <2>1, ServerRedone
    <3> QED BY <1>9, <3>1, <3>2, <3>3 DEF RunFails
  <2>3. faults' \in 0..MaxFaults
    BY <1>9, BoundsAssumption DEF RunFails, TypeOK
  <2>4. TypeOK'
    BY <2>1, <2>2, <2>3 DEF TypeOK, mutator
  <2>5. Unique'
    BY <2>1 DEF Unique
  <2>6. Running'
    BY <2>1, OpsAssumption DEF Running
  <2>7. InStep'
    <3> SUFFICES ASSUME NEW i \in 1..Len(commands), On[commands[i].op] = None, commands[i].op # o
                 PROVE  i <= index <=> commands[i].op \in visible'
      BY <2>1 DEF InStep
    <3>1. commands[i].op \in Ops /\ commands[i].op # stuck
      BY <2>1, CommandFields, OpsAssumption
    <3>2. i <= index <=> commands[i].op \in visible
      BY <3>1 DEF InStep
    <3> QED BY <3>1, <3>2, <2>2
  <2> QED BY <2>4, <2>5, <2>6, <2>7 DEF IInv
<1>10. CASE UNCHANGED vars
  <2>1. TypeOK'
    BY <1>0, <1>10 DEF TypeOK, vars, manager, mutator, server
  <2>2. Unique' /\ Running' /\ InStep'
    BY <1>10, Frame DEF vars, server
  <2> QED BY <2>1, <2>2 DEF IInv
<1> QED
  BY <1>1, <1>2, <1>3, <1>4, <1>5, <1>6, <1>7, <1>8, <1>9, <1>10 DEF Next

\* The invariant that the others follow from.
THEOREM Invariance == Spec => []IInv
BY IInvInit, IInvStep, PTL DEF Spec

\* Every variable of UndoManager keeps its type: no step of undo or redo
\* leaves the history.
THEOREM TypeCorrect == Spec => []TypeOK
<1>1. IInv => TypeOK
  BY DEF IInv
<1> QED BY Invariance, <1>1, PTL

\* However operations, undo, redo and failures interleave, the commands up to
\* the index are those whose effect is on the server.
THEOREM HistoryInStep == Spec => []InStep
<1>1. IInv => InStep
  BY DEF IInv
<1> QED BY Invariance, <1>1, PTL

----------------------------------------------------------------------------
\* The index rests between groups only.
THEOREM NotSplit == Spec => []GroupsNotSplit
<1>1. Init => GroupsNotSplit
  BY DEF Init, GroupsNotSplit
<1>2. IInv /\ GroupsNotSplit /\ [Next]_vars => GroupsNotSplit'
  <2> SUFFICES ASSUME IInv, GroupsNotSplit, [Next]_vars, run' = None, stuck' = None,
                      NEW i \in 1..Len(commands') - 1, index' = i
               PROVE  commands'[i].group = None \/ commands'[i].group # commands'[i + 1].group
    BY DEF GroupsNotSplit
  <2>1. index \in Nat /\ Len(commands) \in Nat /\ index <= Len(commands)
    BY DEF IInv, TypeOK
  <2>2. CASE UNCHANGED <<commands, index, run, stuck>>
    BY <2>2 DEF GroupsNotSplit
  <2>3. ASSUME NEW o \in Ops, PerformSucceeds(o), ~isExecuting
        PROVE  FALSE
    <3>1. index' = Len(commands')
      BY <2>3, RegisteredLast DEF PerformSucceeds, IInv
    <3> QED BY <3>1, <2>1, RegisteredLast, <2>3 DEF PerformSucceeds, IInv
  <2>4. ASSUME UndoStep
        PROVE  commands'[i].group = None \/ commands'[i].group # commands'[i + 1].group
    <3>1. run.command = commands[index] /\ commands' = commands /\ i = index - 1
      BY <2>4 DEF UndoStep, IInv, Running
    <3>2. ~ Continues(index - 1)
      <4>1. index > 1
        BY <3>1, <2>1
      <4>2. ASSUME Continues(index - 1) PROVE FALSE
        <5>1. run' = [run EXCEPT !.command = commands[index - 1]]
          BY <2>4, <4>1, <4>2 DEF UndoStep, GoOn
        <5>2. commands[index - 1] \in Command /\ run \in Execution
          BY <2>1, <2>4, <4>1, CommandFields DEF UndoStep, IInv, TypeOK
        <5>3. run' \in Execution
          BY <5>1, <5>2 DEF Execution
        <5> QED BY <5>3, ExecutionAssumption
      <4> QED BY <4>2
    <3> QED BY <3>1, <3>2, <2>1 DEF Continues
  <2>5. ASSUME RedoStep
        PROVE  commands'[i].group = None \/ commands'[i].group # commands'[i + 1].group
    <3>1. run.command = commands[index + 1] /\ commands' = commands /\ i = index + 1
      BY <2>5 DEF RedoStep, IInv, Running
    <3>2. ~ Continues(index + 2)
      <4>1. index + 1 < Len(commands)
        BY <3>1, <2>1
      <4>2. ASSUME Continues(index + 2) PROVE FALSE
        <5>1. run' = [run EXCEPT !.command = commands[index + 2]]
          BY <2>5, <4>1, <4>2 DEF RedoStep, GoOn
        <5>2. commands[index + 2] \in Command /\ run \in Execution
          BY <2>1, <2>5, <4>1, CommandFields DEF RedoStep, IInv, TypeOK
        <5>3. run' \in Execution
          BY <5>1, <5>2 DEF Execution
        <5> QED BY <5>3, ExecutionAssumption
      <4> QED BY <4>2
    <3> QED BY <3>1, <3>2, <2>1 DEF Continues
  <2>6. ASSUME RunFails PROVE FALSE
    BY <2>6, CommandFields, OpsAssumption DEF RunFails, IInv
  <2>7. ASSUME Undo \/ Redo PROVE FALSE
    <3>1. PICK d \in {"undo", "redo"}, c \in Command : run' = [dir |-> d, command |-> c]
      BY <2>1, <2>7, CommandFields DEF Undo, Redo, Call, IInv
    <3> QED BY <3>1, ExecutionAssumption DEF Execution
  <2>8. ASSUME NEW o \in Ops, PerformSucceeds(o), isExecuting
        PROVE  UNCHANGED <<commands, index, run, stuck>>
    BY <2>8 DEF PerformSucceeds
  <2> QED
    BY <2>2, <2>3, <2>4, <2>5, <2>6, <2>7, <2>8
       DEF Next, BeginGroup, EndGroup, Perform, PerformFails, manager, vars
<1> QED BY <1>1, <1>2, Invariance, PTL DEF Spec

----------------------------------------------------------------------------
(***************************************************************************)
(* Undo groups are in the history as a whole.  Nothing truncates the       *)
(* history within a group, since the index does not rest there.            *)
(***************************************************************************)

OpsOf(g) == {o \in Ops : GroupOf[o] = g}
At(g) == {i \in 1..Len(commands) : commands[i].group = g}
HasCommand(o) == \E i \in 1..Len(commands) : commands[i].op = o
AllHaveCommands(g) == \A o \in OpsOf(g) : op[o] = "registered" => HasCommand(o)

\* What a group is tagged with is its own, unless something ran into it.
Tags ==
  /\ faults = 0 => stuck = None
  /\ \A i \in 1..Len(commands) : commands[i].group = tag[commands[i].op]
  /\ \A g \in Groups : group[g] = "open" <=> undoGroupId = g
  /\ \A g \in Groups : group[g] = "new" => \A o \in OpsOf(g) : op[o] = "new"
  /\ \A g \in Groups \ mixed :
       /\ group[g] # "nested"
       /\ \A o \in Ops : tag[o] = g => GroupOf[o] = g
       /\ \A o \in OpsOf(g) : op[o] # "new" => tag[o] = g

\* While a group is open its commands are the last ones; when it has ended they are
\* together.
Whole(g) ==
  /\ group[g] = "open" =>
       /\ ~isExecuting
       /\ Performing \subseteq OpsOf(g)
       /\ (\E o \in OpsOf(g) : op[o] = "registered") => index = Len(commands)
       /\ AllHaveCommands(g)
       /\ \A i \in At(g) : \A j \in i..Len(commands) : j \in At(g)
  /\ group[g] = "ended" =>
       /\ Performing \cap OpsOf(g) = {}
       /\ \A i, k \in At(g) : \A j \in i..k : j \in At(g)
       /\ At(g) # {} => AllHaveCommands(g)
  /\ \A o \in OpsOf(g) : op[o] \in {"new", "performing", "registered"}

WholeInv == Tags /\ \A g \in Groups \ mixed : faults = 0 => Whole(g)

\* At first there are no commands, and no group has begun.
LEMMA WholeInit == Init => WholeInv
<1> SUFFICES ASSUME Init PROVE WholeInv
  OBVIOUS
<1>1. commands = <<>> /\ faults = 0 /\ stuck = None /\ undoGroupId = None
  BY DEF Init
<1>2. /\ \A g \in Groups : group[g] = "new"
      /\ \A o \in Ops : op[o] = "new" /\ tag[o] = None
  BY DEF Init
<1>3. Tags
  BY <1>1, <1>2, OpsAssumption DEF Tags, OpsOf
<1>4. \A g \in Groups : Whole(g)
  BY <1>2 DEF Whole, OpsOf
<1> QED BY <1>3, <1>4 DEF WholeInv

\* Every action keeps the tags.
LEMMA TagsStep == IInv /\ Tags /\ [Next]_vars => Tags'
<1> SUFFICES ASSUME IInv, Tags, [Next]_vars PROVE Tags'
  OBVIOUS
<1>a. TypeOK /\ Unique /\ \A i \in 1..Len(commands) : commands[i].op \in Ops
  BY CommandFields DEF IInv
<1>b. undoGroupId \in Groups \cup {None} /\ None \notin Groups /\ None \notin Ops
  BY <1>a, OpsAssumption DEF TypeOK
\* What leaves the mutator and the operations.
<1>c. ASSUME UNCHANGED <<commands, mutator, op, mixed>>, faults' = 0 => stuck' = None PROVE Tags'
  BY <1>c DEF Tags, mutator
<1>1. ASSUME NEW g \in Groups, BeginGroup(g) PROVE Tags'
  <2>1. UNCHANGED <<commands, tag, op, stuck, faults>> /\ group[g] = "new"
    BY <1>1 DEF BeginGroup, manager
  <2>2. CASE undoGroupId = None
    <3>1. undoGroupId' = g /\ group' = [group EXCEPT ![g] = "open"] /\ mixed \subseteq mixed'
      BY <1>1, <2>2 DEF BeginGroup
    <3>2. group'[g] = "open" /\ \A h \in Groups : h # g => group'[h] = group[h]
      BY <3>1, <1>a DEF TypeOK
    <3> QED BY <2>1, <2>2, <3>1, <3>2, <1>b DEF Tags
  <2>3. CASE undoGroupId # None
    <3>1. undoGroupId' = undoGroupId /\ group' = [group EXCEPT ![g] = "nested"] /\ mixed' = mixed \cup {g, undoGroupId}
      BY <1>1, <2>3 DEF BeginGroup
    <3>2. group'[g] = "nested" /\ \A h \in Groups : h # g => group'[h] = group[h]
      BY <3>1, <1>a DEF TypeOK
    <3> QED BY <2>1, <2>3, <3>1, <3>2, <1>b DEF Tags
  <2> QED BY <2>2, <2>3
<1>2. ASSUME NEW g \in Groups, EndGroup(g) PROVE Tags'
  <2>1. /\ UNCHANGED <<commands, tag, op, stuck, faults, mixed>> /\ group[g] \in {"open", "nested"}
        /\ undoGroupId' = IF group[g] = "open" THEN None ELSE undoGroupId
        /\ group' = [group EXCEPT ![g] = "ended"]
    BY <1>2 DEF EndGroup, manager
  <2>2. group'[g] = "ended" /\ \A h \in Groups : h # g => group'[h] = group[h]
    BY <2>1, <1>a DEF TypeOK
  <2> QED BY <2>1, <2>2, <1>b DEF Tags
<1>3. ASSUME NEW o \in Ops, Perform(o) PROVE Tags'
  <2>1. /\ UNCHANGED <<commands, undoGroupId, group, stuck, faults>> /\ op[o] = "new"
        /\ GroupOf[o] # None => group[GroupOf[o]] \in {"open", "nested"}
        /\ mixed \subseteq mixed' /\ (undoGroupId \notin {None, GroupOf[o]} => undoGroupId \in mixed')
    BY <1>3 DEF Perform, manager
  <2>2. tag'[o] = undoGroupId /\ \A p \in Ops : p # o => tag'[p] = tag[p] /\ op'[p] = op[p]
    BY <1>3, <1>a DEF Perform, TypeOK
  <2>3. \A i \in 1..Len(commands) : commands[i].op # o
    BY <2>1, <1>a DEF Unique
  <2>4. \A i \in 1..Len(commands) : commands'[i].group = tag'[commands'[i].op]
    BY <2>1, <2>2, <2>3, <1>a DEF Tags
  <2>5. \A g \in Groups : group'[g] = "new" => \A p \in OpsOf(g) : op'[p] = "new"
    BY <2>1, <2>2, <1>b DEF Tags, OpsOf
  <2>6. ASSUME NEW g \in Groups \ mixed' PROVE /\ group'[g] # "nested"
                                               /\ \A p \in Ops : tag'[p] = g => GroupOf[p] = g
                                               /\ \A p \in OpsOf(g) : op'[p] # "new" => tag'[p] = g
    <3>1. g \notin mixed
      BY <2>1, <2>6
    <3>2. tag'[o] = g => GroupOf[o] = g
      BY <2>1, <2>2, <2>6, <1>b
    <3>3. GroupOf[o] = g => tag'[o] = g
      BY <2>1, <2>2, <3>1, <1>b DEF Tags
    <3> QED BY <2>1, <2>2, <3>1, <3>2, <3>3 DEF Tags, OpsOf
  <2> QED BY <2>1, <2>4, <2>5, <2>6 DEF Tags
<1>4. ASSUME NEW o \in Ops, PerformFails(o) PROVE Tags'
  <2>1. /\ UNCHANGED <<commands, undoGroupId, group, tag, mixed>> /\ op[o] = "performing" /\ faults' # 0
    BY <1>4, <1>a, BoundsAssumption DEF PerformFails, manager, mutator, TypeOK
  <2>2. op'[o] = "failed" /\ \A p \in Ops : p # o => op'[p] = op[p]
    BY <1>4, <1>a DEF PerformFails, TypeOK
  <2> QED BY <2>1, <2>2 DEF Tags, OpsOf
<1>5. ASSUME NEW o \in Ops, PerformSucceeds(o) PROVE Tags'
  <2>1. UNCHANGED <<undoGroupId, group, tag, mixed, stuck, faults>> /\ op[o] = "performing"
    BY <1>5 DEF PerformSucceeds, mutator
  <2>2. op'[o] # "new" /\ \A p \in Ops : p # o => op'[p] = op[p]
    BY <1>5, <1>a DEF PerformSucceeds, Register, TypeOK
  <2>3. \A i \in 1..Len(commands') : commands'[i].group = tag'[commands'[i].op]
    <3>1. CASE isExecuting
      BY <1>5, <2>1, <3>1 DEF PerformSucceeds, Tags
    <3>2. CASE ~isExecuting
      <4>1. /\ Len(commands') = index + 1
            /\ \A i \in 1..index : commands'[i] = commands[i]
            /\ commands'[index + 1] = [op |-> o, group |-> tag[o]]
        BY <1>5, <3>2, <1>a, RegisteredLast DEF PerformSucceeds
      <4>2. index \in 0..Len(commands)
        BY <1>a DEF TypeOK
      <4>3. commands'[index + 1].op = o /\ commands'[index + 1].group = tag[o]
        BY <4>1
      <4>4. ASSUME NEW i \in 1..index PROVE commands'[i].group = tag[commands'[i].op]
        BY <4>1, <4>2 DEF Tags
      <4>5. \A i \in 1..Len(commands') : i \in 1..index \/ i = index + 1
        BY <4>1, <4>2
      <4> QED BY <2>1, <4>3, <4>4, <4>5
    <3> QED BY <3>1, <3>2
  <2>4. \A g \in Groups : group[g] = "new" => \A p \in OpsOf(g) : op'[p] = "new"
    BY <2>1, <2>2 DEF Tags, OpsOf
  <2>5. \A g \in Groups \ mixed : \A p \in OpsOf(g) : op'[p] # "new" => tag[p] = g
    BY <2>1, <2>2 DEF Tags, OpsOf
  <2> QED BY <2>1, <2>3, <2>4, <2>5 DEF Tags
<1>6. ASSUME Undo \/ Redo PROVE Tags'
  <2>1. UNCHANGED <<commands, mutator, op, faults, stuck>> /\ mixed \subseteq mixed'
    BY <1>6 DEF Undo, Redo, Call
  <2> QED BY <2>1 DEF Tags, mutator
<1>7. ASSUME UndoStep \/ RedoStep PROVE Tags'
  <2>1. UNCHANGED <<commands, mutator, op, faults, stuck, mixed>>
    BY <1>7 DEF UndoStep, RedoStep
  <2> QED BY <2>1, <1>c DEF Tags
<1>8. ASSUME RunFails PROVE Tags'
  <2>1. UNCHANGED <<commands, mutator, op, mixed>> /\ faults' # 0
    BY <1>8, <1>a, BoundsAssumption DEF RunFails, TypeOK
  <2> QED BY <2>1, <1>c
<1>9. CASE UNCHANGED vars
  BY <1>9, <1>c DEF vars, manager, Tags
<1> QED
  BY <1>1, <1>2, <1>3, <1>4, <1>5, <1>6, <1>7, <1>8, <1>9 DEF Next

\* A registration adds to the group that is open, and keeps or removes one that has
\* ended.
LEMMA WholeRegister ==
  ASSUME IInv, GroupsNotSplit, Tags, NEW g \in Groups \ mixed, Whole(g), faults = 0,
         NEW o \in Ops, PerformSucceeds(o)
  PROVE  Whole(g)'
<1>a. TypeOK /\ Unique /\ Running
  BY DEF IInv
<1>b. op[o] = "performing" /\ UNCHANGED <<isExecuting, group>> /\ stuck = None
  BY DEF PerformSucceeds, mutator, Tags
<1>c. index \in 0..Len(commands) /\ Len(commands) \in Nat
  BY <1>a DEF TypeOK
<1>d. \A p \in Ops : p # o => op'[p] = op[p]
  BY <1>a DEF PerformSucceeds, Register, TypeOK
<1>1. CASE isExecuting
  <2>1. UNCHANGED commands /\ op'[o] = "ignored"
    BY <1>1, <1>a DEF PerformSucceeds, TypeOK
  <2>2. o \notin OpsOf(g)
    <3>1. group[g] # "open"
      BY <1>1 DEF Whole
    <3>2. group[g] # "nested" /\ group[g] \in {"new", "open", "nested", "ended"}
      BY <1>a DEF Tags, TypeOK
    <3>3. group[g] = "new" => o \notin OpsOf(g)
      BY <1>b DEF Tags
    <3>4. group[g] = "ended" => o \notin OpsOf(g)
      BY <1>b DEF Whole, Performing
    <3> QED BY <3>1, <3>2, <3>3, <3>4
  <2>3. \A p \in OpsOf(g) : op'[p] = op[p]
    BY <2>2, <1>d DEF OpsOf
  <2>4. Performing' \subseteq Performing
    BY <2>1, <1>d DEF Performing
  <2>5. At(g)' = At(g) /\ (AllHaveCommands(g) => AllHaveCommands(g)') /\ OpsOf(g)' = OpsOf(g)
    BY <2>1, <2>3 DEF At, AllHaveCommands, HasCommand, OpsOf
  <2>6. group[g] # "open"
    BY <1>1 DEF Whole
  <2> QED BY <2>3, <2>4, <2>5, <2>6, <1>b DEF Whole
<1>2. CASE ~isExecuting
  <2>1. Register(o)
    BY <1>2 DEF PerformSucceeds
  <2>2. /\ Len(commands') = index + 1 /\ index' = index + 1
        /\ \A i \in 1..index : commands'[i] = commands[i]
        /\ commands'[index + 1].op = o /\ commands'[index + 1].group = tag[o]
    <3>1. commands'[index + 1] = [op |-> o, group |-> tag[o]] /\ Len(commands') = index + 1
          /\ index' = Len(commands') /\ \A i \in 1..index : commands'[i] = commands[i]
      BY <2>1, <1>a, RegisteredLast
    <3> QED BY <3>1
  <2>3. op'[o] = "registered" /\ Performing' \subseteq Performing \ {o}
    <3>1. op' = [op EXCEPT ![o] = "registered"]
      BY <2>1 DEF Register
    <3> QED BY <3>1, <1>a DEF Performing, TypeOK
  <2>4. At(g)' = (At(g) \cap 1..index) \cup {i \in {index + 1} : tag[o] = g}
    BY <2>2, <1>c DEF At
  <2>5. OpsOf(g)' = OpsOf(g) /\ OpsOf(g) \subseteq Ops
    BY DEF OpsOf
  <2>6. CASE group[g] = "open"
    <3>1. o \in OpsOf(g) /\ tag[o] = g
      BY <2>6, <1>b DEF Whole, Performing, Tags
    <3>2. CASE \E p \in OpsOf(g) : op[p] = "registered"
      <4>1. index = Len(commands)
        BY <2>6, <3>2 DEF Whole
      <4>2. At(g)' = At(g) \cup {index + 1}
        BY <2>4, <3>1, <4>1, <1>c DEF At
      <4>3. \A i \in At(g)' : \A j \in i..Len(commands') : j \in At(g)'
        <5>1. ASSUME NEW i \in At(g)', NEW j \in i..Len(commands') PROVE j \in At(g)'
          <6>1. CASE i \in At(g) /\ j # index + 1
            <7>1. i \in 1..Len(commands)
              BY <6>1 DEF At
            <7>2. j \in i..Len(commands)
              BY <5>1, <6>1, <7>1, <4>1, <2>2, <1>c
            <7> QED BY <6>1, <7>2, <2>6, <4>2 DEF Whole
          <6>2. CASE i \in At(g) /\ j = index + 1
            BY <6>2, <4>2
          <6>3. CASE i = index + 1
            BY <5>1, <6>3, <4>2, <2>2, <1>c
          <6> QED BY <5>1, <4>2, <6>1, <6>2, <6>3
        <5> QED BY <5>1
      <4>4. AllHaveCommands(g)'
        <5>1. ASSUME NEW p \in OpsOf(g), op'[p] = "registered", p # o
              PROVE  \E i \in 1..Len(commands') : commands'[i].op = p
          <6>1. HasCommand(p)
            BY <5>1, <2>5, <2>6, <1>d DEF Whole, AllHaveCommands
          <6>2. PICK i \in 1..Len(commands) : commands[i].op = p
            BY <6>1 DEF HasCommand
          <6> QED BY <6>2, <4>1, <2>2, <1>c
        <5>2. \E i \in 1..Len(commands') : commands'[i].op = o
          BY <2>2, <1>c
        <5> QED BY <5>1, <5>2, <2>5 DEF AllHaveCommands, HasCommand
      <4> QED BY <2>2, <2>3, <2>5, <2>6, <4>3, <4>4, <1>b, <1>d DEF Whole
    <3>3. CASE ~(\E p \in OpsOf(g) : op[p] = "registered")
      <4>1. At(g) = {}
        <5>1. ASSUME NEW i \in At(g) PROVE FALSE
          <6>1. i \in 1..Len(commands) /\ tag[commands[i].op] = g /\ op[commands[i].op] = "registered"
            BY <5>1, <1>a DEF At, Tags, Unique
          <6>2. commands[i].op \in OpsOf(g)
            BY <6>1, <1>a, CommandFields DEF Tags, OpsOf
          <6> QED BY <6>1, <6>2, <3>3
        <5> QED BY <5>1
      <4>2. At(g)' = {index + 1}
        BY <2>4, <3>1, <4>1
      <4>3. \A i \in At(g)' : \A j \in i..Len(commands') : j \in At(g)'
        BY <4>2, <2>2, <1>c
      <4>4. AllHaveCommands(g)'
        <5>1. ASSUME NEW p \in OpsOf(g), op'[p] = "registered" PROVE p = o
          BY <5>1, <3>3, <2>5, <1>d
        <5>2. \E i \in 1..Len(commands') : commands'[i].op = o
          BY <2>2, <1>c
        <5> QED BY <5>1, <5>2, <2>5 DEF AllHaveCommands, HasCommand
      <4> QED BY <2>2, <2>3, <2>5, <2>6, <4>3, <4>4, <1>b, <1>d DEF Whole
    <3> QED BY <3>2, <3>3
  <2>7. CASE group[g] = "ended"
    <3>1. o \notin OpsOf(g) /\ tag[o] # g
      BY <2>7, <1>b DEF Whole, Performing, Tags, OpsOf
    <3>2. At(g)' = At(g) \cap 1..index
      BY <2>4, <3>1
    <3>3. \A p \in OpsOf(g) : op'[p] = op[p]
      BY <2>5, <3>1, <1>d
    <3>4. \A i, k \in At(g)' : \A j \in i..k : j \in At(g)'
      <4>1. ASSUME NEW i \in At(g)', NEW k \in At(g)', NEW j \in i..k PROVE j \in At(g)'
        <5>1. i \in At(g) /\ k \in At(g) /\ i \in 1..index /\ k \in 1..index
          BY <4>1, <3>2
        <5>2. j \in At(g)
          BY <4>1, <5>1, <2>7 DEF Whole
        <5>3. j \in 1..index
          BY <4>1, <5>1, <1>c
        <5> QED BY <5>2, <5>3, <3>2
      <4> QED BY <4>1
    <3>5. At(g)' # {} => At(g) \subseteq 1..index
      <4> SUFFICES ASSUME NEW i \in At(g)', NEW k \in At(g), k \notin 1..index PROVE FALSE
        BY DEF At
      <4>1. i \in At(g) /\ i \in 1..index /\ i \in 1..Len(commands) /\ k \in 1..Len(commands)
        BY <3>2 DEF At
      <4>2. index \in i..k /\ index + 1 \in i..k /\ index \in 1..Len(commands) - 1
        BY <4>1, <1>c
      <4>3. index \in At(g) /\ index + 1 \in At(g)
        BY <4>1, <4>2, <2>7 DEF Whole
      <4>4. run = None
        BY <1>2, <1>a DEF Running
      <4> QED BY <4>2, <4>3, <4>4, <1>b, OpsAssumption DEF GroupsNotSplit, At
    <3>6. At(g)' # {} => AllHaveCommands(g)'
      <4>1. ASSUME At(g)' # {}, NEW p \in OpsOf(g), op[p] = "registered"
            PROVE  \E i \in 1..Len(commands') : commands'[i].op = p
        <5>1. At(g) # {} /\ At(g) \subseteq 1..index
          BY <4>1, <3>2, <3>5
        <5>2. HasCommand(p)
          BY <4>1, <5>1, <2>7 DEF Whole, AllHaveCommands
        <5>3. PICK i \in 1..Len(commands) : commands[i].op = p
          BY <5>2 DEF HasCommand
        <5>4. i \in At(g)
          BY <4>1, <5>3, <2>5 DEF Tags, At
        <5> QED BY <5>1, <5>3, <5>4, <2>2, <1>c
      <4> QED BY <4>1, <3>3, <2>5 DEF AllHaveCommands, HasCommand
    <3> QED BY <2>3, <2>5, <2>7, <3>3, <3>4, <3>6, <1>b DEF Whole
  <2>8. CASE group[g] = "new"
    <3>1. o \notin OpsOf(g)
      BY <2>8, <1>b DEF Tags
    <3>2. \A p \in OpsOf(g) : op'[p] = op[p]
      BY <2>5, <3>1, <1>d
    <3> QED BY <2>5, <2>8, <3>2, <1>b DEF Whole
  <2> QED BY <2>6, <2>7, <2>8, <1>a DEF Tags, TypeOK
<1> QED BY <1>1, <1>2

\* Every other action leaves the commands, and begins, ends or performs a group.
LEMMA WholeStep == IInv /\ GroupsNotSplit /\ WholeInv /\ [Next]_vars => WholeInv'
<1> SUFFICES ASSUME IInv, GroupsNotSplit, WholeInv, [Next]_vars PROVE WholeInv'
  OBVIOUS
<1>a. TypeOK /\ Unique /\ Running /\ Tags /\ \A i \in 1..Len(commands) : commands[i].op \in Ops
  BY CommandFields DEF IInv, WholeInv
<1>b. Tags'
  BY <1>a, TagsStep
<1>c. mixed \subseteq mixed'
  <2>1. ASSUME NEW g \in Groups, BeginGroup(g) PROVE mixed \subseteq mixed'
    BY <2>1 DEF BeginGroup
  <2>2. ASSUME NEW o \in Ops, Perform(o) PROVE mixed \subseteq mixed'
    BY <2>2 DEF Perform
  <2>3. ASSUME Undo \/ Redo PROVE mixed \subseteq mixed'
    BY <2>3 DEF Undo, Redo, Call
  <2> QED BY <2>1, <2>2, <2>3
       DEF Next, vars, EndGroup, PerformFails, PerformSucceeds, UndoStep, RedoStep, RunFails
<1>d. faults' = 0 => faults = 0
  <2>1. faults \in Nat
    BY <1>a, BoundsAssumption DEF TypeOK
  <2>2. faults' = faults \/ faults' = faults + 1
    BY DEF Next, vars, BeginGroup, EndGroup, Perform, PerformFails, PerformSucceeds, Undo, Redo, Call,
           UndoStep, RedoStep, RunFails
  <2> QED BY <2>1, <2>2
<1> SUFFICES ASSUME NEW g \in Groups \ mixed', faults' = 0 PROVE Whole(g)'
  BY <1>b DEF WholeInv
<1>e. g \in Groups \ mixed /\ faults = 0 /\ Whole(g)
  BY <1>c, <1>d DEF WholeInv
<1>f. ASSUME UNCHANGED <<commands, index, isExecuting, op, group>> PROVE Whole(g)'
  BY <1>e, <1>f DEF Whole, At, AllHaveCommands, HasCommand, OpsOf, Performing
<1>1. ASSUME NEW h \in Groups, BeginGroup(h) PROVE Whole(g)'
  <2>1. UNCHANGED <<commands, index, isExecuting, op>> /\ group[h] = "new"
    BY <1>1 DEF BeginGroup, manager
  <2>2. CASE h # g
    <3>1. group'[g] = group[g]
      <4>1. group' = [group EXCEPT ![h] = "open"] \/ group' = [group EXCEPT ![h] = "nested"]
        BY <1>1 DEF BeginGroup
      <4> QED BY <4>1, <2>2, <1>a, <1>e DEF TypeOK
    <3> QED BY <2>1, <3>1, <1>e DEF Whole, At, AllHaveCommands, HasCommand, OpsOf, Performing
  <2>3. CASE h = g
    <3>1. Performing = {} /\ run = None /\ group' = [group EXCEPT ![g] = "open"]
      BY <1>1, <1>e, <2>3 DEF BeginGroup
    <3>2. group'[g] = "open"
      BY <3>1, <1>a DEF TypeOK
    <3>3. ~isExecuting
      BY <3>1, <1>a, <1>e DEF Running, Tags
    <3>4. \A o \in OpsOf(g) : op[o] = "new"
      BY <2>1, <2>3, <1>a DEF Tags
    <3>5. At(g) = {}
      <4>1. ASSUME NEW i \in At(g) PROVE FALSE
        <5>1. i \in 1..Len(commands) /\ tag[commands[i].op] = g /\ op[commands[i].op] = "registered"
          BY <4>1, <1>a DEF At, Tags, Unique
        <5>2. commands[i].op \in OpsOf(g)
          BY <5>1, <1>a, <1>e DEF Tags, OpsOf
        <5> QED BY <5>1, <5>2, <3>4
      <4> QED BY <4>1
    <3> QED BY <2>1, <3>1, <3>2, <3>3, <3>4, <3>5 DEF Whole, At, AllHaveCommands, HasCommand, OpsOf, Performing
  <2> QED BY <2>2, <2>3
<1>2. ASSUME NEW h \in Groups, EndGroup(h) PROVE Whole(g)'
  <2>1. UNCHANGED <<commands, index, isExecuting, op>> /\ group[h] \in {"open", "nested"}
        /\ group' = [group EXCEPT ![h] = "ended"]
    BY <1>2 DEF EndGroup, manager
  <2>2. CASE h # g
    <3>1. group'[g] = group[g]
      BY <2>1, <2>2
    <3> QED BY <2>1, <3>1, <1>e DEF Whole, At, AllHaveCommands, HasCommand, OpsOf, Performing
  <2>3. CASE h = g
    <3>1. group[g] = "open" /\ group'[g] = "ended"
      BY <2>1, <2>3, <1>a, <1>e DEF Tags, TypeOK
    <3>2. Performing \cap OpsOf(g) = {}
      BY <1>2, <2>3, <1>e DEF EndGroup, OpsOf, Whole
    <3>3. \A i, k \in At(g) : \A j \in i..k : j \in At(g)
      <4>1. ASSUME NEW i \in At(g), NEW k \in At(g), NEW j \in i..k PROVE j \in At(g)
        <5>1. i \in 1..Len(commands) /\ k \in 1..Len(commands) /\ Len(commands) \in Nat
          BY <4>1, <1>a DEF At, TypeOK
        <5>2. j \in i..Len(commands)
          BY <4>1, <5>1
        <5> QED BY <5>2, <3>1, <1>e DEF Whole
      <4> QED BY <4>1
    <3>4. AllHaveCommands(g) /\ \A o \in OpsOf(g) : op[o] \in {"new", "performing", "registered"}
      BY <3>1, <1>e DEF Whole
    <3> QED BY <2>1, <3>1, <3>2, <3>3, <3>4 DEF Whole, At, AllHaveCommands, HasCommand, OpsOf, Performing
  <2> QED BY <2>2, <2>3
<1>3. ASSUME NEW o \in Ops, Perform(o) PROVE Whole(g)'
  <2>1. /\ UNCHANGED <<commands, index, isExecuting, group>> /\ op[o] = "new"
        /\ GroupOf[o] # None => group[GroupOf[o]] \in {"open", "nested"}
    BY <1>3 DEF Perform, manager
  <2>2. op'[o] = "performing" /\ \A p \in Ops : p # o => op'[p] = op[p]
    BY <1>3, <1>a DEF Perform, TypeOK
  <2>3. At(g)' = At(g) /\ OpsOf(g)' = OpsOf(g) /\ OpsOf(g) \subseteq Ops
    BY <2>1 DEF At, OpsOf
  <2>4. AllHaveCommands(g) => AllHaveCommands(g)'
    BY <2>1, <2>2, <2>3 DEF AllHaveCommands, HasCommand
  <2>5. Performing' = Performing \cup {o}
    BY <2>2 DEF Performing
  <2>6. CASE group[g] = "open"
    <3>1. tag'[o] = g
      BY <1>3, <1>a, <2>6 DEF Perform, Tags, TypeOK
    <3>2. o \in OpsOf(g)
      BY <3>1, <1>b DEF Tags, OpsOf
    <3>3. \A p \in OpsOf(g) : op'[p] = "registered" => op[p] = "registered"
      BY <2>2, <2>3
    <3> QED BY <2>1, <2>2, <2>3, <2>4, <2>5, <2>6, <3>2, <3>3, <1>e DEF Whole
  <2>7. CASE group[g] # "open"
    <3>1. group[g] # "nested"
      BY <1>a, <1>e DEF Tags
    <3>2. o \notin OpsOf(g)
      BY <2>1, <2>7, <3>1, OpsAssumption DEF OpsOf
    <3>3. \A p \in OpsOf(g) : op'[p] = op[p]
      BY <2>2, <2>3, <3>2
    <3> QED BY <2>1, <2>3, <2>4, <2>5, <2>7, <3>2, <3>3, <1>e DEF Whole
  <2> QED BY <2>6, <2>7
<1>4. ASSUME NEW o \in Ops, PerformSucceeds(o) PROVE Whole(g)'
  BY <1>4, <1>a, <1>e, WholeRegister
<1>5. ASSUME Undo \/ Redo PROVE Whole(g)'
  <2>1. UNCHANGED <<commands, index, op, group>>
        /\ mixed' = IF undoGroupId = None THEN mixed ELSE mixed \cup {undoGroupId}
    BY <1>5 DEF Undo, Redo, Call, mutator
  <2>2. group[g] # "open"
    BY <2>1, <1>a, OpsAssumption DEF Tags
  <2> QED BY <2>1, <2>2, <1>e DEF Whole, At, AllHaveCommands, HasCommand, OpsOf, Performing
<1>6. ASSUME UndoStep \/ RedoStep PROVE Whole(g)'
  <2>1. UNCHANGED <<commands, op, group>> /\ run # None
    BY <1>6 DEF UndoStep, RedoStep, mutator
  <2>2. group[g] # "open"
    BY <2>1, <1>a, <1>e DEF Whole, Running
  <2> QED BY <2>1, <2>2, <1>e DEF Whole, At, AllHaveCommands, HasCommand, OpsOf, Performing
<1>7. ASSUME NEW o \in Ops, PerformFails(o) PROVE FALSE
  BY <1>7, <1>a, BoundsAssumption DEF PerformFails, TypeOK
<1>8. ASSUME RunFails PROVE FALSE
  BY <1>8, <1>a, BoundsAssumption DEF RunFails, TypeOK
<1>9. CASE UNCHANGED vars
  BY <1>9, <1>f DEF vars, manager, mutator
<1> QED
  BY <1>1, <1>2, <1>3, <1>4, <1>5, <1>6, <1>7, <1>8, <1>9 DEF Next

\* A group that nothing ran into is in the history as a whole, in one piece, or not
\* at all.
THEOREM GroupsAreWhole == Spec => []GroupsWhole
<1>1. Init => WholeInv
  BY WholeInit
<1>2. IInv /\ GroupsNotSplit /\ WholeInv /\ [Next]_vars => WholeInv'
  BY WholeStep
<1>3. IInv /\ WholeInv => GroupsWhole
  <2> SUFFICES ASSUME IInv, WholeInv, NEW g \in Groups \ mixed, group[g] = "ended", faults = 0, At(g) # {}
               PROVE  /\ \A i, k \in At(g) : \A j \in i..k : j \in At(g)
                      /\ {commands[i].op : i \in At(g)} = {o \in Ops : GroupOf[o] = g /\ op[o] # "new"}
    BY DEF GroupsWhole, At
  <2>1. Whole(g) /\ Tags
    BY DEF WholeInv
  <2>2. ASSUME NEW i \in At(g) PROVE commands[i].op \in OpsOf(g) /\ op[commands[i].op] # "new"
    <3>1. i \in 1..Len(commands) /\ tag[commands[i].op] = g /\ op[commands[i].op] = "registered"
      BY <2>1, <2>2 DEF At, Tags, IInv, Unique
    <3>2. commands[i].op \in Ops
      BY <3>1, CommandFields DEF IInv
    <3> QED BY <2>1, <3>1, <3>2 DEF Tags, OpsOf
  <2>3. ASSUME NEW o \in OpsOf(g), op[o] # "new" PROVE \E i \in At(g) : commands[i].op = o
    <3>1. op[o] = "registered"
      BY <2>1, <2>3 DEF Whole, Performing, OpsOf
    <3>2. PICK i \in 1..Len(commands) : commands[i].op = o
      BY <2>1, <2>3, <3>1 DEF Whole, AllHaveCommands, HasCommand
    <3>3. commands[i].group = g
      BY <2>1, <2>3, <3>2 DEF Tags
    <3> QED BY <3>2, <3>3 DEF At
  <2> QED BY <2>1, <2>2, <2>3 DEF Whole, OpsOf
<1> QED BY <1>1, <1>2, <1>3, Invariance, NotSplit, PTL DEF Spec

\* Types are kept, and the index stays in step with the server.
THEOREM UndoSafe == Spec => []UndoInv
<1>1. TypeOK /\ InStep => UndoInv
  BY DEF UndoInv
<1> QED BY <1>1, TypeCorrect, HistoryInStep, PTL

\* Groups are undone and redone as a whole, and stay in one piece.
THEOREM GroupsStay == Spec => []GroupsKept
<1>1. GroupsNotSplit /\ GroupsWhole => GroupsKept
  BY DEF GroupsKept
<1> QED BY <1>1, NotSplit, GroupsAreWhole, PTL

----------------------------------------------------------------------------
(***************************************************************************)
(* The inductive invariant of the subscriptions.                            *)
(***************************************************************************)
\* Only a user who is logged in has components with a team, and a connection
\* that works is then authenticated; the host of a plugin is logged in.
SessionOK ==
  /\ wsLink = "none" => ~wsToken
  /\ ~wsToken => \A c \in Comps : wsOn[c] = NoTeam
  /\ wsLink = "up" /\ wsToken => wsAuthed
  /\ wsMode = "plugin" /\ wsLink # "none" => wsToken /\ wsAuthed
  /\ wsRestarting => wsMode = "plugin"
  /\ wsReopen => wsMode = "standalone" /\ wsRetry < MaxRetries

\* While somebody is subscribed to the current team, it is the one listened to.
ListensWhenNeeded == wsCount[wsCurrent] > 0 => wsTeam = wsCurrent

\* Versions count changes.
VersionsBounded == \A x \in Objects : truth[x].ver <= changes + 1

----------------------------------------------------------------------------
(***************************************************************************)
(* The inductive invariant of the screen.                                   *)
(***************************************************************************)
\* The list of a card: none, or entries of different blocks.
Lists ==
  {NoList} \cup {l \in SUBSET [id : Blocks, ver : Nat] : \A e, f \in l : e.id = f.id => e = f}

Slices == [byId : [Blocks -> Nat], lists : [Holders -> Lists]]

\* A slice lists only blocks that it has in its map.
ListsMapped(slice) == \A b \in Blocks : Listed(slice, b) => slice.byId[b] # 0

StoreOK(st) ==
  /\ st \in [board : Nat, views : [Blocks -> Nat], cards : [Blocks -> Nat],
             templates : [Blocks -> Nat],
             comments : Slices, attachments : Slices, contents : Slices]
  /\ ListsMapped(st.comments) /\ ListsMapped(st.attachments) /\ ListsMapped(st.contents)

QueuedUpdate == [id : Objects, ver : Nat \ {0}, gone : BOOLEAN]

\* No two updates of an object.
OncePerObject(updates) ==
  \A i, j \in 1..Len(updates) : updates[i].id = updates[j].id => i = j

\* The queue holds one update of an object, under its kind.
QueueOK ==
  /\ wsQueue \in [Kinds -> Seq(QueuedUpdate)]
  /\ \A k \in Kinds : OncePerObject(wsQueue[k])
  /\ \A k \in Kinds : \A u \in UpdatesOf(k) : KindOfObject(u.id) = k

\* The update that is queued of an object is its last change, and what is not
\* queued is on the screen: but for what was missed or passed over.
UpToDate ==
  \A x \in Objects \ missed :
    /\ \A u \in UpdatesOf(KindOfObject(x)) :
         u.id = x => u.ver = truth[x].ver /\ u.gone = truth[x].gone
    /\ x \notin crowded /\ x \notin IdsIn(KindOfObject(x)) => Newest(x)

SubscriptionsIInv ==
  /\ LiveTypeOK /\ VersionsBounded /\ QueueOK
  /\ SessionOK
  /\ CountsComponents
  /\ ListensWhenNeeded
  /\ ServerKnowsSubscriptions

ScreenIInv == StoreOK(store) /\ UpToDate

----------------------------------------------------------------------------
(***************************************************************************)
(* The subscriptions.                                                       *)
(***************************************************************************)
OnTeam(on, t) == {c \in Comps : on[c] = t}

\* How many components are on a team when one of them has moved.
LEMMA OneMoves ==
  ASSUME NEW on \in [Comps -> Teams \cup {NoTeam}], NEW c \in Comps,
         NEW to \in Teams \cup {NoTeam}, NEW t \in Teams,
         NEW moved, moved[c] = to, \A d \in Comps \ {c} : moved[d] = on[d]
  PROVE  /\ Cardinality(OnTeam(on, t)) \in Nat
         /\ Cardinality(OnTeam(moved, t)) =
              IF on[c] = to THEN Cardinality(OnTeam(on, t))
              ELSE IF t = to THEN Cardinality(OnTeam(on, t)) + 1
              ELSE IF t = on[c] THEN Cardinality(OnTeam(on, t)) - 1
              ELSE Cardinality(OnTeam(on, t))
<1> DEFINE S == OnTeam(on, t)
           T == OnTeam(moved, t)
<1>1. IsFiniteSet(S) /\ S \subseteq Comps
  BY CompsAssumption, FS_Subset DEF OnTeam
<1>2. Cardinality(S) \in Nat
  BY <1>1, FS_CardinalityType
<1>3. CASE on[c] = to
  BY <1>2, <1>3 DEF OnTeam
<1>4. CASE on[c] # to /\ t = to
  <2>1. T = S \cup {c} /\ c \notin S
    BY <1>4 DEF OnTeam
  <2>2. Cardinality(T) = Cardinality(S) + 1
    BY <1>1, <2>1, FS_AddElement
  <2> QED BY <1>2, <1>4, <2>2
<1>5. CASE on[c] # to /\ t # to /\ t = on[c]
  <2>1. T = S \ {c} /\ c \in S
    BY <1>5 DEF OnTeam
  <2>2. Cardinality(T) = Cardinality(S) - 1
    <3> HIDE DEF S, T
    <3> QED BY <1>1, <2>1, FS_RemoveElement
  <2> QED BY <1>2, <1>5, <2>2
<1>6. CASE on[c] # to /\ t # to /\ t # on[c]
  <2>1. T = S
    BY <1>6 DEF OnTeam
  <2> QED BY <1>2, <1>6, <2>1
<1> QED BY <1>3, <1>4, <1>5, <1>6

\* Nobody is subscribed to a team before it has somebody mounted.
LEMMA CountsPositive ==
  ASSUME WSTypeOK, CountsComponents, NEW t \in Teams
  PROVE  /\ wsCount[t] \in Nat
         /\ wsCount[t] > 0 <=> \E c \in Comps : wsOn[c] = t
<1> DEFINE S == {c \in Comps : wsOn[c] = t}
<1>1. IsFiniteSet(S)
  BY CompsAssumption, FS_Subset
<1>2. Cardinality(S) \in Nat /\ (Cardinality(S) = 0 <=> S = {})
  BY <1>1, FS_CardinalityType, FS_EmptySet
<1>3. wsCount[t] = Cardinality(S)
  BY DEF CountsComponents
<1> QED BY <1>2, <1>3

\* The subscriptions agree, for the components on, the counts, the team that is
\* listened to, and the teams the server knows.
Agree(on, count, team, heard) ==
  /\ on \in [Comps -> Teams \cup {NoTeam}] /\ count \in [Teams -> Nat]
  /\ team \in Teams \cup {NoTeam} /\ heard \in SUBSET Teams
  /\ \A t \in Teams : count[t] = Cardinality(OnTeam(on, t))
  /\ count[wsCurrent] > 0 => team = wsCurrent
  /\ wsLink = "up" /\ ~wsRestarting => {t \in Teams : count[t] > 0} \subseteq heard

LEMMA SubscribeKeeps ==
  ASSUME WSTypeOK, SessionOK, wsToken,
         NEW on, NEW count, NEW team, NEW heard, Agree(on, count, team, heard),
         NEW c \in Comps, on[c] = NoTeam
  PROVE  LET new == SubscribeTo(wsCurrent, count, team, heard) IN
         Agree([on EXCEPT ![c] = wsCurrent], new.count, new.team, new.heard)
<1> DEFINE t == wsCurrent
           new == SubscribeTo(t, count, team, heard)
           on2 == [on EXCEPT ![c] = t]
<1>0. t \in Teams /\ NoTeam \notin Teams
  BY NoTeamAssumption DEF WSTypeOK
<1>1. on2 \in [Comps -> Teams \cup {NoTeam}] /\ new.count \in [Teams -> Nat]
  BY <1>0 DEF Agree, SubscribeTo
<1>2. new.team \in Teams \cup {NoTeam} /\ new.heard \in SUBSET Teams
  BY <1>0 DEF Agree, SubscribeTo
<1>c. on2[c] = wsCurrent /\ \A d \in Comps \ {c} : on2[d] = on[d]
  BY DEF Agree
<1>3. \A d \in Teams : new.count[d] = Cardinality(OnTeam(on2, d))
  <2> TAKE d \in Teams
  <2>1. on \in [Comps -> Teams \cup {NoTeam}] /\ count[d] = Cardinality(OnTeam(on, d))
    BY DEF Agree
  <2>2. Cardinality(OnTeam(on2, d)) = IF d = t THEN count[d] + 1 ELSE count[d]
    <3> HIDE DEF on2
    <3> QED BY <1>0, <1>c, <2>1, OneMoves
  <2>3. new.count[d] = IF d = t THEN count[d] + 1 ELSE count[d]
    BY <1>0 DEF SubscribeTo, Agree
  <2> QED BY <2>2, <2>3
<1>4. new.team = t
  BY <1>0 DEF SubscribeTo, Agree
<1>5. ASSUME wsLink = "up", ~wsRestarting
      PROVE  {d \in Teams : new.count[d] > 0} \subseteq new.heard
  <2>1. Reaches /\ wsAuthed
    BY <1>5 DEF Reaches, HasConn, SessionOK
  <2>2. t \in new.heard /\ heard \subseteq new.heard
    BY <1>0, <1>5, <2>1 DEF SubscribeTo, Agree
  <2>3. \A d \in Teams \ {t} : new.count[d] = count[d]
    BY <1>0 DEF SubscribeTo, Agree
  <2> QED BY <1>5, <2>2, <2>3 DEF Agree
<1> HIDE DEF new, on2
<1>6. Agree(on2, new.count, new.team, new.heard)
  BY <1>1, <1>2, <1>3, <1>4, <1>5 DEF Agree
<1> QED BY <1>6 DEF new, on2

LEMMA UnsubscribeKeeps ==
  ASSUME WSTypeOK, SessionOK,
         NEW on, NEW count, NEW team, NEW heard, Agree(on, count, team, heard),
         NEW c \in Comps, on[c] # NoTeam
  PROVE  LET new == UnsubscribeFrom(on[c], count, team, heard) IN
         Agree([on EXCEPT ![c] = NoTeam], new.count, new.team, new.heard)
<1> DEFINE t == on[c]
           new == UnsubscribeFrom(t, count, team, heard)
           on2 == [on EXCEPT ![c] = NoTeam]
<1>0. t \in Teams /\ NoTeam \notin Teams
  BY NoTeamAssumption DEF Agree
<1>a. count[t] \in Nat \ {0}
  <2>1. c \in OnTeam(on, t) /\ IsFiniteSet(OnTeam(on, t))
    BY CompsAssumption, FS_Subset DEF OnTeam
  <2>2. Cardinality(OnTeam(on, t)) # 0
    BY <2>1, FS_EmptySet
  <2> QED BY <1>0, <2>2 DEF Agree
<1>1. on2 \in [Comps -> Teams \cup {NoTeam}] /\ new.count \in [Teams -> Nat]
  BY <1>0, <1>a DEF Agree, UnsubscribeFrom
<1>2. new.team \in Teams \cup {NoTeam} /\ new.heard \in SUBSET Teams
  BY <1>0 DEF Agree, UnsubscribeFrom
<1>b. \A d \in Teams : new.count[d] = IF d = t THEN count[d] - 1 ELSE count[d]
  BY <1>0 DEF UnsubscribeFrom, Agree
<1>c. on2[c] = NoTeam /\ \A d \in Comps \ {c} : on2[d] = on[d]
  BY DEF Agree
<1>3. \A d \in Teams : new.count[d] = Cardinality(OnTeam(on2, d))
  <2> TAKE d \in Teams
  <2>1. on \in [Comps -> Teams \cup {NoTeam}] /\ count[d] = Cardinality(OnTeam(on, d))
    BY DEF Agree
  <2>2. Cardinality(OnTeam(on2, d)) = IF d = t THEN count[d] - 1 ELSE count[d]
    <3> HIDE DEF on2
    <3> QED BY <1>0, <1>c, <2>1, OneMoves
  <2> QED BY <1>b, <2>2
<1>4. new.count[wsCurrent] > 0 => new.team = wsCurrent
  <2>1. new.team = IF count[t] = 1 /\ team = t THEN NoTeam ELSE team
    BY DEF UnsubscribeFrom
  <2>2. wsCurrent \in Teams /\ count[wsCurrent] \in Nat
    BY DEF WSTypeOK, Agree
  <2> QED BY <1>a, <1>b, <2>1, <2>2 DEF Agree
<1>5. ASSUME wsLink = "up", ~wsRestarting
      PROVE  {d \in Teams : new.count[d] > 0} \subseteq new.heard
  <2>1. (new.heard = heard \ {t} /\ count[t] = 1) \/ new.heard = heard
    BY DEF UnsubscribeFrom
  <2>2. \A d \in Teams : count[d] \in Nat
    BY DEF Agree
  <2> QED BY <1>5, <1>a, <1>b, <2>1, <2>2 DEF Agree
<1> HIDE DEF new, on2
<1>6. Agree(on2, new.count, new.team, new.heard)
  BY <1>1, <1>2, <1>3, <1>4, <1>5 DEF Agree
<1> QED BY <1>6 DEF new, on2


\* The invariant of the subscriptions, said of the variables.
Agreed == Agree(wsOn, wsCount, wsTeam, wsHeard)

LEMMA AgreedIsInv ==
  ASSUME WSTypeOK
  PROVE  Agreed <=> CountsComponents /\ ListensWhenNeeded /\ ServerKnowsSubscriptions
<1>1. \A t \in Teams : OnTeam(wsOn, t) = {c \in Comps : wsOn[c] = t}
  BY DEF OnTeam
<1> QED BY <1>1 DEF WSTypeOK, Agreed, Agree, CountsComponents, ListensWhenNeeded,
                    ServerKnowsSubscriptions, Registered

LEMMA MountKeeps ==
  ASSUME WSTypeOK, SessionOK, Agreed, NEW c \in Comps, WSMount(c)
  PROVE  Agreed' /\ SessionOK' /\ WSTypeOK'
<1>1. wsOn[c] = NoTeam /\ wsToken /\ wsOn' = [wsOn EXCEPT ![c] = wsCurrent]
  BY DEF WSMount
<1> DEFINE new == SubscribeTo(wsCurrent, wsCount, wsTeam, wsHeard)
<1>a. wsCount' = new.count /\ wsTeam' = new.team /\ wsHeard' = new.heard
  BY DEF WSMount, Now
<1>2. Agree(wsOn', wsCount', wsTeam', wsHeard')
  BY <1>1, <1>a, SubscribeKeeps DEF Agreed
<1>3. Agreed'
  BY <1>2 DEF Agreed, Agree, WSMount, wsConnVars
<1>4. SessionOK'
  BY <1>1 DEF SessionOK, WSMount, wsConnVars
<1>5. WSTypeOK'
  BY <1>2 DEF Agree, WSTypeOK, WSMount, wsConnVars, wsQueueVars
<1> QED BY <1>3, <1>4, <1>5

LEMMA UnmountKeeps ==
  ASSUME WSTypeOK, SessionOK, Agreed, NEW c \in Comps, WSUnmount(c)
  PROVE  Agreed' /\ SessionOK' /\ WSTypeOK'
<1>1. wsOn[c] # NoTeam /\ wsOn' = [wsOn EXCEPT ![c] = NoTeam]
  BY DEF WSUnmount
<1>2. Agree(wsOn', wsCount', wsTeam', wsHeard')
  BY <1>1, UnsubscribeKeeps DEF Agreed, WSUnmount, Now
<1>3. Agreed'
  BY <1>2 DEF Agreed, Agree, WSUnmount, wsConnVars
<1>4. SessionOK'
  BY <1>1 DEF SessionOK, WSUnmount, wsConnVars, WSTypeOK
<1>5. WSTypeOK'
  BY <1>2 DEF Agree, WSTypeOK, WSUnmount, wsConnVars, wsQueueVars
<1> QED BY <1>3, <1>4, <1>5

LEMMA RerenderKeeps ==
  ASSUME WSTypeOK, SessionOK, Agreed, NEW c \in Comps, WSRerender(c)
  PROVE  Agreed' /\ SessionOK' /\ WSTypeOK'
<1> DEFINE left == UnsubscribeFrom(wsOn[c], wsCount, wsTeam, wsHeard)
           between == [wsOn EXCEPT ![c] = NoTeam]
           new == SubscribeTo(wsCurrent, left.count, left.team, left.heard)
<1>1. wsOn[c] # NoTeam /\ wsOn' = [wsOn EXCEPT ![c] = wsCurrent]
  BY DEF WSRerender
<1>2. Agree(between, left.count, left.team, left.heard)
  BY <1>1, UnsubscribeKeeps DEF Agreed
<1>3. wsToken
  BY <1>1 DEF SessionOK
<1>4. between[c] = NoTeam /\ wsOn' = [between EXCEPT ![c] = wsCurrent]
  BY <1>1 DEF WSTypeOK
<1>5. wsCount' = new.count /\ wsTeam' = new.team /\ wsHeard' = new.heard
  BY DEF WSRerender, Now
<1> HIDE DEF left, between
<1>6. Agree(wsOn', wsCount', wsTeam', wsHeard')
  BY <1>2, <1>3, <1>4, <1>5, SubscribeKeeps
<1>7. Agreed'
  BY <1>6 DEF Agreed, Agree, WSRerender, wsConnVars
<1>8. SessionOK'
  BY <1>3 DEF SessionOK, WSRerender, wsConnVars
<1>9. WSTypeOK'
  BY <1>6 DEF Agree, WSTypeOK, WSRerender, wsConnVars, wsQueueVars
<1> QED BY <1>7, <1>8, <1>9


\* The steps of the connection.
LEMMA ConnectionKeeps ==
  ASSUME WSTypeOK, SessionOK, Agreed,
         \/ WSOpen \/ WSAuthenticate \/ WSOnOpen \/ WSLose \/ WSOnClose \/ WSReopenTimer
         \/ WSPluginReconnect \/ WSPluginRestart \/ WSPluginTimer
  PROVE  Agreed' /\ SessionOK' /\ WSTypeOK'
<1> USE WSBoundsAssumption
<1>1. Registered \in SUBSET Teams
  BY DEF Registered
<1>2. ~wsToken => Registered = {}
  <2> SUFFICES ASSUME ~wsToken, NEW t \in Teams
               PROVE  ~(wsCount[t] > 0)
    BY DEF Registered
  <2>1. OnTeam(wsOn, t) = {}
    BY NoTeamAssumption DEF SessionOK, OnTeam
  <2>2. wsCount[t] = 0
    BY <2>1, FS_EmptySet DEF Agreed, Agree
  <2> QED BY <2>2
<1>3. CASE WSOpen
  <2>1. ~wsToken
    BY <1>3 DEF WSOpen, SessionOK
  <2>2. Agreed'
    BY <1>2, <1>3, <2>1 DEF WSOpen, Agreed, Agree, Registered, wsSubVars
  <2>3. SessionOK'
    BY <1>3, <2>1 DEF WSOpen, SessionOK, wsSubVars
  <2>4. WSTypeOK'
    BY <1>3 DEF WSOpen, WSTypeOK, wsSubVars, wsQueueVars
  <2> QED BY <2>2, <2>3, <2>4
<1>4. CASE WSAuthenticate
  <2>1. Agreed'
    BY <1>4 DEF WSAuthenticate, Agreed, Agree, wsSubVars
  <2>2. SessionOK'
    BY <1>4 DEF WSAuthenticate, SessionOK, wsSubVars, Reaches, HasConn
  <2>3. WSTypeOK'
    BY <1>4 DEF WSAuthenticate, WSTypeOK, wsSubVars, wsQueueVars
  <2> QED BY <2>1, <2>2, <2>3
<1>5. CASE WSOnOpen
  <2>1. Agreed'
    BY <1>1, <1>2, <1>5 DEF WSOnOpen, Agreed, Agree, wsSubVars, Registered
  <2>2. SessionOK'
    BY <1>5 DEF WSOnOpen, SessionOK, wsSubVars, WSTypeOK
  <2>3. WSTypeOK'
    BY <1>1, <1>5 DEF WSOnOpen, WSTypeOK, wsSubVars, wsQueueVars
  <2> QED BY <2>1, <2>2, <2>3
<1>6. CASE WSLose
  <2>1. Agreed'
    BY <1>6 DEF WSLose, Agreed, Agree, wsSubVars, wsServerVars
  <2>2. SessionOK'
    BY <1>6 DEF WSLose, SessionOK, wsSubVars, wsServerVars
  <2>3. WSTypeOK'
    BY <1>6 DEF WSLose, WSTypeOK, wsSubVars, wsServerVars, wsQueueVars
  <2> QED BY <2>1, <2>2, <2>3
<1>7. CASE WSOnClose
  <2>1. Agreed'
    BY <1>7 DEF WSOnClose, Agreed, Agree, wsSubVars, wsServerVars
  <2>2. SessionOK'
    BY <1>7 DEF WSOnClose, SessionOK, wsSubVars, wsServerVars
  <2>3. WSTypeOK'
    BY <1>7 DEF WSOnClose, WSTypeOK, wsSubVars, wsServerVars, wsQueueVars
  <2> QED BY <2>1, <2>2, <2>3
<1>8. CASE WSReopenTimer
  <2>1. Agreed'
    BY <1>8 DEF WSReopenTimer, Agreed, Agree, wsSubVars, wsServerVars
  <2>2. SessionOK'
    BY <1>8 DEF WSReopenTimer, SessionOK, wsSubVars, wsServerVars
  <2>a. wsRetry' \in 0..MaxRetries
    BY <1>8 DEF WSReopenTimer, WSTypeOK, SessionOK
  <2>3. WSTypeOK'
    BY <1>8, <2>a DEF WSReopenTimer, WSTypeOK, wsSubVars, wsServerVars, wsQueueVars
  <2> QED BY <2>1, <2>2, <2>3
<1>9. CASE WSPluginReconnect
  <2>1. Agreed'
    BY <1>1, <1>9 DEF WSPluginReconnect, Agreed, Agree, wsSubVars, Registered
  <2>2. SessionOK'
    BY <1>9 DEF WSPluginReconnect, SessionOK, wsSubVars
  <2>3. WSTypeOK'
    BY <1>1, <1>9 DEF WSPluginReconnect, WSTypeOK, wsSubVars, wsQueueVars
  <2> QED BY <2>1, <2>2, <2>3
<1>10. CASE WSPluginRestart
  <2>1. Agreed'
    BY <1>10 DEF WSPluginRestart, Agreed, Agree, wsSubVars
  <2>2. SessionOK'
    BY <1>10 DEF WSPluginRestart, SessionOK, wsSubVars
  <2>3. WSTypeOK'
    BY <1>10 DEF WSPluginRestart, WSTypeOK, wsSubVars, wsQueueVars
  <2> QED BY <2>1, <2>2, <2>3
<1>11. CASE WSPluginTimer
  <2>1. wsLink = "up" => Reaches /\ wsAuthed
    BY <1>11 DEF WSPluginTimer, SessionOK, Reaches, HasConn
  <2>2. Agreed'
    BY <1>1, <1>11, <2>1 DEF WSPluginTimer, Agreed, Agree, wsSubVars, Registered, Subscribing
  <2>3. SessionOK'
    BY <1>11 DEF WSPluginTimer, SessionOK, wsSubVars
  <2>4. WSTypeOK'
    BY <1>1, <1>11 DEF WSPluginTimer, WSTypeOK, wsSubVars, wsQueueVars, Subscribing
  <2> QED BY <2>2, <2>3, <2>4
<1> QED BY <1>3, <1>4, <1>5, <1>6, <1>7, <1>8, <1>9, <1>10, <1>11

\* The steps that leave the connection and the subscriptions alone.
LEMMA OthersKeep ==
  ASSUME WSTypeOK, SessionOK, Agreed,
         \/ WSSwitchTeam
         \/ WSFlush
         \/ \E x \in Objects, gone \in BOOLEAN : Change(x, gone)
         \/ UNCHANGED wsVars
  PROVE  Agreed' /\ SessionOK' /\ WSTypeOK'
<1>1. CASE WSSwitchTeam
  <2>1. wsCurrent' \in Teams /\ wsCurrent' # wsCurrent
    BY <1>1 DEF WSSwitchTeam
  <2>2. OnTeam(wsOn, wsCurrent') = {}
    BY <1>1, <2>1, NoTeamAssumption DEF WSSwitchTeam, Settled, OnTeam
  <2>3. wsCount[wsCurrent'] = 0
    BY <2>1, <2>2, FS_EmptySet DEF Agreed, Agree
  <2>4. Agreed'
    BY <1>1, <2>3 DEF Agreed, Agree, WSSwitchTeam, wsSubVars, wsServerVars, wsConnVars
  <2>5. SessionOK'
    BY <1>1 DEF SessionOK, WSSwitchTeam, wsSubVars, wsServerVars, wsConnVars
  <2>6. WSTypeOK'
    BY <1>1, <2>1, WSBoundsAssumption
    DEF WSTypeOK, WSSwitchTeam, wsSubVars, wsServerVars, wsConnVars, wsQueueVars
  <2> QED BY <2>4, <2>5, <2>6
<1>2. ASSUME \/ WSFlush
             \/ \E x \in Objects, gone \in BOOLEAN : Change(x, gone)
             \/ UNCHANGED wsVars
      PROVE  Agreed' /\ SessionOK' /\ WSTypeOK'
  <2>1. /\ UNCHANGED <<wsMode, wsConnVars, wsSubVars, wsCurrent, wsServerVars, wsSwitches>>
        /\ wsTimer' \in BOOLEAN
    BY <1>2 DEF WSFlush, Change, WSMessage, wsVars, wsQueueVars, WSTypeOK
  <2> QED BY <2>1 DEF Agreed, Agree, SessionOK, WSTypeOK, wsConnVars, wsSubVars, wsServerVars
<1> QED BY <1>1, <1>2


\* Every step of the tab is one of these.
LEMMA StepOfTab ==
  ASSUME [LiveNext]_liveVars
  PROVE  \/ \E c \in Comps : WSMount(c) \/ WSUnmount(c) \/ WSRerender(c)
         \/ \/ WSOpen \/ WSAuthenticate \/ WSOnOpen \/ WSLose \/ WSOnClose \/ WSReopenTimer
            \/ WSPluginReconnect \/ WSPluginRestart \/ WSPluginTimer
         \/ \/ WSSwitchTeam
            \/ WSFlush
            \/ \E x \in Objects, gone \in BOOLEAN : Change(x, gone)
            \/ UNCHANGED wsVars
BY PageAssumption DEF LiveNext, liveVars, ConnectionStep, ComponentStep, Quietly, Reconnects,
   PageAppears, PageRerenders, Loaded, Flush

LEMMA SubscriptionsStep ==
  ASSUME WSTypeOK, SessionOK, Agreed, [LiveNext]_liveVars
  PROVE  Agreed' /\ SessionOK' /\ WSTypeOK'
BY StepOfTab, MountKeeps, UnmountKeeps, RerenderKeeps, ConnectionKeeps, OthersKeep

----------------------------------------------------------------------------
(***************************************************************************)
(* The queue.                                                               *)
(***************************************************************************)
LEMMA Removal ==
  ASSUME NEW S, NEW s \in Seq(S), NEW i \in 1..Len(s)
  PROVE  /\ RemoveAt(s, i) \in Seq(S)
         /\ Len(RemoveAt(s, i)) = Len(s) - 1
         /\ \A j \in 1..Len(s) - 1 : RemoveAt(s, i)[j] = IF j < i THEN s[j] ELSE s[j + 1]
<1> DEFINE a == SubSeq(s, 1, i - 1)
           b == SubSeq(s, i + 1, Len(s))
<1>1. a \in Seq(S) /\ Len(a) = i - 1 /\ \A j \in 1..i - 1 : a[j] = s[j]
  OBVIOUS
<1>2. b \in Seq(S) /\ Len(b) = Len(s) - i /\ \A j \in 1..Len(s) - i : b[j] = s[j + i]
  OBVIOUS
<1>3. RemoveAt(s, i) = a \o b
  BY DEF RemoveAt
<1> HIDE DEF a, b
<1>4. /\ a \o b \in Seq(S) /\ Len(a \o b) = Len(s) - 1
      /\ \A j \in 1..Len(s) - 1 : (a \o b)[j] = IF j < i THEN a[j] ELSE b[j - (i - 1)]
  <2>1. Len(a) + Len(b) = Len(s) - 1
    BY <1>1, <1>2
  <2>2. a \o b \in Seq(S) /\ Len(a \o b) = Len(a) + Len(b)
    BY <1>1, <1>2, ConcatProperties
  <2>3. \A j \in 1..Len(a) + Len(b) : (a \o b)[j] = IF j <= Len(a) THEN a[j] ELSE b[j - Len(a)]
    BY <1>1, <1>2, ConcatProperties
  <2> QED BY <1>1, <2>1, <2>2, <2>3
<1>5. ASSUME NEW j \in 1..Len(s) - 1
      PROVE  (a \o b)[j] = IF j < i THEN s[j] ELSE s[j + 1]
  <2>1. CASE j < i
    BY <1>1, <1>4, <2>1
  <2>2. CASE ~(j < i)
    <3>1. j - (i - 1) \in 1..Len(s) - i /\ (j - (i - 1)) + i = j + 1
      BY <2>2
    <3> QED BY <1>2, <1>4, <2>2, <3>1
  <2> QED BY <2>1, <2>2
<1> QED BY <1>3, <1>4, <1>5

\* queueUpdateNotification replaces what was queued of the object.
LEMMA QueuedReplaces ==
  ASSUME NEW updates \in Seq(QueuedUpdate), OncePerObject(updates), NEW data \in QueuedUpdate,
         NEW queue \in [Kinds -> Seq(QueuedUpdate)], NEW k \in Kinds, queue[k] = updates
  PROVE  LET new == Queued(queue, k, data)[k] IN
         /\ new \in Seq(QueuedUpdate) /\ OncePerObject(new)
         /\ \A u : (\E i \in 1..Len(new) : new[i] = u) <=>
                     u = data \/ (u.id # data.id /\ \E i \in 1..Len(updates) : updates[i] = u)
<1> DEFINE i == CHOOSE n \in 1..Len(updates) : updates[n].id = data.id
           old == RemoveAt(updates, i)
           new == Queued(queue, k, data)[k]
<1>1. CASE \E n \in 1..Len(updates) : updates[n].id = data.id
  <2>1. i \in 1..Len(updates) /\ updates[i].id = data.id
    BY <1>1
  <2>2. new = Append(old, data)
    BY <1>1 DEF Queued
  <2> HIDE DEF i
  <2>3. /\ old \in Seq(QueuedUpdate) /\ Len(old) = Len(updates) - 1
        /\ \A j \in 1..Len(updates) - 1 : old[j] = IF j < i THEN updates[j] ELSE updates[j + 1]
    BY <2>1, Removal
  <2> HIDE DEF old, new
  <2>4. /\ new \in Seq(QueuedUpdate) /\ Len(new) = Len(updates) /\ new[Len(updates)] = data
        /\ \A j \in 1..Len(updates) - 1 : new[j] = old[j]
    BY <2>2, <2>3
  <2>5. \A j \in 1..Len(updates) : updates[j].id = data.id <=> j = i
    BY <2>1 DEF OncePerObject
  <2>6. \A j \in 1..Len(updates) - 1 :
          /\ j < i => new[j] = updates[j] /\ j \in 1..Len(updates)
          /\ ~(j < i) => new[j] = updates[j + 1] /\ j + 1 \in 1..Len(updates) /\ j + 1 # i
    BY <2>1, <2>3, <2>4
  <2>7. \A j \in 1..Len(updates) : j # i =>
          \/ j < i /\ j \in 1..Len(updates) - 1 /\ new[j] = updates[j]
          \/ j > i /\ j - 1 \in 1..Len(updates) - 1 /\ new[j - 1] = updates[j]
    BY <2>1, <2>3, <2>4
  <2>8. OncePerObject(new)
    <3>1. \A j \in 1..Len(updates) - 1 : new[j].id # data.id
      BY <2>5, <2>6
    <3>2. ASSUME NEW m \in 1..Len(new), NEW n \in 1..Len(new), new[m].id = new[n].id
          PROVE  m = n
      <4>1. CASE m = Len(updates) \/ n = Len(updates)
        BY <2>4, <3>1, <3>2, <4>1
      <4>2. CASE m # Len(updates) /\ n # Len(updates)
        <5>1. m \in 1..Len(updates) - 1 /\ n \in 1..Len(updates) - 1
          BY <2>4, <4>2
        <5>2. \A p, q \in 1..Len(updates) : updates[p].id = updates[q].id => p = q
          BY DEF OncePerObject
        <5>3. CASE m < i /\ n < i
          BY <2>6, <3>2, <5>1, <5>2, <5>3
        <5>4. CASE m < i /\ ~(n < i)
          <6>1. m = n + 1
            BY <2>6, <3>2, <5>1, <5>2, <5>4
          <6> QED BY <2>1, <5>4, <6>1
        <5>5. CASE ~(m < i) /\ n < i
          <6>1. m + 1 = n
            BY <2>6, <3>2, <5>1, <5>2, <5>5
          <6> QED BY <2>1, <5>5, <6>1
        <5>6. CASE ~(m < i) /\ ~(n < i)
          <6>1. m + 1 = n + 1
            BY <2>6, <3>2, <5>1, <5>2, <5>6
          <6> QED BY <6>1
        <5> QED BY <5>3, <5>4, <5>5, <5>6
      <4> QED BY <4>1, <4>2
    <3> QED BY <3>2 DEF OncePerObject
  <2>9. ASSUME NEW u
        PROVE  (\E n \in 1..Len(new) : new[n] = u) <=>
                 u = data \/ (u.id # data.id /\ \E n \in 1..Len(updates) : updates[n] = u)
    <3>1. ASSUME NEW n \in 1..Len(new), new[n] = u, u # data
          PROVE  u.id # data.id /\ \E m \in 1..Len(updates) : updates[m] = u
      <4>1. n \in 1..Len(updates) - 1
        BY <2>4, <3>1
      <4> QED BY <2>5, <2>6, <3>1, <4>1
    <3>2. ASSUME NEW n \in 1..Len(updates), updates[n] = u, u.id # data.id
          PROVE  \E m \in 1..Len(new) : new[m] = u
      <4>1. n # i
        BY <2>5, <3>2
      <4>2. CASE n < i
        BY <2>4, <2>7, <3>2, <4>1, <4>2
      <4>3. CASE ~(n < i)
        <5>1. n - 1 \in 1..Len(new) /\ new[n - 1] = u
          BY <2>1, <2>4, <2>7, <3>2, <4>1, <4>3
        <5> QED BY <5>1
      <4> QED BY <4>2, <4>3
    <3>3. \E n \in 1..Len(new) : new[n] = data
      BY <2>1, <2>4
    <3> QED BY <3>1, <3>2, <3>3
  <2> QED BY <2>4, <2>8, <2>9 DEF new
<1>2. CASE ~ \E n \in 1..Len(updates) : updates[n].id = data.id
  <2>1. new = Append(updates, data)
    BY <1>2 DEF Queued
  <2> HIDE DEF new
  <2>2. /\ new \in Seq(QueuedUpdate) /\ Len(new) = Len(updates) + 1
        /\ new[Len(updates) + 1] = data
        /\ \A j \in 1..Len(updates) : new[j] = updates[j]
    BY <2>1
  <2>3. OncePerObject(new)
    BY <1>2, <2>2 DEF OncePerObject
  <2>4. \A u : (\E n \in 1..Len(new) : new[n] = u) <=>
                 u = data \/ (u.id # data.id /\ \E n \in 1..Len(updates) : updates[n] = u)
    BY <1>2, <2>2
  <2> QED BY <2>2, <2>3, <2>4 DEF new
<1> QED BY <1>1, <1>2

LEMMA KindsOfObjects ==
  ASSUME NEW x \in Objects
  PROVE  KindOfObject(x) \in Kinds
BY UpdatesAssumption DEF KindOfObject

\* The updates that are queued, as a set.
LEMMA UpdatesAsSet ==
  ASSUME QueueOK, NEW k \in Kinds
  PROVE  /\ UpdatesOf(k) = {wsQueue[k][i] : i \in 1..Len(wsQueue[k])}
         /\ UpdatesOf(k) \subseteq QueuedUpdate
         /\ IdsIn(k) \subseteq Objects
         /\ \A u, v \in UpdatesOf(k) : u.id = v.id => u = v
<1>1. wsQueue[k] \in Seq(QueuedUpdate) /\ DOMAIN wsQueue[k] = 1..Len(wsQueue[k])
  BY DEF QueueOK
<1>2. UpdatesOf(k) = {wsQueue[k][i] : i \in 1..Len(wsQueue[k])}
  BY <1>1 DEF UpdatesOf, ToSet
<1>3. UpdatesOf(k) \subseteq QueuedUpdate
  BY <1>1, <1>2
<1>4. IdsIn(k) \subseteq Objects
  BY <1>3 DEF IdsIn, QueuedUpdate
<1>5. \A u, v \in UpdatesOf(k) : u.id = v.id => u = v
  BY <1>2 DEF QueueOK, OncePerObject
<1> QED BY <1>2, <1>3, <1>4, <1>5

\* A change that reaches the tab takes the place of what was queued of the object.
LEMMA ChangeIsQueued ==
  ASSUME LiveTypeOK, QueueOK, NEW x \in Objects, NEW gone \in BOOLEAN, Change(x, gone),
         Accepts(HomeTeam)
  PROVE  LET data == [id |-> x, ver |-> truth[x].ver + 1, gone |-> gone] IN
         /\ QueueOK'
         /\ \A k \in Kinds \ {KindOfObject(x)} : UpdatesOf(k)' = UpdatesOf(k)
         /\ UpdatesOf(KindOfObject(x))' = {u \in UpdatesOf(KindOfObject(x)) : u.id # x} \cup {data}
<1> DEFINE data == [id |-> x, ver |-> truth[x].ver + 1, gone |-> gone]
           kind == KindOfObject(x)
           new == Queued(wsQueue, kind, data)[kind]
<1>1. kind \in Kinds
  BY KindsOfObjects
<1>2. data \in QueuedUpdate /\ data.id = x
  BY LiveBoundsAssumption DEF QueuedUpdate, LiveTypeOK
<1>3. wsQueue \in [Kinds -> Seq(QueuedUpdate)] /\ OncePerObject(wsQueue[kind])
  BY <1>1 DEF QueueOK
<1>4. /\ new \in Seq(QueuedUpdate) /\ OncePerObject(new)
      /\ \A u : (\E i \in 1..Len(new) : new[i] = u) <=>
                  u = data \/ (u.id # data.id /\ \E i \in 1..Len(wsQueue[kind]) : wsQueue[kind][i] = u)
  <2> HIDE DEF data, kind
  <2> QED BY <1>1, <1>2, <1>3, QueuedReplaces
<1>5. wsQueue' = Queued(wsQueue, kind, data)
  BY DEF Change, WSMessage
<1>6. wsQueue' = [wsQueue EXCEPT ![kind] = new]
  BY <1>1, <1>3, <1>5 DEF Queued
<1> HIDE DEF data, kind, new
<1>7. wsQueue' \in [Kinds -> Seq(QueuedUpdate)] /\ wsQueue'[kind] = new
  BY <1>1, <1>3, <1>4, <1>6
<1>8. \A k \in Kinds \ {kind} : wsQueue'[k] = wsQueue[k]
  BY <1>3, <1>6
<1>9. \A k \in Kinds \ {kind} : UpdatesOf(k)' = UpdatesOf(k)
  BY <1>8 DEF UpdatesOf
<1>10. UpdatesOf(kind)' = {u \in UpdatesOf(kind) : u.id # x} \cup {data}
  <2>1. UpdatesOf(kind) = {wsQueue[kind][i] : i \in 1..Len(wsQueue[kind])}
    BY <1>1, UpdatesAsSet
  <2>2. kind' = kind
    BY DEF kind, KindOfObject
  <2>3. UpdatesOf(kind)' = {new[i] : i \in 1..Len(new)}
    <3>1. DOMAIN new = 1..Len(new)
      BY <1>4
    <3>2. UpdatesOf(kind)' = ToSet(new)
      BY <1>7, <2>2 DEF UpdatesOf
    <3>3. ToSet(new) = {new[i] : i \in DOMAIN new}
      BY Zenon DEF ToSet
    <3> QED BY <3>1, <3>2, <3>3
  <2>4. \A u : u \in UpdatesOf(kind)' <=> \E i \in 1..Len(new) : new[i] = u
    BY <2>3
  <2>5. \A u : u \in UpdatesOf(kind) <=> \E i \in 1..Len(wsQueue[kind]) : wsQueue[kind][i] = u
    BY <2>1
  <2>6. \A u : u \in UpdatesOf(kind)' <=> u = data \/ (u.id # data.id /\ u \in UpdatesOf(kind))
    BY <1>4, <2>4, <2>5
  <2> QED BY <1>2, <2>6
<1>11. QueueOK'
  <2>1. \A k \in Kinds : OncePerObject(wsQueue[k])'
    BY <1>4, <1>7, <1>8 DEF QueueOK, OncePerObject
  <2>2. \A k \in Kinds : \A u \in UpdatesOf(k)' : KindOfObject(u.id) = k
    BY <1>2, <1>9, <1>10 DEF QueueOK, kind
  <2> QED BY <1>7, <2>1, <2>2 DEF QueueOK, KindOfObject
<1> QED BY <1>9, <1>10, <1>11 DEF data, kind

LEMMA NoQueue ==
  ASSUME wsQueue = NoUpdates
  PROVE  QueueOK /\ \A k \in Kinds : UpdatesOf(k) = {} /\ IdsIn(k) = {}
<1>1. \A k \in Kinds : wsQueue[k] = <<>>
  BY DEF NoUpdates
<1>2. \A k \in Kinds : UpdatesOf(k) = {} /\ IdsIn(k) = {}
  BY <1>1 DEF UpdatesOf, IdsIn, ToSet
<1> QED BY <1>1, <1>2 DEF QueueOK, NoUpdates, OncePerObject

LEMMA QueueStep ==
  ASSUME LiveTypeOK, QueueOK, [LiveNext]_liveVars
  PROVE  QueueOK'
<1>1. ASSUME NEW x \in Objects, NEW gone \in BOOLEAN, Change(x, gone), Accepts(HomeTeam)
      PROVE  QueueOK'
  BY <1>1, ChangeIsQueued
<1>2. ASSUME WSFlush
      PROVE  QueueOK'
  <2>1. wsQueue' = NoUpdates
    BY <1>2 DEF WSFlush
  <2>2. \A k \in Kinds : wsQueue'[k] = <<>>
    BY <2>1 DEF NoUpdates
  <2>3. \A k \in Kinds : UpdatesOf(k)' = {}
    BY <2>2 DEF UpdatesOf, ToSet
  <2> QED BY <2>1, <2>2, <2>3 DEF QueueOK, NoUpdates, OncePerObject
<1>3. ASSUME UNCHANGED wsQueue
      PROVE  QueueOK'
  BY <1>3 DEF QueueOK, UpdatesOf
<1>4. \/ UNCHANGED wsQueue
      \/ WSFlush
      \/ \E x \in Objects, gone \in BOOLEAN : Change(x, gone) /\ Accepts(HomeTeam)
  BY PageAssumption
  DEF LiveNext, liveVars, wsVars, wsQueueVars, ConnectionStep, ComponentStep, Quietly, Reconnects,
      PageAppears, PageRerenders, Loaded, Flush, Change, WSMessage, WSMount, WSUnmount,
      WSRerender, WSOpen, WSAuthenticate, WSOnOpen, WSLose, WSOnClose, WSReopenTimer,
      WSPluginReconnect, WSPluginRestart, WSPluginTimer, WSSwitchTeam
<1> QED BY <1>1, <1>2, <1>3, <1>4


----------------------------------------------------------------------------
(***************************************************************************)
(* The types, and the theorem.                                              *)
(***************************************************************************)
LEMMA VersionsNow ==
  ASSUME LiveTypeOK
  PROVE  /\ \A x \in Objects : VersionNow(x) \in 0..MaxChanges + 1
         /\ \A t : PageLoads(t) \subseteq [Blocks -> 0..MaxChanges + 1]
                                            \cup [{Board} -> 0..MaxChanges + 1]
         /\ \A t : \A s \in PageLoads(t) : \A x \in DOMAIN s : s[x] \in {0, VersionNow(x)}
<1>1. \A x \in Objects : VersionNow(x) \in 0..MaxChanges + 1
  BY LiveBoundsAssumption DEF VersionNow, LiveTypeOK
<1>2. BlocksNow \in [Blocks -> 0..MaxChanges + 1]
  BY <1>1 DEF BlocksNow, Objects
<1>3. \A t : BoardsNow(t) \in [{Board} -> 0..MaxChanges + 1]
  BY <1>1, LiveBoundsAssumption DEF BoardsNow, Objects
<1> QED BY <1>1, <1>2, <1>3 DEF PageLoads, BlocksNow, BoardsNow

\* What is on its way after a step: answers that were, or that a step asked for.
LEMMA LoadsStep ==
  ASSUME [LiveNext]_liveVars
  PROVE  \/ loads' = loads
         \/ UNCHANGED <<truth, store, wsQueue, changes, missed, crowded>> /\ \E t \in {wsCurrent} :
              loads' \subseteq loads \cup PageLoads(t) /\ loads \subseteq loads'
         \/ \E s \in loads : Loaded(s)
<1>1. CASE ComponentStep
  <2>1. CASE PageAppears
    BY <2>1 DEF PageAppears, WSMount, wsQueueVars
  <2>2. CASE PageRerenders
    BY <2>2 DEF PageRerenders, WSRerender, wsQueueVars
  <2> QED BY <1>1, <2>1, <2>2 DEF ComponentStep, Quietly
<1>2. CASE ConnectionStep
  <2>1. CASE Reconnects
    BY <2>1 DEF Reconnects, ReconnectLoads, PageLoads, WSReopenTimer, WSPluginReconnect,
                WSPluginTimer, wsQueueVars
  <2> QED BY <1>2, <2>1 DEF ConnectionStep, Quietly
<1> QED BY <1>1, <1>2 DEF LiveNext, liveVars, Change, Flush

LEMMA LiveTypeStep ==
  ASSUME LiveTypeOK, VersionsBounded, QueueOK, WSTypeOK', [LiveNext]_liveVars
  PROVE  LiveTypeOK' /\ VersionsBounded'
<1> DEFINE Answers == [Blocks -> 0..MaxChanges + 1] \cup [{Board} -> 0..MaxChanges + 1]
<1> USE LiveBoundsAssumption
<1>1. /\ truth \in [Objects -> [ver : 0..MaxChanges + 1, gone : BOOLEAN]]
      /\ loads \subseteq Answers /\ changes \in 0..MaxChanges
      /\ missed \in SUBSET Objects /\ crowded \in SUBSET Blocks
  BY DEF LiveTypeOK
<1>2. ASSUME NEW x \in Objects, NEW gone \in BOOLEAN, Change(x, gone)
      PROVE  LiveTypeOK' /\ VersionsBounded'
  <2>1. truth[x].ver + 1 \in 0..changes + 2 /\ changes < MaxChanges /\ changes' = changes + 1
    BY <1>1, <1>2 DEF Change, VersionsBounded
  <2>2. truth' = [truth EXCEPT ![x] = [ver |-> truth[x].ver + 1, gone |-> gone]]
    BY <1>2 DEF Change
  <2>3. truth' \in [Objects -> [ver : 0..MaxChanges + 1, gone : BOOLEAN]]
    BY <1>1, <2>1, <2>2
  <2>4. VersionsBounded'
    BY <1>1, <2>1, <2>2 DEF VersionsBounded
  <2>5. changes' \in 0..MaxChanges /\ missed' \in SUBSET Objects
    BY <1>1, <1>2, <2>1 DEF Change
  <2>6. loads' = loads /\ crowded' = crowded
    BY <1>2 DEF Change
  <2> QED BY <1>1, <2>3, <2>4, <2>5, <2>6 DEF LiveTypeOK
<1>3. ASSUME NEW s \in loads, Loaded(s)
      PROVE  LiveTypeOK' /\ VersionsBounded'
  <2>1. DOMAIN s \subseteq Objects
    BY <1>1 DEF Objects
  <2> QED BY <1>1, <1>3, <2>1 DEF Loaded, LiveTypeOK, VersionsBounded
<1>4. CASE Flush
  <2>1. missed' \subseteq Objects
    BY <1>1, <1>4, UpdatesAsSet DEF Flush
  <2>2. crowded' \subseteq Blocks
    BY <1>1, <1>4 DEF Flush, BehindOthers, ListedAttachments
  <2> QED BY <1>1, <1>4, <2>1, <2>2 DEF Flush, LiveTypeOK, VersionsBounded
<1>5. ASSUME UNCHANGED <<truth, changes, missed, crowded>>, loads' \subseteq Answers
      PROVE  LiveTypeOK' /\ VersionsBounded'
  BY <1>5 DEF LiveTypeOK, VersionsBounded
<1>6. CASE ConnectionStep \/ ComponentStep \/ UNCHANGED liveVars
  <2>1. UNCHANGED <<truth, changes, missed, crowded>>
    BY <1>6 DEF ConnectionStep, ComponentStep, Quietly, Reconnects, PageAppears, PageRerenders,
                liveVars
  <2>2. loads' \subseteq Answers
    <3>1. CASE \E s \in loads : Loaded(s)
      BY <1>1, <3>1 DEF Loaded
    <3> QED BY <1>1, <3>1, LoadsStep, VersionsNow
  <2> QED BY <1>5, <2>1, <2>2
<1> QED BY <1>2, <1>3, <1>4, <1>6 DEF LiveNext

\* At the beginning.
LEMMA SubscriptionsInit ==
  ASSUME LiveInit
  PROVE  SubscriptionsIInv
<1> USE LiveBoundsAssumption, WSBoundsAssumption, PageAssumption
<1>1. LiveTypeOK /\ VersionsBounded
  <2>1. WSTypeOK
    <3>1. wsRetry \in 0..MaxRetries /\ wsFaults \in 0..WsMaxFaults /\ wsSwitches \in 0..MaxSwitches
      BY DEF LiveInit, WSInit
    <3>2. wsCount \in [Teams -> Nat] /\ wsOn \in [Comps -> Teams \cup {NoTeam}]
      BY DEF LiveInit, WSInit
    <3>3. wsMode \in {"plugin", "standalone"} /\ wsCurrent \in Teams
      BY DEF LiveInit, WSInit
    <3> QED BY <3>1, <3>2, <3>3 DEF LiveInit, WSInit, WSTypeOK
  <2>2. truth \in [Objects -> [ver : 0..MaxChanges + 1, gone : BOOLEAN]] /\ changes = 0
    BY DEF LiveInit
  <2>3. \A x \in Objects : truth[x].ver <= changes + 1
    BY DEF LiveInit
  <2>4. loads = {} /\ missed \in SUBSET Objects /\ crowded \in SUBSET Blocks
    BY DEF LiveInit
  <2> QED BY <2>1, <2>2, <2>3, <2>4 DEF LiveTypeOK, VersionsBounded
<1>2. QueueOK
  BY NoQueue DEF LiveInit, WSInit
<1>3. SessionOK
  BY DEF LiveInit, WSInit, SessionOK
<1>4. \A t \in Teams : {c \in Comps : wsOn[c] = t} = {}
  BY NoTeamAssumption DEF LiveInit, WSInit
<1>5. CountsComponents
  BY <1>4, FS_EmptySet DEF CountsComponents, LiveInit, WSInit
<1>6. ListensWhenNeeded /\ ServerKnowsSubscriptions
  BY DEF LiveInit, WSInit, ListensWhenNeeded, ServerKnowsSubscriptions
<1> QED BY <1>1, <1>2, <1>3, <1>5, <1>6 DEF SubscriptionsIInv

LEMMA SubscriptionsNext ==
  ASSUME SubscriptionsIInv, [LiveNext]_liveVars
  PROVE  SubscriptionsIInv'
<1>1. WSTypeOK
  BY DEF SubscriptionsIInv, LiveTypeOK
<1>2. Agreed' /\ SessionOK' /\ WSTypeOK'
  BY <1>1, AgreedIsInv, SubscriptionsStep DEF SubscriptionsIInv
<1>3. CountsComponents' /\ ListensWhenNeeded' /\ ServerKnowsSubscriptions'
  <2>1. \A t \in Teams : OnTeam(wsOn', t) = {c \in Comps : wsOn'[c] = t}
    BY DEF OnTeam
  <2> QED BY <1>2, <2>1 DEF WSTypeOK, Agreed, Agree, CountsComponents, ListensWhenNeeded,
                            ServerKnowsSubscriptions, Registered
<1>4. LiveTypeOK' /\ VersionsBounded' /\ QueueOK'
  BY <1>2, LiveTypeStep, QueueStep DEF SubscriptionsIInv
<1> QED BY <1>2, <1>3, <1>4 DEF SubscriptionsIInv

\* The current team is listened to when everybody has followed it.
LEMMA ListensThen ==
  ASSUME SubscriptionsIInv
  PROVE  SubscriptionsInv
<1>1. ListensToCurrentTeam
  <2> SUFFICES ASSUME Settled, NEW c \in Comps, wsOn[c] # NoTeam
               PROVE  wsTeam = wsCurrent
    BY DEF ListensToCurrentTeam
  <2>1. wsOn[c] = wsCurrent /\ wsCurrent \in Teams
    BY DEF Settled, SubscriptionsIInv, LiveTypeOK, WSTypeOK
  <2>2. wsCount[wsCurrent] > 0
    BY <2>1, CountsPositive DEF SubscriptionsIInv, LiveTypeOK
  <2> QED BY <2>2 DEF SubscriptionsIInv, ListensWhenNeeded
<1> QED BY <1>1 DEF SubscriptionsIInv, SubscriptionsInv

\* The components, the counts, the team that is listened to and the server agree
\* on the subscriptions, whatever components, teams, faults and changes there are.
THEOREM Subscribed == LiveSpec => []SubscriptionsInv
<1>1. LiveInit => SubscriptionsIInv
  BY SubscriptionsInit
<1>2. SubscriptionsIInv /\ [LiveNext]_liveVars => SubscriptionsIInv'
  BY SubscriptionsNext
<1>3. SubscriptionsIInv => SubscriptionsInv
  BY ListensThen
<1> QED BY <1>1, <1>2, <1>3, PTL DEF LiveSpec


----------------------------------------------------------------------------
(***************************************************************************)
(* The reducers.                                                            *)
(***************************************************************************)
BlockUpdates == [id : Blocks, ver : Nat \ {0}, gone : BOOLEAN]

\* Updates of different blocks.
Distinct(us) == us \subseteq BlockUpdates /\ \A u, v \in us : u.id = v.id => u = v

LEMMA VersionsInUpdates ==
  ASSUME NEW u \in BlockUpdates
  PROVE  VersionIn(u) \in Nat /\ (~u.gone => VersionIn(u) = u.ver /\ u.ver # 0)
BY DEF BlockUpdates, VersionIn

LEMMA UpdatedShows ==
  ASSUME NEW map \in [Blocks -> Nat], NEW us, Distinct(us)
  PROVE  /\ Updated(map, us) \in [Blocks -> Nat]
         /\ \A u \in us : Updated(map, us)[u.id] = VersionIn(u)
         /\ \A b \in Blocks : (\A u \in us : u.id # b) => Updated(map, us)[b] = map[b]
<1>1. ASSUME NEW u \in us
      PROVE  u.id \in Blocks /\ Updated(map, us)[u.id] = VersionIn(u)
  <2>1. u.id \in Blocks
    BY DEF Distinct, BlockUpdates
  <2>2. (CHOOSE v \in us : v.id = u.id) = u
    BY DEF Distinct
  <2> QED BY <2>1, <2>2 DEF Updated
<1>2. ASSUME NEW b \in Blocks
      PROVE  Updated(map, us)[b] \in Nat /\ ((\A u \in us : u.id # b) => Updated(map, us)[b] = map[b])
  <2>1. CASE \E u \in us : u.id = b
    <3>1. PICK u \in us : u.id = b
      BY <2>1
    <3> QED BY <1>1, <3>1, VersionsInUpdates DEF Distinct
  <2>2. CASE \A u \in us : u.id # b
    BY <2>2 DEF Updated
  <2> QED BY <2>1, <2>2
<1>3. Updated(map, us) \in [Blocks -> Nat]
  BY <1>2 DEF Updated
<1> QED BY <1>1, <1>2, <1>3

\* The entries of a block in a list.
InList(list, b) == IF list = NoList THEN {} ELSE {e \in list : e.id = b}

LEMMA NoListIsNone ==
  ASSUME NEW l \in SUBSET [id : Blocks, ver : Nat]
  PROVE  l # NoList
BY NoEntryAssumption DEF NoList

\* What a list has of a block after some updates.
ListShows(list, us, b) ==
  LET new == Relisted(list, us) IN
  /\ new \in Lists
  /\ \A u \in us : u.id = b => InList(new, b) = IF u.gone THEN {} ELSE {Entry(u)}
  /\ (\A u \in us : u.id # b) => InList(new, b) = InList(list, b)

LEMMA RelistedShows ==
  ASSUME NEW list \in Lists, NEW us, Distinct(us), NEW b \in Blocks
  PROVE  ListShows(list, us, b)
<1> DEFINE entries == {Entry(u) : u \in {x \in us : ~x.gone}}
           new == Relisted(list, us)
           Entries == [id : Blocks, ver : Nat]
<1> SUFFICES
      /\ new \in Lists
      /\ \A u \in us : u.id = b => InList(new, b) = IF u.gone THEN {} ELSE {Entry(u)}
      /\ (\A u \in us : u.id # b) => InList(new, b) = InList(list, b)
  BY DEF ListShows
<1>1. entries \in SUBSET Entries
  BY DEF Distinct, BlockUpdates, Entry
<1>2. \A e, f \in entries : e.id = f.id => e = f
  BY DEF Distinct, Entry
<1>3. \A e \in entries : \E u \in us : ~u.gone /\ e = Entry(u) /\ e.id = u.id
  BY DEF Entry
<1>4. \A u \in us : ~u.gone => Entry(u) \in entries
  OBVIOUS
<1>5. \A u \in us : Entry(u).id = u.id
  BY DEF Entry
<1> HIDE DEF entries
<1>6. \A u \in us : u.id = b => {e \in entries : e.id = b} = IF u.gone THEN {} ELSE {Entry(u)}
  BY <1>2, <1>3, <1>4, <1>5 DEF Distinct
<1>7. (\A u \in us : u.id # b) => {e \in entries : e.id = b} = {}
  BY <1>3
<1>8. CASE list = NoList /\ entries = {}
  <2>1. new = NoList
    BY <1>8 DEF Relisted, entries
  <2>2. \A u \in us : u.gone
    BY <1>4, <1>8
  <2> QED BY <1>8, <2>1, <2>2 DEF InList, Lists
<1>9. CASE list = NoList /\ entries # {}
  <2>1. new = entries
    BY <1>9 DEF Relisted, entries
  <2>2. new \in Lists /\ new # NoList
    BY <1>1, <1>2, <2>1, NoListIsNone DEF Lists
  <2> QED BY <1>6, <1>7, <1>9, <2>1, <2>2 DEF InList
<1>10. CASE list # NoList
  <2> DEFINE kept == {e \in list : \A u \in us : u.id # e.id}
  <2>1. new = kept \cup entries
    BY <1>10 DEF Relisted, entries
  <2>2. list \in SUBSET Entries /\ \A e, f \in list : e.id = f.id => e = f
    BY <1>10 DEF Lists
  <2>3. new \in SUBSET Entries
    BY <1>1, <2>1, <2>2
  <2>4. \A e, f \in new : e.id = f.id => e = f
    BY <1>2, <1>3, <2>1, <2>2
  <2>5. new \in Lists /\ new # NoList
    BY <2>3, <2>4, NoListIsNone DEF Lists
  <2>6. InList(new, b) = {e \in kept : e.id = b} \cup {e \in entries : e.id = b}
    BY <2>1, <2>5 DEF InList
  <2>7. \A u \in us : u.id = b => {e \in kept : e.id = b} = {}
    OBVIOUS
  <2>8. (\A u \in us : u.id # b) => {e \in kept : e.id = b} = InList(list, b)
    BY <1>10 DEF InList
  <2> HIDE DEF kept, new
  <2>9. \A u \in us : u.id = b => InList(new, b) = IF u.gone THEN {} ELSE {Entry(u)}
    BY <1>6, <2>6, <2>7
  <2>10. (\A u \in us : u.id # b) => InList(new, b) = InList(list, b)
    BY <1>7, <2>6, <2>8
  <2> QED BY <2>5, <2>9, <2>10 DEF new
<1> QED BY <1>8, <1>9, <1>10

\* What a loop makes of its slice.
LoopMakes(slice, us, listing) ==
  LET new == UpdateSlice(slice, us, listing) IN
  /\ new \in Slices /\ ListsMapped(new)
  /\ \A u \in listing : ListVersions(new, u.id) = IF u.gone THEN {} ELSE {u.ver}
  /\ \A b \in Blocks : (\A u \in listing : u.id # b) =>
       ListVersions(new, b) = ListVersions(slice, b)

LEMMA SliceShows ==
  ASSUME NEW slice \in Slices, ListsMapped(slice), NEW us, Distinct(us),
         NEW listing \in SUBSET us,
         \A u \in us \ listing : ~u.gone /\ Listed(slice, u.id)
  PROVE  LoopMakes(slice, us, listing)
<1> DEFINE new == UpdateSlice(slice, us, listing)
           taken == {u \in listing : u.gone => slice.byId[u.id] # 0}
           at(p) == {u \in taken : ParentOf[u.id] = p}
<1>1. new = [byId |-> Updated(slice.byId, us),
             lists |-> [p \in Holders |-> Relisted(slice.lists[p], at(p))]]
  BY DEF UpdateSlice
<1>2. slice.byId \in [Blocks -> Nat] /\ slice.lists \in [Holders -> Lists]
  BY DEF Slices
<1>3. \A b \in Blocks : ParentOf[b] \in Holders
  BY DEF Holders
<1>4. \A p \in Holders : Distinct(at(p))
  BY DEF Distinct
<1> HIDE DEF at, new
<1>5. \A p \in Holders, b \in Blocks :
        /\ Relisted(slice.lists[p], at(p)) \in Lists
        /\ \A u \in at(p) : u.id = b =>
             InList(new.lists[p], b) = IF u.gone THEN {} ELSE {Entry(u)}
        /\ (\A u \in at(p) : u.id # b) => InList(new.lists[p], b) = InList(slice.lists[p], b)
  <2> TAKE p \in Holders, b \in Blocks
  <2>1. slice.lists[p] \in Lists /\ Distinct(at(p))
    BY <1>2, <1>4
  <2>2. new.lists[p] = Relisted(slice.lists[p], at(p))
    BY <1>1
  <2>3. ListShows(slice.lists[p], at(p), b)
    BY <2>1, RelistedShows
  <2> QED BY <2>2, <2>3 DEF ListShows
<1>6. /\ Updated(slice.byId, us) \in [Blocks -> Nat]
      /\ \A u \in us : new.byId[u.id] = VersionIn(u)
      /\ \A b \in Blocks : (\A u \in us : u.id # b) => new.byId[b] = slice.byId[b]
  BY <1>1, <1>2, UpdatedShows
<1>7. new \in Slices
  <2>1. \A p \in Holders : Relisted(slice.lists[p], at(p)) \in Lists
    BY <1>3, <1>5 DEF Holders
  <2> QED BY <1>1, <1>6, <2>1 DEF Slices
<1>8. \A b \in Blocks :
        /\ Listed(slice, b) <=> InList(slice.lists[ParentOf[b]], b) # {}
        /\ Listed(new, b) <=> InList(new.lists[ParentOf[b]], b) # {}
        /\ ListVersions(slice, b) = {e.ver : e \in InList(slice.lists[ParentOf[b]], b)}
        /\ ListVersions(new, b) = {e.ver : e \in InList(new.lists[ParentOf[b]], b)}
  BY DEF Listed, InList, ListVersions
<1>9. \A u \in taken : u \in at(ParentOf[u.id]) /\ u.id \in Blocks /\ u \in us
  BY DEF at, Distinct, BlockUpdates
<1>10. \A b \in Blocks : (\A u \in taken : u.id # b) =>
         InList(new.lists[ParentOf[b]], b) = InList(slice.lists[ParentOf[b]], b)
  BY <1>3, <1>5 DEF at
<1>11. \A u \in taken :
         InList(new.lists[ParentOf[u.id]], u.id) = IF u.gone THEN {} ELSE {Entry(u)}
  BY <1>3, <1>5, <1>9
<1>12. \A u \in listing \ taken : u.gone /\ u.id \in Blocks /\ ~Listed(slice, u.id)
  BY DEF ListsMapped, Distinct, BlockUpdates
<1> HIDE DEF taken
<1>13. ASSUME NEW u \in listing
       PROVE  ListVersions(new, u.id) = IF u.gone THEN {} ELSE {u.ver}
  <2>1. CASE u \in taken
    <3>1. {e.ver : e \in {Entry(u)}} = {u.ver}
      BY DEF Entry
    <3> QED BY <1>8, <1>9, <1>11, <2>1, <3>1
  <2>2. CASE u \notin taken
    <3>1. u.gone /\ u.id \in Blocks /\ ~Listed(slice, u.id)
      BY <1>12, <2>2
    <3>2. \A v \in taken : v.id # u.id
      BY <1>9, <2>2 DEF Distinct
    <3>3. InList(new.lists[ParentOf[u.id]], u.id) = {}
      BY <1>8, <1>10, <3>1, <3>2
    <3> QED BY <1>8, <3>1, <3>3
  <2> QED BY <2>1, <2>2
<1>14. ASSUME NEW b \in Blocks, \A u \in listing : u.id # b
       PROVE  ListVersions(new, b) = ListVersions(slice, b)
  BY <1>8, <1>10, <1>14 DEF taken
<1>15. ASSUME NEW b \in Blocks, Listed(new, b)
       PROVE  new.byId[b] # 0
  <2>1. CASE \A u \in us : u.id # b
    <3>1. Listed(slice, b)
      BY <1>8, <1>10, <1>15, <2>1 DEF taken
    <3> QED BY <1>6, <2>1, <3>1 DEF ListsMapped
  <2>2. ASSUME NEW u \in us, u.id = b
        PROVE  new.byId[b] # 0
    <3>1. CASE u.gone
      <4>1. u \in listing
        BY <3>1
      <4>2. ListVersions(new, b) = {}
        BY <1>13, <2>2, <3>1, <4>1
      <4>3. InList(new.lists[ParentOf[b]], b) # {}
        BY <1>8, <1>15
      <4> QED BY <1>8, <4>2, <4>3
    <3>2. CASE ~u.gone
      BY <1>6, <2>2, <3>2, VersionsInUpdates DEF Distinct
    <3> QED BY <3>1, <3>2
  <2> QED BY <2>1, <2>2
<1> QED BY <1>7, <1>13, <1>14, <1>15 DEF ListsMapped, LoopMakes, new


\* The loops leave out no first update of a batch, and nothing that is not theirs.
LEMMA ReachedFirst ==
  ASSUME NEW batch \in Seq(BlockUpdates), NEW kinds, NEW ending
  PROVE  /\ Reached(batch, kinds, ending) \subseteq OfKind(batch, kinds)
         /\ batch # <<>> /\ Concerns(batch[1], kinds) => batch[1] \in Reached(batch, kinds, ending)
<1>1. DOMAIN batch = 1..Len(batch) /\ ToSet(batch) = {batch[i] : i \in 1..Len(batch)}
  BY DEF ToSet
<1>2. Reached(batch, kinds, ending) \subseteq OfKind(batch, kinds)
  BY <1>1 DEF Reached, OfKind
<1>3. ASSUME batch # <<>>, Concerns(batch[1], kinds)
      PROVE  batch[1] \in Reached(batch, kinds, ending)
  <2>1. 1 \in DOMAIN batch /\ \A m \in DOMAIN batch : ~(m < 1)
    BY <1>1, <1>3
  <2> QED BY <1>3, <2>1 DEF Reached
<1> QED BY <1>2, <1>3

\* A batch of updates of different blocks.
BatchOK(batch) == batch \in Seq(BlockUpdates) /\ OncePerObject(batch)

LEMMA BatchIsDistinct ==
  ASSUME NEW batch, BatchOK(batch)
  PROVE  Distinct(ToSet(batch)) /\ \A us \in SUBSET ToSet(batch) : Distinct(us)
<1>1. ToSet(batch) = {batch[i] : i \in 1..Len(batch)} /\ batch \in Seq(BlockUpdates)
  BY DEF ToSet, BatchOK
<1> QED BY <1>1 DEF Distinct, BatchOK, OncePerObject

\* What a slice shows after a batch.  Of the blocks whose versions it shows, it shows
\* the new version, or nothing once they are deleted, if they come first; a block that
\* comes behind others may stay as it was.
ShowsBatch(old, new, batch, kinds) ==
  /\ new \in Slices /\ ListsMapped(new)
  /\ \A b \in Blocks : (\A u \in OfKind(batch, kinds) : u.id # b) =>
       ListVersions(new, b) = ListVersions(old, b)
  /\ \A u \in OfKind(batch, kinds) :
       \/ ListVersions(new, u.id) = {VersionIn(u)} \ {0}
       \/ /\ ListVersions(new, u.id) = ListVersions(old, u.id)
          /\ u = batch[1] => ~u.gone /\ KindOf[u.id] = "attachment" /\ Listed(old, u.id)

LEMMA LoopShows ==
  ASSUME NEW slice \in Slices, ListsMapped(slice), NEW batch, BatchOK(batch),
         NEW kinds, NEW ending, NEW listing,
         LET us == Reached(batch, kinds, ending) IN
         /\ listing \subseteq us
         /\ \A u \in us \ listing :
              ~u.gone /\ Listed(slice, u.id) /\ KindOf[u.id] = "attachment"
  PROVE  ShowsBatch(slice, UpdateSlice(slice, Reached(batch, kinds, ending), listing), batch, kinds)
<1> DEFINE us == Reached(batch, kinds, ending)
           new == UpdateSlice(slice, us, listing)
           mine == OfKind(batch, kinds)
<1>1. us \subseteq mine /\ mine \subseteq ToSet(batch) /\ mine \subseteq BlockUpdates
  BY ReachedFirst, BatchIsDistinct DEF BatchOK, OfKind, Distinct
<1>2. batch # <<>> /\ Concerns(batch[1], kinds) => batch[1] \in us
  BY ReachedFirst DEF BatchOK
<1>3. Distinct(us)
  BY <1>1, BatchIsDistinct
<1>4. Distinct(mine)
  BY <1>1, BatchIsDistinct
<1> HIDE DEF us
<1>5. /\ new \in Slices /\ ListsMapped(new)
      /\ \A u \in listing : ListVersions(new, u.id) = IF u.gone THEN {} ELSE {u.ver}
      /\ \A b \in Blocks : (\A u \in listing : u.id # b) =>
           ListVersions(new, b) = ListVersions(slice, b)
  <2>1. listing \in SUBSET us /\ \A u \in us \ listing : ~u.gone /\ Listed(slice, u.id)
    BY DEF us
  <2>2. LoopMakes(slice, us, listing)
    BY <1>3, <2>1, SliceShows
  <2> QED BY <2>2 DEF LoopMakes
<1> HIDE DEF new, mine
<1>6. ASSUME NEW u \in mine
      PROVE  \/ ListVersions(new, u.id) = {VersionIn(u)} \ {0}
             \/ /\ ListVersions(new, u.id) = ListVersions(slice, u.id)
                /\ u = batch[1] => ~u.gone /\ KindOf[u.id] = "attachment" /\ Listed(slice, u.id)
  <2>1. u \in BlockUpdates /\ u.id \in Blocks
    BY <1>1 DEF BlockUpdates
  <2>2. CASE u \in listing
    <3>1. ListVersions(new, u.id) = {VersionIn(u)} \ {0}
      BY <1>5, <2>1, <2>2, VersionsInUpdates DEF VersionIn
    <3> QED BY <3>1
  <2>3. CASE u \notin listing
    <3>1. \A v \in listing : v.id # u.id
      BY <1>1, <1>4, <2>3 DEF Distinct, us
    <3>2. ListVersions(new, u.id) = ListVersions(slice, u.id)
      BY <1>5, <2>1, <3>1
    <3>3. ASSUME u = batch[1]
          PROVE  ~u.gone /\ KindOf[u.id] = "attachment" /\ Listed(slice, u.id)
      <4>1. u \in ToSet(batch) /\ Concerns(u, kinds)
        BY DEF mine, OfKind
      <4>2. batch # <<>>
        BY <4>1 DEF ToSet
      <4>3. u \in us
        BY <1>2, <3>3, <4>1, <4>2
      <4> QED BY <2>3, <4>3 DEF us
    <3> QED BY <3>2, <3>3
  <2> QED BY <2>2, <2>3
<1>7. ASSUME NEW b \in Blocks, \A u \in mine : u.id # b
      PROVE  ListVersions(new, b) = ListVersions(slice, b)
  BY <1>1, <1>5, <1>7 DEF us
<1> QED BY <1>5, <1>6, <1>7 DEF ShowsBatch, new, us, mine

LEMMA LoopsShow ==
  ASSUME NEW slice \in Slices, ListsMapped(slice), NEW batch, BatchOK(batch)
  PROVE  /\ ShowsBatch(slice, UpdateComments(slice, batch), batch, {"comment"})
         /\ ShowsBatch(slice, UpdateContents(slice, batch), batch, {"text"})
         /\ ShowsBatch(slice, UpdateAttachments(slice, batch), batch, {"attachment"})
<1>1. ShowsBatch(slice, UpdateComments(slice, batch), batch, {"comment"})
  BY LoopShows DEF UpdateComments
<1>2. ShowsBatch(slice, UpdateContents(slice, batch), batch, {"text"})
  BY LoopShows DEF UpdateContents
<1>3. ShowsBatch(slice, UpdateAttachments(slice, batch), batch, {"attachment"})
  <2> DEFINE ending == {u \in ToSet(batch) : Ends(slice, u)}
             us == Reached(batch, {"attachment"}, ending)
             listing == {u \in us : u.gone \/ ~Listed(slice, u.id)}
  <2>1. us \subseteq OfKind(batch, {"attachment"})
    BY ReachedFirst DEF BatchOK
  <2>2. \A u \in us \ listing : ~u.gone /\ Listed(slice, u.id) /\ KindOf[u.id] = "attachment"
    BY <2>1 DEF OfKind, Concerns
  <2>3. UpdateAttachments(slice, batch) = UpdateSlice(slice, us, listing)
    BY DEF UpdateAttachments
  <2>4. listing \subseteq us
    OBVIOUS
  <2> HIDE DEF listing, ending
  <2> QED BY <2>2, <2>3, <2>4, LoopShows
<1> QED BY <1>1, <1>2, <1>3


LEMMA BlockBatchOK ==
  ASSUME QueueOK
  PROVE  BatchOK(wsQueue["block"])
<1> DEFINE batch == wsQueue["block"]
<1>1. "block" \in Kinds
  BY UpdatesAssumption
<1>2. batch \in Seq(QueuedUpdate) /\ OncePerObject(batch)
  BY <1>1 DEF QueueOK
<1>3. UpdatesOf("block") = {batch[i] : i \in 1..Len(batch)}
  BY <1>1, UpdatesAsSet
<1> HIDE DEF batch
<1>4. \A i \in 1..Len(batch) : batch[i] \in QueuedUpdate /\ KindOfObject(batch[i].id) = "block"
  BY <1>1, <1>2, <1>3 DEF QueueOK
<1>5. \A i \in 1..Len(batch) : batch[i] \in BlockUpdates
  BY <1>4 DEF QueuedUpdate, BlockUpdates, KindOfObject, Objects
<1>6. batch \in Seq(BlockUpdates)
  BY <1>2, <1>5, SeqDef
<1> QED BY <1>2, <1>6 DEF BatchOK, batch

\* The blocks on the screen after a batch was handed to the reducers.
ScreenShows(old, new, batch) ==
  /\ StoreOK(new) /\ new.board = old.board
  /\ \A b \in Blocks : (\A u \in ToSet(batch) : u.id # b) =>
       ShownVersions(new, b) = ShownVersions(old, b)
  /\ \A u \in ToSet(batch) :
       \/ ShownVersions(new, u.id) = {VersionIn(u)} \ {0}
       \/ /\ ShownVersions(new, u.id) = ShownVersions(old, u.id)
          /\ KindOf[u.id] \in {"comment", "attachment", "text"}
          /\ u = batch[1] => ~u.gone /\ KindOf[u.id] = "attachment"
                                     /\ Listed(old.attachments, u.id)

One(v) == IF v = 0 THEN {} ELSE {v}

LEMMA Versions ==
  ASSUME NEW st, NEW b \in Blocks
  PROVE  /\ KindOf[b] \in BlockKinds
         /\ KindOf[b] = "view" => ShownVersions(st, b) = One(st.views[b])
         /\ KindOf[b] = "card" => ShownVersions(st, b) = One(st.cards[b])
         /\ KindOf[b] = "template" => ShownVersions(st, b) = One(st.templates[b])
         /\ KindOf[b] = "comment" => ShownVersions(st, b) = ListVersions(st.comments, b)
         /\ KindOf[b] = "attachment" => ShownVersions(st, b) = ListVersions(st.attachments, b)
         /\ KindOf[b] = "text" => ShownVersions(st, b) = ListVersions(st.contents, b)
<1>1. KindOf[b] \in BlockKinds
  BY KindOfAssumption
<1> QED BY <1>1 DEF ShownVersions, One, BlockKinds

LEMMA BlocksReduced ==
  ASSUME NEW st, StoreOK(st), NEW batch, BatchOK(batch)
  PROVE  ScreenShows(st, IncrementalBlockUpdate(st, batch), batch)
<1> DEFINE new == IncrementalBlockUpdate(st, batch)
           all == ToSet(batch)
<1>0. \A kinds : OfKind(batch, kinds) = {u \in all : Concerns(u, kinds)}
  BY DEF OfKind
<1>1. /\ new.board = st.board
      /\ new.views = Updated(st.views, OfKind(batch, {"view"}))
      /\ new.cards = Updated(st.cards, OfKind(batch, {"card"}))
      /\ new.templates = Updated(st.templates, OfKind(batch, {"template"}))
      /\ new.comments = UpdateComments(st.comments, batch)
      /\ new.attachments = UpdateAttachments(st.attachments, batch)
      /\ new.contents = UpdateContents(st.contents, batch)
      /\ new = [board |-> new.board, views |-> new.views, cards |-> new.cards,
                templates |-> new.templates, comments |-> new.comments,
                attachments |-> new.attachments, contents |-> new.contents]
  <2> DEFINE v == UpdateViews(st, batch)
             c == UpdateCards(v, batch)
             Fields == {"board", "views", "cards", "templates", "comments", "attachments", "contents"}
  <2>1. DOMAIN st = Fields /\ st = [f \in Fields |-> st[f]]
    BY DEF StoreOK
  <2>2. v = [st EXCEPT !.views = Updated(st.views, OfKind(batch, {"view"}))]
    BY DEF UpdateViews
  <2>3. c = [v EXCEPT !.cards = Updated(v.cards, OfKind(batch, {"card"})),
                      !.templates = Updated(v.templates, OfKind(batch, {"template"}))]
    BY DEF UpdateCards
  <2>4. new = [c EXCEPT !.comments = UpdateComments(c.comments, batch),
                        !.attachments = UpdateAttachments(c.attachments, batch),
                        !.contents = UpdateContents(c.contents, batch)]
    BY DEF IncrementalBlockUpdate
  <2> HIDE DEF v, c, new
  <2>5. /\ v = [f \in Fields |-> v[f]] /\ v.views = Updated(st.views, OfKind(batch, {"view"}))
        /\ \A f \in Fields \ {"views"} : v[f] = st[f]
    BY <2>1, <2>2
  <2>6. /\ c = [f \in Fields |-> c[f]] /\ c.cards = Updated(v.cards, OfKind(batch, {"card"}))
        /\ c.templates = Updated(v.templates, OfKind(batch, {"template"}))
        /\ \A f \in Fields \ {"cards", "templates"} : c[f] = v[f]
    BY <2>3, <2>5
  <2>7. /\ new = [f \in Fields |-> new[f]]
        /\ new.comments = UpdateComments(c.comments, batch)
        /\ new.attachments = UpdateAttachments(c.attachments, batch)
        /\ new.contents = UpdateContents(c.contents, batch)
        /\ \A f \in Fields \ {"comments", "attachments", "contents"} : new[f] = c[f]
    BY <2>4, <2>6
  <2> QED BY <2>5, <2>6, <2>7
<1> HIDE DEF new
<1>2. /\ st.board \in Nat /\ st.views \in [Blocks -> Nat] /\ st.cards \in [Blocks -> Nat]
      /\ st.templates \in [Blocks -> Nat]
      /\ st.comments \in Slices /\ st.attachments \in Slices /\ st.contents \in Slices
      /\ ListsMapped(st.comments) /\ ListsMapped(st.attachments) /\ ListsMapped(st.contents)
  BY DEF StoreOK
<1>3. \A kinds : Distinct(OfKind(batch, kinds))
  BY <1>0, BatchIsDistinct
<1>4. /\ ShowsBatch(st.comments, new.comments, batch, {"comment"})
      /\ ShowsBatch(st.attachments, new.attachments, batch, {"attachment"})
      /\ ShowsBatch(st.contents, new.contents, batch, {"text"})
  BY <1>1, <1>2, LoopsShow
<1>5. /\ new.views \in [Blocks -> Nat]
      /\ \A u \in OfKind(batch, {"view"}) : new.views[u.id] = VersionIn(u)
      /\ \A b \in Blocks : (\A u \in OfKind(batch, {"view"}) : u.id # b) =>
           new.views[b] = st.views[b]
  <2>1. new.views = Updated(st.views, OfKind(batch, {"view"})) /\ st.views \in [Blocks -> Nat]
    BY <1>1, <1>2
  <2>2. Distinct(OfKind(batch, {"view"}))
    BY <1>3, Zenon
  <2> QED BY <2>1, <2>2, UpdatedShows
<1>6. /\ new.cards \in [Blocks -> Nat]
      /\ \A u \in OfKind(batch, {"card"}) : new.cards[u.id] = VersionIn(u)
      /\ \A b \in Blocks : (\A u \in OfKind(batch, {"card"}) : u.id # b) =>
           new.cards[b] = st.cards[b]
  <2>1. new.cards = Updated(st.cards, OfKind(batch, {"card"})) /\ st.cards \in [Blocks -> Nat]
    BY <1>1, <1>2
  <2>2. Distinct(OfKind(batch, {"card"}))
    BY <1>3, Zenon
  <2> QED BY <2>1, <2>2, UpdatedShows
<1>7. /\ new.templates \in [Blocks -> Nat]
      /\ \A u \in OfKind(batch, {"template"}) : new.templates[u.id] = VersionIn(u)
      /\ \A b \in Blocks : (\A u \in OfKind(batch, {"template"}) : u.id # b) =>
           new.templates[b] = st.templates[b]
  <2>1. new.templates = Updated(st.templates, OfKind(batch, {"template"})) /\ st.templates \in [Blocks -> Nat]
    BY <1>1, <1>2
  <2>2. Distinct(OfKind(batch, {"template"}))
    BY <1>3, Zenon
  <2> QED BY <2>1, <2>2, UpdatedShows
<1>8. StoreOK(new)
  BY <1>1, <1>2, <1>4, <1>5, <1>6, <1>7 DEF StoreOK, ShowsBatch
<1>9. ASSUME NEW b \in Blocks, \A u \in all : u.id # b
      PROVE  ShownVersions(new, b) = ShownVersions(st, b)
  <2>1. \A kinds : \A u \in OfKind(batch, kinds) : u.id # b
    BY <1>0, <1>9
  <2>2. /\ new.views[b] = st.views[b] /\ new.cards[b] = st.cards[b]
        /\ new.templates[b] = st.templates[b]
    BY <1>5, <1>6, <1>7, <2>1
  <2>3. /\ ListVersions(new.comments, b) = ListVersions(st.comments, b)
        /\ ListVersions(new.attachments, b) = ListVersions(st.attachments, b)
        /\ ListVersions(new.contents, b) = ListVersions(st.contents, b)
    BY <1>4, <2>1 DEF ShowsBatch
  <2> QED BY <2>2, <2>3, Versions DEF BlockKinds
<1>10. ASSUME NEW u \in all
       PROVE  \/ ShownVersions(new, u.id) = {VersionIn(u)} \ {0}
              \/ /\ ShownVersions(new, u.id) = ShownVersions(st, u.id)
                 /\ KindOf[u.id] \in {"comment", "attachment", "text"}
                 /\ u = batch[1] => ~u.gone /\ KindOf[u.id] = "attachment"
                                            /\ Listed(st.attachments, u.id)
  <2>1. u \in BlockUpdates /\ u.id \in Blocks
    BY BatchIsDistinct DEF Distinct, BlockUpdates
  <2>2. u \in OfKind(batch, {KindOf[u.id]})
    BY <1>0 DEF Concerns
  <2>3. One(VersionIn(u)) = {VersionIn(u)} \ {0}
    BY DEF One
  <2>4. CASE KindOf[u.id] = "view"
    BY <1>5, <2>1, <2>2, <2>3, <2>4, Versions
  <2>5. CASE KindOf[u.id] = "card"
    BY <1>6, <2>1, <2>2, <2>3, <2>5, Versions
  <2>6. CASE KindOf[u.id] = "template"
    BY <1>7, <2>1, <2>2, <2>3, <2>6, Versions
  <2>7. CASE KindOf[u.id] = "comment"
    BY <1>4, <2>1, <2>2, <2>7, Versions DEF ShowsBatch
  <2>8. CASE KindOf[u.id] = "attachment"
    BY <1>4, <2>1, <2>2, <2>8, Versions DEF ShowsBatch
  <2>9. CASE KindOf[u.id] = "text"
    BY <1>4, <2>1, <2>2, <2>9, Versions DEF ShowsBatch
  <2> QED BY <2>1, <2>4, <2>5, <2>6, <2>7, <2>8, <2>9, Versions DEF BlockKinds
<1> QED BY <1>1, <1>8, <1>9, <1>10 DEF ScreenShows, new


LEMMA BoardReduced ==
  ASSUME QueueOK, NEW st, StoreOK(st)
  PROVE  LET new == IncrementalBoardUpdate(st, wsQueue["board"]) IN
         /\ StoreOK(new) /\ \A b \in Blocks : ShownVersions(new, b) = ShownVersions(st, b)
         /\ UpdatesOf("board") = {} => new.board = st.board
         /\ \A u \in UpdatesOf("board") : new.board = VersionIn(u)
<1> DEFINE batch == wsQueue["board"]
           new == IncrementalBoardUpdate(st, batch)
<1>1. "board" \in Kinds
  BY UpdatesAssumption
<1>2. /\ batch \in Seq(QueuedUpdate)
      /\ UpdatesOf("board") = {batch[i] : i \in 1..Len(batch)}
      /\ UpdatesOf("board") \subseteq QueuedUpdate
      /\ \A u, v \in UpdatesOf("board") : u.id = v.id => u = v
  BY <1>1, UpdatesAsSet DEF QueueOK
<1>3. \A u \in UpdatesOf("board") : u.id = Board
  BY <1>1 DEF QueueOK, KindOfObject
<1> HIDE DEF batch
<1>4. batch # <<>> => batch[Len(batch)] \in UpdatesOf("board")
  BY <1>2
<1>5. new.board = IF batch = <<>> THEN st.board ELSE VersionIn(batch[Len(batch)])
  BY DEF IncrementalBoardUpdate, StoreOK
<1>6. \A u \in UpdatesOf("board") : new.board = VersionIn(u)
  BY <1>2, <1>3, <1>4, <1>5
<1>7. new.board \in Nat
  BY <1>2, <1>4, <1>5 DEF VersionIn, QueuedUpdate, StoreOK
<1>8. /\ new.views = st.views /\ new.cards = st.cards /\ new.templates = st.templates
      /\ new.comments = st.comments /\ new.attachments = st.attachments
      /\ new.contents = st.contents
  BY DEF IncrementalBoardUpdate, StoreOK
<1>9. StoreOK(new)
  BY <1>7, <1>8 DEF StoreOK, IncrementalBoardUpdate
<1>10. \A b \in Blocks : ShownVersions(new, b) = ShownVersions(st, b)
  BY <1>8 DEF ShownVersions
<1>11. UpdatesOf("board") = {} => new.board = st.board
  BY <1>4, <1>5
<1> QED BY <1>6, <1>9, <1>10, <1>11 DEF batch

\* The lists that a load makes.
LEMMA SliceLoaded ==
  ASSUME NEW snap \in [Blocks -> Nat], NEW kinds
  PROVE  LET new == LoadedSlice(snap, kinds) IN
         /\ new \in Slices /\ ListsMapped(new)
         /\ \A b \in Blocks : KindOf[b] \in kinds => ListVersions(new, b) = {snap[b]} \ {0}
<1> DEFINE new == LoadedSlice(snap, kinds)
           Of(p) == {b \in Blocks : KindOf[b] \in kinds /\ ParentOf[b] = p /\ snap[b] # 0}
           made(p) == {[id |-> b, ver |-> snap[b]] : b \in Of(p)}
<1>1. /\ new.byId = LoadedMap(snap, kinds)
      /\ new.lists = [p \in Holders |-> IF Of(p) = {} THEN NoList ELSE made(p)]
      /\ new = [byId |-> new.byId, lists |-> new.lists]
  BY DEF LoadedSlice
<1>2. LoadedMap(snap, kinds) \in [Blocks -> Nat]
  BY DEF LoadedMap
<1>3. ASSUME NEW p
      PROVE  made(p) \in SUBSET [id : Blocks, ver : Nat] /\ made(p) # NoList /\ made(p) \in Lists
  <2>1. made(p) \in SUBSET [id : Blocks, ver : Nat]
    OBVIOUS
  <2>2. \A e, f \in made(p) : e.id = f.id => e = f
    OBVIOUS
  <2> QED BY <2>1, <2>2, NoListIsNone DEF Lists
<1> HIDE DEF new
<1>4. new \in Slices
  BY <1>1, <1>2, <1>3 DEF Slices, Lists
<1>5. \A b \in Blocks : ParentOf[b] \in Holders
  BY DEF Holders
<1>6. ASSUME NEW b \in Blocks
      PROVE  InList(new.lists[ParentOf[b]], b) =
               IF KindOf[b] \in kinds /\ snap[b] # 0 THEN {[id |-> b, ver |-> snap[b]]} ELSE {}
  <2> DEFINE p == ParentOf[b]
  <2>1. CASE Of(p) = {}
    BY <1>1, <1>5, <2>1 DEF InList
  <2>2. CASE Of(p) # {}
    <3>1. new.lists[p] = made(p) /\ made(p) # NoList
      BY <1>1, <1>3, <1>5, <2>2
    <3>2. {e \in made(p) : e.id = b} =
            IF KindOf[b] \in kinds /\ snap[b] # 0 THEN {[id |-> b, ver |-> snap[b]]} ELSE {}
      OBVIOUS
    <3> QED BY <3>1, <3>2 DEF InList
  <2> QED BY <2>1, <2>2
<1>7. \A b \in Blocks :
        /\ Listed(new, b) <=> InList(new.lists[ParentOf[b]], b) # {}
        /\ ListVersions(new, b) = {e.ver : e \in InList(new.lists[ParentOf[b]], b)}
  BY DEF Listed, InList, ListVersions
<1>8. \A b \in Blocks : Listed(new, b) => new.byId[b] # 0
  BY <1>1, <1>6, <1>7 DEF LoadedMap
<1>9. ASSUME NEW b \in Blocks, KindOf[b] \in kinds
      PROVE  ListVersions(new, b) = {snap[b]} \ {0}
  <2>1. CASE snap[b] = 0
    BY <1>6, <1>7, <1>9, <2>1
  <2>2. CASE snap[b] # 0
    <3>1. InList(new.lists[ParentOf[b]], b) = {[id |-> b, ver |-> snap[b]]}
      BY <1>6, <1>9, <2>2
    <3>2. {e.ver : e \in {[id |-> b, ver |-> snap[b]]}} = {snap[b]}
      OBVIOUS
    <3> QED BY <1>7, <2>2, <3>1, <3>2
  <2> QED BY <2>1, <2>2
<1> QED BY <1>4, <1>8, <1>9 DEF ListsMapped, new

LEMMA BlocksLoaded ==
  ASSUME NEW st, StoreOK(st), NEW snap \in [Blocks -> Nat]
  PROVE  LET new == BoardDataLoaded(st, snap) IN
         /\ StoreOK(new) /\ new.board = st.board
         /\ \A b \in Blocks : ShownVersions(new, b) = {snap[b]} \ {0}
<1> DEFINE new == BoardDataLoaded(st, snap)
           others == {"text", "attachment", "card", "template"}
<1>1. /\ new.board = st.board
      /\ new.views = LoadedMap(snap, {"view"}) /\ new.cards = LoadedMap(snap, {"card"})
      /\ new.templates = LoadedMap(snap, {"template"})
      /\ new.comments = LoadedSlice(snap, {"comment"})
      /\ new.attachments = LoadedSlice(snap, {"attachment"})
      /\ new.contents = LoadedSlice(snap, others)
      /\ new = [board |-> new.board, views |-> new.views, cards |-> new.cards,
                templates |-> new.templates, comments |-> new.comments,
                attachments |-> new.attachments, contents |-> new.contents]
  <2> DEFINE Fields == {"board", "views", "cards", "templates", "comments", "attachments", "contents"}
  <2>1. DOMAIN st = Fields /\ st = [f \in Fields |-> st[f]]
    BY DEF StoreOK
  <2>2. new = [st EXCEPT !.views = LoadedMap(snap, {"view"}),
                         !.cards = LoadedMap(snap, {"card"}),
                         !.templates = LoadedMap(snap, {"template"}),
                         !.comments = LoadedSlice(snap, {"comment"}),
                         !.attachments = LoadedSlice(snap, {"attachment"}),
                         !.contents = LoadedSlice(snap, others)]
    BY DEF BoardDataLoaded
  <2> HIDE DEF new, others
  <2>3. new = [f \in Fields |-> new[f]]
    BY <2>1, <2>2
  <2> QED BY <2>1, <2>2, <2>3
<1> HIDE DEF new, others
<1>2. \A kinds : LoadedMap(snap, kinds) \in [Blocks -> Nat]
  BY DEF LoadedMap
<1>3. /\ new.comments \in Slices /\ ListsMapped(new.comments)
      /\ \A b \in Blocks : KindOf[b] = "comment" => ListVersions(new.comments, b) = {snap[b]} \ {0}
  BY <1>1, SliceLoaded
<1>4. /\ new.attachments \in Slices /\ ListsMapped(new.attachments)
      /\ \A b \in Blocks : KindOf[b] = "attachment" =>
           ListVersions(new.attachments, b) = {snap[b]} \ {0}
  BY <1>1, SliceLoaded
<1>5. /\ new.contents \in Slices /\ ListsMapped(new.contents)
      /\ \A b \in Blocks : KindOf[b] \in others => ListVersions(new.contents, b) = {snap[b]} \ {0}
  BY <1>1, SliceLoaded
<1>6. StoreOK(new)
  BY <1>1, <1>2, <1>3, <1>4, <1>5 DEF StoreOK
<1>7. ASSUME NEW b \in Blocks
      PROVE  ShownVersions(new, b) = {snap[b]} \ {0}
  <2>1. One(snap[b]) = {snap[b]} \ {0}
    BY DEF One
  <2>2. \A kinds : KindOf[b] \in kinds => LoadedMap(snap, kinds)[b] = snap[b]
    BY DEF LoadedMap
  <2>3. KindOf[b] \in {"view", "card", "template"} => ShownVersions(new, b) = {snap[b]} \ {0}
    BY <1>1, <2>1, <2>2, Versions
  <2>4. KindOf[b] \in {"comment", "attachment", "text"} => ShownVersions(new, b) = {snap[b]} \ {0}
    BY <1>3, <1>4, <1>5, Versions DEF others
  <2> QED BY <2>3, <2>4, Versions DEF BlockKinds
<1> QED BY <1>1, <1>6, <1>7 DEF new


----------------------------------------------------------------------------
(***************************************************************************)
(* The screen.                                                              *)
(***************************************************************************)
\* What a store shows of an object.
ShownIn(st, x) ==
  IF x = Board THEN (IF st.board = 0 THEN {} ELSE {st.board}) ELSE ShownVersions(st, x)

\* The updates that are flushed of an object are shown, but for those that nobody
\* handles, and for those that a reducer passes over.
LEMMA FlushShows ==
  ASSUME QueueOK, StoreOK(store), Flush
  PROVE  /\ StoreOK(store')
         /\ \A x \in Objects : x \notin IdsIn(KindOfObject(x)) => Shown(x)' = Shown(x)
         /\ \A x \in Objects : \A u \in UpdatesOf(KindOfObject(x)) : u.id = x =>
              \/ Handled(KindOfObject(x)) /\ Shown(x)' = {VersionIn(u)} \ {0}
              \/ Shown(x)' = Shown(x) /\ (x \in crowded' \/ ~Handled(KindOfObject(x)))
<1> DEFINE batch == wsQueue["block"]
           s1 == IF Handled("block") THEN IncrementalBlockUpdate(store, batch) ELSE store
           s2 == IF Handled("board") THEN IncrementalBoardUpdate(s1, wsQueue["board"]) ELSE s1
<1>1. store' = s2
  BY DEF Flush
<1>2. BatchOK(batch) /\ UpdatesOf("block") = ToSet(batch)
  BY BlockBatchOK DEF UpdatesOf
<1>3. \A x : Shown(x)' = ShownIn(s2, x) /\ Shown(x) = ShownIn(store, x)
  BY <1>1 DEF Shown, ShownIn
<1> HIDE DEF batch
<1>4. Handled("block") => ScreenShows(store, s1, batch)
  BY <1>2, BlocksReduced
<1>5. StoreOK(s1) /\ s1.board = store.board
  BY <1>4 DEF ScreenShows
<1> HIDE DEF s1
<1>6. /\ StoreOK(s2) /\ \A b \in Blocks : ShownVersions(s2, b) = ShownVersions(s1, b)
      /\ UpdatesOf("board") = {} => s2.board = s1.board
      /\ Handled("board") => \A u \in UpdatesOf("board") : s2.board = VersionIn(u)
      /\ ~Handled("board") => s2 = s1
  BY <1>5, BoardReduced
<1> HIDE DEF s2
<1>7. "board" \in Kinds /\ "block" \in Kinds /\ Board \notin Blocks
  BY UpdatesAssumption, BoardAssumption
<1>8. \A u \in UpdatesOf("board") : u.id = Board
  BY <1>7 DEF QueueOK, KindOfObject
<1>9. ASSUME Board \notin IdsIn("board")
      PROVE  ShownIn(s2, Board) = ShownIn(store, Board)
  <2>1. UpdatesOf("board") = {}
    BY <1>8, <1>9 DEF IdsIn
  <2> QED BY <1>5, <1>6, <2>1 DEF ShownIn
<1>10. ASSUME NEW u \in UpdatesOf("board")
       PROVE  \/ Handled("board") /\ ShownIn(s2, Board) = {VersionIn(u)} \ {0}
              \/ ShownIn(s2, Board) = ShownIn(store, Board) /\ ~Handled("board")
  BY <1>5, <1>6 DEF ShownIn
<1>11. ASSUME NEW b \in Blocks, b \notin IdsIn("block")
       PROVE  ShownIn(s2, b) = ShownIn(store, b)
  <2>1. \A u \in ToSet(batch) : u.id # b
    BY <1>2, <1>11 DEF IdsIn
  <2>2. ShownVersions(s1, b) = ShownVersions(store, b)
    BY <1>4, <2>1 DEF ScreenShows, s1
  <2> QED BY <1>6, <1>7, <2>2 DEF ShownIn
<1>12. ASSUME NEW u \in UpdatesOf("block"), u.id \in Blocks
       PROVE  \/ Handled("block") /\ ShownIn(s2, u.id) = {VersionIn(u)} \ {0}
              \/ ShownIn(s2, u.id) = ShownIn(store, u.id) /\ (u.id \in crowded' \/ ~Handled("block"))
  <2>1. ShownIn(s2, u.id) = ShownVersions(s1, u.id) /\ ShownIn(store, u.id) = ShownVersions(store, u.id)
    BY <1>6, <1>7, <1>12 DEF ShownIn
  <2>2. CASE ~Handled("block")
    BY <2>1, <2>2 DEF s1
  <2>3. CASE Handled("block")
    <3>1. \/ ShownVersions(s1, u.id) = {VersionIn(u)} \ {0}
          \/ /\ ShownVersions(s1, u.id) = ShownVersions(store, u.id)
             /\ KindOf[u.id] \in {"comment", "attachment", "text"}
             /\ u = batch[1] => ~u.gone /\ KindOf[u.id] = "attachment"
                                        /\ Listed(store.attachments, u.id)
      BY <1>2, <1>4, <2>3 DEF ScreenShows
    <3>2. ASSUME KindOf[u.id] \in {"comment", "attachment", "text"},
                 u = batch[1] => ~u.gone /\ KindOf[u.id] = "attachment"
                                         /\ Listed(store.attachments, u.id)
          PROVE  u.id \in crowded'
      <4>1. crowded' = (crowded \ IdsIn("block")) \cup BehindOthers \cup ListedAttachments
        BY DEF Flush
      <4>2. CASE u = batch[1]
        BY <1>12, <3>2, <4>1, <4>2 DEF ListedAttachments, IdsIn
      <4>3. CASE u # batch[1]
        <5>1. PICK i \in 1..Len(batch) : batch[i] = u
          BY <1>7, UpdatesAsSet DEF batch
        <5>2. i \in 2..Len(batch)
          BY <4>3, <5>1 DEF BatchOK
        <5> QED BY <1>12, <3>2, <4>1, <5>1, <5>2 DEF BehindOthers, batch
      <4> QED BY <4>2, <4>3
    <3> QED BY <2>1, <2>3, <3>1, <3>2
  <2> QED BY <2>2, <2>3
<1>13. \A x \in Objects : \/ x = Board /\ KindOfObject(x) = "board"
                          \/ x # Board /\ x \in Blocks /\ KindOfObject(x) = "block"
  <2>1. \A x \in Objects : x = Board \/ (x # Board /\ x \in Blocks)
    BY DEF Objects
  <2> QED BY <2>1 DEF KindOfObject
<1>14. \A x \in Objects : x \notin IdsIn(KindOfObject(x)) => Shown(x)' = Shown(x)
  BY <1>3, <1>9, <1>11, <1>13
<1>15. ASSUME NEW x \in Objects, NEW u \in UpdatesOf(KindOfObject(x)), u.id = x
       PROVE  \/ Handled(KindOfObject(x)) /\ Shown(x)' = {VersionIn(u)} \ {0}
              \/ Shown(x)' = Shown(x) /\ (x \in crowded' \/ ~Handled(KindOfObject(x)))
  BY <1>3, <1>10, <1>12, <1>13, <1>15
<1> QED BY <1>1, <1>6, <1>14, <1>15

\* An answer is shown as it is, and leaves the other objects as they were.
LEMMA LoadedShows ==
  ASSUME LiveTypeOK, StoreOK(store), NEW s \in loads, Loaded(s)
  PROVE  /\ StoreOK(store')
         /\ DOMAIN s \subseteq Objects
         /\ \A x \in DOMAIN s : s[x] \in Nat /\ Shown(x)' = {s[x]} \ {0}
         /\ \A x \in Objects \ DOMAIN s : Shown(x)' = Shown(x)
<1>1. s \in [Blocks -> 0..MaxChanges + 1] \/ s \in [{Board} -> 0..MaxChanges + 1]
  BY DEF LiveTypeOK
<1>2. Board \notin Blocks /\ MaxChanges \in Nat
  BY BoardAssumption, LiveBoundsAssumption
<1>3. \A x : Shown(x)' = ShownIn(store', x) /\ Shown(x) = ShownIn(store, x)
  BY DEF Shown, ShownIn
<1>4. CASE s \in [{Board} -> 0..MaxChanges + 1]
  <2>1. store' = [store EXCEPT !.board = s[Board]] /\ s[Board] \in Nat
    BY <1>2, <1>4 DEF Loaded, BoardsLoaded
  <2>2. /\ store'.board = s[Board] /\ store'.views = store.views /\ store'.cards = store.cards
        /\ store'.templates = store.templates /\ store'.comments = store.comments
        /\ store'.attachments = store.attachments /\ store'.contents = store.contents
    BY <2>1 DEF StoreOK
  <2>3. StoreOK(store')
    BY <2>1, <2>2 DEF StoreOK
  <2>4. \A b \in Blocks : ShownVersions(store', b) = ShownVersions(store, b)
    BY <2>2 DEF ShownVersions
  <2> QED BY <1>2, <1>3, <1>4, <2>1, <2>2, <2>3, <2>4 DEF ShownIn, Objects
<1>5. CASE s \in [Blocks -> 0..MaxChanges + 1]
  <2>1. store' = BoardDataLoaded(store, s) /\ s \in [Blocks -> Nat]
    BY <1>2, <1>5 DEF Loaded
  <2>2. /\ StoreOK(store') /\ store'.board = store.board
        /\ \A b \in Blocks : ShownVersions(store', b) = {s[b]} \ {0}
    BY <2>1, BlocksLoaded
  <2> QED BY <1>2, <1>3, <1>5, <2>1, <2>2 DEF ShownIn, Objects
<1> QED BY <1>1, <1>4, <1>5


\* The step of a change on what is queued.
LEMMA UpToDateChange ==
  ASSUME LiveTypeOK, QueueOK, UpToDate, NEW x \in Objects, NEW gone \in BOOLEAN, Change(x, gone)
  PROVE  UpToDate'
<1> SUFFICES ASSUME NEW y \in Objects, y \notin missed'
             PROVE  /\ \A u \in UpdatesOf(KindOfObject(y))' :
                         u.id = y => u.ver = truth'[y].ver /\ u.gone = truth'[y].gone
                    /\ y \notin crowded' /\ y \notin IdsIn(KindOfObject(y))' => Newest(y)'
  BY DEF UpToDate, KindOfObject
<1>1. /\ truth' = [truth EXCEPT ![x] = [ver |-> truth[x].ver + 1, gone |-> gone]]
      /\ truth \in [Objects -> [ver : 0..MaxChanges + 1, gone : BOOLEAN]]
      /\ store' = store /\ crowded' = crowded
  BY DEF Change, LiveTypeOK
<1>2. Shown(y)' = Shown(y)
  BY <1>1 DEF Shown
<1>3. CASE y # x
  <2>1. y \notin missed /\ truth'[y] = truth[y] /\ VersionNow(y)' = VersionNow(y)
    BY <1>1, <1>3 DEF Change, VersionNow
  <2>2. Newest(y) => Newest(y)'
    BY <1>2, <2>1 DEF Newest
  <2>3. \A u : u.id = y => (u \in UpdatesOf(KindOfObject(y))' <=> u \in UpdatesOf(KindOfObject(y)))
    <3>1. CASE Accepts(HomeTeam)
      BY <1>3, <3>1, ChangeIsQueued, KindsOfObjects
    <3>2. CASE ~Accepts(HomeTeam)
      BY <3>2 DEF Change, WSMessage, wsQueueVars, UpdatesOf
    <3> QED BY <3>1, <3>2
  <2>4. y \in IdsIn(KindOfObject(y))' <=> y \in IdsIn(KindOfObject(y))
    BY <2>3 DEF IdsIn
  <2> QED BY <1>1, <2>1, <2>2, <2>3, <2>4 DEF UpToDate
<1>4. CASE y = x
  <2>1. Accepts(HomeTeam)
    BY <1>4 DEF Change
  <2>2. UpdatesOf(KindOfObject(x))' = {u \in UpdatesOf(KindOfObject(x)) : u.id # x}
                                        \cup {[id |-> x, ver |-> truth[x].ver + 1, gone |-> gone]}
    BY <2>1, ChangeIsQueued
  <2>3. x \in IdsIn(KindOfObject(x))'
    <3> DEFINE data == [id |-> x, ver |-> truth[x].ver + 1, gone |-> gone]
    <3>1. data.id = x /\ data \in UpdatesOf(KindOfObject(x))'
      BY <2>2
    <3> QED BY <3>1 DEF IdsIn
  <2> QED BY <1>1, <1>4, <2>2, <2>3
<1> QED BY <1>3, <1>4

LEMMA UpToDateFlush ==
  ASSUME LiveTypeOK, QueueOK, StoreOK(store), UpToDate, Flush
  PROVE  UpToDate'
<1> SUFFICES ASSUME NEW y \in Objects, y \notin missed'
             PROVE  /\ \A u \in UpdatesOf(KindOfObject(y))' :
                         u.id = y => u.ver = truth'[y].ver /\ u.gone = truth'[y].gone
                    /\ y \notin crowded' /\ y \notin IdsIn(KindOfObject(y))' => Newest(y)'
  BY DEF UpToDate, KindOfObject
<1> DEFINE kind == KindOfObject(y)
<1>1. kind \in Kinds
  BY KindsOfObjects
<1>2. wsQueue' = NoUpdates /\ truth' = truth
  BY DEF Flush, WSFlush
<1>3. UpdatesOf(kind)' = {}
  <2>1. wsQueue'[kind] = <<>>
    BY <1>1, <1>2 DEF NoUpdates
  <2>2. kind' = kind
    BY DEF KindOfObject
  <2> HIDE DEF kind
  <2> QED BY <2>1, <2>2 DEF UpdatesOf, ToSet
<1>4. y \notin missed /\ (y \in IdsIn(kind) => Handled(kind))
  BY <1>1 DEF Flush
<1>5. VersionNow(y)' = VersionNow(y)
  BY <1>2 DEF VersionNow
<1>6. ASSUME y \notin crowded'
      PROVE  Newest(y)'
  <2>1. CASE y \notin IdsIn(kind)
    <3>1. y \notin crowded
      <4>1. kind = "block" => y \in crowded'  \/ y \notin crowded
        BY <2>1 DEF Flush
      <4>2. kind # "block" => y = Board
        BY DEF KindOfObject
      <4>3. crowded \subseteq Blocks /\ Board \notin Blocks
        BY BoardAssumption DEF LiveTypeOK
      <4> QED BY <1>6, <4>1, <4>2, <4>3
    <3>2. Newest(y) /\ Shown(y)' = Shown(y)
      BY <1>4, <2>1, <3>1, FlushShows DEF UpToDate
    <3> QED BY <1>5, <3>2 DEF Newest
  <2>2. CASE y \in IdsIn(kind)
    <3>1. PICK u \in UpdatesOf(kind) : u.id = y
      BY <2>2 DEF IdsIn
    <3>2. Shown(y)' = {VersionIn(u)} \ {0}
      BY <1>4, <1>6, <2>2, <3>1, FlushShows
    <3>3. VersionIn(u) = VersionNow(y)
      BY <1>4, <3>1 DEF UpToDate, VersionIn, VersionNow
    <3> QED BY <1>5, <3>2, <3>3 DEF Newest
  <2> QED BY <2>1, <2>2
<1> QED BY <1>3, <1>6

LEMMA UpToDateLoaded ==
  ASSUME LiveTypeOK, QueueOK, StoreOK(store), UpToDate, NEW s \in loads, Loaded(s)
  PROVE  UpToDate'
<1> SUFFICES ASSUME NEW y \in Objects, y \notin missed'
             PROVE  /\ \A u \in UpdatesOf(KindOfObject(y))' :
                         u.id = y => u.ver = truth'[y].ver /\ u.gone = truth'[y].gone
                    /\ y \notin crowded' /\ y \notin IdsIn(KindOfObject(y))' => Newest(y)'
  BY DEF UpToDate, KindOfObject
<1> DEFINE kind == KindOfObject(y)
           settled == {x \in DOMAIN s : x \notin IdsIn(KindOfObject(x))}
<1>1. /\ wsQueue' = wsQueue /\ truth' = truth /\ crowded' = crowded \ DOMAIN s
      /\ missed' = (missed \ settled) \cup {x \in settled : s[x] # VersionNow(x)}
  BY DEF Loaded, wsVars, wsQueueVars
<1>2. UpdatesOf(kind)' = UpdatesOf(kind) /\ IdsIn(kind)' = IdsIn(kind)
  BY <1>1 DEF UpdatesOf, IdsIn, KindOfObject
<1>3. VersionNow(y)' = VersionNow(y)
  BY <1>1 DEF VersionNow
<1>4. /\ \A x \in DOMAIN s : Shown(x)' = {s[x]} \ {0}
      /\ \A x \in Objects \ DOMAIN s : Shown(x)' = Shown(x)
  BY LoadedShows
<1>5. ASSUME NEW u \in UpdatesOf(kind), u.id = y
      PROVE  u.ver = truth[y].ver /\ u.gone = truth[y].gone
  <2>1. y \in IdsIn(kind)
    BY <1>5 DEF IdsIn
  <2>2. y \notin missed
    BY <1>1, <2>1
  <2> QED BY <1>5, <2>2 DEF UpToDate
<1>6. ASSUME y \notin crowded', y \notin IdsIn(kind)
      PROVE  Newest(y)'
  <2>1. CASE y \in DOMAIN s
    <3>1. s[y] = VersionNow(y)
      BY <1>1, <1>6, <2>1
    <3> QED BY <1>3, <1>4, <2>1, <3>1 DEF Newest
  <2>2. CASE y \notin DOMAIN s
    <3>1. y \notin missed /\ y \notin crowded
      BY <1>1, <1>6, <2>2
    <3>2. Newest(y) /\ Shown(y)' = Shown(y)
      BY <1>4, <1>6, <2>2, <3>1 DEF UpToDate
    <3> QED BY <1>3, <3>2 DEF Newest
  <2> QED BY <2>1, <2>2
<1> QED BY <1>1, <1>2, <1>5, <1>6


\* The steps that neither change, flush nor load anything.
LEMMA QuietStep ==
  ASSUME [LiveNext]_liveVars
  PROVE  \/ UNCHANGED <<truth, store, wsQueue, missed, crowded>>
         \/ \E x \in Objects, gone \in BOOLEAN : Change(x, gone)
         \/ \E s \in loads : Loaded(s)
         \/ Flush
BY PageAssumption
DEF LiveNext, liveVars, wsVars, wsQueueVars, ConnectionStep, ComponentStep, Quietly, Reconnects,
    PageAppears, PageRerenders, WSMount, WSUnmount, WSRerender, WSOpen, WSAuthenticate, WSOnOpen,
    WSLose, WSOnClose, WSReopenTimer, WSPluginReconnect, WSPluginRestart, WSPluginTimer,
    WSSwitchTeam

LEMMA ScreenNext ==
  ASSUME LiveTypeOK, QueueOK, ScreenIInv, [LiveNext]_liveVars
  PROVE  ScreenIInv'
<1>1. ASSUME NEW x \in Objects, NEW gone \in BOOLEAN, Change(x, gone)
      PROVE  ScreenIInv'
  <2>1. store' = store
    BY <1>1 DEF Change
  <2> QED BY <1>1, <2>1, UpToDateChange DEF ScreenIInv
<1>2. ASSUME NEW s \in loads, Loaded(s)
      PROVE  ScreenIInv'
  BY <1>2, UpToDateLoaded, LoadedShows DEF ScreenIInv
<1>3. CASE Flush
  BY <1>3, UpToDateFlush, FlushShows DEF ScreenIInv
<1>4. CASE UNCHANGED <<truth, store, wsQueue, missed, crowded>>
  <2>1. UpToDate'
    BY <1>4 DEF ScreenIInv, UpToDate, UpdatesOf, IdsIn, KindOfObject, Newest, Shown, VersionNow
  <2> QED BY <1>4, <2>1 DEF ScreenIInv
<1> QED BY <1>1, <1>2, <1>3, <1>4, QuietStep

LEMMA ScreenInit ==
  ASSUME LiveInit
  PROVE  ScreenIInv
<1>1. UpToDate
  BY DEF LiveInit, UpToDate
<1>2. /\ Nothing \in [Blocks -> Nat] /\ EmptySlice \in Slices
      /\ \A b \in Blocks : ~Listed(EmptySlice, b)
  <2>1. NoLists \in [Holders -> Lists]
    BY DEF NoLists, Lists
  <2>2. \A b \in Blocks : NoLists[ParentOf[b]] = NoList
    BY DEF NoLists, Holders
  <2> QED BY <2>1, <2>2 DEF Nothing, EmptySlice, Slices, Listed
<1>3. StoreOK(EmptyStore)
  BY <1>2 DEF StoreOK, EmptyStore, ListsMapped
<1> QED BY <1>1, <1>3 DEF ScreenIInv, LiveInit

\* A list has one entry of a block, at most.
LEMMA OneVersion ==
  ASSUME StoreOK(store), NEW x \in Objects
  PROVE  \E v : Shown(x) \subseteq {v}
<1>1. ASSUME NEW slice \in Slices, NEW b \in Blocks
      PROVE  \E v : ListVersions(slice, b) \subseteq {v}
  <2>1. slice.lists[ParentOf[b]] \in Lists
    BY DEF Slices, Holders
  <2> QED BY <2>1 DEF ListVersions, Lists
<1>2. CASE x = Board
  BY <1>2 DEF Shown
<1>3. CASE x # Board
  <2>1. x \in Blocks /\ Shown(x) = ShownVersions(store, x)
    BY <1>3 DEF Shown, Objects
  <2>2. \A v : One(v) \subseteq {v}
    BY DEF One
  <2>3. store.comments \in Slices /\ store.attachments \in Slices /\ store.contents \in Slices
    BY DEF StoreOK
  <2> QED BY <1>1, <2>1, <2>2, <2>3, Versions DEF BlockKinds
<1> QED BY <1>2, <1>3

LEMMA ScreenThen ==
  ASSUME ScreenIInv
  PROVE  ScreenInv
<1>1. ShowsTheNewest
  BY DEF ScreenIInv, UpToDate, ShowsTheNewest, Pending
<1>2. ASSUME NEW x \in Objects
      PROVE  Cardinality(Shown(x)) <= 1
  <2>1. PICK v : Shown(x) \subseteq {v}
    BY OneVersion DEF ScreenIInv
  <2>2. Shown(x) = {} \/ Shown(x) = {v}
    BY <2>1
  <2>3. Cardinality(Shown(x)) = 0 \/ Cardinality(Shown(x)) = 1
    BY <2>2, FS_EmptySet, FS_Singleton
  <2> QED BY <2>3
<1> QED BY <1>1, <1>2 DEF ScreenInv, ShownOnce

\* Each object is on the screen once, at the newest version that reached the tab: in
\* whatever order updates, answers, changes of team and losses come.
THEOREM ScreenIsRight == LiveSpec => []ScreenInv
<1>1. LiveInit => SubscriptionsIInv /\ ScreenIInv
  BY SubscriptionsInit, ScreenInit
<1>2. SubscriptionsIInv /\ ScreenIInv /\ [LiveNext]_liveVars => SubscriptionsIInv' /\ ScreenIInv'
  BY SubscriptionsNext, ScreenNext DEF SubscriptionsIInv
<1>3. ScreenIInv => ScreenInv
  BY ScreenThen
<1> QED BY <1>1, <1>2, <1>3, PTL DEF LiveSpec

----------------------------------------------------------------------------
(***************************************************************************)
(* The tab implements the mirror.                                           *)
(***************************************************************************)
ShownNow == [x \in Objects |-> IF Shown(x) = {} THEN 0 ELSE CHOOSE v \in Shown(x) : TRUE]
NewsNow == loads \cup QueuedNews

VersionOf(S) == IF S = {} THEN 0 ELSE CHOOSE v \in S : TRUE

\* The version that is shown of an object.
LEMMA ShownAs ==
  ASSUME NEW x \in Objects
  PROVE  /\ \A v : Shown(x) = {v} \ {0} => ShownNow[x] = v
         /\ \A v : Shown(x)' = {v} \ {0} => ShownNow'[x] = v
         /\ Shown(x)' = Shown(x) => ShownNow'[x] = ShownNow[x]
<1>1. ASSUME NEW v, NEW S, S = {v} \ {0}
      PROVE  VersionOf(S) = v
  <2>1. CASE v = 0
    BY <1>1, <2>1 DEF VersionOf
  <2>2. CASE v # 0
    <3>1. S = {v}
      BY <1>1, <2>2
    <3> QED BY <3>1 DEF VersionOf
  <2> QED BY <2>1, <2>2
<1>2. ShownNow[x] = VersionOf(Shown(x)) /\ ShownNow'[x] = VersionOf(Shown(x)')
  BY DEF ShownNow, VersionOf
<1> QED BY <1>1, <1>2

\* What an update tells.
NewsOf(u) == [x \in {u.id} |-> IF u.gone THEN 0 ELSE u.ver]

LEMMA QueuedNewsAre ==
  /\ QueuedNews = {NewsOf(u) : u \in UNION {UpdatesOf(k) : k \in Kinds}}
  /\ QueuedNews' = {NewsOf(u) : u \in (UNION {UpdatesOf(k) : k \in Kinds})'}
BY DEF QueuedNews, NewsOf

LEMMA ChangeMirrored ==
  ASSUME LiveTypeOK, QueueOK, NEW x \in Objects, NEW gone \in BOOLEAN, Change(x, gone)
  PROVE  /\ ~truth[x].gone
         /\ truth' = [truth EXCEPT ![x] = [ver |-> truth[x].ver + 1, gone |-> gone]]
         /\ \A s \in NewsNow' \ NewsNow :
              DOMAIN s = {x} /\ \A y \in DOMAIN s : s[y] \in {0, M!Told(truth', y)}
         /\ ShownNow' = ShownNow
<1> DEFINE data == [id |-> x, ver |-> truth[x].ver + 1, gone |-> gone]
<1>1. /\ ~truth[x].gone /\ loads' = loads /\ store' = store
      /\ truth' = [truth EXCEPT ![x] = [ver |-> truth[x].ver + 1, gone |-> gone]]
  BY DEF Change
<1>2. ShownNow' = ShownNow
  BY <1>1 DEF ShownNow, Shown
<1>3. \A k \in Kinds : \A u \in UpdatesOf(k)' : u \in UpdatesOf(k) \/ u = data
  <2>1. CASE Accepts(HomeTeam)
    BY <2>1, ChangeIsQueued
  <2>2. CASE ~Accepts(HomeTeam)
    BY <2>2 DEF Change, WSMessage, wsQueueVars, UpdatesOf
  <2> QED BY <2>1, <2>2
<1> HIDE DEF data
<1>4. ASSUME NEW s \in NewsNow' \ NewsNow
      PROVE  s = NewsOf(data)
  BY <1>1, <1>3, QueuedNewsAre DEF NewsNow
<1>5. DOMAIN NewsOf(data) = {x} /\ NewsOf(data)[x] = M!Told(truth', x)
  <2>1. truth'[x] = [ver |-> truth[x].ver + 1, gone |-> gone]
    BY <1>1 DEF LiveTypeOK
  <2> QED BY <2>1 DEF NewsOf, data, M!Told
<1> QED BY <1>1, <1>2, <1>4, <1>5

\* Answers that a step asks for tell of this moment.
LEMMA AskMirrored ==
  ASSUME LiveTypeOK, UNCHANGED <<truth, store, wsQueue>>, NEW t,
         loads' \subseteq loads \cup PageLoads(t), loads \subseteq loads'
  PROVE  /\ \A s \in NewsNow' \ NewsNow : \A x \in DOMAIN s : s[x] \in {0, M!Told(truth, x)}
         /\ ShownNow' = ShownNow
<1>1. ShownNow' = ShownNow
  BY DEF ShownNow, Shown
<1>2. QueuedNews' = QueuedNews
  BY DEF QueuedNews, UpdatesOf
<1>3. \A x : M!Told(truth, x) = VersionNow(x)
  BY DEF M!Told, VersionNow
<1> QED BY <1>1, <1>2, <1>3, VersionsNow DEF NewsNow

LEMMA LoadedMirrored ==
  ASSUME LiveTypeOK, StoreOK(store), NEW s \in loads, Loaded(s)
  PROVE  /\ NewsNow' \subseteq NewsNow /\ truth' = truth
         /\ \A x \in Objects : ShownNow'[x] = ShownNow[x]
                                 \/ \E n \in NewsNow : x \in DOMAIN n /\ ShownNow'[x] = n[x]
<1>1. truth' = truth /\ loads' \subseteq loads /\ wsQueue' = wsQueue
  BY DEF Loaded, wsVars, wsQueueVars
<1>2. QueuedNews' = QueuedNews
  BY <1>1 DEF QueuedNews, UpdatesOf
<1>3. s \in NewsNow
  BY DEF NewsNow
<1>4. ASSUME NEW x \in Objects
      PROVE  ShownNow'[x] = ShownNow[x] \/ (x \in DOMAIN s /\ ShownNow'[x] = s[x])
  BY LoadedShows, ShownAs
<1> QED BY <1>1, <1>2, <1>3, <1>4 DEF NewsNow

LEMMA FlushMirrored ==
  ASSUME QueueOK, StoreOK(store), Flush
  PROVE  /\ NewsNow' \subseteq NewsNow /\ truth' = truth
         /\ \A x \in Objects : ShownNow'[x] = ShownNow[x]
                                 \/ \E n \in NewsNow : x \in DOMAIN n /\ ShownNow'[x] = n[x]
<1>1. truth' = truth /\ loads' = loads /\ wsQueue' = NoUpdates
  BY DEF Flush, WSFlush
<1>2. QueuedNews' = {}
  <2>1. \A k \in Kinds : UpdatesOf(k)' = {}
    BY <1>1 DEF UpdatesOf, ToSet, NoUpdates
  <2> QED BY <2>1, QueuedNewsAre
<1>3. ASSUME NEW x \in Objects
      PROVE  ShownNow'[x] = ShownNow[x]
               \/ \E n \in NewsNow : x \in DOMAIN n /\ ShownNow'[x] = n[x]
  <2>1. CASE x \notin IdsIn(KindOfObject(x))
    BY <2>1, FlushShows, ShownAs
  <2>2. CASE x \in IdsIn(KindOfObject(x))
    <3>1. PICK u \in UpdatesOf(KindOfObject(x)) : u.id = x
      BY <2>2 DEF IdsIn
    <3>2. ShownNow'[x] = ShownNow[x] \/ ShownNow'[x] = VersionIn(u)
      BY <3>1, FlushShows, ShownAs
    <3>3. NewsOf(u) \in NewsNow
      BY <3>1, KindsOfObjects, QueuedNewsAre DEF NewsNow
    <3>4. x \in DOMAIN NewsOf(u) /\ NewsOf(u)[x] = VersionIn(u)
      BY <3>1 DEF NewsOf, VersionIn
    <3> QED BY <3>2, <3>3, <3>4
  <2> QED BY <2>1, <2>2
<1> QED BY <1>1, <1>2, <1>3 DEF NewsNow

LEMMA MirrorInitial ==
  ASSUME LiveInit
  PROVE  M!MirrorInit
<1>1. truth \in [Objects -> [ver : {0, 1}, gone : {FALSE}]]
  BY DEF LiveInit
<1>2. NewsNow = {}
  <2>1. \A k \in Kinds : UpdatesOf(k) = {}
    BY NoQueue DEF LiveInit, WSInit
  <2> QED BY <2>1, QueuedNewsAre DEF NewsNow, LiveInit
<1>3. \A b \in Blocks : Nothing[b] = 0 /\ ListVersions(EmptySlice, b) = {}
  BY DEF Nothing, EmptySlice, NoLists, ListVersions, Holders
<1>4. \A x \in Objects : Shown(x) = {}
  BY <1>3, Versions DEF LiveInit, Shown, EmptyStore, One, BlockKinds, Objects
<1>5. ShownNow = [x \in Objects |-> 0]
  BY <1>4 DEF ShownNow
<1> QED BY <1>1, <1>2, <1>5 DEF M!MirrorInit, ShownNow, NewsNow

LEMMA MirrorStep ==
  ASSUME LiveTypeOK, QueueOK, StoreOK(store), [LiveNext]_liveVars
  PROVE  [M!MirrorNext]_M!mirrorVars
<1>1. ASSUME NEW x \in Objects, NEW gone \in BOOLEAN, Change(x, gone)
      PROVE  M!ServerChanges(x)
  BY <1>1, ChangeMirrored DEF M!ServerChanges, M!IsNewsOf, ShownNow, NewsNow
<1>2. ASSUME (\E s \in loads : Loaded(s)) \/ Flush
      PROVE  M!Show
  BY <1>2, LoadedMirrored, FlushMirrored DEF M!Show, ShownNow, NewsNow
<1>3. ASSUME UNCHANGED <<truth, store, wsQueue>>, NEW t,
             loads' \subseteq loads \cup PageLoads(t), loads \subseteq loads'
      PROVE  M!Ask
  BY <1>3, AskMirrored DEF M!Ask, M!IsNewsOf, ShownNow, NewsNow
<1>4. ASSUME UNCHANGED <<truth, store, wsQueue, loads>>
      PROVE  M!Ask
  BY <1>3, <1>4
<1> QED BY <1>1, <1>2, <1>3, <1>4, QuietStep, LoadsStep DEF M!MirrorNext

\* The screen shows each object as news on its way told it: nothing is mixed up, and
\* nothing comes back that no news tell of.
THEOREM TabMirrorsServer == LiveSpec => ImplementsMirror
<1>1. LiveInit => SubscriptionsIInv /\ ScreenIInv /\ M!MirrorInit
  BY SubscriptionsInit, ScreenInit, MirrorInitial
<1>2. SubscriptionsIInv /\ ScreenIInv /\ [LiveNext]_liveVars => SubscriptionsIInv' /\ ScreenIInv'
  BY SubscriptionsNext, ScreenNext DEF SubscriptionsIInv
<1>3. SubscriptionsIInv /\ ScreenIInv /\ [LiveNext]_liveVars => [M!MirrorNext]_M!mirrorVars
  BY MirrorStep DEF SubscriptionsIInv, ScreenIInv
<1> QED BY <1>1, <1>2, <1>3, PTL DEF LiveSpec, ImplementsMirror, M!MirrorSpec


=============================================================================
