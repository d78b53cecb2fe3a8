------------------------------ MODULE Mutator -------------------------------
(***************************************************************************)
(* What the operations of webapp/src/mutator.ts change, and how they are    *)
(* undone: patches that are computed once, from the board, the view and the *)
(* cards that the tab has, and sent to the server on every redo and undo    *)
(* (createPatchesFromBlocks, createPatchesFromBoards; BoardPatch.Patch and  *)
(* BlockPatch.Patch on the server); and the list of properties in the       *)
(* dialog of a card, which asks before it changes or deletes one            *)
(* (components/cardDetail/cardDetailProperties.tsx).                        *)
(*                                                                          *)
(* The awaits of these operations are in UndoManager; here each one is over *)
(* before the next begins, and another user changes the board in between.   *)
(***************************************************************************)
EXTENDS Naturals, Sequences, SequencesExt, FiniteSets, TLC

CONSTANTS
  MuCards,    \* the cards of the board
  MuMaxOps,   \* bound: operations of the user
  MuMaxOthers \* bound: changes by another user

ASSUME MuAssumption == MuMaxOps \in Nat /\ MuMaxOthers \in Nat

VARIABLES
  muData,   \* server: the board with its view and its cards
  muSeen,   \* the tab: the same as the store has it
  muDone,   \* the commands of the undo manager: update patch and undo patch
  muIndex,  \* how many of them are done
  muOps, muOthers,
  muFresh,  \* the next id that createGuid makes, for properties and options
  muPast,   \* history: what the server had before each command
  muLoose,  \* history: values whose property changed its type without them
  muDialog, \* the confirmation: the board it was opened with and what it becomes
  muLate    \* history: a change was confirmed after the board had changed

muVars == <<muData, muSeen, muDone, muIndex, muOps, muOthers, muFresh, muPast, muLoose, muDialog, muLate>>

----------------------------------------------------------------------------
(***************************************************************************)
(* Boards, views, cards.                                                    *)
(***************************************************************************)
MuTypes == {"text", "select", "multiSelect", "person", "multiPerson"}
IsSelect(t) == t \in {"select", "multiSelect"}
IsPerson(t) == t \in {"person", "multiPerson"}
IsMulti(t) == t \in {"multiSelect", "multiPerson"}

Ids(list) == {list[i].id : i \in DOMAIN list}
ById(list, id) == list[CHOOSE i \in DOMAIN list : list[i].id = id]
Position(list, id) == CHOOSE i \in DOMAIN list : list[i].id = id
DropKey(f, x) == [k \in DOMAIN f \ {x} |-> f[k]]
Moved1(list, src, dst) == InsertAt(RemoveAt(list, src), dst, list[src])

\* IPropertyTemplate; the name is a version.
Property(id, name, type, options) == [id |-> id, name |-> name, type |-> type, options |-> options]
Option(id, value) == [id |-> id, value |-> value]

\* The value of a card: the array, or the only value.
Single(v) == [multi |-> FALSE, vals |-> <<v>>]
AsFits(t, v) == [multi |-> IsMulti(t), vals |-> <<v>>]

----------------------------------------------------------------------------
(***************************************************************************)
(* Patches.                                                                 *)
(***************************************************************************)
SameOptions(a, b) ==
  Len(a.options) = Len(b.options) /\ Range(a.options) \subseteq Range(b.options)

\* isPropertyEqual: options in another order are the same.
IsPropertyEqual(a, b) == a.name = b.name /\ a.type = b.type /\ SameOptions(a, b)

Changed(list, other) ==
  SelectSeq(list, LAMBDA p : p.id \notin Ids(other) \/ ~IsPropertyEqual(p, ById(other, p.id)))

\* A half of createCardPropertiesPatches: if the order changes, all
\* properties with their index; else those that differ.
PropertiesPatch(new, old) ==
  LET order(l) == [i \in DOMAIN l |-> l[i].id] IN
  IF order(new) # order(old)
    THEN [indexed |-> TRUE, updated |-> new, deleted |-> Ids(old) \ Ids(new)]
    ELSE [indexed |-> FALSE, updated |-> Changed(new, old), deleted |-> {}]

\* A half of createPatchesFromBlocks: the fields that differ.  The fields of
\* a copy are never the object they were copied from, so a field that holds
\* one is in the patch even if nothing in it changed; that makes a difference
\* only if somebody else changes it.
FieldsPatch(new, old) == [f \in {g \in DOMAIN new : new[g] # old[g]} |-> new[f]]
BlocksPatch(new, old) == [c \in {d \in DOMAIN new : new[d] # old[d]} |-> FieldsPatch(new[c], old[c])]

\* A half of createPatchesFromBoardsAndBlocks.
PatchTo(new, old) ==
  [title |-> IF new.title = old.title THEN {} ELSE {new.title},
   props |-> PropertiesPatch(new.props, old.props),
   view |-> FieldsPatch(new.view, old.view),
   cards |-> BlocksPatch(new.cards, old.cards)]

\* BoardPatch.Patch that ignores the index.
PatchedPropsInPlace(props, p) ==
  LET kept == SelectSeq(props, LAMBDA q : q.id \notin p.deleted) IN
  [i \in DOMAIN kept |-> IF kept[i].id \in Ids(p.updated) THEN ById(p.updated, kept[i].id) ELSE kept[i]]
    \o SelectSeq(p.updated, LAMBDA q : q.id \notin Ids(kept))

\* BoardPatch.Patch: with an index in the patch, the properties that have none
\* are dropped.
PatchedProps(props, p) ==
  LET kept == SelectSeq(props, LAMBDA q : q.id \notin p.deleted)
      replaced == [i \in DOMAIN kept |->
                     IF kept[i].id \in Ids(p.updated) THEN ById(p.updated, kept[i].id) ELSE kept[i]]
      added == SelectSeq(p.updated, LAMBDA q : q.id \notin Ids(kept))
  IN IF p.indexed THEN p.updated ELSE replaced \o added

\* BlockPatch.Patch: the fields of the patch over those of the block.
Patched(data, p) ==
  [title |-> IF p.title = {} THEN data.title ELSE CHOOSE t \in p.title : TRUE,
   props |-> PatchedProps(data.props, p.props),
   view |-> p.view @@ data.view,
   cards |-> [c \in MuCards |-> IF c \in DOMAIN p.cards THEN p.cards[c] @@ data.cards[c] ELSE data.cards[c]]]

----------------------------------------------------------------------------
(***************************************************************************)
(* Operations: what the board d becomes.                                    *)
(***************************************************************************)
WithProps(d, props) == [d EXCEPT !.props = props]
WithOptions(d, p, options) ==
  WithProps(d, [d.props EXCEPT ![Position(d.props, p)].options = options])

\* changeBlockTitle to showBoardDescription: one field of the board.
ChangeBoardField(d) == {[d EXCEPT !.title = 1 - @]}

\* The same of a card, and changeCardContentOrder.
ChangeCardContentOrder(d) == {[d EXCEPT !.cards[c].order = 1 - @] : c \in MuCards}

\* insertPropertyTemplate: where in the board, and in the view if that is a
\* table; index 0 puts the column at its end.  The columns' menu inserts a
\* text.
InsertPropertyTemplate(d, q) ==
  {LET t == Property(q, 0, "text", <<>>)
       column == IF i > 0 THEN i + 1 ELSE Len(d.view.visible) + 1
   IN [WithProps(d, InsertAt(d.props, i + 1, t)) EXCEPT
         !.view.visible = IF column <= Len(@) THEN InsertAt(@, column, q) ELSE Append(@, q)]
   : i \in 0..Len(d.props)}

\* onTypeSelected in the dialog of a card: of any type, at the end.
AddProperty(d, q) ==
  {[WithProps(d, Append(d.props, Property(q, 0, t, <<>>))) EXCEPT !.view.visible = Append(@, q)] : t \in MuTypes}

\* duplicatePropertyTemplate.
DuplicatePropertyTemplate(d, q) ==
  {LET src == d.props[i] IN
   [WithProps(d, InsertAt(d.props, i + 1, [src EXCEPT !.id = q])) EXCEPT !.view.visible = Append(@, q)]
   : i \in DOMAIN d.props}

\* changePropertyTemplateOrder.
ChangePropertyTemplateOrder(d) ==
  {WithProps(d, Moved1(d.props, i, j)) : i, j \in DOMAIN d.props}

\* deleteProperty: in every view, and in the cards of the current view.
DeleteProperty(d) ==
  {[WithProps(d, SelectSeq(d.props, LAMBDA q : q.id # p)) EXCEPT
      !.view.visible = SelectSeq(@, LAMBDA q : q # p),
      !.cards = [c \in MuCards |-> IF c \in d.view.filter
                                     THEN [@[c] EXCEPT !.values = DropKey(@, p)] ELSE @[c]]]
   : p \in Ids(d.props)}

\* insertPropertyOption, deletePropertyOption, changePropertyOptionOrder,
\* changePropertyOptionValue, changePropertyOptionColor.
ChangeOptions(d, fresh) ==
  UNION {LET p == d.props[i].id
             opts == d.props[i].options IN
         {WithOptions(d, p, Append(opts, Option(fresh, 0)))}
         \cup {WithOptions(d, p, RemoveAt(opts, j)) : j \in DOMAIN opts}
         \cup {WithOptions(d, p, Moved1(opts, j, k)) : j, k \in DOMAIN opts}
         \cup {WithOptions(d, p, [opts EXCEPT ![j].value = 1]) : j \in DOMAIN opts}
         : i \in {j \in DOMAIN d.props : IsSelect(d.props[j].type)}}

\* What the editors offer for a property: its options, or 0 for a text or a
\* person.
Offered(p) == IF IsSelect(p.type) THEN Ids(p.options) ELSE {0}

\* changePropertyValue; no value deletes it.
ChangePropertyValue(d) ==
  UNION {{[d EXCEPT !.cards[c].values = (p.id :> AsFits(p.type, v)) @@ @] : v \in Offered(p)}
         \cup {[d EXCEPT !.cards[c].values = DropKey(@, p.id)]}
         : c \in MuCards, p \in Range(d.props)}

\* changePropertyTypeAndName: the options of the property with its new type.
\* Those of a select stay only if there is a card.
NewOptions(p, newType, cards, fresh) ==
  IF (IsSelect(p.type) \/ IsPerson(p.type)) /\ IsSelect(newType)
    THEN IF cards = {} THEN <<>> ELSE p.options
  ELSE IF IsSelect(newType) /\ cards # {} THEN <<Option(fresh, 0)>>
  ELSE <<>>

\* What becomes of a value that does not fit the type as it is.
NewValue(p, newType, v, fresh) ==
  IF IsPerson(p.type) THEN IF IsPerson(newType) THEN {v} ELSE {}
  ELSE IF IsSelect(p.type) THEN IF IsSelect(newType) /\ v \in Ids(p.options) THEN {v} ELSE {}
  ELSE IF IsSelect(newType) THEN {fresh}
  ELSE IF IsPerson(newType) THEN {} ELSE {v}

\* The first value of an array is what stays of it.
Converted(values, p, newType, fresh) ==
  LET old == values[p.id].vals[1]
      new == NewValue(p, newType, old, fresh) IN
  IF new = {} THEN DropKey(values, p.id)
  ELSE [values EXCEPT ![p.id] = AsFits(newType, CHOOSE v \in new : TRUE)]

\* The cards of the current view with a value of the property.
Affected(d, i) == {c \in d.view.filter : d.props[i].id \in DOMAIN d.cards[c].values}

\* changePropertyTypeAndName, with the cards of the current view.
ChangePropertyType(d, i, fresh) ==
  LET p == d.props[i]
      with == Affected(d, i)
      cards == IF IsSelect(p.type) \/ IsPerson(p.type) THEN d.view.filter ELSE with
  IN {[WithProps(d, [d.props EXCEPT ![i] =
         Property(p.id, p.name, t, NewOptions(p, t, cards, fresh))]) EXCEPT
        !.cards = [c \in MuCards |->
           IF c \in with THEN [@[c] EXCEPT !.values = Converted(@, p, t, fresh)] ELSE @[c]]]
     : t \in MuTypes \ {p.type}}

\* onPropertyChangeSetAndOpenConfirmationDialog: a new type that affects a
\* card is asked about; else it changes at once.
AskedTypes(d, fresh) == UNION {ChangePropertyType(d, i, fresh) : i \in {j \in DOMAIN d.props : Affected(d, j) # {}}}
PlainTypes(d, fresh) == UNION {ChangePropertyType(d, i, fresh) : i \in {j \in DOMAIN d.props : Affected(d, j) = {}}}

\* onPropertyDeleteSetAndOpenConfirmationDialog
Asked(d, fresh) == AskedTypes(d, fresh) \cup DeleteProperty(d)

ChangePropertyName(d) == {WithProps(d, [d.props EXCEPT ![i].name = 1]) : i \in DOMAIN d.props}

\* changeViewVisiblePropertiesOrder, changeViewVisibleProperties.
ChangeVisibleProperties(d) ==
  {[d EXCEPT !.view.visible = Moved1(@, i, j)] : i, j \in DOMAIN d.view.visible}
  \cup {[d EXCEPT !.view.visible = IF p \in Range(@) THEN SelectSeq(@, LAMBDA q : q # p) ELSE Append(@, p)]
        : p \in Ids(d.props)}

\* changeViewSortOptions to changeViewCardOrder: one field of the view.
ChangeViewField(d) ==
  {[d EXCEPT !.view.other = 1 - @]} \cup {[d EXCEPT !.view.filter = S] : S \in SUBSET MuCards}

\* hideViewColumn, of a column that is shown.
HideViewColumn(d) ==
  {[d EXCEPT !.view.shown = SelectSeq(@, LAMBDA p : p # o), !.view.hidden = Append(@, o)]
   : o \in Range(d.view.shown)}

\* unhideViewColumn: to the end of those that are shown.
UnhideViewColumn(d) ==
  {[d EXCEPT !.view.hidden = SelectSeq(@, LAMBDA p : p # o),
             !.view.shown = Append(SelectSeq(@, LAMBDA p : p # o), o)]
   : o \in Range(d.view.hidden)}

Operations(d, fresh) ==
  ChangeBoardField(d) \cup ChangeCardContentOrder(d) \cup AddProperty(d, fresh)
  \cup InsertPropertyTemplate(d, fresh) \cup DuplicatePropertyTemplate(d, fresh) \cup ChangePropertyTemplateOrder(d)
  \cup DeleteProperty(d) \cup ChangeOptions(d, fresh) \cup ChangePropertyValue(d)
  \cup PlainTypes(d, fresh) \cup ChangePropertyName(d)
  \cup ChangeVisibleProperties(d) \cup ChangeViewField(d) \cup HideViewColumn(d) \cup UnhideViewColumn(d)

\* moveProperty, one place up or down: the board's order, then, as a command
\* of its own, that of a view in which the property is visible; what is no
\* property of the board drops out of it.
MoveProperty(d) ==
  {LET ids == [k \in DOMAIN d.props |-> Moved1(d.props, m[1], m[2])[k].id]
       visible == SelectSeq(ids, LAMBDA p : p \in Range(d.view.visible))
       first == [new |-> WithProps(d, Moved1(d.props, m[1], m[2])), old |-> d]
   IN IF d.props[m[1]].id \in Range(d.view.visible) /\ visible # d.view.visible
        THEN <<first, [new |-> [d EXCEPT !.view.visible = visible], old |-> d]>>
        ELSE <<first>>
   : m \in {n \in (DOMAIN d.props) \X (DOMAIN d.props) : n[2] \in {n[1] - 1, n[1] + 1}}}

----------------------------------------------------------------------------
(***************************************************************************)
(* State.                                                                   *)
(***************************************************************************)
TypeOf(d, p) == ById(d.props, p).type

\* A value has the shape of its type, and is an option that exists if it is
\* one at all.
Fits(d, c, p) ==
  LET v == d.cards[c].values[p] IN
  v.multi = IsMulti(TypeOf(d, p))

ValuesOf(d) == {at \in MuCards \X Ids(d.props) : at[2] \in DOMAIN d.cards[at[1]].values}

\* A board with one select, which one of its cards has.
MuInit ==
  LET first == CHOOSE c \in MuCards : TRUE IN
  /\ muData = [title |-> 0,
               props |-> <<Property(1, 0, "select", <<Option(2, 0)>>)>>,
               view |-> [visible |-> <<1>>, shown |-> <<2>>, hidden |-> <<>>, filter |-> MuCards, other |-> 0],
               cards |-> [c \in MuCards |->
                  [order |-> 0, values |-> IF c = first THEN 1 :> Single(2) ELSE <<>>]]]
  /\ muSeen = muData
  /\ muDone = <<>> /\ muIndex = 0 /\ muOps = 0 /\ muOthers = 0 /\ muFresh = 3
  /\ muPast = <<>> /\ muLoose = {} /\ muDialog = <<>> /\ muLate = FALSE

\* Updates arrive one after the other, with whatever others did before.
After(patches) == FoldLeft(Patched, muData, patches)

Send(patches) ==
  /\ muData' = After(patches)
  /\ muSeen' = muData'
  /\ muLoose' = muLoose \cup {x \in ValuesOf(muData') : ~Fits(muData', x[1], x[2])
                                /\ x[1] \notin muSeen.view.filter}

\* undoManager.perform, of each change in turn: what was undone cannot be
\* redone after it.
Performs(changes) ==
  LET redos == [k \in DOMAIN changes |-> PatchTo(changes[k].new, changes[k].old)]
      undos == [k \in DOMAIN changes |-> PatchTo(changes[k].old, changes[k].new)]
  IN
  /\ Send(redos)
  /\ muDone' = SubSeq(muDone, 1, muIndex) \o [k \in DOMAIN changes |-> [redo |-> redos[k], undo |-> undos[k]]]
  /\ muPast' = SubSeq(muPast, 1, muIndex) \o [k \in DOMAIN changes |-> After(SubSeq(redos, 1, k - 1))]
  /\ muIndex' = muIndex + Len(changes)

MuClick == muDialog = <<>> /\ muOps < MuMaxOps /\ muOps' = muOps + 1 /\ muFresh' = muFresh + 1

Perform ==
  /\ MuClick
  /\ \/ \E new \in Operations(muSeen, muFresh) : Performs(<<[new |-> new, old |-> muSeen]>>)
     \/ \E changes \in MoveProperty(muSeen) : Performs(changes)
  /\ UNCHANGED <<muOthers, muDialog, muLate>>

\* The dialog keeps the board, the view and the cards of the time it opened.
MuAsk ==
  /\ MuClick
  /\ \E new \in Asked(muSeen, muFresh) : muDialog' = <<[new |-> new, old |-> muSeen]>>
  /\ UNCHANGED <<muData, muSeen, muDone, muIndex, muOthers, muPast, muLoose, muLate>>

\* onConfirm
Confirm ==
  /\ muDialog # <<>> /\ muDialog' = <<>>
  /\ Performs(muDialog)
  /\ muLate' = (muLate \/ muDialog[1].old # muSeen)
  /\ UNCHANGED <<muOps, muOthers, muFresh>>

\* onClose
Close ==
  /\ muDialog # <<>> /\ muDialog' = <<>>
  /\ UNCHANGED <<muData, muSeen, muDone, muIndex, muOps, muOthers, muFresh, muPast, muLoose, muLate>>

\* The keys of undo and redo work while the dialog is open.
MuUndo ==
  /\ muIndex > 0 /\ muIndex' = muIndex - 1
  /\ Send(<<muDone[muIndex].undo>>)
  /\ UNCHANGED <<muDone, muOps, muOthers, muFresh, muPast, muDialog, muLate>>

MuRedo ==
  /\ muIndex < Len(muDone) /\ muIndex' = muIndex + 1
  /\ Send(<<muDone[muIndex + 1].redo>>)
  /\ UNCHANGED <<muDone, muOps, muOthers, muFresh, muPast, muDialog, muLate>>

\* Another user changes the value of a card, or adds a property; the store
\* of this tab has it later.
OtherUser ==
  /\ muOthers < MuMaxOthers /\ muOthers' = muOthers + 1
  /\ muData' \in ChangePropertyValue(muData) \cup InsertPropertyTemplate(muData, muFresh)
  /\ muData' # muData /\ muFresh' = muFresh + 1
  /\ UNCHANGED <<muSeen, muDone, muIndex, muOps, muPast, muLoose, muDialog, muLate>>

Arrives ==
  /\ muSeen # muData /\ muSeen' = muData
  /\ UNCHANGED <<muData, muDone, muIndex, muOps, muOthers, muFresh, muPast, muLoose, muDialog, muLate>>

MuNext == Perform \/ MuAsk \/ Confirm \/ Close \/ MuUndo \/ MuRedo \/ OtherUser \/ Arrives

MuSpec == MuInit /\ [][MuNext]_muVars

----------------------------------------------------------------------------
(***************************************************************************)
(* What the operations guarantee.                                           *)
(***************************************************************************)
MuTypeOK ==
  /\ muIndex \in 0..Len(muDone) /\ Len(muPast) = Len(muDone)
  /\ \A i \in DOMAIN muData.props : muData.props[i].type \in MuTypes
  /\ IsInjective([i \in DOMAIN muData.props |-> muData.props[i].id])
  /\ muData.view.filter \subseteq MuCards

\* Nobody else is at work, and no dialog was confirmed after the board had
\* changed behind it, by an undo.
MuAlone == muOthers = 0 /\ ~muLate

\* Every undo and every redo of a user alone leads back to exactly what there
\* was: board, order of its properties, options, view and cards.
UndoRestores == MuAlone /\ muIndex < Len(muPast) => muData = muPast[muIndex + 1]

\* Every value of a card has the shape of its property's type, one value or
\* an array, however the type changed and changed back: but for the cards
\* that the view did not show when it changed, and for a user who is not alone.
ValuesFit == \A x \in ValuesOf(muData) : x \notin muLoose /\ MuAlone => Fits(muData, x[1], x[2])

\* A view has a column for no property that does not exist, nor two for one,
\* and no option is both shown and hidden.
ColumnsExist ==
  /\ MuAlone => Range(muData.view.visible) \subseteq Ids(muData.props)
  /\ IsInjective(muData.view.visible)
  /\ Range(muData.view.shown) \cap Range(muData.view.hidden) = {}
  /\ IsInjective(muData.view.shown) /\ IsInjective(muData.view.hidden)
=============================================================================
