---------------------------- MODULE CardFilters ----------------------------
(***************************************************************************)
(* The filter of a view and the search field: the dialog that edits the     *)
(* clauses, what a clause says of a card, what a new card gets to meet the  *)
(* filter, and the search text, which is applied when no key was pressed    *)
(* for a while (webapp/src/cardFilter.ts, octoUtils.tsx, the filter dialog  *)
(* and the search of components/viewHeader, and store/cards.ts).            *)
(*                                                                          *)
(* The board has one property of each type in CfTypes, which is its name    *)
(* here too.  The value of a property is a record: the ids of options,      *)
(* persons or cards, a text, or dates; the value of a clause is an id, a    *)
(* text or a date.  Dates count quarters of a day.                          *)
(***************************************************************************)
EXTENDS Integers, Sequences, SequencesExt, FiniteSets

CONSTANTS
  CfTypes,   \* the types of the properties, in the order of the board
  CfIds,     \* CfIds[p]: ids that p may have, in the order of its options
  CfTexts,   \* texts to type: sequences of letters
  CfDates,   \* dates to pick
  CfCards,   \* the cards: [title, values: a function of the properties]
  CfNow,     \* when a new card is created
  CfMaxOps   \* bound: clicks

ASSUME CfAssumption ==
  /\ CfTypes \in Seq(STRING) /\ DOMAIN CfIds = ToSet(CfTypes)
  /\ CfDates \subseteq Nat \ {0} /\ CfNow \in Nat \ {0} /\ CfMaxOps \in Nat

VARIABLES
  cfClauses, \* the clauses of the filter of the view that is open
  cfOp,      \* "and" or "or"; "" before a view is open
  cfProps,   \* the properties of the board, in their order
  cfSearch,  \* [typed, applied, due]: the field, the search text of the store, and the text
             \* that the debounced dispatch will set
  cfNew,     \* history: the values of a card that was just added
  cfOps      \* clicks left

cfVars == <<cfClauses, cfOp, cfProps, cfSearch, cfNew, cfOps>>

----------------------------------------------------------------------------
(***************************************************************************)
(* Types and their conditions.                                              *)
(***************************************************************************)
FilterValueType(p) ==
  CASE p \in {"select", "multiSelect"} -> "options"
    [] p \in {"person", "multiPerson", "createdBy"} -> "person"
    [] p \in {"date", "createdTime"} -> "date"
    [] p \in {"text", "title"} -> "text"
    [] p = "checkbox" -> "boolean"
    [] p = "card" -> "card"

IdConditions == {"includes", "notIncludes", "isEmpty", "isNotEmpty"}
TextConditions == {"is", "contains", "notContains", "startsWith", "notStartsWith", "endsWith", "notEndsWith"}

\* The conditions in the menu of an entry.
Conditions(p) ==
  CASE FilterValueType(p) \in {"options", "card"} -> IdConditions
    [] FilterValueType(p) = "person" -> IF p = "createdBy" THEN {"includes", "notIncludes"} ELSE IdConditions
    [] FilterValueType(p) = "boolean" -> {"isSet", "isNotSet"}
    [] FilterValueType(p) = "text" -> TextConditions
    [] FilterValueType(p) = "date" -> {"is", "isBefore", "isAfter"} \cup (IF p = "date" THEN {"isSet", "isNotSet"} ELSE {})

\* filterConditionValidOrDefault; no condition is valid for persons.
ValidOrDefault(p, cond) ==
  CASE FilterValueType(p) \in {"options", "card"} -> IF cond \in IdConditions THEN cond ELSE "includes"
    [] FilterValueType(p) = "person" -> "includes"
    [] FilterValueType(p) = "boolean" -> IF cond \in {"isSet", "isNotSet"} THEN cond ELSE "isSet"
    [] FilterValueType(p) = "text" -> IF cond \in TextConditions THEN cond ELSE "is"
    [] FilterValueType(p) = "date" -> IF cond \in Conditions("date") THEN cond ELSE "is"

\* filterConditionDisplayString
Displayed(p, cond) ==
  CASE FilterValueType(p) \in {"options", "person", "card"} -> IF cond \in IdConditions THEN cond ELSE "includes"
    [] FilterValueType(p) = "boolean" -> IF cond \in {"isSet", "isNotSet"} THEN cond ELSE "isSet"
    [] FilterValueType(p) = "text" -> IF cond \in TextConditions THEN cond ELSE "is"
    [] FilterValueType(p) = "date" -> IF cond \in Conditions("date") THEN cond ELSE "is"

----------------------------------------------------------------------------
(***************************************************************************)
(* What a clause says of a card.                                            *)
(***************************************************************************)
UnsetValue == [ids |-> {}, text |-> <<>>, from |-> 0, to |-> 0]
IdValue(id) == [kind |-> "id", id |-> id, text |-> <<>>, time |-> 0]
TextValue(t) == [kind |-> "text", id |-> "", text |-> t, time |-> 0]
DateValue(t) == [kind |-> "date", id |-> "", text |-> <<>>, time |-> t]

Lower(t) == [i \in DOMAIN t |-> CASE t[i] = "A" -> "a" [] t[i] = "B" -> "b" [] OTHER -> t[i]]
IsWithin(s, t) == \E i \in 0..Len(t) : IsPrefix(s, SubSeq(t, i + 1, Len(t)))

\* The value of a property that is gone is gone from the cards too.  A title is
\* compared in small letters.
ValueOf(card, p) ==
  IF p = "title" THEN [UnsetValue EXCEPT !.text = Lower(card.title)]
  ELSE IF p \in ToSet(cfProps) THEN card.values[p] ELSE UnsetValue
IsUnset(value) == value = UnsetValue

\* value === cValue, or value.includes(cValue)
HasValue(p, value, v) ==
  CASE v.kind = "id" -> v.id \in value.ids
    [] v.kind = "text" -> p \in {"title", "text"} /\ v.text = value.text /\ (p = "title" \/ ~IsUnset(value))
    [] v.kind = "date" -> p = "createdTime" /\ v.time = value.from

HalfDay == 2
IsOn(t, day) == t > day - HalfDay /\ t < day + HalfDay
IsBefore(t, day) == t < day - HalfDay
IsAfter(t, day) == t > day + HalfDay

\* The conditions that compare dates; times of creation are compared with the
\* day around the date, which is a noon.
DateMet(p, cond, value, v) ==
  LET day == v.time IN
  /\ v.kind = "date" /\ p \in {"date", "createdTime"} /\ value.from # 0
  /\ CASE p = "createdTime" /\ cond = "is" -> IsOn(value.from, day)
       [] p = "createdTime" /\ cond = "isBefore" -> IsBefore(value.from, day)
       [] p = "createdTime" /\ cond = "isAfter" -> IsAfter(value.from, day)
       [] p = "date" /\ cond = "is" ->
            IF value.to # 0 THEN value.from <= day /\ value.to >= day ELSE value.from = day
       [] p = "date" /\ cond = "isBefore" -> value.from < day
       [] p = "date" /\ cond = "isAfter" -> IF value.to # 0 THEN value.to > day ELSE value.from > day

TextMet(cond, value, v) ==
  LET t == Lower(v.text) IN
  /\ v.kind = "text"
  /\ CASE cond \in {"contains", "notContains"} -> IsWithin(t, value.text)
       [] cond \in {"startsWith", "notStartsWith"} -> IsPrefix(t, value.text)
       [] cond \in {"endsWith", "notEndsWith"} -> IsSuffix(t, value.text)

\* isClauseMet
IsClauseMet(clause, card) ==
  LET p == clause.prop
      value == ValueOf(card, p)
      has == \E v \in ToSet(clause.values) : HasValue(p, value, v)
      first == Head(clause.values)
  IN
  CASE clause.cond = "isEmpty" -> value.ids = {} /\ (p = "card" \/ value = [UnsetValue EXCEPT !.ids = value.ids])
    [] clause.cond = "isNotEmpty" -> value.ids # {} \/ (p # "card" /\ ~IsUnset(value))
    [] clause.cond = "isSet" -> ~IsUnset(value)
    [] clause.cond = "isNotSet" -> IsUnset(value)
    [] clause.cond \in {"includes", "notIncludes"} ->
         clause.values = <<>> \/ (IF clause.cond = "includes" THEN has ELSE ~has)
    [] clause.cond \in {"isBefore", "isAfter"} -> clause.values = <<>> \/ DateMet(p, clause.cond, value, first)
    [] clause.cond = "is" ->
         \/ clause.values = <<>>
         \/ IF p \in {"date", "createdTime"} THEN DateMet(p, "is", value, first)
            ELSE HasValue(p, value, [first EXCEPT !.text = Lower(@)])
    [] clause.cond \in {"contains", "startsWith", "endsWith"} ->
         clause.values = <<>> \/ TextMet(clause.cond, value, first)
    [] clause.cond \in {"notContains", "notStartsWith", "notEndsWith"} ->
         clause.values = <<>> \/ ~TextMet(clause.cond, value, first)

IsFilterGroupMet(card) ==
  \/ cfClauses = <<>>
  \/ cfOp = "or" /\ \E i \in DOMAIN cfClauses : IsClauseMet(cfClauses[i], card)
  \/ cfOp = "and" /\ \A i \in DOMAIN cfClauses : IsClauseMet(cfClauses[i], card)

\* searchFilterCards: the title, and the values but dates, hold the text.
Searched(card) ==
  \/ cfSearch.applied = <<>>
  \/ IsWithin(Lower(cfSearch.applied), Lower(card.title))
  \/ \E p \in ToSet(cfProps) : IsWithin(Lower(cfSearch.applied), Lower(card.values[p].text))

CardsShown == {i \in DOMAIN CfCards : IsFilterGroupMet(CfCards[i]) /\ Searched(CfCards[i])}

----------------------------------------------------------------------------
(***************************************************************************)
(* What a new card gets.                                                    *)
(***************************************************************************)
\* The value as the property keeps it: of a card property the id alone is no
\* link to a card.
AsKept(p, v) ==
  CASE v.kind = "id" -> [UnsetValue EXCEPT !.ids = IF p = "card" THEN {} ELSE {v.id}]
    [] v.kind = "text" -> [UnsetValue EXCEPT !.text = v.text]
    [] v.kind = "date" -> [UnsetValue EXCEPT !.from = v.time]

\* propertyThatMeetsFilterClause, for a property that it can set.
Sets(clause) ==
  /\ clause.prop \in ToSet(cfProps) \ {"createdBy"}
  /\ \/ clause.cond = "includes" /\ clause.values # <<>>
     \/ clause.cond = "isNotEmpty" /\ clause.prop = "select" /\ CfIds["select"] # <<>>
FirstMeetingValue(clause) == IdValue(CfIds[clause.prop][1])
MeetingValue(clause) ==
  IF clause.cond = "includes" THEN Head(clause.values) ELSE IdValue(CfIds[clause.prop][1])

\* propertiesThatMeetFilterGroup: of clauses on one property the last one wins.
MeetingClauses == {i \in DOMAIN cfClauses : Sets(cfClauses[i]) /\ (cfOp = "or" => i = 1)}
NewValues ==
  [p \in ToSet(cfProps) |->
     LET mine == {i \in MeetingClauses : cfClauses[i].prop = p} IN
     IF mine # {}
       THEN LET i == CHOOSE i \in mine : \A j \in mine : j <= i IN AsKept(p, MeetingValue(cfClauses[i]))
     ELSE CASE p = "createdBy" -> [UnsetValue EXCEPT !.ids = {CfIds[p][1]}]
            [] p = "createdTime" -> [UnsetValue EXCEPT !.from = CfNow]
            [] OTHER -> UnsetValue]

----------------------------------------------------------------------------
NoNewCard == [title |-> <<>>, values |-> <<>>]
FilterClick == cfOp # "" /\ cfOps > 0 /\ cfOps' = cfOps - 1
EditFilter(clauses) ==
  /\ FilterClick
  /\ cfClauses' = clauses /\ cfNew' = NoNewCard
  /\ UNCHANGED <<cfOp, cfProps, cfSearch>>
EditClause(i, clause) == clause # cfClauses[i] /\ EditFilter([cfClauses EXCEPT ![i] = clause])

\* addFilterClicked: a clause on the first property that has none yet; its
\* condition is "includes" whatever the property is.  With none left the clause
\* is on no property.
Unfiltered == SelectSeq(cfProps, LAMBDA p : \A i \in DOMAIN cfClauses : cfClauses[i].prop # p)
AddFilter ==
  EditFilter(Append(cfClauses,
    [prop |-> IF Unfiltered = <<>> THEN "" ELSE Head(Unfiltered), cond |-> "includes", values |-> <<>>, picked |-> FALSE]))

\* The menu of the properties.  "picked" tells whether the property was picked
\* there, and is not the title, for which the condition stays.
PickProperty(i) ==
  \E p \in ToSet(cfProps) :
    /\ p # cfClauses[i].prop
    /\ EditClause(i, [prop |-> p, cond |-> ValidOrDefault(p, cfClauses[i].cond), values |-> <<>>, picked |-> TRUE])
PickTitle(i) ==
  /\ cfClauses[i].prop # "title"
  /\ EditClause(i, [cfClauses[i] EXCEPT !.prop = "title", !.values = <<>>, !.picked = FALSE])

IsThere(p) == p = "title" \/ p \in ToSet(cfProps)

ConditionClicked(i) ==
  /\ IsThere(cfClauses[i].prop)
  /\ \E cond \in Conditions(cfClauses[i].prop) : EditClause(i, [cfClauses[i] EXCEPT !.cond = cond])

ToggledValue(list, v) == IF v \in ToSet(list) THEN Remove(list, v) ELSE Append(list, v)

\* What the widget of the entry can make of the values.
NewClauseValues(clause) ==
  LET p == clause.prop
      kind == FilterValueType(p)
      ids == clause.cond \in {"includes", "notIncludes"}
  IN
  CASE kind \in {"options", "card"} /\ ids -> {ToggledValue(clause.values, IdValue(CfIds[p][k])) : k \in DOMAIN CfIds[p]}
    [] kind = "person" /\ ids -> {ToggledValue(clause.values, IdValue(CfIds[p][k])) : k \in DOMAIN CfIds[p]} \cup {<<>>}
    [] kind = "text" -> {<<TextValue(t)>> : t \in CfTexts}
    [] kind = "date" /\ clause.cond \notin {"isSet", "isNotSet"} -> {<<DateValue(t)>> : t \in CfDates} \cup {<<>>}
    [] OTHER -> {}

SetValue(i) ==
  /\ IsThere(cfClauses[i].prop)
  /\ \E values \in NewClauseValues(cfClauses[i]) : EditClause(i, [cfClauses[i] EXCEPT !.values = values])

\* All clauses that are equal go.
SameClause(a, b) == a.prop = b.prop /\ a.cond = b.cond /\ a.values = b.values
DeleteClause(i) == EditFilter(SelectSeq(cfClauses, LAMBDA c : ~SameClause(c, cfClauses[i])))

\* A property is deleted: the clauses on it stay.
DeleteFilteredProperty ==
  /\ FilterClick
  /\ \E p \in ToSet(cfProps) \cap {c.prop : c \in ToSet(cfClauses)} : cfProps' = SelectSeq(cfProps, LAMBDA q : q # p)
  /\ cfNew' = NoNewCard
  /\ UNCHANGED <<cfClauses, cfOp, cfSearch>>

AddFilteredCard ==
  /\ FilterClick
  /\ cfNew' = [title |-> <<>>, values |-> NewValues]
  /\ UNCHANGED <<cfClauses, cfOp, cfProps, cfSearch>>

(***************************************************************************)
(* The search field.                                                        *)
(***************************************************************************)
TypeSearch ==
  /\ FilterClick
  /\ \E t \in CfTexts : t # cfSearch.typed /\ cfSearch' = [cfSearch EXCEPT !.typed = t, !.due = <<t>>]
  /\ cfNew' = NoNewCard
  /\ UNCHANGED <<cfClauses, cfOp, cfProps>>

\* The debounced dispatch.
ApplySearch ==
  /\ cfSearch.due # <<>>
  /\ cfSearch' = [cfSearch EXCEPT !.applied = cfSearch.due[1], !.due = <<>>]
  /\ UNCHANGED <<cfClauses, cfOp, cfProps, cfNew, cfOps>>

ClearedSearch == [typed |-> <<>>, applied |-> <<>>, due |-> <<>>]
\* Another view is opened, which has no filter.
SwitchView ==
  /\ FilterClick
  /\ cfClauses' = <<>> /\ cfNew' = NoNewCard /\ cfSearch' = ClearedSearch
  /\ UNCHANGED <<cfOp, cfProps>>

CfInit ==
  /\ cfClauses = <<>> /\ cfOp = "" /\ cfProps = CfTypes /\ cfOps = CfMaxOps /\ cfNew = NoNewCard
  /\ cfSearch = [typed |-> <<>>, applied |-> <<>>, due |-> <<>>]

\* The dialog makes no "or", but views that have one are shown.
OpenFilter ==
  /\ cfOp = "" /\ cfOp' \in {"and", "or"}
  /\ UNCHANGED <<cfClauses, cfProps, cfSearch, cfNew, cfOps>>

OnClause(i) == PickProperty(i) \/ PickTitle(i) \/ ConditionClicked(i) \/ SetValue(i) \/ DeleteClause(i)

CfNext ==
  \/ OpenFilter \/ AddFilter \/ \E i \in DOMAIN cfClauses : OnClause(i)
  \/ DeleteFilteredProperty \/ AddFilteredCard
  \/ TypeSearch \/ ApplySearch \/ SwitchView

CfSpec == CfInit /\ [][CfNext]_cfVars

----------------------------------------------------------------------------
(***************************************************************************)
(* Properties.                                                              *)
(***************************************************************************)
CfTypeOK ==
  /\ ToSet(cfProps) \subseteq ToSet(CfTypes) /\ cfOp \in {"", "and", "or"}
  /\ \A c \in ToSet(cfClauses) :
       c.prop \in ToSet(CfTypes) \cup {"title", ""} /\ c.picked \in BOOLEAN /\ ToSet(c.values) \subseteq
         UNION {{IdValue(id) : id \in UNION {ToSet(CfIds[p]) : p \in DOMAIN CfIds}},
                {TextValue(t) : t \in CfTexts}, {DateValue(t) : t \in CfDates}}
  /\ CardsShown \subseteq DOMAIN CfCards

\* A clause whose meeting the code undertakes for a new card.  Not for a link
\* to a card, of which the value that it gives has none, nor for a text that
\* was cleared.
Undertaken(c) ==
  /\ c.prop \in ToSet(cfProps) \ {"createdBy", "createdTime"}
  /\ c.cond \in {"includes", "notIncludes", "isEmpty"} \/ (c.cond = "isNotEmpty" /\ c.prop = "select")
  /\ c.cond = "includes" => c.values = <<>> \/ (c.prop # "card" /\ Head(c.values) # TextValue(<<>>))
AllUndertaken ==
  IF cfOp = "or"
  THEN Undertaken(cfClauses[1])
  ELSE /\ \A c \in ToSet(cfClauses) : Undertaken(c)
       /\ \A i, j \in DOMAIN cfClauses : i # j => cfClauses[i].prop # cfClauses[j].prop

\* A card that is added to a filtered view is not filtered away at once: it
\* gets values that meet the filter, if that is made of clauses which the code
\* undertakes to meet, on different properties.
NewCardIsShown == cfNew # NoNewCard /\ cfClauses # <<>> /\ AllUndertaken => IsFilterGroupMet(cfNew)

\* The dialog shows the condition that is applied, whatever properties and
\* conditions were picked before.  It does not for a clause that was just
\* added, nor for the title: there the condition of before stays while the
\* dialog shows another.
ShownConditionApplies ==
  \A c \in ToSet(cfClauses) :
    c.picked /\ IsThere(c.prop) =>
      /\ Displayed(c.prop, c.cond) = c.cond
      /\ c.values # <<>> => c.cond \in Conditions(c.prop)

\* For a time of creation and a day, one of "is", "is before" and "is after"
\* holds, and only one; at the very midnights between two days none does.
DaysApart ==
  \A c \in ToSet(cfClauses) :
    c.prop = "createdTime" /\ c.cond \in {"is", "isBefore", "isAfter"} /\ c.values # <<>> /\ IsThere(c.prop) =>
      \A card \in ToSet(CfCards) :
        LET t == card.values["createdTime"].from
            day == c.values[1].time
            held == {cond \in {"is", "isBefore", "isAfter"} : IsClauseMet([c EXCEPT !.cond = cond], card)}
        IN  Cardinality(held) = (IF t \in {day - HalfDay, day + HalfDay} THEN 0 ELSE 1)

\* When no dispatch is due, the cards are searched for what the field shows,
\* also after another view was opened while one was due.
SearchApplies == cfSearch.due = <<>> => cfSearch.applied = cfSearch.typed
=============================================================================
