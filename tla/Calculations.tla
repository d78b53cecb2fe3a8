---------------------------- MODULE Calculations ----------------------------
(***************************************************************************)
(* Calculations: webapp/src/components/calculations, with the row below a   *)
(* table (components/table/calculation) and the headers of the columns of a *)
(* board (components/kanban).                                               *)
(*                                                                          *)
(* A calculation makes one text of the values of a property in some cards.  *)
(* The view keeps which one is shown for which property, and keeps it when  *)
(* the property gets another type or is deleted.  Numbers are in hundredths.*)
(***************************************************************************)
EXTENDS Integers, Sequences, SequencesExt, FiniteSets, FiniteSetsExt, TLC

CONSTANTS
  ClProps,     \* the properties of the board, by number
  ClValues,    \* the values that users give to a property, by its type
  ClFirst,     \* the cards of the column at first
  ClMaxCards,  \* bound: cards of the column
  ClMaxOps     \* bound: operations

ASSUME ClAssumption ==
  /\ ClProps \subseteq Nat \ {0} /\ IsFiniteSet(ClProps) /\ ClMaxCards \in Nat /\ ClMaxOps \in Nat

VARIABLES
  clTypes,    \* the type of each property there is
  clCards,    \* the cards shown, each with its values
  clColumns,  \* columnCalculations of the view
  clKanban,   \* the calculation in the header of the column
  clOps

clVars == <<clTypes, clCards, clColumns, clKanban, clOps>>

----------------------------------------------------------------------------
(***************************************************************************)
(* Values.  A value is unset, a number, a text that is none, a list of      *)
(* options, a range of dates, or the time when the card was made.  num tells *)
(* apart what texts are equal.  Lists keep their texts in the model only for *)
(* the cards that the view shows: it has no others.                          *)
(***************************************************************************)
Title == 0
Created == -1
Unset == [kind |-> "unset", num |-> 0, ids |-> <<>>]
Number(n) == [Unset EXCEPT !.kind = "number", !.num = n]
Word(n) == [Unset EXCEPT !.kind = "word", !.num = n]
List(ids) == [Unset EXCEPT !.kind = "list", !.ids = ids]
Dates(from, to) == [Unset EXCEPT !.kind = "dates", !.num = 100 * from + to, !.ids = <<from, to>>]
Instant(t) == [Unset EXCEPT !.kind = "instant", !.num = t, !.ids = <<t>>]

TypeOfColumn(p) == IF p = Title THEN "" ELSE clTypes[p]

\* Only what is undefined or '' counts as empty, not an empty list.
ClValueIn(card, p) == IF TypeOfColumn(p) = "createdTime" THEN card[Created] ELSE card[p]
WithValue(cards, p) ==
  SelectSeq([n \in DOMAIN cards |-> ClValueIn(cards[n], p)], LAMBDA v : v.kind # "unset")
\* What parseFloat makes a number of.
Numbers(cards, p) ==
  LET with == SelectSeq(WithValue(cards, p), LAMBDA v : v.kind \in {"number", "instant"}) IN [i \in DOMAIN with |-> with[i].num]
Timestamps(cards, p) ==
  LET with == SelectSeq(WithValue(cards, p), LAMBDA v : v.kind \in {"dates", "instant"}) IN
  SelectSeq(FlattenSeq([i \in DOMAIN with |-> with[i].ids]), LAMBDA t : t # 0)

----------------------------------------------------------------------------
(***************************************************************************)
(* The calculations.  The result is the numbers that the text shows.        *)
(***************************************************************************)
NothingShown == <<>>
ShowsNaN == -1000000   \* "NaN%"

\* Math.round of a / n, also of toFixed(0) and roundTo
Rounded(a, n) == (2 * a + n) \div (2 * n)
SumOf(numbers) == FoldSeq(LAMBDA a, b : a + b, 0, numbers)

CountValue(cards, p) ==
  IF TypeOfColumn(p) = "multiSelect"
  THEN LET with == WithValue(cards, p) IN SumOf([i \in DOMAIN with |-> Len(with[i].ids)])
  ELSE Len(WithValue(cards, p))
CountUnique(cards, p) ==
  LET with == ToSet(WithValue(cards, p)) IN
  IF TypeOfColumn(p) = "multiSelect" THEN Cardinality(UNION {ToSet(v.ids) : v \in with})
  ELSE Cardinality(with)

PercentOfCards(k, n) == IF n = 0 THEN NothingShown ELSE <<Rounded(100 * k, n)>>
PercentOfBoxes(k, n) == <<IF n = 0 THEN ShowsNaN ELSE Rounded(100 * k, n)>>

AverageOf(numbers) == IF numbers = <<>> THEN 0 ELSE Rounded(SumOf(numbers), Len(numbers))
MedianUnsorted(numbers) ==
  LET n == Len(numbers) IN
  CASE n = 0 -> 0
    [] n > 0 /\ n % 2 = 0 -> Rounded(numbers[n \div 2 + 1] + numbers[n \div 2], 2)
    [] OTHER -> numbers[n \div 2 + 1]
MedianOf(numbers) ==
  LET n == Len(numbers)
      sorted == SortSeq(numbers, <)
  IN
  CASE n = 0 -> 0
    [] n > 0 /\ n % 2 = 0 -> Rounded(sorted[n \div 2 + 1] + sorted[n \div 2], 2)
    [] OTHER -> sorted[n \div 2 + 1]
MinOf(numbers) == IF numbers = <<>> THEN 0 ELSE Min(ToSet(numbers))
MaxOf(numbers) == IF numbers = <<>> THEN 0 ELSE Max(ToSet(numbers))

\* The calculations on cards and values, on numbers, and on dates.
Counted(calculation, cards, p) ==
  LET n == Len(cards)
      with == Len(WithValue(cards, p))
      values == CountValue(cards, p)
  IN
  CASE calculation = "count" -> <<n>>
    [] calculation = "countEmpty" -> <<n - with>>
    [] calculation = "countNotEmpty" -> <<with>>
    [] calculation = "percentEmpty" -> PercentOfCards(n - with, n)
    [] calculation = "percentNotEmpty" -> PercentOfCards(with, n)
    [] calculation \in {"countValue", "countChecked"} -> <<values>>
    [] calculation = "countUnchecked" -> <<n - values>>
    [] calculation = "percentChecked" -> PercentOfBoxes(values, n)
    [] calculation = "percentUnchecked" -> PercentOfBoxes(n - values, n)
    [] calculation = "countUniqueValue" -> <<CountUnique(cards, p)>>
Computed(calculation, numbers) ==
  CASE calculation = "sum" -> <<SumOf(numbers)>>
    [] calculation = "average" -> <<AverageOf(numbers)>>
    [] calculation = "median" -> <<MedianOf(numbers)>>
    [] calculation = "min" -> <<MinOf(numbers)>>
    [] calculation = "max" -> <<MaxOf(numbers)>>
    [] calculation = "range" -> <<MinOf(numbers), MaxOf(numbers)>>
Dated(calculation, times) ==
  CASE times = {} -> NothingShown
    [] times # {} /\ calculation = "earliest" -> <<Min(times)>>
    [] times # {} /\ calculation = "latest" -> <<Max(times)>>
    [] times # {} /\ calculation = "dateRange" -> <<Max(times) - Min(times)>>

Result(calculation, cards, p) ==
  CASE calculation = "none" -> NothingShown
    [] calculation \in {"sum", "average", "median", "min", "max", "range"} -> Computed(calculation, Numbers(cards, p))
    [] calculation \in {"earliest", "latest", "dateRange"} -> Dated(calculation, ToSet(Timestamps(cards, p)))
    [] OTHER -> Counted(calculation, cards, p)

----------------------------------------------------------------------------
(***************************************************************************)
(* Which calculations the menus offer.                                      *)
(***************************************************************************)
Common == {"none", "count", "countEmpty", "countNotEmpty", "percentEmpty", "percentNotEmpty", "countValue", "countUniqueValue"}
OfDates == {"earliest", "latest", "dateRange"}
OptionsByType ==
  "common" :> Common @@ "checkbox" :> {"countChecked", "countUnchecked", "percentChecked", "percentUnchecked"}
    @@ "number" :> {"sum", "average", "median", "min", "max", "range"}
    @@ "date" :> OfDates @@ "createdTime" :> OfDates @@ "updatedTime" :> OfDates
OptionsFor(type) == IF type \in DOMAIN OptionsByType THEN OptionsByType[type] ELSE {}

\* TableCalculationOptions
TableOffers(p) == Common \cup OptionsFor(TypeOfColumn(p))

\* typesByOptions
TypesByOption(calculation) == {t \in DOMAIN OptionsByType : calculation \in OptionsByType[t]}

\* KanbanCalculationOptions, and the properties in the submenu of each: a type
\* brings its options unless an equivalent one brought its own before.
Equivalent(type) == IF type \in {"createdTime", "updatedTime"} THEN "date" ELSE type
KanbanOptions ==
  LET first == {p \in DOMAIN clTypes : \A q \in DOMAIN clTypes : q < p => Equivalent(clTypes[q]) # Equivalent(clTypes[p])} IN
  (Common \ {"none"}) \cup UNION {OptionsFor(clTypes[p]) : p \in first}
KanbanOffers ==
  {<<"count", Title>>} \cup
  {offer \in (KanbanOptions \ {"count"}) \X DOMAIN clTypes :
     TypesByOption(offer[1]) \cap {clTypes[offer[2]], "common"} # {}}

----------------------------------------------------------------------------
(***************************************************************************)
(* Operations.                                                              *)
(***************************************************************************)
ClClick == clOps > 0 /\ clOps' = clOps - 1

\* The row of a table: visible properties that there are, and the title.
RowShown(p) == IF p \in DOMAIN clColumns THEN clColumns[p] ELSE IF p = Title THEN "count" ELSE "none"
PickColumn ==
  /\ ClClick
  /\ \E p \in DOMAIN clTypes \cup {Title} : \E c \in TableOffers(p) : clColumns' = (p :> c) @@ clColumns
  /\ UNCHANGED <<clTypes, clCards, clKanban>>

\* The header of a column: a property that was deleted gives way to the title.
HeaderShown == [clKanban EXCEPT !.prop = IF @ \in DOMAIN clTypes THEN @ ELSE Title]
PickHeader ==
  /\ ClClick
  /\ \E offer \in KanbanOffers :
       /\ [calculation |-> offer[1], prop |-> offer[2]] # HeaderShown
       /\ clKanban' = [calculation |-> offer[1], prop |-> offer[2]]
  /\ UNCHANGED <<clTypes, clCards, clColumns>>

NewCard == [p \in ClProps \cup {Title} |-> Unset] @@ Created :> Instant(1)
AddTo ==
  /\ ClClick /\ Len(clCards) < ClMaxCards /\ clCards' = Append(clCards, NewCard)
  /\ UNCHANGED <<clTypes, clColumns, clKanban>>

\* changePropertyValue; a list whose options are taken away stays as an empty one.
EditValue ==
  /\ ClClick
  /\ \E n \in DOMAIN clCards, p \in DOMAIN clTypes : \E value \in ClValues[clTypes[p]] :
       clTypes[p] # "createdTime" /\ value # clCards[n][p] /\ clCards' = [clCards EXCEPT ![n][p] = value]
  /\ UNCHANGED <<clTypes, clColumns, clKanban>>

\* changePropertyTypeAndName: options are made of values and values of options
\* only for the types that have some, other values stay as they are.
ConvertedValue(value, type, new) ==
  CASE type = "multiSelect" /\ value.ids # <<>> -> Unset
    [] new = "multiSelect" /\ type # "multiSelect" /\ value.kind # "unset" -> List(<<value.num>>)
    [] OTHER -> value
ChangeType ==
  /\ ClClick
  /\ \E p \in DOMAIN clTypes, new \in DOMAIN ClValues :
       /\ new # clTypes[p] /\ clTypes' = [clTypes EXCEPT ![p] = new]
       /\ clCards' = [n \in DOMAIN clCards |-> [clCards[n] EXCEPT ![p] = ConvertedValue(@, clTypes[p], new)]]
  /\ UNCHANGED <<clColumns, clKanban>>

\* deleteProperty takes the values away, the views keep the calculations.
DropProperty ==
  /\ ClClick
  /\ \E p \in DOMAIN clTypes :
       /\ clTypes' = [q \in DOMAIN clTypes \ {p} |-> clTypes[q]]
       /\ clCards' = [n \in DOMAIN clCards |-> [clCards[n] EXCEPT ![p] = Unset]]
  /\ UNCHANGED <<clColumns, clKanban>>

ClInit ==
  /\ clTypes = [p \in ClProps |-> "number"] /\ clCards = <<>>
  /\ clColumns = <<>> /\ clKanban = [calculation |-> "count", prop |-> Title] /\ clOps = ClMaxOps
\* The cards are loaded.
LoadCards == clCards = <<>> /\ clCards' = ClFirst /\ UNCHANGED <<clTypes, clColumns, clKanban, clOps>>
InColumns == PickColumn \/ PickHeader \/ AddTo \/ EditValue \/ ChangeType \/ DropProperty
ClNext == LoadCards \/ (clCards # <<>> /\ InColumns)
ClSpec == ClInit /\ [][ClNext]_clVars

----------------------------------------------------------------------------
(***************************************************************************)
(* Properties.                                                              *)
(***************************************************************************)
AllColumns == DOMAIN clTypes \cup {Title}
ClShown(calculation, p) == Result(calculation, clCards, p)

ClTypeOK ==
  /\ DOMAIN clTypes \subseteq ClProps /\ Len(clCards) <= ClMaxCards /\ clOps \in 0..ClMaxOps
  /\ \A p \in DOMAIN clColumns : p \in ClProps \cup {Title} /\ clColumns[p] \in UNION {OptionsByType[t] : t \in DOMAIN OptionsByType}
  /\ \A p \in AllColumns : \A i \in DOMAIN ClShown(RowShown(p), p) : ClShown(RowShown(p), p)[i] \in Int
  /\ HeaderShown.prop \in AllColumns

\* The calculations on numbers go together, whatever values the property had
\* before it became one of numbers: no more than half of them are less than the
\* median or greater, the average lies between the least and the greatest, and
\* the sum is as many times the average, up to half a hundredth for each.
NumbersAgree ==
  clCards # <<>> => \A p \in AllColumns :
    LET numbers == Numbers(clCards, p)
        n == Len(numbers)
        median == ClShown("median", p)[1]
        least == ClShown("min", p)[1]  greatest == ClShown("max", p)[1]
        average == ClShown("average", p)[1]  total == ClShown("sum", p)[1]
    IN
    /\ 2 * Len(SelectSeq(numbers, LAMBDA v : v < median)) <= n /\ 2 * Len(SelectSeq(numbers, LAMBDA v : v > median)) <= n
    /\ average \in least..greatest
    /\ 2 * (average * n - total) \in (-n)..n
    /\ ClShown("range", p) = <<least, greatest>>

\* The counts go together, for lists and for other values: what is empty and
\* what is not make up the cards, checked and unchecked boxes do, and there
\* are no more different values than values.
CountsAgree ==
  clCards # <<>> => \A p \in AllColumns :
    /\ ClShown("countEmpty", p)[1] + ClShown("countNotEmpty", p)[1] = ClShown("count", p)[1]
    /\ ClShown("percentEmpty", p)[1] + ClShown("percentNotEmpty", p)[1] \in {100, 101}
    /\ TypeOfColumn(p) = "checkbox" => ClShown("countUnchecked", p)[1] \in 0..Len(clCards)
    /\ ClShown("countUniqueValue", p)[1] <= ClShown("countValue", p)[1]
    /\ ClShown("countUniqueValue", p)[1] = 0 <=> ClShown("countValue", p)[1] = 0

\* The menu of a column header, which is made for all properties together and
\* turns the table of options around, offers for each property what the row
\* below a table offers for it.  Cards are counted without a property.
MenusAgree ==
  clCards # <<>> => \A p \in DOMAIN clTypes : TableOffers(p) \ {"none", "count"} = {c \in KanbanOptions : <<c, p>> \in KanbanOffers}
=============================================================================
