----------------------------- MODULE CardDates -----------------------------
(***************************************************************************)
(* The date of a card, as users in different time zones set it and see it:  *)
(* the dialog of the property (properties/date/date.tsx), the calendar      *)
(* (components/calendar/fullCalendar.tsx) and the date of a filter          *)
(* (components/viewHeader/dateFilter.tsx).  A date without a time of day is *)
(* kept as the noon, UTC, of the day, and each browser turns it into its    *)
(* own time to show it.                                                     *)
(*                                                                          *)
(* Times are hours.  A zone changes its offset once, as for daylight        *)
(* saving.  What a user writes reaches everybody at once here.              *)
(***************************************************************************)
EXTENDS Integers, Sequences, FiniteSets

CONSTANTS
  CdUsers,
  CdZone,    \* CdZone[u] = [at, before, after]: hours east of UTC before and from the instant at
  CdDays,    \* days to pick
  CdHours,   \* hours of the day to type
  CdMaxOps   \* bound: clicks

\* Days are counted from one so long ago that no click leads back to it, as 0 is
\* undefined.  Offsets are of at most 14 hours and change by two hours at most.
\* Clocks change at night: no noon is skipped, no day ends early, and the change
\* does not come between a noon and the same noon in UTC.
CdAssumption ==
  /\ CdMaxOps \in Nat /\ CdDays \subseteq Nat /\ CdHours \subseteq 0..23
  /\ \A day \in CdDays : day > 4 * CdMaxOps + 4
  /\ \A u \in CdUsers :
       LET z == CdZone[u]
           skipped == z.after - z.before
           toNoon == (12 - z.at) % 24 IN
       /\ z.at \in Nat /\ z.before \in -12..14 /\ z.after \in -12..14 /\ skipped \in -2..2
       /\ (12 - (z.at + z.before)) % 24 >= skipped
       /\ ((z.at + z.before) % 24) + 2 * skipped <= 24
       /\ z.after <= toNoon /\ toNoon < 24 + z.before
ASSUME CdAssumption

VARIABLES
  cdStored,  \* the property of the card: [from, to, timed], 0 where unset
  cdDialog,  \* cdDialog[u]: the dialog of u, <<>> or <<[value, timed, meant]>>
  cdFilter,  \* the date of a filter clause with the condition "is": [value, day], 0 where unset
  cdMeant,   \* history: the days that the last user who wrote saw: [first, last]
  cdOps      \* clicks left

cdVars == <<cdStored, cdDialog, cdFilter, cdMeant, cdOps>>

----------------------------------------------------------------------------
(***************************************************************************)
(* Clocks.                                                                  *)
(***************************************************************************)
Offset(u, t) == IF t < CdZone[u].at THEN CdZone[u].before ELSE CdZone[u].after
Wall(u, t) == t + Offset(u, t)
DayOf(w) == w \div 24
HourOf(w) == w % 24

\* The instant when the clock of u shows w; of two the first one, and for a
\* time that is skipped by the offset of before.
FromWall(u, w) ==
  LET z == CdZone[u] IN
  IF w - z.before >= z.at /\ w - z.after >= z.at THEN w - z.after ELSE w - z.before
\* setHours
AtHour(u, t, h) == FromWall(u, DayOf(Wall(u, t)) * 24 + h)

\* date - timeZoneOffset(date), and date + timeZoneOffset(date)
ToStoredAsIs(u, t) == t
ToStored(u, t) == t + Offset(u, t)
FromStored(u, s) == s - Offset(u, s)

----------------------------------------------------------------------------
NoDate == [from |-> 0, to |-> 0, timed |-> FALSE]
NoDays == [first |-> 0, last |-> 0]

\* dateFrom and dateTo: instants to show; 0 for undefined.
ToShow(u, value, t) == IF t = 0 THEN 0 ELSE IF value.timed THEN t ELSE FromStored(u, t)
DateFrom(u, value) == ToShow(u, value, value.from)
DateTo(u, value) == ToShow(u, value, value.to)
DayShown(u, t) == IF t = 0 THEN 0 ELSE DayOf(Wall(u, t))
DaysShown(u, value) == [first |-> DayShown(u, DateFrom(u, value)), last |-> DayShown(u, DateTo(u, value))]

\* What saveRangeValue keeps of two instants.
RangeOf(u, from, to, timed) ==
  LET kept(t) == IF t = 0 \/ timed THEN t ELSE ToStored(u, t) IN
  IF from = 0 /\ to = 0 THEN NoDate ELSE [from |-> kept(from), to |-> kept(to), timed |-> timed]

CdClick == cdOps > 0 /\ cdOps' = cdOps - 1
IsOpen(u) == cdDialog[u] # <<>>
ValueIn(u) == cdDialog[u][1].value
IsTimed(u) == cdDialog[u][1].timed
Meant(u) == cdDialog[u][1].meant

\* A dialog whose value becomes empty forgets that it had a time.
Save(u, from, to, timed, meant) ==
  LET value == RangeOf(u, from, to, timed) IN
  /\ CdClick /\ IsOpen(u)
  /\ cdDialog' = [cdDialog EXCEPT ![u] =
       <<[value |-> value, meant |-> meant,
          timed |-> IF value = NoDate /\ ValueIn(u) # NoDate THEN FALSE ELSE timed]>>]
  /\ UNCHANGED <<cdStored, cdFilter, cdMeant>>

\* The patch of the property.  Dialogs that are open take the value over.
Write(value, meant, dialogs) ==
  /\ cdStored' = value /\ cdMeant' = meant
  /\ cdDialog' = [v \in CdUsers |->
       IF dialogs[v] = <<>> \/ value = cdStored \/ dialogs[v][1].value = value THEN dialogs[v]
       ELSE <<[value |-> value, timed |-> value.timed, meant |-> DaysShown(v, value)]>>]
  /\ UNCHANGED cdFilter

----------------------------------------------------------------------------
(***************************************************************************)
(* The dialog.                                                              *)
(***************************************************************************)
OpenDates(u) ==
  /\ CdClick /\ ~IsOpen(u)
  /\ cdDialog' = [cdDialog EXCEPT ![u] =
       <<[value |-> cdStored, timed |-> cdStored.timed, meant |-> DaysShown(u, cdStored)]>>]
  /\ UNCHANGED <<cdStored, cdFilter, cdMeant>>

\* DateUtils.addDayToRange of the day picker
AddDay(day, r) ==
  IF r.first = 0 THEN [r EXCEPT !.first = day]
  ELSE IF r.last = r.first /\ day = r.first THEN NoDays
  ELSE IF r.last # 0 /\ day < r.first THEN [r EXCEPT !.first = day]
  ELSE IF r.last # 0 /\ day = r.last THEN [first |-> day, last |-> day]
  ELSE IF day < r.first THEN [first |-> day, last |-> r.first]
  ELSE [r EXCEPT !.last = day]

\* applyTimeFromSource: the day at noon or at the time of source.
OnDay(u, day, source) ==
  IF day = 0 THEN 0
  ELSE FromWall(u, day * 24 + (IF IsTimed(u) /\ source # 0 THEN HourOf(Wall(u, source)) ELSE 12))

\* handleDayClick
DayClick(u) ==
  \E day \in CdDays :
    LET from == DateFrom(u, ValueIn(u))
        to == DateTo(u, ValueIn(u))
        days == DaysShown(u, ValueIn(u))
        picked == IF to # 0 THEN AddDay(day, days) ELSE [first |-> day, last |-> 0]
        meant == IF to # 0 THEN AddDay(day, Meant(u)) ELSE [first |-> day, last |-> 0]
    IN  IsOpen(u) /\ Save(u, OnDay(u, picked.first, from), OnDay(u, picked.last, to), IsTimed(u), meant)

\* onRangeClick, the switch "End date"
RangeClick(u) ==
  IsOpen(u) /\
  LET from == DateFrom(u, ValueIn(u))
      isRange == DateTo(u, ValueIn(u)) # 0
  IN  Save(u, from, IF isRange THEN 0 ELSE from, IsTimed(u),
           [Meant(u) EXCEPT !.last = IF isRange THEN 0 ELSE Meant(u).first])

ClearDates(u) == IsOpen(u) /\ Save(u, 0, 0, IsTimed(u), NoDays)

\* onIncludeTimeToggle
TimeToggle(u) ==
  IsOpen(u) /\
  LET from == DateFrom(u, ValueIn(u))
      to == DateTo(u, ValueIn(u))
      noon(t) == IF t = 0 THEN 0 ELSE AtHour(u, t, 12)
  IN  IF IsTimed(u) THEN Save(u, noon(from), noon(to), FALSE, Meant(u)) ELSE Save(u, from, to, TRUE, Meant(u))

\* onTimeSave of the start or of the end
TypeTime(u) ==
  IsOpen(u) /\ IsTimed(u) /\
  LET from == DateFrom(u, ValueIn(u))
      to == DateTo(u, ValueIn(u))
  IN  \E h \in CdHours :
        \/ from # 0 /\ Save(u, AtHour(u, from, h), to, TRUE, Meant(u))
        \/ to # 0 /\ Save(u, from, AtHour(u, to, h), TRUE, Meant(u))

\* A date is typed in the field of the start, or of the end if there is one.
TypeDay(u) ==
  IsOpen(u) /\
  LET from == DateFrom(u, ValueIn(u))
      to == DateTo(u, ValueIn(u))
  IN  \E day \in CdDays :
        \/ Save(u, FromWall(u, day * 24 + 12), to, IsTimed(u), [Meant(u) EXCEPT !.first = day])
        \/ to # 0 /\ Save(u, from, FromWall(u, day * 24 + 12), IsTimed(u), [Meant(u) EXCEPT !.last = day])

\* onClose writes the value, changed or not.
CloseDates(u) ==
  /\ IsOpen(u)
  /\ Write(ValueIn(u), Meant(u), [cdDialog EXCEPT ![u] = <<>>])
  /\ UNCHANGED cdOps

----------------------------------------------------------------------------
(***************************************************************************)
(* The calendar.                                                            *)
(***************************************************************************)
\* The first day and the last one of the event.  An end before the start
\* counts as none.
EventDays(u) ==
  LET shown == DaysShown(u, cdStored) IN
  [shown EXCEPT !.last = IF shown.last < shown.first THEN shown.first ELSE shown.last]

\* createDatePropertyFromCalendarDates of midnights, the second one exclusive;
\* no "to" for a single day.
CalendarDates(u, first, last) ==
  LET noon(d) == ToStored(u, FromWall(u, d * 24 + 12))
      to == noon(last + 1) - 24
  IN  [from |-> noon(first), to |-> IF to # noon(first) THEN to ELSE 0, timed |-> FALSE]
Days(first, last) == [first |-> first, last |-> IF last = first THEN 0 ELSE last]

\* eventChange: the event is dragged to another day, or one of its ends is.
EventChange(u) ==
  /\ CdClick /\ ~IsOpen(u) /\ cdStored.from # 0
  /\ cdStored.to # 0 => DaysShown(u, cdStored).last >= DaysShown(u, cdStored).first
  /\ \E first, last \in CdDays :
       /\ \/ last - first = EventDays(u).last - EventDays(u).first
          \/ first <= last /\ (first = EventDays(u).first \/ last = EventDays(u).last)
       /\ Write(CalendarDates(u, first, last), Days(first, last), cdDialog)

\* onNewEvent: the "+" of a day, or a selection of several days, adds the card.
NewEvent(u) ==
  /\ CdClick /\ cdStored = NoDate /\ \A v \in CdUsers : ~IsOpen(v)
  /\ \/ \E day \in CdDays :
          Write([NoDate EXCEPT !.from = ToStored(u, FromWall(u, day * 24 + 12))], Days(day, day), cdDialog)
     \/ \E first, last \in CdDays : first < last /\ Write(CalendarDates(u, first, last), Days(first, last), cdDialog)

----------------------------------------------------------------------------
\* The date of a filter: the picker hands the noon of the day.
FilterValue(u, t) == ToStored(u, t)
PickFilterDay(u) ==
  /\ CdClick
  /\ \E day \in CdDays : cdFilter' = [value |-> FilterValue(u, FromWall(u, day * 24 + 12)), day |-> day]
  /\ UNCHANGED <<cdStored, cdDialog, cdMeant>>
ClearFilterDay ==
  /\ CdClick /\ cdFilter.value # 0
  /\ cdFilter' = [value |-> 0, day |-> 0]
  /\ UNCHANGED <<cdStored, cdDialog, cdMeant>>

\* isClauseMet, for the condition "is"
IsFound ==
  IF cdStored.from # 0 /\ cdStored.to # 0 THEN cdStored.from <= cdFilter.value /\ cdStored.to >= cdFilter.value
  ELSE cdStored.from = cdFilter.value

CdInit ==
  /\ cdStored = NoDate /\ cdDialog = [u \in CdUsers |-> <<>>] /\ cdFilter = [value |-> 0, day |-> 0]
  /\ cdMeant = NoDays /\ cdOps = CdMaxOps

InDates(u) ==
  OpenDates(u) \/ DayClick(u) \/ RangeClick(u) \/ ClearDates(u) \/ TimeToggle(u) \/ TypeTime(u) \/ TypeDay(u) \/ CloseDates(u)
OnCalendar(u) == EventChange(u) \/ NewEvent(u) \/ PickFilterDay(u)
CdNext == (\E u \in CdUsers : InDates(u) \/ OnCalendar(u)) \/ ClearFilterDay
CdSpec == CdInit /\ [][CdNext]_cdVars

----------------------------------------------------------------------------
(***************************************************************************)
(* Properties.                                                              *)
(***************************************************************************)
CdTypeOK ==
  /\ cdStored \in [from : Int, to : Int, timed : BOOLEAN]
  /\ cdMeant \in [first : Nat, last : Nat]
  /\ \A u \in CdUsers : IsOpen(u) =>
       cdDialog[u][1] \in [value : [from : Int, to : Int, timed : BOOLEAN], timed : BOOLEAN, meant : [first : Nat, last : Nat]]
  /\ cdFilter.value \in Int /\ cdOps \in 0..CdMaxOps

\* A date without a time is, for every user, wherever their clock stands and
\* also when it changes, on the days that the user meant who set it.
SameDayForAll == ~cdStored.timed => \A u \in CdUsers : DaysShown(u, cdStored) = cdMeant

\* A filter for a day, set in one zone, finds the cards that users of other
\* zones put on that day, and no others.
FilterFindsDay ==
  ~cdStored.timed /\ cdStored.from # 0 /\ cdFilter.value # 0 =>
    (IsFound <=> IF cdStored.to # 0 THEN cdMeant.first <= cdFilter.day /\ cdFilter.day <= cdMeant.last
                 ELSE cdMeant.first = cdFilter.day)
=============================================================================
