----------------------------- MODULE DateRange -----------------------------
(***************************************************************************)
(* The date selector of the column filters: a popover with a calendar, a   *)
(* time, two text inputs and a switch between one date and a range.  Of    *)
(* the time of a day what matters is whether it is its first second, its   *)
(* last, some other, or the last minute without its seconds.               *)
(* The input outside the popover and its mask are left out.                *)
(***************************************************************************)
EXTENDS Parts

CONSTANTS Days,     \* the calendar, as many
          MaxInputs \* bound of what the user does

ASSUME DateRangeAssumption == Days \in Nat \ {0} /\ MaxInputs \in Nat

FirstSecond == 0
Noon == 1
LastMinute == 2
LastSecond == 3
At(day, time) == 4 * day + time
DayOf(date) == date \div 4
TimeOf(date) == date % 4
Dates == {At(d, t) : d \in 1 .. Days, t \in FirstSecond .. LastSecond}
\* A text is the date it reads as, or one of these
EmptyText == 0
Junk == 1 \* that no parser reads
Fields == {"from", "to"}
Texts == Dates \union {EmptyText, Junk}

\* null, undefined are no date, no input and no range
ASSUME NoDateAssumption ==
  Absent \notin Nat \union Fields \union [from : Dates, to : Dates \union {Absent}]

VARIABLES
  filterTypeRange, \* whether a range is selected
  dateFrom, dateTo,
  text,            \* dateFromText and dateToText
  typed,           \* what the two inputs show
  waiting,         \* the input whose event waits for the debounce, Absent
  passed,          \* whether one went through distinctUntilChanged
  isInvalidDateRange,
  sent,            \* the last dateRangeChanged, Absent for none or null
  lost             \* whether the text of an input was never read

rangeVars == <<filterTypeRange, dateFrom, dateTo, text, typed, waiting, passed,
               isInvalidDateRange, sent, lost>>

\* convertInputStringToDate, getDateString
DateOf(string) == IF string \in {EmptyText, Junk} THEN Absent ELSE string
TextOf(date) == IF date = Absent THEN EmptyText ELSE date
Ordered(from, to) == from # Absent /\ to # Absent /\ from <= to

\* Angular writes an input when the text bound to it is another
Bind(from, to) ==
  LET bound == [text EXCEPT !["from"] = from, !["to"] = to] IN
  /\ text' = bound
  /\ typed' = [f \in Fields |-> IF bound[f] # text[f] THEN bound[f] ELSE typed[f]]

Chosen(from, to) == [from |-> from, to |-> to]
\* checkRangeValidityAndEmit
CheckRangeValidityAndEmit(from, to) ==
  /\ dateFrom' = from /\ dateTo' = to
  /\ isInvalidDateRange' = ~Ordered(from, to)
  /\ Bind(TextOf(from), TextOf(to))
  /\ sent' = IF Ordered(from, to) THEN Chosen(from, to) ELSE sent

\* updateSingleDate
UpdateSingleDate(date) ==
  /\ dateFrom' = date /\ dateTo' = Absent /\ isInvalidDateRange' = FALSE
  /\ Bind(TextOf(date), text["to"])
  /\ sent' = Chosen(date, Absent)

\* updateDateRangeFromDateFromTextAndDateToText
UpdateDateRange(from, to) ==
  /\ Bind(from, to)
  /\ dateFrom' = DateOf(from) /\ dateTo' = DateOf(to)
  /\ isInvalidDateRange' = (~Ordered(dateFrom', dateTo') /\ {from, to} # {EmptyText})
  /\ sent' = IF Ordered(dateFrom', dateTo') THEN Chosen(dateFrom', dateTo')
             ELSE IF {from, to} = {EmptyText} THEN Absent ELSE sent

\* onSingleDateInputChanged
SingleDateInputChanged(string) ==
  /\ Bind(string, text["to"])
  /\ dateFrom' = DateOf(string) /\ UNCHANGED dateTo
  /\ isInvalidDateRange' = (string = Junk)
  /\ sent' = IF string = Junk THEN sent
             ELSE IF string = EmptyText THEN Absent ELSE Chosen(DateOf(string), Absent)
-----------------------------------------------------------------------------
RangeInit ==
  /\ filterTypeRange \in BOOLEAN /\ dateFrom = Absent /\ dateTo = Absent
  /\ text = [f \in Fields |-> EmptyText] /\ typed = text
  /\ waiting = Absent /\ passed = FALSE /\ isInvalidDateRange = FALSE
  /\ sent = Absent /\ lost = FALSE

\* popoverInputsChanged: the debounce of the two inputs is one, and keeps the last event
TypeDate(field, string) ==
  /\ Event(MaxInputs) /\ (field = "from" \/ filterTypeRange)
  /\ typed' = [typed EXCEPT ![field] = string]
  /\ waiting' = field
  /\ lost' = (lost \/ (waiting \notin {field, Absent} /\ typed[waiting] # text[waiting]))
  /\ UNCHANGED <<filterTypeRange, dateFrom, dateTo, text, passed, isInvalidDateRange, sent>>

DebounceOver ==
  LET string == typed[waiting] IN
  /\ waiting # Absent /\ waiting' = Absent
  /\ IF passed /\ string = text[waiting]
     THEN UNCHANGED <<dateFrom, dateTo, text, typed, passed, isInvalidDateRange, sent>>
     ELSE /\ passed' = TRUE
          /\ IF ~filterTypeRange THEN SingleDateInputChanged(string)
             ELSE IF waiting = "from" THEN UpdateDateRange(string, text["to"])
             ELSE UpdateDateRange(text["from"], string)
  /\ UNCHANGED <<filterTypeRange, lost, events>>

\* Mutant: the earlier date is taken for the end
PickUnordered(date) ==
  IF dateFrom = Absent \/ dateTo # Absent THEN CheckRangeValidityAndEmit(date, Absent)
  ELSE CheckRangeValidityAndEmit(dateFrom, At(DayOf(date), LastSecond))
\* updateFromDateAndToDate: the first date picked, the second, or a first again
PickInRange(date) ==
  LET day == DayOf(date) IN
  IF dateFrom = Absent \/ dateTo # Absent THEN CheckRangeValidityAndEmit(date, Absent)
  ELSE IF date >= dateFrom THEN CheckRangeValidityAndEmit(dateFrom, At(day, LastSecond))
  ELSE CheckRangeValidityAndEmit(At(day, FirstSecond),
         IF TimeOf(dateFrom) = FirstSecond THEN At(DayOf(dateFrom), LastSecond) ELSE dateFrom)

\* onDateSelection: the day picked, at the hour and minute of the first date
PickDay(day) ==
  LET time == IF dateFrom = Absent THEN FirstSecond
              ELSE IF TimeOf(dateFrom) = LastSecond THEN LastMinute ELSE TimeOf(dateFrom) IN
  /\ Event(MaxInputs)
  /\ IF filterTypeRange THEN PickInRange(At(day, time)) ELSE UpdateSingleDate(At(day, time))
  /\ UNCHANGED <<filterTypeRange, waiting, passed, lost>>

\* onTimeChange: of the first date or the second, if there is one
ChangeTime(field, time) ==
  LET from == IF field = "from" THEN At(DayOf(dateFrom), time) ELSE dateFrom
      to == IF field = "to" THEN At(DayOf(dateTo), time) ELSE dateTo
  IN
  /\ Event(MaxInputs)
  /\ IF field = "from" THEN dateFrom # Absent ELSE filterTypeRange /\ dateTo # Absent
  /\ IF ~filterTypeRange THEN UpdateSingleDate(from)
     ELSE IF from # Absent /\ to # Absent /\ from > to THEN CheckRangeValidityAndEmit(to, from)
     ELSE CheckRangeValidityAndEmit(from, to)
  /\ UNCHANGED <<filterTypeRange, waiting, passed, lost>>

\* handleFilterTypeToggle
SelectSingleDate ==
  /\ Event(MaxInputs) /\ filterTypeRange /\ filterTypeRange' = FALSE
  /\ IF dateFrom = Absent
     THEN dateTo' = Absent /\ UNCHANGED <<dateFrom, text, typed, isInvalidDateRange, sent>>
     ELSE UpdateSingleDate(dateFrom)
  /\ UNCHANGED <<waiting, passed, lost>>

\* A new second input shows the text bound to it; the switch is not turned twice in a debounce
SelectRange ==
  /\ Event(MaxInputs) /\ ~filterTypeRange /\ waiting # "to" /\ filterTypeRange' = TRUE
  /\ dateTo' = Absent
  /\ LET from == IF dateFrom = Absent THEN text["from"] ELSE TextOf(dateFrom)
         to == IF dateFrom = Absent THEN text["to"] ELSE EmptyText
     IN /\ text' = [f \in Fields |-> IF f = "from" THEN from ELSE to]
        /\ typed' = [f \in Fields |-> IF f = "to" THEN to
                                     ELSE IF from # text["from"] THEN from ELSE typed["from"]]
  /\ UNCHANGED <<dateFrom, isInvalidDateRange, sent, waiting, passed, lost>>

RangeNext ==
  \/ \E field \in Fields : \/ \E string \in Texts : TypeDate(field, string)
                           \/ \E time \in FirstSecond .. LastMinute : ChangeTime(field, time)
  \/ DebounceOver \/ SelectSingleDate \/ SelectRange
  \/ \E day \in 1 .. Days : PickDay(day)
-----------------------------------------------------------------------------
\* What was sent is a date or an ordered range, and at rest it is the one the
\* inputs show, or the selector is marked invalid.  As long as no text was
\* read the two dates are in order whichever is picked or changed first
\* (dateRangeChanged, updateFromDateAndToDate, onTimeChange).
RangeSentIsShown ==
  /\ sent # Absent /\ sent.to # Absent => sent.from <= sent.to
  /\ ~passed /\ dateFrom # Absent /\ dateTo # Absent => dateFrom <= dateTo
  /\ waiting = Absent /\ ~lost /\ ~isInvalidDateRange =>
       IF sent = Absent THEN typed["from"] = EmptyText
       ELSE /\ TextOf(sent.from) = typed["from"]
            /\ IF filterTypeRange THEN TextOf(sent.to) = typed["to"] ELSE sent.to = Absent
=============================================================================
