--------------------------- MODULE ConfirmDialog ---------------------------
(***************************************************************************)
(* The dialog that asks before an action, with the date selector some      *)
(* actions show in it, and the request the confirm-action service makes of *)
(* its result.  A typed text is what the two parsers of the code read in   *)
(* it: quick is new Date(text), taken with every key; settled is           *)
(* convertInputStringToDate, taken 1200 ms after the last.                 *)
(* The mask that completes a date after a blank is left out.               *)
(***************************************************************************)
EXTENDS Parts

CONSTANTS Dates, \* that can be picked or typed
          Now,   \* the date the selector starts with
          MaxInputs \* bound of what the user picks, types and opens

Undefined == "undefined"

ASSUME ConfirmDialogAssumption ==
  /\ Now \in Dates /\ Absent \notin Dates /\ MaxInputs \in Nat
  /\ Undefined \notin Dates \union {Absent}

VARIABLES
  form,         \* which action asks
  radio,        \* modalData.selectedRadioOption
  content,      \* dynamicContentState: "closed", "open" or "closing"
  dateText,     \* what the input of the date selector shows, Absent without it
  boundDate,    \* dateFromText, the value last bound to that input
  settling,     \* whether a typed text waits for the debounce
  selectedDate, \* modalData.selectedDate: Absent is an Invalid Date
  validDate,    \* modalData.validDate
  unbound,      \* whether a date was picked that the input does not show
  numberInput,  \* modalData.numberInput: "ok", "wrong" or "empty"
  errorMessage, \* whether the dialog shows one
  reason,       \* whether a reason is typed
  result        \* what was sent, Absent before

dialogVars == <<form, radio, content, dateText, boundDate, settling, selectedDate, validDate,
                unbound, numberInput, errorMessage, reason, result>>

\* The options of each form, the default first
Options == [jobDefinition |-> <<"executeImmediately", "delayExecution">>,
            retry         |-> <<"keepDueDate", "setDueDate">>,
            dueDate       |-> <<"creationDate", "currentDate", "specificDate">>,
            priority      |-> <<"setJobPriority", "clearJobPriority">>,
            firstPriority |-> <<>>, \* of a definition that has none yet
            terminate     |-> <<>>]
Forms == DOMAIN Options
DateForms == {"jobDefinition", "retry", "dueDate"}
NumberForms == {"retry", "priority", "firstPriority"}
ControlsDynamicContent == {"delayExecution", "setDueDate", "specificDate", "setJobPriority"}

TextOf(d) == [quick |-> d, settled |-> d] \* getDateString, which both parsers read back
Texts == [quick : Dates \union {Absent}, settled : Dates \union {Absent}]
Open == result = Absent
SelectorShown == form \in DateForms /\ content # "closed"

\* The date selector is created and sends the date it is given
CreateSelector ==
  /\ dateText' = TextOf(Now) /\ boundDate' = Now /\ settling' = FALSE
  /\ selectedDate' = Now /\ unbound' = FALSE
\* Mutant: it starts without sending the date
CreateSilently ==
  /\ dateText' = TextOf(Now) /\ boundDate' = Now /\ settling' = FALSE
  /\ unbound' = FALSE /\ UNCHANGED selectedDate
SelectorInit == CreateSelector
NoSelector == UNCHANGED <<dateText, boundDate, settling, selectedDate, unbound>>
-----------------------------------------------------------------------------
DialogInit ==
  /\ form \in Forms
  /\ radio = IF Options[form] = <<>> THEN "" ELSE Head(Options[form])
  /\ content = IF radio \in ControlsDynamicContent THEN "open" ELSE "closed"
  /\ dateText = Absent /\ boundDate = Absent /\ settling = FALSE
  /\ selectedDate = Undefined /\ validDate = TRUE /\ unbound = FALSE
  /\ numberInput = "ok" /\ errorMessage = FALSE /\ reason = FALSE /\ result = Absent

\* ngModel has taken the option when onRadioChange hears of it
OnRadioChange(option) ==
  /\ Event(MaxInputs) /\ Open /\ option \in ToSet(Options[form]) /\ option # radio
  /\ radio' = option
  /\ content' = IF option \in ControlsDynamicContent THEN "open"
                ELSE IF content = "open" THEN "closing" ELSE content
  /\ IF content = "closed" /\ content' = "open" /\ form \in DateForms THEN SelectorInit ELSE NoSelector
  /\ UNCHANGED <<form, validDate, numberInput, errorMessage, reason, result>>

\* onAnimationEnd: the content is gone, and the selector with what it waited for
AnimationEnds ==
  /\ Open /\ content = "closing"
  /\ content' = "closed"
  /\ dateText' = Absent /\ boundDate' = Absent /\ settling' = FALSE /\ unbound' = FALSE
  /\ UNCHANGED <<form, radio, selectedDate, validDate, numberInput, errorMessage, reason, result,
                 events>>

\* A key in the date input: onDateInput of the dialog reads it at once, the
\* selector when the debounce is over
TypeDate(text) ==
  /\ Event(MaxInputs) /\ Open /\ SelectorShown
  /\ dateText' = text /\ settling' = TRUE
  /\ selectedDate' = text.quick /\ validDate' = (text.quick # Absent) /\ unbound' = FALSE
  /\ UNCHANGED <<form, radio, content, boundDate, numberInput, errorMessage, reason, result>>

\* onSingleDateInputChanged: what the input holds by now, if it is a date
DebounceOver ==
  /\ Open /\ settling
  /\ settling' = FALSE
  /\ IF dateText.settled # Absent
     THEN selectedDate' = dateText.settled /\ unbound' = FALSE
     ELSE UNCHANGED <<selectedDate, unbound>>
  /\ UNCHANGED <<form, radio, content, dateText, boundDate, validDate, numberInput, errorMessage,
                 reason, result, events>>

\* A day or a time is picked: updateSingleDate.  The binding writes the
\* input only when the text it is bound to is another one
PickDate(d) ==
  /\ Event(MaxInputs) /\ Open /\ SelectorShown
  /\ boundDate' = d
  /\ dateText' = IF d # boundDate THEN TextOf(d) ELSE dateText
  /\ selectedDate' = d
  /\ unbound' = (dateText' # TextOf(d))
  /\ UNCHANGED <<form, radio, content, settling, validDate, numberInput, errorMessage, reason,
                 result>>

\* validateInput compares: an empty number is null, below 1 but within the
\* bounds of a priority
NumberWrong(n) == n = "wrong" \/ (n = "empty" /\ form = "retry")
TypeNumber(n) ==
  /\ Event(MaxInputs) /\ Open /\ form \in NumberForms /\ n # numberInput
  /\ form = "priority" => content # "closed"
  /\ numberInput' = n /\ errorMessage' = NumberWrong(n)
  /\ UNCHANGED <<form, radio, content, dateText, boundDate, settling, selectedDate, validDate,
                 unbound, reason, result>>

TypeReason ==
  /\ Event(MaxInputs) /\ Open /\ form = "terminate"
  /\ reason' = ~reason
  /\ UNCHANGED <<form, radio, content, dateText, boundDate, settling, selectedDate, validDate,
                 unbound, numberInput, errorMessage, result>>
-----------------------------------------------------------------------------
\* The request each action makes of the dialog's result
Request ==
  CASE form = "jobDefinition" ->
         IF radio = "delayExecution" THEN [what |-> "at", date |-> selectedDate]
         ELSE [what |-> "immediately", date |-> Undefined]
    [] form = "retry" ->
         IF radio = "setDueDate" THEN [what |-> "setDue", date |-> selectedDate]
         ELSE [what |-> "keepDue", date |-> Undefined]
    [] form = "dueDate" ->
         IF radio = "specificDate" /\ selectedDate # Undefined
         THEN [what |-> "setDue", date |-> selectedDate]
         ELSE [what |-> IF radio = "creationDate" THEN "fromCreation" ELSE "fromNow",
               date |-> Undefined]
    [] form \in {"priority", "firstPriority"} ->
         [what |-> IF radio = "clearJobPriority" THEN "clear"
                   ELSE IF numberInput = "empty" THEN "zero" ELSE "number",
          date |-> Undefined]
    [] form = "terminate" -> [what |-> "terminate", date |-> Undefined]

ButtonEnabled == ~(form = "terminate" /\ ~reason) /\ ~errorMessage /\ validDate

\* confirm, by the button or by Enter, which asks nothing
Send(by) ==
  /\ Open
  /\ result' = [by |-> by, request |-> Request]
  /\ UNCHANGED <<form, radio, content, dateText, boundDate, settling, selectedDate, validDate,
                 unbound, numberInput, errorMessage, reason, events>>
ClickConfirm == ButtonEnabled /\ Send("button")
PressEnter == Send("enter")

\* dismiss leaves nothing; the next dialog starts anew
NextDialog ==
  /\ Event(MaxInputs)
  /\ form' \in Forms
  /\ radio' = IF Options[form'] = <<>> THEN "" ELSE Head(Options[form'])
  /\ content' = IF radio' \in ControlsDynamicContent THEN "open" ELSE "closed"
  /\ dateText' = Absent /\ boundDate' = Absent /\ settling' = FALSE
  /\ selectedDate' = Undefined /\ validDate' = TRUE /\ unbound' = FALSE
  /\ numberInput' = "ok" /\ errorMessage' = FALSE /\ reason' = FALSE /\ result' = Absent

DialogNext ==
  \/ \E option \in UNION {ToSet(Options[f]) : f \in Forms} : OnRadioChange(option)
  \/ AnimationEnds \/ DebounceOver
  \/ \E text \in Texts : TypeDate(text)
  \/ \E d \in Dates : PickDate(d)
  \/ \E n \in {"ok", "wrong", "empty"} : TypeNumber(n)
  \/ TypeReason \/ ClickConfirm \/ PressEnter \/ NextDialog
-----------------------------------------------------------------------------
\* What is sent is what the dialog shows: with an option that takes a date,
\* that date, read from the shown text by one of the two parsers, unless a
\* date was picked a second time over a typed text; without one, none.  The
\* button sends no Invalid Date, no number out of its range and no bulk
\* termination without a reason; Enter may.
\* Why: two listeners and a debounce write the date, a closed selector keeps
\* it, and a selector that is shown again starts from its own.
ConfirmsWhatIsShown ==
  result # Absent =>
    LET date == result.request.date IN
    /\ radio \in ControlsDynamicContent /\ form \in DateForms =>
         /\ result.request.what \in {"at", "setDue"}
         /\ unbound \/ date \in {dateText.quick, dateText.settled}
    /\ radio \notin ControlsDynamicContent \/ form \notin DateForms => date = Undefined
    /\ result.by = "button" =>
         /\ date # Absent
         /\ form = "terminate" => reason
         /\ form = "retry" => numberInput = "ok"
         /\ result.request.what = "number" => numberInput = "ok"
=============================================================================
