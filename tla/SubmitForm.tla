----------------------------- MODULE SubmitForm -----------------------------
(***************************************************************************)
(* The dialogs that start a process instance and that evaluate a decision, *)
(* with the JSON typed in an editor that checks it on its own time.  A     *)
(* dialog that is closed leaves its request under way.  Of a text what     *)
(* matters is whether it parses and whether it fits the schema.            *)
(***************************************************************************)
EXTENDS Parts

CONSTANTS SoundTexts,  \* that fit the schema, the empty text among them
          OddTexts,    \* that parse and do not fit it
          BrokenTexts, \* that do not parse
          EmptyForm,   \* the empty text
          MaxForms,    \* bound of the times a dialog is opened
          MaxFormInputs \* bound of what the user and the network do

ASSUME FormAssumption ==
  /\ EmptyForm \in SoundTexts /\ OddTexts \cap SoundTexts = {}
  /\ BrokenTexts \cap (SoundTexts \union OddTexts) = {}
  /\ MaxForms \in Nat \ {0} /\ MaxFormInputs \in Nat

FormTexts == SoundTexts \union OddTexts \union BrokenTexts
\* The editor has markers for a text
Flawed(t) == t \notin SoundTexts

VARIABLES
  purpose,    \* "start" or "evaluate"
  form,       \* the dialog
  validating, \* the text the editor's worker has, Absent
  posts,      \* the requests under way
  posted,     \* every request there was
  outcome     \* of each dialog: instances made, told of, answers lost, left too early

formVars == <<purpose, form, validating, posts, posted, outcome>>

FreshForm(n) ==
  [number |-> n, shown |-> TRUE, jsonValue |-> EmptyForm,
   checked |-> EmptyForm,  \* the text whose markers the dialog has
   canSubmit |-> TRUE, isSubmitting |-> FALSE, errorShown |-> FALSE,
   result |-> Absent,      \* the text whose result is shown
   meanwhile |-> FALSE]    \* whether the button was looked at while a request was under way

\* updateCanSubmit, of a dialog and the text whose markers it is given
UpdateCanSubmit(f, flawed) == [f EXCEPT !.canSubmit = ~f.errorShown /\ ~f.isSubmitting /\ ~flawed,
                                        !.meanwhile = f.isSubmitting]
\* The same, were an answer taken for the dialog that is open
OfAny(post) == form.shown
Of(post) == form.shown /\ post.number = form.number
-----------------------------------------------------------------------------
FormInit ==
  /\ purpose \in {"start", "evaluate"} /\ form = FreshForm(1) /\ validating = Absent
  /\ posts = {} /\ posted = {}
  /\ outcome = [n \in 1 .. MaxForms |-> [made |-> 0, told |-> 0, lost |-> 0, left |-> FALSE]]

\* The toolbar's button opens a dialog
ShowForm ==
  /\ ~form.shown /\ form.number < MaxForms /\ form' = FreshForm(form.number + 1)
  /\ validating' = Absent
  /\ UNCHANGED <<events, purpose, posts, posted, outcome>>

\* onJsonUpdate, also while a request is under way
JsonUpdate ==
  /\ form.shown /\ Event(MaxFormInputs)
  /\ \E t \in FormTexts \ {form.jsonValue} :
       form' = UpdateCanSubmit([form EXCEPT !.jsonValue = t, !.errorShown = FALSE],
                               Flawed(form.checked))
  /\ UNCHANGED <<purpose, validating, posts, posted, outcome>>

\* The editor's worker takes the text, and later its markers are there; a change of them is
\* told to the dialog
Validate ==
  /\ form.shown /\ validating = Absent /\ form.checked # form.jsonValue
  /\ validating' = form.jsonValue
  /\ UNCHANGED <<events, purpose, form, posts, posted, outcome>>

MarkersChange ==
  /\ form.shown /\ validating # Absent /\ validating' = Absent
  /\ LET told == [form EXCEPT !.checked = validating] IN
     form' = IF Flawed(validating) \/ Flawed(form.checked)
             THEN UpdateCanSubmit(told, Flawed(validating)) ELSE told
  /\ UNCHANGED <<events, purpose, posts, posted, outcome>>

\* confirm: the result of before is cleared; a text that does not parse shows an error and
\* leaves the button enabled
Confirm ==
  /\ form.shown /\ form.canSubmit /\ ~form.isSubmitting /\ Event(MaxFormInputs)
  /\ IF form.jsonValue \in BrokenTexts
     THEN /\ form' = [form EXCEPT !.errorShown = TRUE, !.result = Absent]
          /\ UNCHANGED <<posts, posted>>
     ELSE LET post == [number |-> form.number, jsonValue |-> form.jsonValue, checked |-> form.checked]
          IN /\ form' = [form EXCEPT !.isSubmitting = TRUE, !.result = Absent, !.meanwhile = FALSE]
             /\ posts' = posts \union {post} /\ posted' = posted \union {post}
  /\ UNCHANGED <<purpose, validating, outcome>>

\* The answer: the start dialog closes and another tells of the instance; the evaluate
\* dialog shows the result and does not look at its button again
SubmitAnswered(post) ==
  /\ posts' = posts \ {post}
  /\ IF Of(post)
     THEN form' = IF purpose = "start" THEN [form EXCEPT !.shown = FALSE, !.isSubmitting = FALSE]
                  ELSE [form EXCEPT !.isSubmitting = FALSE, !.result = post.jsonValue]
     ELSE UNCHANGED form
  /\ outcome' = [outcome EXCEPT ![post.number].made = @ + 1,
                                ![post.number].told = IF Of(post) THEN @ + 1 ELSE @]
  /\ UNCHANGED <<events, purpose, validating, posted>>

\* The request or its answer was lost
SubmitFailed(post) ==
  /\ Event(MaxFormInputs) /\ posts' = posts \ {post}
  /\ IF Of(post)
     THEN form' = UpdateCanSubmit([form EXCEPT !.isSubmitting = FALSE, !.errorShown = TRUE], FALSE)
     ELSE UNCHANGED form
  /\ \E made \in 0 .. 1 : outcome' = [outcome EXCEPT ![post.number].made = @ + made,
                                                     ![post.number].lost = @ + 1]
  /\ UNCHANGED <<purpose, validating, posted>>

\* Cancel, which is disabled while a request is under way, or the cross, which is not
CloseForm ==
  /\ form.shown /\ Event(MaxFormInputs) /\ form' = [form EXCEPT !.shown = FALSE]
  /\ outcome' = [outcome EXCEPT ![form.number].left = form.isSubmitting]
  /\ validating' = Absent /\ UNCHANGED <<purpose, posts, posted>>

FormNext ==
  \/ ShowForm
  \/ JsonUpdate
  \/ Validate
  \/ MarkersChange
  \/ Confirm
  \/ \E post \in posts : SubmitAnswered(post)
  \/ \E post \in posts : SubmitFailed(post)
  \/ CloseForm
-----------------------------------------------------------------------------
\* A text that has markers goes out only before they came: the markers of an earlier text,
\* an error or a request under way never let it
FlawsAreCaught == \A post \in posted : Flawed(post.jsonValue) => post.checked # post.jsonValue

\* A dialog has one request at a time, and every instance it made is told of, unless an
\* answer was lost or the cross was clicked while the request was under way
MadeOnce ==
  /\ \A p, q \in posts : p.number = q.number => p = q
  /\ \A n \in 1 .. MaxForms :
       outcome[n].made > outcome[n].told =>
         outcome[n].lost > 0 \/ outcome[n].left \/ purpose = "evaluate"
  /\ purpose = "start" => \A n \in 1 .. MaxForms : outcome[n].made <= 1 + outcome[n].lost

\* No result beside an error, and a sound text that was checked can be submitted, unless the
\* button was last looked at while a request was under way
ButtonFitsTheText ==
  form.shown =>
    /\ form.result # Absent => ~form.errorShown
    /\ (~form.isSubmitting /\ ~form.errorShown /\ ~Flawed(form.checked)) =>
         form.canSubmit \/ form.meanwhile

FormsSubmitWhatIsChecked == FlawsAreCaught /\ MadeOnce /\ ButtonFitsTheText
=============================================================================
