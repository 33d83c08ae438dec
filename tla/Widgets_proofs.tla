---------------------------- MODULE Widgets_proofs ----------------------------
(***************************************************************************)
(* What is proved of the widgets, for every value of the constants.  A     *)
(* behaviour is about one of the machines and leaves the others alone, so  *)
(* an invariant of a machine is one of the whole specification.            *)
(***************************************************************************)
EXTENDS MCWidgets, SequenceTheorems, FiniteSetTheorems,
        WellFoundedInduction, TLAPS

widgetVars == <<part, events, dashboardVars, flowVars, columnVars, rangeVars, migrateVars, formVars,
                dialogVars, markVars, heatPointVars, historyVars, calledVars, listQueryVars>>

\* A step is one of a machine, or leaves it alone.
LEMMA OneWidgetMoves ==
  [WidgetsNext]_widgetVars => /\ [DashboardNext]_dashboardVars /\ [FlowsNext]_flowVars
                              /\ [ColumnNext]_columnVars /\ [RangeNext]_rangeVars
                              /\ [MigrateNext]_migrateVars /\ [FormNext]_formVars
                              /\ [VariableDialogNext]_dialogVars /\ [MarksNext]_markVars
                              /\ [HeatNext]_heatPointVars /\ [HistoryNext]_historyVars
                              /\ [CalledNext]_calledVars /\ [ListQueryNext]_listQueryVars
BY DEF WidgetsNext, widgetVars

\* The machines start as they do alone.
LEMMA AllWidgetsStart ==
  WidgetsInit => /\ DashboardInit /\ FlowsInit /\ ColumnInit /\ RangeInit /\ MigrateInit /\ FormInit
                 /\ VariableDialogInit /\ MarksInit /\ HeatInit /\ HistoryInit /\ CalledInit
                 /\ ListQueryInit
BY DEF WidgetsInit

-----------------------------------------------------------------------------
(***************************************************************************)
(* The dialogs with a text, for any texts and any number of dialogs and    *)
(* requests.  ButtonInv says what the enabled button is worth, whichever   *)
(* of the writers of its flag was last: the markers it was looked at with  *)
(* were none, and an error is shown beside it only for a text that still   *)
(* does not parse.  PostsInv follows each request to its own dialog:       *)
(* while that is shown it waits for it, and once it is not it was left.    *)
(***************************************************************************)

Forms ==
  [number : 1 .. MaxForms, shown : BOOLEAN, jsonValue : FormTexts, checked : FormTexts,
   canSubmit : BOOLEAN, isSubmitting : BOOLEAN, errorShown : BOOLEAN,
   result : FormTexts \union {Absent}, meanwhile : BOOLEAN]
Posts == [number : 1 .. MaxForms, jsonValue : FormTexts, checked : FormTexts]
Outcomes == [made : Nat, told : Nat, lost : Nat, left : BOOLEAN]

FormTypeOK ==
  /\ purpose \in {"start", "evaluate"} /\ form \in Forms
  /\ validating \in FormTexts \union {Absent}
  /\ posts \subseteq Posts
  /\ outcome \in [1 .. MaxForms -> Outcomes]

ButtonInv ==
  /\ form.canSubmit => ~Flawed(form.checked)
  /\ form.errorShown /\ form.canSubmit => form.jsonValue \in BrokenTexts
  /\ form.isSubmitting => ~form.errorShown /\ form.result = Absent
  /\ form.result # Absent => ~form.errorShown
  /\ ~form.errorShown /\ ~Flawed(form.checked) => form.canSubmit \/ form.meanwhile

\* A dialog that may still make an instance that is asked for
MayMake(n) == n > form.number \/ (n = form.number /\ form.shown) \/ \E p \in posts : p.number = n

PostsInv ==
  /\ \A p, q \in posts : p.number = q.number => p = q
  /\ \A p \in posts : /\ p.number <= form.number
                      /\ Of(p) => form.isSubmitting
                      /\ ~Of(p) => outcome[p.number].left
  /\ \A n \in 1 .. MaxForms :
       /\ outcome[n].left => n <= form.number /\ ~(n = form.number /\ form.shown)
       /\ outcome[n].made > outcome[n].told =>
            outcome[n].lost > 0 \/ outcome[n].left \/ purpose = "evaluate"
       /\ purpose = "start" => outcome[n].made <= outcome[n].lost + (IF MayMake(n) THEN 0 ELSE 1)

FormInv == FormTypeOK /\ ButtonInv /\ FlawsAreCaught /\ PostsInv

-----------------------------------------------------------------------------
\* Counts of an outcome
MadeAndTold(o, made, told) == [o EXCEPT !.made = made, !.told = told]
MadeAndLost(o, made, lostNow) == [o EXCEPT !.made = made, !.lost = lostNow]

LEMMA OutcomeFacts ==
  ASSUME NEW o \in Outcomes, NEW a \in Nat, NEW b \in Nat
  PROVE  /\ MadeAndTold(o, a, b) \in Outcomes
         /\ MadeAndTold(o, a, b).made = a /\ MadeAndTold(o, a, b).told = b
         /\ MadeAndTold(o, a, b).lost = o.lost /\ MadeAndTold(o, a, b).left = o.left
         /\ MadeAndLost(o, a, b) \in Outcomes
         /\ MadeAndLost(o, a, b).made = a /\ MadeAndLost(o, a, b).lost = b
         /\ MadeAndLost(o, a, b).told = o.told /\ MadeAndLost(o, a, b).left = o.left
BY DEF Outcomes, MadeAndTold, MadeAndLost

\* The button is looked at (updateCanSubmit).
LEMMA UpdateFacts ==
  ASSUME NEW f \in Forms, NEW flawed \in BOOLEAN
  PROVE  LET g == UpdateCanSubmit(f, flawed) IN
         /\ g \in Forms
         /\ g.canSubmit = (~f.errorShown /\ ~f.isSubmitting /\ ~flawed)
         /\ g.meanwhile = f.isSubmitting
         /\ g.number = f.number /\ g.shown = f.shown /\ g.jsonValue = f.jsonValue
         /\ g.checked = f.checked /\ g.isSubmitting = f.isSubmitting
         /\ g.errorShown = f.errorShown /\ g.result = f.result
BY DEF UpdateCanSubmit, Forms

\* Nothing of the dialog changes that its requests are about.
LEMMA SameRequests ==
  ASSUME FormInv, form'.number = form.number, form'.shown = form.shown,
         form'.isSubmitting = form.isSubmitting, UNCHANGED <<purpose, posts, outcome>>
  PROVE  PostsInv'
BY DEF FormInv, PostsInv, Of, MayMake

LEMMA ShowFormInv ==
  ASSUME FormInv, ShowForm
  PROVE  FormInv'
<1> DEFINE n == form.number + 1
<1>1. /\ ~form.shown /\ form.number < MaxForms /\ form' = FreshForm(n) /\ validating' = Absent
      /\ UNCHANGED <<purpose, posts, posted, outcome>>
  BY DEF ShowForm
<1>2. form.number \in 1 .. MaxForms /\ MaxForms \in Nat
  BY FormAssumption DEF FormInv, FormTypeOK, Forms
<1>3. n \in 1 .. MaxForms
  BY <1>1, <1>2
<1>4. EmptyForm \in FormTexts /\ ~Flawed(EmptyForm)
  BY FormAssumption DEF FormTexts, Flawed
<1>5. /\ form' \in Forms /\ form'.number = n /\ form'.shown /\ form'.canSubmit /\ ~form'.isSubmitting
      /\ ~form'.errorShown /\ form'.result = Absent /\ form'.checked = EmptyForm
  BY <1>1, <1>3, <1>4 DEF FreshForm, Forms
<1>6. FormTypeOK'
  BY <1>1, <1>5 DEF FormInv, FormTypeOK
<1>7. ButtonInv'
  BY <1>4, <1>5 DEF ButtonInv
<1>8. FlawsAreCaught'
  BY <1>1 DEF FormInv, FlawsAreCaught
<1>9. \A p \in posts : p.number \in 1 .. MaxForms /\ p.number <= form.number
  BY DEF FormInv, FormTypeOK, PostsInv, Posts
<1>10. \A p \in posts : p.number # n /\ ~Of(p) /\ ~Of(p)'
  BY <1>1, <1>2, <1>5, <1>9 DEF Of
<1>11. ASSUME NEW m \in 1 .. MaxForms, m > form.number PROVE ~outcome[m].left /\ MayMake(m)
  BY <1>2, <1>11 DEF FormInv, PostsInv, MayMake
<1>12. \A m \in 1 .. MaxForms : MayMake(m)' => MayMake(m)
  BY <1>1, <1>2, <1>5 DEF MayMake
<1>13. \A p \in posts : p.number <= form'.number /\ outcome[p.number].left
  BY <1>2, <1>5, <1>9, <1>10 DEF FormInv, PostsInv
<1>14. ASSUME NEW m \in 1 .. MaxForms
       PROVE  /\ outcome[m].left => m <= form'.number /\ ~(m = form'.number /\ form'.shown)
              /\ purpose = "start" => outcome[m].made <= outcome[m].lost + (IF MayMake(m)' THEN 0 ELSE 1)
  <2>1. outcome[m] \in Outcomes
    BY DEF FormInv, FormTypeOK
  <2>2. purpose = "start" => outcome[m].made <= outcome[m].lost + (IF MayMake(m) THEN 0 ELSE 1)
    BY DEF FormInv, PostsInv
  <2>3. outcome[m].left => m <= form.number
    BY DEF FormInv, PostsInv
  <2>4. outcome[m].left => m <= form'.number /\ m # form'.number
    BY <1>2, <1>5, <2>3
  <2>5. outcome[m].made \in Nat /\ outcome[m].lost \in Nat
    BY <2>1 DEF Outcomes
  <2> QED BY <1>12, <2>2, <2>4, <2>5
<1>15. PostsInv'
  BY <1>1, <1>10, <1>13, <1>14 DEF FormInv, PostsInv
<1> QED BY <1>6, <1>7, <1>8, <1>15 DEF FormInv

LEMMA JsonUpdateInv ==
  ASSUME FormInv, JsonUpdate
  PROVE  FormInv'
<1>1. PICK t \in FormTexts :
        form' = UpdateCanSubmit([form EXCEPT !.jsonValue = t, !.errorShown = FALSE],
                                Flawed(form.checked))
  BY DEF JsonUpdate
<1> DEFINE f == [form EXCEPT !.jsonValue = t, !.errorShown = FALSE]
<1>2. /\ f \in Forms /\ f.jsonValue = t /\ ~f.errorShown /\ f.checked = form.checked
      /\ f.isSubmitting = form.isSubmitting /\ f.result = form.result /\ f.number = form.number
      /\ f.shown = form.shown
  BY DEF FormInv, FormTypeOK, Forms
<1>3. Flawed(form.checked) \in BOOLEAN
  BY DEF Flawed
<1> HIDE DEF f
<1>4. form' = UpdateCanSubmit(f, Flawed(form.checked))
  BY <1>1 DEF f
<1>5. /\ form' \in Forms
      /\ form'.canSubmit = (~f.errorShown /\ ~f.isSubmitting /\ ~Flawed(form.checked))
      /\ form'.meanwhile = f.isSubmitting
      /\ form'.number = f.number /\ form'.shown = f.shown /\ form'.jsonValue = f.jsonValue
      /\ form'.checked = f.checked /\ form'.isSubmitting = f.isSubmitting
      /\ form'.errorShown = f.errorShown /\ form'.result = f.result
  BY <1>2, <1>3, <1>4, UpdateFacts
<1>6. UNCHANGED <<purpose, validating, posts, posted, outcome>>
  BY DEF JsonUpdate
<1>7. FormTypeOK' /\ FlawsAreCaught'
  BY <1>5, <1>6 DEF FormInv, FormTypeOK, FlawsAreCaught
<1>8. ButtonInv'
  BY <1>2, <1>5 DEF FormInv, ButtonInv
<1>9. PostsInv'
  BY <1>2, <1>5, <1>6, SameRequests
<1> QED BY <1>7, <1>8, <1>9 DEF FormInv

LEMMA MarkersChangeInv ==
  ASSUME FormInv, MarkersChange
  PROVE  FormInv'
<1> DEFINE told == [form EXCEPT !.checked = validating]
<1>1. validating \in FormTexts /\ validating' = Absent
  BY DEF MarkersChange, FormInv, FormTypeOK
<1>2. /\ told \in Forms /\ told.checked = validating /\ told.canSubmit = form.canSubmit
      /\ told.meanwhile = form.meanwhile /\ told.errorShown = form.errorShown
      /\ told.isSubmitting = form.isSubmitting /\ told.result = form.result
      /\ told.number = form.number /\ told.shown = form.shown /\ told.jsonValue = form.jsonValue
  BY <1>1 DEF FormInv, FormTypeOK, Forms
<1>3. form' = IF Flawed(validating) \/ Flawed(form.checked)
              THEN UpdateCanSubmit(told, Flawed(validating)) ELSE told
  BY DEF MarkersChange
<1> HIDE DEF told
<1>4. UNCHANGED <<purpose, posts, posted, outcome>>
  BY DEF MarkersChange
<1>5. CASE Flawed(validating) \/ Flawed(form.checked)
  <2>1. Flawed(validating) \in BOOLEAN /\ form' = UpdateCanSubmit(told, Flawed(validating))
    BY <1>3, <1>5 DEF Flawed
  <2>2. /\ form' \in Forms
        /\ form'.canSubmit = (~told.errorShown /\ ~told.isSubmitting /\ ~Flawed(validating))
        /\ form'.meanwhile = told.isSubmitting
        /\ form'.number = told.number /\ form'.shown = told.shown /\ form'.jsonValue = told.jsonValue
        /\ form'.checked = told.checked /\ form'.isSubmitting = told.isSubmitting
        /\ form'.errorShown = told.errorShown /\ form'.result = told.result
    BY <1>2, <2>1, UpdateFacts
  <2>3. FormTypeOK' /\ FlawsAreCaught'
    BY <1>1, <1>4, <2>2 DEF FormInv, FormTypeOK, FlawsAreCaught
  <2>4. ButtonInv'
    BY <1>2, <2>2 DEF FormInv, ButtonInv
  <2>5. PostsInv'
    BY <1>2, <1>4, <2>2, SameRequests
  <2> QED BY <2>3, <2>4, <2>5 DEF FormInv
<1>6. CASE ~Flawed(validating) /\ ~Flawed(form.checked)
  <2>1. form' = told
    BY <1>3, <1>6
  <2>2. FormTypeOK' /\ FlawsAreCaught'
    BY <1>1, <1>2, <1>4, <2>1 DEF FormInv, FormTypeOK, FlawsAreCaught
  <2>3. ButtonInv'
    BY <1>2, <1>6, <2>1 DEF FormInv, ButtonInv
  <2>4. PostsInv'
    BY <1>2, <1>4, <2>1, SameRequests
  <2> QED BY <2>2, <2>3, <2>4 DEF FormInv
<1> QED BY <1>5, <1>6

LEMMA ConfirmInv ==
  ASSUME FormInv, Confirm
  PROVE  FormInv'
<1>1. /\ form.shown /\ form.canSubmit /\ ~form.isSubmitting
      /\ UNCHANGED <<purpose, validating, outcome>>
  BY DEF Confirm
<1>2. CASE form.jsonValue \in BrokenTexts
  <2>1. /\ form' = [form EXCEPT !.errorShown = TRUE, !.result = Absent]
        /\ UNCHANGED <<posts, posted>>
    BY <1>2 DEF Confirm
  <2>2. /\ form' \in Forms /\ form'.errorShown /\ form'.result = Absent /\ form'.canSubmit
        /\ ~form'.isSubmitting /\ form'.checked = form.checked /\ form'.jsonValue = form.jsonValue
        /\ form'.number = form.number /\ form'.shown = form.shown
        /\ form'.isSubmitting = form.isSubmitting
    BY <1>1, <2>1 DEF FormInv, FormTypeOK, Forms
  <2>3. FormTypeOK' /\ FlawsAreCaught'
    BY <1>1, <2>1, <2>2 DEF FormInv, FormTypeOK, FlawsAreCaught
  <2>4. ButtonInv'
    BY <1>1, <1>2, <2>2 DEF FormInv, ButtonInv
  <2>5. PostsInv'
    BY <1>1, <2>1, <2>2, SameRequests
  <2> QED BY <2>3, <2>4, <2>5 DEF FormInv
<1>3. CASE form.jsonValue \notin BrokenTexts
  <2> DEFINE new == [number |-> form.number, jsonValue |-> form.jsonValue, checked |-> form.checked]
  <2>0. PICK post \in Posts : post = new
    BY DEF FormInv, FormTypeOK, Forms, Posts
  <2>1. /\ form' = [form EXCEPT !.isSubmitting = TRUE, !.result = Absent, !.meanwhile = FALSE]
        /\ posts' = posts \union {post} /\ posted' = posted \union {post}
    BY <1>3, <2>0 DEF Confirm
  <2>2. /\ form' \in Forms /\ form'.errorShown = form.errorShown /\ form'.result = Absent
        /\ form'.canSubmit /\ form'.isSubmitting /\ form'.checked = form.checked
        /\ form'.jsonValue = form.jsonValue /\ form'.number = form.number /\ form'.shown
    BY <1>1, <2>1 DEF FormInv, FormTypeOK, Forms
  <2>3. post.number = form.number /\ post.jsonValue = form.jsonValue /\ post.checked = form.checked
    BY <2>0
  <2>4. FormTypeOK'
    BY <1>1, <2>1, <2>2, <2>3 DEF FormInv, FormTypeOK
  <2>5. ButtonInv'
    BY <1>1, <1>3, <2>2 DEF FormInv, ButtonInv
  <2>6. FlawsAreCaught'
    BY <1>1, <2>1, <2>3 DEF FormInv, FlawsAreCaught, ButtonInv
  <2>7. \A p \in posts : p.number # form.number
    BY <1>1 DEF FormInv, PostsInv, Of
  <2>8. /\ Of(post)' /\ \A p \in posts : ~Of(p)' /\ ~Of(p)
    BY <2>2, <2>3, <2>7 DEF Of
  <2>9. form.number \in 1 .. MaxForms
    BY DEF FormInv, FormTypeOK, Forms
  <2>10. \A n \in 1 .. MaxForms : MayMake(n)' <=> MayMake(n)
    BY <1>1, <2>1, <2>2, <2>3 DEF MayMake
  <2>11. \A p, q \in posts' : p.number = q.number => p = q
    BY <2>1, <2>3, <2>7 DEF FormInv, PostsInv
  <2>12. \A p \in posts' : /\ p.number <= form'.number
                           /\ Of(p)' => form'.isSubmitting
                           /\ ~Of(p)' => outcome'[p.number].left
    BY <1>1, <2>1, <2>2, <2>3, <2>8, <2>9 DEF FormInv, PostsInv
  <2>13. PostsInv'
    BY <1>1, <2>2, <2>10, <2>11, <2>12 DEF FormInv, PostsInv
  <2> QED BY <2>4, <2>5, <2>6, <2>13 DEF FormInv
<1> QED BY <1>2, <1>3

LEMMA SubmitAnsweredInv ==
  ASSUME FormInv, NEW post \in posts, SubmitAnswered(post)
  PROVE  FormInv'
<1> DEFINE n == post.number
<1>1. /\ posts' = posts \ {post} /\ UNCHANGED <<purpose, validating, posted>>
      /\ outcome' = [outcome EXCEPT ![n].made = @ + 1, ![n].told = IF Of(post) THEN @ + 1 ELSE @]
  BY DEF SubmitAnswered
<1>2. n \in 1 .. MaxForms /\ post.jsonValue \in FormTexts /\ n <= form.number
      /\ form.number \in 1 .. MaxForms
  BY DEF FormInv, FormTypeOK, Posts, Forms, PostsInv
<1>3. outcome[n] \in Outcomes
  BY <1>2 DEF FormInv, FormTypeOK
<1>4. /\ outcome'[n].made = outcome[n].made + 1
      /\ outcome'[n].told = IF Of(post) THEN outcome[n].told + 1 ELSE outcome[n].told
      /\ outcome'[n].lost = outcome[n].lost /\ outcome'[n].left = outcome[n].left
      /\ outcome'[n] \in Outcomes
      /\ \A m \in 1 .. MaxForms : m # n => outcome'[m] = outcome[m]
  <2> DEFINE o == outcome[n]
             made == o.made + 1
             told == IF Of(post) THEN o.told + 1 ELSE o.told
  <2>1. outcome' = [outcome EXCEPT ![n] = MadeAndTold(o, made, told)] /\ o \in Outcomes
    BY <1>1, <1>2, <1>3 DEF FormInv, FormTypeOK, MadeAndTold
  <2>2. made \in Nat /\ told \in Nat
    BY <1>3 DEF Outcomes
  <2> HIDE DEF o, made, told
  <2> DEFINE new == MadeAndTold(o, made, told)
  <2>3. /\ new.made = made /\ new.told = told
        /\ new.lost = o.lost /\ new.left = o.left /\ new \in Outcomes
    BY <2>1, <2>2, OutcomeFacts
  <2> HIDE DEF new
  <2> QED BY <1>2, <2>1, <2>3 DEF FormInv, FormTypeOK, told, made, o, new
<1>5. outcome' \in [1 .. MaxForms -> Outcomes]
  BY <1>1, <1>2, <1>4 DEF FormInv, FormTypeOK
<1>6. \A m \in 1 .. MaxForms : outcome'[m].left = outcome[m].left
  BY <1>4
<1>7. \A p \in posts' : p \in posts /\ p.number # n
  BY <1>1 DEF FormInv, PostsInv
<1>8. MayMake(n)
  BY DEF MayMake
<1>9. /\ form' \in Forms /\ form'.number = form.number /\ form'.checked = form.checked
      /\ form'.canSubmit = form.canSubmit /\ form'.meanwhile = form.meanwhile
      /\ form'.errorShown = form.errorShown /\ form'.jsonValue = form.jsonValue
      /\ Of(post) => /\ ~form'.isSubmitting /\ ~form.errorShown
                     /\ (purpose = "start" => ~form'.shown)
                     /\ (purpose = "evaluate" => form'.shown)
      /\ ~Of(post) => form' = form
      /\ ~Of(post) \/ purpose = "start" => form'.result = form.result
  <2>1. CASE Of(post) /\ purpose = "start"
    <3>1. form' = [form EXCEPT !.shown = FALSE, !.isSubmitting = FALSE] /\ form.isSubmitting
      BY <2>1 DEF SubmitAnswered, FormInv, PostsInv
    <3> QED BY <2>1, <3>1 DEF FormInv, FormTypeOK, Forms, ButtonInv
  <2>2. CASE Of(post) /\ purpose = "evaluate"
    <3>1. form' = [form EXCEPT !.isSubmitting = FALSE, !.result = post.jsonValue]
          /\ form.isSubmitting /\ form.shown
      BY <2>2 DEF SubmitAnswered, FormInv, PostsInv, Of
    <3> QED BY <1>2, <2>2, <3>1 DEF FormInv, FormTypeOK, Forms, ButtonInv
  <2>3. CASE ~Of(post)
    BY <2>3 DEF SubmitAnswered, FormInv, FormTypeOK
  <2> QED BY <2>1, <2>2, <2>3 DEF FormInv, FormTypeOK
<1>10. FormTypeOK'
  BY <1>1, <1>5, <1>9 DEF FormInv, FormTypeOK
<1>11. ButtonInv'
  BY <1>9 DEF FormInv, FormTypeOK, ButtonInv
<1>12. FlawsAreCaught'
  BY <1>1 DEF FormInv, FlawsAreCaught
<1>13. \A p \in posts' : Of(p)' <=> Of(p)
  <2>1. CASE Of(post)
    BY <1>7, <1>9, <2>1 DEF Of
  <2>2. CASE ~Of(post)
    BY <1>9, <2>2 DEF Of
  <2> QED BY <2>1, <2>2
<1>14. \A p \in posts' : Of(p)' => form'.isSubmitting
  <2>1. CASE Of(post)
    BY <1>7, <1>13, <2>1 DEF Of
  <2>2. CASE ~Of(post)
    BY <1>7, <1>9, <1>13, <2>2 DEF FormInv, PostsInv
  <2> QED BY <2>1, <2>2
<1>15. \A p \in posts' : p.number <= form'.number /\ (~Of(p)' => outcome'[p.number].left)
  <2>1. \A p \in posts' : p.number \in 1 .. MaxForms
    BY <1>7 DEF FormInv, FormTypeOK, Posts
  <2> QED BY <1>6, <1>7, <1>9, <1>13, <2>1 DEF FormInv, PostsInv
<1>16. \A p, q \in posts' : p.number = q.number => p = q
  BY <1>7 DEF FormInv, PostsInv
<1>17. ASSUME NEW m \in 1 .. MaxForms
       PROVE  outcome'[m].left => m <= form'.number /\ ~(m = form'.number /\ form'.shown)
  BY <1>6, <1>9, <1>17 DEF FormInv, FormTypeOK, PostsInv, Of
<1>18. ASSUME NEW m \in 1 .. MaxForms, outcome'[m].made > outcome'[m].told
       PROVE  outcome'[m].lost > 0 \/ outcome'[m].left \/ purpose' = "evaluate"
  <2>1. CASE m # n
    BY <1>1, <1>4, <1>18, <2>1 DEF FormInv, PostsInv
  <2>2. CASE m = n /\ Of(post)
    <3>1. outcome[n].made > outcome[n].told
      BY <1>3, <1>4, <1>18, <2>2 DEF Outcomes
    <3> QED BY <1>1, <1>2, <1>4, <2>2, <3>1 DEF FormInv, PostsInv
  <2>3. CASE m = n /\ ~Of(post)
    BY <1>4, <2>3 DEF FormInv, PostsInv
  <2> QED BY <2>1, <2>2, <2>3
<1>19. ASSUME NEW m \in 1 .. MaxForms, purpose' = "start"
       PROVE  outcome'[m].made <= outcome'[m].lost + (IF MayMake(m)' THEN 0 ELSE 1)
  <2>1. outcome[m].made <= outcome[m].lost + (IF MayMake(m) THEN 0 ELSE 1)
    BY <1>1, <1>19 DEF FormInv, PostsInv
  <2>2. CASE m # n
    <3>1. MayMake(m)' <=> MayMake(m)
      BY <1>1, <1>9, <2>2 DEF MayMake, Of
    <3> QED BY <1>4, <2>1, <2>2, <3>1
  <2>3. CASE m = n
    <3>1. ~MayMake(m)'
      BY <1>1, <1>2, <1>7, <1>9, <1>19, <2>3 DEF MayMake, Of
    <3>2. outcome[n].made <= outcome[n].lost
      BY <1>3, <1>8, <2>1, <2>3 DEF Outcomes
    <3> QED BY <1>3, <1>4, <2>3, <3>1, <3>2 DEF Outcomes
  <2> QED BY <2>2, <2>3
<1>20. PostsInv'
  BY <1>14, <1>15, <1>16, <1>17, <1>18, <1>19 DEF PostsInv
<1> QED BY <1>10, <1>11, <1>12, <1>20 DEF FormInv

LEMMA SubmitFailedInv ==
  ASSUME FormInv, NEW post \in posts, SubmitFailed(post)
  PROVE  FormInv'
<1> DEFINE n == post.number
<1>1. PICK made \in 0 .. 1 :
        outcome' = [outcome EXCEPT ![n].made = @ + made, ![n].lost = @ + 1]
  BY DEF SubmitFailed
<1>2. posts' = posts \ {post} /\ UNCHANGED <<purpose, validating, posted>>
  BY DEF SubmitFailed
<1>3. n \in 1 .. MaxForms /\ n <= form.number /\ form.number \in 1 .. MaxForms
  BY DEF FormInv, FormTypeOK, Posts, Forms, PostsInv
<1>4. /\ outcome'[n].made = outcome[n].made + made /\ outcome'[n].told = outcome[n].told
      /\ outcome'[n].lost = outcome[n].lost + 1 /\ outcome'[n].left = outcome[n].left
      /\ outcome'[n] \in Outcomes /\ outcome[n] \in Outcomes
      /\ \A m \in 1 .. MaxForms : m # n => outcome'[m] = outcome[m]
      /\ outcome' \in [1 .. MaxForms -> Outcomes]
  <2> DEFINE o == outcome[n]
             madeNow == o.made + made
             lostNow == o.lost + 1
  <2>1. outcome' = [outcome EXCEPT ![n] = MadeAndLost(o, madeNow, lostNow)] /\ o \in Outcomes
    BY <1>1, <1>3 DEF FormInv, FormTypeOK, MadeAndLost
  <2>2. madeNow \in Nat /\ lostNow \in Nat
    BY <2>1 DEF Outcomes
  <2> HIDE DEF o, madeNow, lostNow
  <2> DEFINE new == MadeAndLost(o, madeNow, lostNow)
  <2>3. /\ new.made = madeNow /\ new.lost = lostNow
        /\ new.told = o.told /\ new.left = o.left /\ new \in Outcomes
    BY <2>1, <2>2, OutcomeFacts
  <2> HIDE DEF new
  <2> QED BY <1>3, <2>1, <2>3 DEF FormInv, FormTypeOK, madeNow, lostNow, o, new
<1>5. \A m \in 1 .. MaxForms : outcome'[m].left = outcome[m].left
  BY <1>4
<1>6. \A p \in posts' : p \in posts /\ p.number # n
  BY <1>2 DEF FormInv, PostsInv
<1>7. MayMake(n)
  BY DEF MayMake
<1>8. /\ form' \in Forms /\ form'.number = form.number /\ form'.shown = form.shown
      /\ ~Of(post) => form' = form
      /\ Of(post) => ~form'.canSubmit /\ form'.errorShown /\ ~form'.isSubmitting /\ form'.result = Absent
  <2>1. CASE Of(post)
    <3> DEFINE f == [form EXCEPT !.isSubmitting = FALSE, !.errorShown = TRUE]
    <3>1. f \in Forms /\ f.errorShown /\ ~f.isSubmitting /\ f.number = form.number
          /\ f.shown = form.shown /\ f.result = form.result
      BY DEF FormInv, FormTypeOK, Forms
    <3>2. form' = UpdateCanSubmit(f, FALSE)
      BY <2>1 DEF SubmitFailed
    <3>3. form.result = Absent
      BY <2>1 DEF FormInv, PostsInv, ButtonInv
    <3> HIDE DEF f
    <3> QED BY <2>1, <3>1, <3>2, <3>3, UpdateFacts
  <2>2. CASE ~Of(post)
    BY <2>2 DEF SubmitFailed, FormInv, FormTypeOK
  <2> QED BY <2>1, <2>2
<1>9. FormTypeOK'
  BY <1>2, <1>4, <1>8 DEF FormInv, FormTypeOK
<1>10. ButtonInv'
  <2>1. CASE Of(post)
    BY <1>8, <2>1 DEF ButtonInv
  <2>2. CASE ~Of(post)
    BY <1>8, <2>2 DEF FormInv, ButtonInv
  <2> QED BY <2>1, <2>2
<1>11. FlawsAreCaught'
  BY <1>2 DEF FormInv, FlawsAreCaught
<1>12. \A p \in posts' : Of(p)' <=> Of(p)
  BY <1>8 DEF Of
<1>13. \A p \in posts' : Of(p)' => form'.isSubmitting
  <2>1. CASE Of(post)
    BY <1>6, <1>12, <2>1 DEF Of
  <2>2. CASE ~Of(post)
    BY <1>6, <1>8, <1>12, <2>2 DEF FormInv, PostsInv
  <2> QED BY <2>1, <2>2
<1>14. \A p \in posts' : p.number <= form'.number /\ (~Of(p)' => outcome'[p.number].left)
  <2>1. \A p \in posts' : p.number \in 1 .. MaxForms
    BY <1>6 DEF FormInv, FormTypeOK, Posts
  <2> QED BY <1>5, <1>6, <1>8, <1>12, <2>1 DEF FormInv, PostsInv
<1>15. \A p, q \in posts' : p.number = q.number => p = q
  BY <1>6 DEF FormInv, PostsInv
<1>16. ASSUME NEW m \in 1 .. MaxForms
       PROVE  outcome'[m].left => m <= form'.number /\ ~(m = form'.number /\ form'.shown)
  BY <1>5, <1>8 DEF FormInv, PostsInv
<1>17. ASSUME NEW m \in 1 .. MaxForms, outcome'[m].made > outcome'[m].told
       PROVE  outcome'[m].lost > 0 \/ outcome'[m].left \/ purpose' = "evaluate"
  <2>1. CASE m # n
    BY <1>2, <1>4, <1>17, <2>1 DEF FormInv, PostsInv
  <2>2. CASE m = n
    BY <1>4, <2>2 DEF Outcomes
  <2> QED BY <2>1, <2>2
<1>18. ASSUME NEW m \in 1 .. MaxForms, purpose' = "start"
       PROVE  outcome'[m].made <= outcome'[m].lost + (IF MayMake(m)' THEN 0 ELSE 1)
  <2>1. outcome[m].made <= outcome[m].lost + (IF MayMake(m) THEN 0 ELSE 1)
    BY <1>2, <1>18 DEF FormInv, PostsInv
  <2>2. CASE m # n
    <3>1. MayMake(m)' <=> MayMake(m)
      BY <1>2, <1>8, <2>2 DEF MayMake
    <3> QED BY <1>4, <2>1, <2>2, <3>1
  <2>3. CASE m = n
    <3>1. outcome[n].made <= outcome[n].lost
      BY <1>4, <1>7, <2>1, <2>3 DEF Outcomes
    <3> QED BY <1>4, <2>3, <3>1 DEF Outcomes
  <2> QED BY <2>2, <2>3
<1>19. PostsInv'
  BY <1>13, <1>14, <1>15, <1>16, <1>17, <1>18 DEF PostsInv
<1> QED BY <1>9, <1>10, <1>11, <1>19 DEF FormInv

LEMMA CloseFormInv ==
  ASSUME FormInv, CloseForm
  PROVE  FormInv'
<1> DEFINE n == form.number
<1>1. /\ form.shown /\ form' = [form EXCEPT !.shown = FALSE]
      /\ outcome' = [outcome EXCEPT ![n].left = form.isSubmitting]
      /\ validating' = Absent /\ UNCHANGED <<purpose, posts, posted>>
  BY DEF CloseForm
<1>2. n \in 1 .. MaxForms /\ form.isSubmitting \in BOOLEAN /\ outcome[n] \in Outcomes
  BY DEF FormInv, FormTypeOK, Forms
<1>3. /\ form' \in Forms /\ ~form'.shown /\ form'.number = n /\ form'.canSubmit = form.canSubmit
      /\ form'.checked = form.checked /\ form'.errorShown = form.errorShown
      /\ form'.jsonValue = form.jsonValue /\ form'.isSubmitting = form.isSubmitting
      /\ form'.result = form.result /\ form'.meanwhile = form.meanwhile
  BY <1>1 DEF FormInv, FormTypeOK, Forms
<1>4. /\ outcome'[n].left = form.isSubmitting /\ outcome'[n] \in Outcomes
      /\ \A m \in 1 .. MaxForms : /\ outcome'[m].made = outcome[m].made
                                  /\ outcome'[m].told = outcome[m].told
                                  /\ outcome'[m].lost = outcome[m].lost
                                  /\ m # n => outcome'[m] = outcome[m]
      /\ outcome' \in [1 .. MaxForms -> Outcomes]
  <2> DEFINE o == outcome[n]
             new == [o EXCEPT !.left = form.isSubmitting]
  <2>1. outcome' = [outcome EXCEPT ![n] = new]
    BY <1>1
  <2>2. /\ new.made = o.made /\ new.told = o.told /\ new.lost = o.lost
        /\ new.left = form.isSubmitting /\ new \in Outcomes
    BY <1>2 DEF Outcomes
  <2> HIDE DEF new
  <2> QED BY <1>2, <2>1, <2>2 DEF FormInv, FormTypeOK
<1>5. FormTypeOK'
  BY <1>1, <1>3, <1>4 DEF FormInv, FormTypeOK
<1>6. ButtonInv' /\ FlawsAreCaught'
  BY <1>1, <1>3 DEF FormInv, ButtonInv, FlawsAreCaught
<1>7. ~outcome[n].left
  BY <1>1, <1>2 DEF FormInv, PostsInv
<1>8. \A m \in 1 .. MaxForms : outcome[m].left => outcome'[m].left
  BY <1>4, <1>7
<1>9. \A p \in posts : p.number \in 1 .. MaxForms
  BY DEF FormInv, FormTypeOK, Posts
<1>10. \A p \in posts : p.number <= n /\ (~Of(p)' => outcome'[p.number].left) /\ ~Of(p)'
  <2> SUFFICES ASSUME NEW p \in posts
               PROVE  p.number <= n /\ outcome'[p.number].left /\ ~Of(p)'
    OBVIOUS
  <2>1. ~Of(p)' /\ p.number <= n
    BY <1>3 DEF Of, FormInv, PostsInv
  <2>2. CASE p.number = n
    BY <1>1, <1>4, <2>1, <2>2 DEF FormInv, PostsInv, Of
  <2>3. CASE p.number # n
    BY <1>4, <1>8, <1>9, <2>1, <2>3 DEF FormInv, PostsInv, Of
  <2> QED BY <2>1, <2>2, <2>3
<1>11. ASSUME NEW m \in 1 .. MaxForms
       PROVE  /\ outcome'[m].left => m <= form'.number /\ ~(m = form'.number /\ form'.shown)
              /\ outcome'[m].made > outcome'[m].told =>
                   outcome'[m].lost > 0 \/ outcome'[m].left \/ purpose' = "evaluate"
  BY <1>1, <1>2, <1>3, <1>4, <1>8 DEF FormInv, PostsInv
<1>12. ASSUME NEW m \in 1 .. MaxForms, purpose = "start"
       PROVE  outcome'[m].made <= outcome'[m].lost + (IF MayMake(m)' THEN 0 ELSE 1)
  <2>1. outcome[m].made <= outcome[m].lost + (IF MayMake(m) THEN 0 ELSE 1)
    BY <1>12 DEF FormInv, PostsInv
  <2>2. MayMake(m)' => MayMake(m)
    BY <1>1, <1>3 DEF MayMake
  <2>3. outcome[m].made \in Nat /\ outcome[m].lost \in Nat
    BY DEF FormInv, FormTypeOK, Outcomes
  <2> QED BY <1>4, <2>1, <2>2, <2>3
<1>13. PostsInv'
  BY <1>1, <1>3, <1>10, <1>11, <1>12 DEF FormInv, PostsInv
<1> QED BY <1>5, <1>6, <1>13 DEF FormInv

\* The inductive invariant of the two dialogs.
THEOREM FormInvariant == Spec => []FormInv
<1>1. FormInit => FormInv
  <2> SUFFICES ASSUME FormInit PROVE FormInv
    OBVIOUS
  <2>1. /\ form = FreshForm(1) /\ posts = {} /\ posted = {} /\ validating = Absent
        /\ outcome = [n \in 1 .. MaxForms |-> [made |-> 0, told |-> 0, lost |-> 0, left |-> FALSE]]
        /\ purpose \in {"start", "evaluate"}
    BY DEF FormInit
  <2>2. EmptyForm \in FormTexts /\ ~Flawed(EmptyForm) /\ 1 \in 1 .. MaxForms
    BY FormAssumption DEF FormTexts, Flawed
  <2>3. /\ form \in Forms /\ form.shown /\ form.canSubmit /\ ~form.errorShown /\ ~form.isSubmitting
        /\ form.result = Absent /\ form.checked = EmptyForm
    BY <2>1, <2>2 DEF FreshForm, Forms
  <2>4. outcome \in [1 .. MaxForms -> Outcomes]
    BY <2>1 DEF Outcomes
  <2>5. PostsInv
    BY <2>1 DEF PostsInv
  <2> QED BY <2>1, <2>2, <2>3, <2>4, <2>5 DEF FormInv, FormTypeOK, ButtonInv, FlawsAreCaught
<1>2. FormInv /\ [FormNext]_formVars => FormInv'
  <2> SUFFICES ASSUME FormInv, [FormNext]_formVars PROVE FormInv'
    OBVIOUS
  <2>1. CASE Validate
    <3>1. form.jsonValue \in FormTexts
      BY DEF FormInv, FormTypeOK, Forms
    <3> QED BY <2>1, <3>1 DEF Validate, FormInv, FormTypeOK, ButtonInv, FlawsAreCaught, PostsInv,
                              MayMake, Of
  <2>2. CASE UNCHANGED formVars
    BY <2>2 DEF formVars, FormInv, FormTypeOK, ButtonInv, FlawsAreCaught, PostsInv, MayMake, Of
  <2> QED
    BY <2>1, <2>2, ShowFormInv, JsonUpdateInv, MarkersChangeInv, ConfirmInv, SubmitAnsweredInv,
       SubmitFailedInv, CloseFormInv DEF FormNext
<1> QED BY <1>1, <1>2, AllWidgetsStart, OneWidgetMoves, PTL DEF Spec, widgetVars

\* What is sent has been checked or is younger than its check; a dialog makes
\* one instance and tells of it; the button fits text, error and result
\* (start and evaluate dialogs).
THEOREM FormsSubmit == Spec => []FormsSubmitWhatIsChecked
<1>1. FormInv => FormsSubmitWhatIsChecked
  <2> SUFFICES ASSUME FormInv PROVE FormsSubmitWhatIsChecked
    OBVIOUS
  <2>1. ButtonFitsTheText
    BY DEF FormInv, ButtonInv, ButtonFitsTheText
  <2>2. ASSUME NEW n \in 1 .. MaxForms, purpose = "start"
        PROVE  outcome[n].made <= 1 + outcome[n].lost
    <3>1. outcome[n].made \in Nat /\ outcome[n].lost \in Nat
      BY DEF FormInv, FormTypeOK, Outcomes
    <3>2. outcome[n].made <= outcome[n].lost + (IF MayMake(n) THEN 0 ELSE 1)
      BY <2>2 DEF FormInv, PostsInv
    <3> QED BY <3>1, <3>2
  <2>3. MadeOnce
    BY <2>2 DEF FormInv, PostsInv, MadeOnce
  <2> QED BY <2>1, <2>3 DEF FormInv, FormsSubmitWhatIsChecked
<1> QED BY <1>1, FormInvariant, PTL

-----------------------------------------------------------------------------
(***************************************************************************)
(* The date selector, for any calendar and any number of inputs.  Text,    *)
(* inputs, dates and what was sent are four copies of one choice.          *)
(* TypedInv says when an input shows the text bound to it, SentInv that a  *)
(* selector that is not marked invalid has sent what its texts read as,    *)
(* also while an input waits.                                              *)
(***************************************************************************)

NoOrDate == Dates \union {Absent}
Chosens == [from : Dates, to : NoOrDate]

RangeTypeOK ==
  /\ filterTypeRange \in BOOLEAN /\ passed \in BOOLEAN
  /\ isInvalidDateRange \in BOOLEAN /\ lost \in BOOLEAN
  /\ dateFrom \in NoOrDate /\ dateTo \in NoOrDate
  /\ text \in [Fields -> Texts] /\ typed \in [Fields -> Texts]
  /\ waiting \in Fields \union {Absent}
  /\ sent \in Chosens \union {Absent}

\* An input that does not wait shows the text bound to it
TypedInv ==
  ~lost => \A f \in Fields : (f = "from" \/ filterTypeRange) /\ waiting # f => typed[f] = text[f]

SentInv ==
  /\ sent # Absent /\ sent.to # Absent => sent.from <= sent.to
  /\ ~isInvalidDateRange =>
       IF sent = Absent THEN dateFrom = Absent /\ text["from"] = EmptyText
       ELSE /\ dateFrom = sent.from /\ text["from"] = TextOf(sent.from)
            /\ IF filterTypeRange THEN text["to"] = TextOf(sent.to) ELSE sent.to = Absent

OrderInv == ~passed /\ dateFrom # Absent /\ dateTo # Absent => dateFrom <= dateTo

RangeInv == RangeTypeOK /\ TypedInv /\ SentInv /\ OrderInv

-----------------------------------------------------------------------------
\* Days and times of dates.
LEMMA DateFacts ==
  /\ \A d \in 1 .. Days, t \in 0 .. 3 : At(d, t) \in Dates
  /\ \A date \in Dates : /\ date \in Nat /\ date > 1
                         /\ DayOf(date) \in 1 .. Days /\ TimeOf(date) \in 0 .. 3
                         /\ date = At(DayOf(date), TimeOf(date))
<1>1. ASSUME NEW d \in 1 .. Days, NEW t \in 0 .. 3 PROVE At(d, t) \in Dates
  BY <1>1 DEF Dates, FirstSecond, LastSecond
<1>2. ASSUME NEW date \in Dates
      PROVE  /\ date \in Nat /\ date > 1 /\ DayOf(date) \in 1 .. Days /\ TimeOf(date) \in 0 .. 3
             /\ date = At(DayOf(date), TimeOf(date))
  <2>1. PICK d \in 1 .. Days, t \in 0 .. 3 : date = At(d, t)
    BY <1>2 DEF Dates, FirstSecond, LastSecond
  <2>2. d \in Int /\ d >= 1 /\ t \in Int /\ date = 4 * d + t
    BY <2>1, DateRangeAssumption DEF At
  <2>3. DayOf(date) = d /\ TimeOf(date) = t
    BY <2>1, <2>2 DEF DayOf, TimeOf
  <2>4. date \in Nat /\ date > 1
    BY <2>2
  <2>5. DayOf(date) \in 1 .. Days /\ TimeOf(date) \in 0 .. 3 /\ date = At(DayOf(date), TimeOf(date))
    BY <2>1, <2>3
  <2> QED BY <2>4, <2>5
<1> QED BY <1>1, <1>2

LEMMA TextFacts ==
  /\ \A date \in NoOrDate : TextOf(date) \in Texts
  /\ \A string \in Texts : /\ DateOf(string) \in NoOrDate
                           /\ DateOf(string) # Absent => TextOf(DateOf(string)) = string
                           /\ DateOf(string) = Absent <=> string \in {EmptyText, Junk}
  /\ Absent \notin Dates /\ Absent \notin Chosens /\ Absent \notin Fields
  /\ EmptyText # Junk /\ EmptyText \notin Dates /\ Junk \notin Dates
<1>1. EmptyText # Junk /\ EmptyText \notin Dates /\ Junk \notin Dates
  BY DateFacts DEF EmptyText, Junk
<1>2. Absent \notin Dates /\ Absent \notin Chosens /\ Absent \notin Fields
  BY DateFacts, NoDateAssumption DEF Chosens, NoOrDate
<1> QED BY <1>1, <1>2 DEF TextOf, DateOf, NoOrDate, Texts

\* Dates that are sent together are in order.
LEMMA OrderedFacts ==
  ASSUME NEW from \in NoOrDate, NEW to \in NoOrDate, Ordered(from, to)
  PROVE  /\ from \in Dates /\ to \in Dates /\ from <= to
         /\ Chosen(from, to) \in Chosens /\ Chosen(from, to) # Absent
         /\ Chosen(from, to).from = from /\ Chosen(from, to).to = to
BY TextFacts DEF Ordered, NoOrDate, Chosen, Chosens

LEMMA ChosenFacts ==
  ASSUME NEW date \in Dates
  PROVE  /\ Chosen(date, Absent) \in Chosens /\ Chosen(date, Absent) # Absent
         /\ Chosen(date, Absent).from = date /\ Chosen(date, Absent).to = Absent
BY TextFacts DEF NoOrDate, Chosen, Chosens

\* What is bound is shown, but in an input where the user has typed.
LEMMA BindFacts ==
  ASSUME RangeTypeOK, NEW from \in Texts, NEW to \in Texts, Bind(from, to)
  PROVE  /\ text' \in [Fields -> Texts] /\ typed' \in [Fields -> Texts]
         /\ text'["from"] = from /\ text'["to"] = to
         /\ \A f \in Fields : text'[f] # text[f] => typed'[f] = text'[f]
         /\ \A f \in Fields : typed[f] = text[f] => typed'[f] = text'[f]
         /\ \A f \in Fields : text'[f] = text[f] => typed'[f] = typed[f]
<1>1. text' = [text EXCEPT !["from"] = from, !["to"] = to]
      /\ typed' = [f \in Fields |-> IF text'[f] # text[f] THEN text'[f] ELSE typed[f]]
  BY DEF Bind
<1>2. text' \in [Fields -> Texts] /\ text'["from"] = from /\ text'["to"] = to
  BY <1>1 DEF RangeTypeOK, Fields
<1> QED BY <1>1, <1>2 DEF RangeTypeOK

\* The four ways to set dates keep what is shown in step with what is sent.
LEMMA CheckInv ==
  ASSUME RangeInv, NEW from \in NoOrDate, NEW to \in NoOrDate, CheckRangeValidityAndEmit(from, to),
         filterTypeRange, UNCHANGED <<filterTypeRange, waiting, passed, lost>>,
         from # Absent /\ to # Absent => from <= to
  PROVE  RangeInv'
<1>1. /\ dateFrom' = from /\ dateTo' = to /\ isInvalidDateRange' = ~Ordered(from, to)
      /\ Bind(TextOf(from), TextOf(to))
      /\ sent' = IF Ordered(from, to) THEN Chosen(from, to) ELSE sent
  BY DEF CheckRangeValidityAndEmit
<1>2. TextOf(from) \in Texts /\ TextOf(to) \in Texts
  BY TextFacts
<1>3. /\ text' \in [Fields -> Texts] /\ typed' \in [Fields -> Texts]
      /\ text'["from"] = TextOf(from) /\ text'["to"] = TextOf(to)
      /\ \A f \in Fields : typed[f] = text[f] => typed'[f] = text'[f]
  BY <1>1, <1>2, BindFacts DEF RangeInv
<1>4. sent' \in Chosens \union {Absent} /\ isInvalidDateRange' \in BOOLEAN
  BY <1>1, OrderedFacts DEF RangeInv, RangeTypeOK, Ordered
<1>5. RangeTypeOK'
  BY <1>1, <1>3, <1>4 DEF RangeInv, RangeTypeOK
<1>6. TypedInv' /\ OrderInv'
  BY <1>1, <1>3 DEF RangeInv, TypedInv, OrderInv
<1>7. SentInv'
  <2>1. CASE Ordered(from, to)
    <3>1. /\ from \in Dates /\ from <= to /\ sent' # Absent /\ sent'.from = from /\ sent'.to = to
      BY <1>1, <2>1, OrderedFacts
    <3> QED BY <1>1, <1>3, <3>1 DEF SentInv
  <2>2. CASE ~Ordered(from, to)
    BY <1>1, <2>2 DEF RangeInv, SentInv
  <2> QED BY <2>1, <2>2
<1> QED BY <1>5, <1>6, <1>7 DEF RangeInv

LEMMA SingleInv ==
  ASSUME RangeInv, NEW date \in Dates, UpdateSingleDate(date), filterTypeRange' = FALSE,
         UNCHANGED <<waiting, passed, lost>>
  PROVE  RangeInv'
<1>1. /\ dateFrom' = date /\ dateTo' = Absent /\ isInvalidDateRange' = FALSE
      /\ Bind(TextOf(date), text["to"]) /\ sent' = Chosen(date, Absent)
  BY DEF UpdateSingleDate
<1>2. TextOf(date) \in Texts /\ text["to"] \in Texts
  BY TextFacts DEF RangeInv, RangeTypeOK, NoOrDate, Fields
<1>3. /\ text' \in [Fields -> Texts] /\ typed' \in [Fields -> Texts]
      /\ text'["from"] = TextOf(date)
      /\ \A f \in Fields : typed[f] = text[f] => typed'[f] = text'[f]
  BY <1>1, <1>2, BindFacts DEF RangeInv
<1>4. sent' \in Chosens /\ sent' # Absent /\ sent'.from = date /\ sent'.to = Absent
  BY <1>1, ChosenFacts
<1>5. RangeTypeOK'
  BY <1>1, <1>3, <1>4 DEF RangeInv, RangeTypeOK, NoOrDate
<1>6. TypedInv'
  BY <1>3 DEF RangeInv, TypedInv, Fields
<1>7. SentInv' /\ OrderInv'
  BY <1>1, <1>3, <1>4 DEF SentInv, OrderInv
<1> QED BY <1>5, <1>6, <1>7 DEF RangeInv

LEMMA UpdateRangeInv ==
  ASSUME RangeInv, NEW from \in Texts, NEW to \in Texts, UpdateDateRange(from, to),
         filterTypeRange, UNCHANGED <<filterTypeRange, lost>>, passed' = TRUE, waiting' = Absent,
         waiting \in Fields, (IF waiting = "from" THEN from ELSE to) = typed[waiting],
         (IF waiting = "from" THEN to = text["to"] ELSE from = text["from"])
  PROVE  RangeInv'
<1> DEFINE first == DateOf(from)
           second == DateOf(to)
<1>1. /\ Bind(from, to) /\ dateFrom' = first /\ dateTo' = second
      /\ isInvalidDateRange' = (~Ordered(first, second) /\ {from, to} # {EmptyText})
      /\ sent' = IF Ordered(first, second) THEN Chosen(first, second)
                 ELSE IF {from, to} = {EmptyText} THEN Absent ELSE sent
  BY DEF UpdateDateRange
<1>2. first \in NoOrDate /\ second \in NoOrDate
  BY TextFacts
<1>3. /\ text' \in [Fields -> Texts] /\ typed' \in [Fields -> Texts]
      /\ text'["from"] = from /\ text'["to"] = to
      /\ \A f \in Fields : text'[f] # text[f] => typed'[f] = text'[f]
      /\ \A f \in Fields : typed[f] = text[f] => typed'[f] = text'[f]
      /\ \A f \in Fields : text'[f] = text[f] => typed'[f] = typed[f]
  BY <1>1, BindFacts DEF RangeInv
<1>4. Ordered(first, second) =>
        /\ first \in Dates /\ first <= second /\ Chosen(first, second) \in Chosens
        /\ Chosen(first, second) # Absent
        /\ Chosen(first, second).from = first /\ Chosen(first, second).to = second
        /\ TextOf(first) = from /\ TextOf(second) = to
  BY <1>2, OrderedFacts, TextFacts DEF Ordered
<1>5. {from, to} = {EmptyText} => from = EmptyText /\ first = Absent
  BY TextFacts
<1> HIDE DEF first, second
<1>6. RangeTypeOK'
  <2>1. sent' \in Chosens \union {Absent} /\ isInvalidDateRange' \in BOOLEAN
    BY <1>1, <1>4 DEF RangeInv, RangeTypeOK
  <2> QED BY <1>1, <1>2, <1>3, <2>1 DEF RangeInv, RangeTypeOK
<1>7. TypedInv'
  <2> SUFFICES ASSUME ~lost, NEW f \in Fields PROVE typed'[f] = text'[f]
    BY DEF TypedInv
  <2>1. CASE f = waiting
    BY <1>3, <2>1 DEF Fields
  <2>2. CASE f # waiting
    BY <1>3, <2>2 DEF RangeInv, TypedInv
  <2> QED BY <2>1, <2>2
<1>8. SentInv'
  <2>1. CASE Ordered(first, second)
    <3>1. /\ first <= second /\ sent' # Absent /\ sent'.from = first /\ sent'.to = second
          /\ TextOf(first) = from /\ TextOf(second) = to
      BY <1>1, <1>4, <2>1
    <3> QED BY <1>1, <1>3, <3>1 DEF SentInv
  <2>2. CASE ~Ordered(first, second) /\ {from, to} = {EmptyText}
    BY <1>1, <1>3, <1>5, <2>2 DEF SentInv
  <2>3. CASE ~Ordered(first, second) /\ {from, to} # {EmptyText}
    BY <1>1, <2>3 DEF RangeInv, SentInv
  <2> QED BY <2>1, <2>2, <2>3
<1>9. OrderInv'
  BY DEF OrderInv
<1> QED BY <1>6, <1>7, <1>8, <1>9 DEF RangeInv

LEMMA SingleInputInv ==
  ASSUME RangeInv, waiting \in Fields, SingleDateInputChanged(typed[waiting]),
         ~filterTypeRange, UNCHANGED <<filterTypeRange, lost>>, passed' = TRUE, waiting' = Absent
  PROVE  RangeInv'
<1>0. PICK string \in Texts : string = typed[waiting]
  BY DEF RangeInv, RangeTypeOK
<1>1. /\ Bind(string, text["to"]) /\ dateFrom' = DateOf(string) /\ UNCHANGED dateTo
      /\ isInvalidDateRange' = (string = Junk)
      /\ sent' = IF string = Junk THEN sent
                 ELSE IF string = EmptyText THEN Absent ELSE Chosen(DateOf(string), Absent)
  BY <1>0 DEF SingleDateInputChanged
<1>2. text["to"] \in Texts
  BY DEF RangeInv, RangeTypeOK, Fields
<1>3. /\ text' \in [Fields -> Texts] /\ typed' \in [Fields -> Texts]
      /\ text'["from"] = string
      /\ \A f \in Fields : text'[f] # text[f] => typed'[f] = text'[f]
      /\ \A f \in Fields : text'[f] = text[f] => typed'[f] = typed[f]
  BY <1>1, <1>2, BindFacts DEF RangeInv
<1>4. ASSUME string \in Dates PROVE RangeTypeOK' /\ SentInv'
  <2>1. string \notin {EmptyText, Junk} /\ DateOf(string) = string /\ TextOf(string) = string
    BY <1>4, TextFacts DEF DateOf, TextOf
  <2>2. /\ sent' \in Chosens /\ sent' # Absent /\ sent'.from = string /\ sent'.to = Absent
        /\ isInvalidDateRange' = FALSE /\ dateFrom' = string
    BY <1>1, <1>4, <2>1, ChosenFacts
  <2>3. RangeTypeOK'
    BY <1>1, <1>3, <1>4, <2>2 DEF RangeInv, RangeTypeOK, NoOrDate
  <2>4. SentInv'
    BY <1>3, <2>1, <2>2 DEF SentInv
  <2> QED BY <2>3, <2>4
<1>5. ASSUME string = EmptyText PROVE RangeTypeOK' /\ SentInv'
  <2>1. sent' = Absent /\ isInvalidDateRange' = FALSE /\ dateFrom' = Absent
    BY <1>1, <1>5, TextFacts DEF DateOf
  <2>2. RangeTypeOK'
    BY <1>1, <1>3, <2>1 DEF RangeInv, RangeTypeOK, NoOrDate
  <2>3. SentInv'
    BY <1>1, <1>3, <1>5, <2>1 DEF SentInv
  <2> QED BY <2>2, <2>3
<1>6. ASSUME string = Junk PROVE RangeTypeOK' /\ SentInv'
  <2>1. sent' = sent /\ isInvalidDateRange' = TRUE /\ dateFrom' = Absent
    BY <1>1, <1>6, TextFacts DEF DateOf
  <2>2. RangeTypeOK'
    BY <1>1, <1>3, <2>1 DEF RangeInv, RangeTypeOK, NoOrDate
  <2>3. SentInv'
    BY <1>1, <1>3, <2>1 DEF RangeInv, SentInv
  <2> QED BY <2>2, <2>3
<1>7. TypedInv'
  <2> SUFFICES ASSUME ~lost PROVE typed'["from"] = text'["from"]
    BY DEF TypedInv
  <2>1. text["from"] = string => typed["from"] = string
    BY <1>0 DEF RangeInv, TypedInv, Fields
  <2> QED BY <1>3, <2>1 DEF Fields
<1>8. RangeTypeOK' /\ SentInv'
  BY <1>4, <1>5, <1>6 DEF Texts
<1>9. OrderInv'
  BY DEF OrderInv
<1> QED BY <1>7, <1>8, <1>9 DEF RangeInv

\* Each step keeps the four copies in step.
LEMMA TypeDateInv ==
  ASSUME RangeInv, NEW field \in Fields, NEW string \in Texts, TypeDate(field, string)
  PROVE  RangeInv'
<1>1. /\ (field = "from" \/ filterTypeRange) /\ typed' = [typed EXCEPT ![field] = string]
      /\ waiting' = field
      /\ lost' = (lost \/ (waiting \notin {field, Absent} /\ typed[waiting] # text[waiting]))
      /\ UNCHANGED <<filterTypeRange, dateFrom, dateTo, text, passed, isInvalidDateRange, sent>>
  BY DEF TypeDate
<1>2. lost' \in BOOLEAN
  BY Zenon, <1>1 DEF RangeInv, RangeTypeOK
<1>3. typed' \in [Fields -> Texts] /\ \A f \in Fields : f # field => typed'[f] = typed[f]
  BY <1>1 DEF RangeInv, RangeTypeOK
<1>4. RangeTypeOK'
  BY <1>1, <1>2, <1>3 DEF RangeInv, RangeTypeOK
<1>5. TypedInv'
  <2> SUFFICES ASSUME ~lost', NEW f \in Fields, f = "from" \/ filterTypeRange, f # field
               PROVE  typed[f] = text[f]
    BY <1>1, <1>3 DEF TypedInv
  <2>1. ~lost /\ (waiting \in {field, Absent} \/ typed[waiting] = text[waiting])
    BY <1>1
  <2>2. CASE f = waiting
    BY <2>1, <2>2, TextFacts
  <2>3. CASE f # waiting
    BY <2>1, <2>3 DEF RangeInv, TypedInv
  <2> QED BY <2>2, <2>3
<1>6. SentInv' /\ OrderInv'
  BY <1>1 DEF RangeInv, SentInv, OrderInv
<1> QED BY <1>4, <1>5, <1>6 DEF RangeInv

LEMMA DebounceInv ==
  ASSUME RangeInv, DebounceOver
  PROVE  RangeInv'
<1>1. waiting \in Fields /\ waiting' = Absent /\ UNCHANGED <<filterTypeRange, lost>>
      /\ Absent \notin Fields
  BY TextFacts DEF DebounceOver, RangeInv, RangeTypeOK
<1>2. typed[waiting] \in Texts /\ text["from"] \in Texts /\ text["to"] \in Texts
  BY <1>1 DEF RangeInv, RangeTypeOK, Fields
<1>3. CASE passed /\ typed[waiting] = text[waiting]
  <2>1. UNCHANGED <<dateFrom, dateTo, text, typed, passed, isInvalidDateRange, sent>>
    BY <1>3 DEF DebounceOver
  <2>2. RangeTypeOK' /\ SentInv' /\ OrderInv'
    BY <1>1, <2>1 DEF RangeInv, RangeTypeOK, SentInv, OrderInv
  <2>3. TypedInv'
    BY <1>1, <1>3, <2>1 DEF RangeInv, TypedInv
  <2> QED BY <2>2, <2>3 DEF RangeInv
<1>4. CASE ~(passed /\ typed[waiting] = text[waiting])
  <2>1. /\ passed' = TRUE
        /\ IF ~filterTypeRange THEN SingleDateInputChanged(typed[waiting])
           ELSE IF waiting = "from" THEN UpdateDateRange(typed[waiting], text["to"])
           ELSE UpdateDateRange(text["from"], typed[waiting])
    BY <1>4 DEF DebounceOver
  <2>2. CASE ~filterTypeRange
    BY <1>1, <2>1, <2>2, SingleInputInv
  <2>3. CASE filterTypeRange /\ waiting = "from"
    <3>1. UpdateDateRange(typed[waiting], text["to"])
      BY <2>1, <2>3
    <3> QED BY <1>1, <1>2, <2>1, <2>3, <3>1, UpdateRangeInv
  <2>4. CASE filterTypeRange /\ waiting # "from"
    <3>1. UpdateDateRange(text["from"], typed[waiting])
      BY <2>1, <2>4
    <3> QED BY <1>1, <1>2, <2>1, <2>4, <3>1, UpdateRangeInv
  <2> QED BY <2>2, <2>3, <2>4
<1> QED BY <1>3, <1>4

LEMMA PickInRangeInv ==
  ASSUME RangeInv, NEW date \in Dates, PickInRange(date), filterTypeRange,
         UNCHANGED <<filterTypeRange, waiting, passed, lost>>
  PROVE  RangeInv'
<1>1. date \in NoOrDate /\ Absent \in NoOrDate /\ date \in Nat
      /\ DayOf(date) \in 1 .. Days /\ TimeOf(date) \in 0 .. 3 /\ date = At(DayOf(date), TimeOf(date))
  BY DateFacts DEF NoOrDate
<1>2. /\ At(DayOf(date), LastSecond) \in Dates /\ date <= At(DayOf(date), LastSecond)
      /\ At(DayOf(date), FirstSecond) \in Dates /\ At(DayOf(date), FirstSecond) <= date
  BY <1>1, DateFacts, DateRangeAssumption DEF At, LastSecond, FirstSecond
<1>3. CASE dateFrom = Absent \/ dateTo # Absent
  <2>1. CheckRangeValidityAndEmit(date, Absent)
    BY <1>3 DEF PickInRange
  <2> QED BY <1>1, <2>1, CheckInv
<1>4. CASE ~(dateFrom = Absent \/ dateTo # Absent)
  <2>1. dateFrom \in Dates /\ dateFrom \in Nat /\ dateFrom \in NoOrDate
        /\ DayOf(dateFrom) \in 1 .. Days /\ TimeOf(dateFrom) \in 0 .. 3
        /\ dateFrom = At(DayOf(dateFrom), TimeOf(dateFrom))
    BY <1>4, DateFacts DEF RangeInv, RangeTypeOK, NoOrDate
  <2>2. At(DayOf(dateFrom), LastSecond) \in Dates /\ dateFrom <= At(DayOf(dateFrom), LastSecond)
    BY <2>1, DateFacts, DateRangeAssumption DEF At, LastSecond
  <2>3. CASE date >= dateFrom
    <3> DEFINE to == At(DayOf(date), LastSecond)
    <3>1. CheckRangeValidityAndEmit(dateFrom, to)
      BY <1>4, <2>3 DEF PickInRange
    <3>2. to \in NoOrDate /\ dateFrom <= to
      <4>1. date <= to /\ to \in Dates
        BY <1>2
      <4> HIDE DEF to
      <4>2. to \in Nat
        BY <4>1, DateFacts
      <4> QED BY <1>1, <2>1, <2>3, <4>1, <4>2 DEF NoOrDate
    <3> HIDE DEF to
    <3> QED BY <2>1, <3>1, <3>2, CheckInv
  <2>4. CASE ~(date >= dateFrom)
    <3> DEFINE from == At(DayOf(date), FirstSecond)
               to == IF TimeOf(dateFrom) = FirstSecond THEN At(DayOf(dateFrom), LastSecond)
                     ELSE dateFrom
    <3>1. CheckRangeValidityAndEmit(from, to)
      BY <1>4, <2>4 DEF PickInRange
    <3>2. to \in Dates /\ dateFrom <= to
      BY <2>1, <2>2
    <3>3. from \in Dates /\ from <= date
      BY <1>2
    <3> HIDE DEF from, to
    <3>4. from \in NoOrDate /\ to \in NoOrDate /\ from <= to
      BY <1>1, <2>1, <2>4, <3>2, <3>3, DateFacts DEF NoOrDate
    <3> QED BY <3>1, <3>4, CheckInv
  <2> QED BY <2>3, <2>4
<1> QED BY <1>3, <1>4

LEMMA PickDayInv ==
  ASSUME RangeInv, NEW day \in 1 .. Days, PickDay(day)
  PROVE  RangeInv'
<1> DEFINE time == IF dateFrom = Absent THEN FirstSecond
                   ELSE IF TimeOf(dateFrom) = LastSecond THEN LastMinute ELSE TimeOf(dateFrom)
<1>1. time \in 0 .. 3
  BY DateFacts DEF RangeInv, RangeTypeOK, NoOrDate, FirstSecond, LastSecond, LastMinute
<1>2. At(day, time) \in Dates
  BY <1>1, DateFacts
<1>3. /\ IF filterTypeRange THEN PickInRange(At(day, time)) ELSE UpdateSingleDate(At(day, time))
      /\ UNCHANGED <<filterTypeRange, waiting, passed, lost>>
  BY DEF PickDay
<1> HIDE DEF time
<1>4. CASE filterTypeRange
  BY <1>2, <1>3, <1>4, PickInRangeInv
<1>5. CASE ~filterTypeRange
  <2>1. filterTypeRange' = FALSE
    BY <1>3, <1>5 DEF RangeInv, RangeTypeOK
  <2> QED BY <1>2, <1>3, <1>5, <2>1, SingleInv
<1> QED BY <1>4, <1>5

LEMMA ChangeTimeInv ==
  ASSUME RangeInv, NEW field \in Fields, NEW time \in 0 .. 3, ChangeTime(field, time)
  PROVE  RangeInv'
<1> DEFINE from == IF field = "from" THEN At(DayOf(dateFrom), time) ELSE dateFrom
           to == IF field = "to" THEN At(DayOf(dateTo), time) ELSE dateTo
<1>1. /\ IF field = "from" THEN dateFrom # Absent ELSE filterTypeRange /\ dateTo # Absent
      /\ IF ~filterTypeRange THEN UpdateSingleDate(from)
         ELSE IF from # Absent /\ to # Absent /\ from > to THEN CheckRangeValidityAndEmit(to, from)
         ELSE CheckRangeValidityAndEmit(from, to)
      /\ UNCHANGED <<filterTypeRange, waiting, passed, lost>>
  BY DEF ChangeTime
<1>2. from \in NoOrDate /\ to \in NoOrDate /\ (field = "from" => from \in Dates)
  <2>1. field = "from" => At(DayOf(dateFrom), time) \in Dates
    BY <1>1, DateFacts DEF RangeInv, RangeTypeOK, NoOrDate
  <2>2. field = "to" => At(DayOf(dateTo), time) \in Dates
    BY <1>1, DateFacts DEF RangeInv, RangeTypeOK, NoOrDate
  <2> QED BY <2>1, <2>2 DEF RangeInv, RangeTypeOK, NoOrDate
<1> HIDE DEF from, to
<1>3. CASE ~filterTypeRange
  <2>1. filterTypeRange' = FALSE /\ field = "from" /\ UpdateSingleDate(from)
    BY <1>1, <1>3 DEF RangeInv, RangeTypeOK
  <2> QED BY <1>1, <1>2, <2>1, SingleInv
<1>4. CASE filterTypeRange /\ from # Absent /\ to # Absent /\ from > to
  <2>1. CheckRangeValidityAndEmit(to, from)
    BY <1>1, <1>4
  <2>2. to <= from
    BY <1>2, <1>4, DateFacts DEF NoOrDate
  <2> QED BY <1>1, <1>2, <1>4, <2>1, <2>2, CheckInv
<1>5. CASE filterTypeRange /\ ~(from # Absent /\ to # Absent /\ from > to)
  <2>1. CheckRangeValidityAndEmit(from, to)
    BY <1>1, <1>5
  <2>2. from # Absent /\ to # Absent => from <= to
    BY <1>2, <1>5, DateFacts DEF NoOrDate
  <2> QED BY <1>1, <1>2, <1>5, <2>1, <2>2, CheckInv
<1> QED BY <1>3, <1>4, <1>5

LEMMA SelectSingleInv ==
  ASSUME RangeInv, SelectSingleDate
  PROVE  RangeInv'
<1>1. filterTypeRange' = FALSE /\ UNCHANGED <<waiting, passed, lost>>
  BY DEF SelectSingleDate
<1>2. CASE dateFrom = Absent
  <2>1. dateTo' = Absent /\ UNCHANGED <<dateFrom, text, typed, isInvalidDateRange, sent>>
    BY <1>2 DEF SelectSingleDate
  <2>2. ~isInvalidDateRange => sent = Absent
    BY <1>2, TextFacts DEF RangeInv, SentInv, RangeTypeOK, Chosens
  <2>3. RangeTypeOK' /\ OrderInv'
    BY <1>1, <2>1 DEF RangeInv, RangeTypeOK, NoOrDate, OrderInv
  <2>4. TypedInv' /\ SentInv'
    BY <1>1, <2>1, <2>2 DEF RangeInv, TypedInv, SentInv
  <2> QED BY <2>3, <2>4 DEF RangeInv
<1>3. CASE dateFrom # Absent
  <2>1. UpdateSingleDate(dateFrom) /\ dateFrom \in Dates
    BY <1>3 DEF SelectSingleDate, RangeInv, RangeTypeOK, NoOrDate
  <2> QED BY <1>1, <2>1, SingleInv
<1> QED BY <1>2, <1>3

LEMMA SelectRangeInv ==
  ASSUME RangeInv, SelectRange
  PROVE  RangeInv'
<1> DEFINE from == IF dateFrom = Absent THEN text["from"] ELSE TextOf(dateFrom)
           to == IF dateFrom = Absent THEN text["to"] ELSE EmptyText
<1>1. /\ ~filterTypeRange /\ waiting # "to" /\ filterTypeRange' = TRUE /\ dateTo' = Absent
      /\ text' = [f \in Fields |-> IF f = "from" THEN from ELSE to]
      /\ typed' = [f \in Fields |-> IF f = "to" THEN to
                                   ELSE IF from # text["from"] THEN from ELSE typed["from"]]
      /\ UNCHANGED <<dateFrom, isInvalidDateRange, sent, waiting, passed, lost>>
  BY DEF SelectRange
<1>2. from \in Texts /\ to \in Texts
  BY TextFacts DEF RangeInv, RangeTypeOK, Fields, Texts
<1>3. ~isInvalidDateRange => /\ from = text["from"] \/ from = TextOf(dateFrom)
                             /\ sent = Absent => from = EmptyText
                             /\ sent # Absent => from = TextOf(sent.from) /\ to = EmptyText
  BY TextFacts DEF RangeInv, RangeTypeOK, SentInv, Chosens
<1> HIDE DEF from, to
<1>4. /\ text' \in [Fields -> Texts] /\ typed' \in [Fields -> Texts]
      /\ text'["from"] = from /\ text'["to"] = to /\ typed'["to"] = to
      /\ from # text["from"] => typed'["from"] = from
      /\ from = text["from"] => typed'["from"] = typed["from"]
  BY <1>1, <1>2 DEF Fields, RangeInv, RangeTypeOK
<1>5. RangeTypeOK' /\ OrderInv'
  BY <1>1, <1>4 DEF RangeInv, RangeTypeOK, NoOrDate, OrderInv
<1>6. TypedInv'
  BY <1>1, <1>4 DEF RangeInv, TypedInv, Fields
<1>7. SentInv'
  <2>1. TextOf(Absent) = EmptyText
    BY DEF TextOf
  <2> QED BY <1>1, <1>3, <1>4, <2>1 DEF RangeInv, SentInv
<1> QED BY <1>5, <1>6, <1>7 DEF RangeInv

\* The inductive invariant of the date selector.
THEOREM RangeInvariant == Spec => []RangeInv
<1>1. RangeInit => RangeInv
  BY DEF RangeInit, RangeInv, RangeTypeOK, NoOrDate, Texts, TypedInv, SentInv, OrderInv, Fields
<1>2. RangeInv /\ [RangeNext]_rangeVars => RangeInv'
  <2> SUFFICES ASSUME RangeInv, [RangeNext]_rangeVars PROVE RangeInv'
    OBVIOUS
  <2>1. CASE UNCHANGED rangeVars
    BY <2>1 DEF rangeVars, RangeInv, RangeTypeOK, TypedInv, SentInv, OrderInv
  <2>2. FirstSecond .. LastMinute \subseteq 0 .. 3
    BY DEF FirstSecond, LastMinute
  <2> QED
    BY <2>1, <2>2, TypeDateInv, ChangeTimeInv, DebounceInv, SelectSingleInv, SelectRangeInv, PickDayInv
    DEF RangeNext
<1> QED BY <1>1, <1>2, AllWidgetsStart, OneWidgetMoves, PTL DEF Spec, widgetVars

\* What the date selector sent is a date or an ordered range, and at rest it
\* is what the inputs show, whichever of picking, typing, changing a time
\* and switching came in which order (date-selector.component.ts).
THEOREM RangeIsShown == Spec => []RangeSentIsShown
<1>1. RangeInv => RangeSentIsShown
  <2> SUFFICES ASSUME RangeInv, waiting = Absent, ~lost, ~isInvalidDateRange
               PROVE  IF sent = Absent THEN typed["from"] = EmptyText
                      ELSE /\ TextOf(sent.from) = typed["from"]
                           /\ IF filterTypeRange THEN TextOf(sent.to) = typed["to"] ELSE sent.to = Absent
    BY DEF RangeInv, RangeSentIsShown, SentInv, OrderInv
  <2>1. typed["from"] = text["from"] /\ (filterTypeRange => typed["to"] = text["to"])
    BY TextFacts DEF RangeInv, TypedInv, Fields
  <2> QED BY <2>1 DEF RangeInv, SentInv
<1> QED BY <1>1, RangeInvariant, PTL

-----------------------------------------------------------------------------
(***************************************************************************)
(* The migration dialog, for any versions and any number of dialogs and    *)
(* requests.  RequestsInv: a dialog has one request at a time, and one     *)
(* that is dismissed leaves it behind with the flag that says so.          *)
(* ViewersInv: the newest import of a viewer is of the version it is for,  *)
(* the source is drawn once, and from the drawing of the target on the     *)
(* marks are the differences, because the lists a stale showDiff left      *)
(* never name a deletion that the old version lacks.                       *)
(***************************************************************************)

SomeVersion == AllVersions \union {Absent}
Views == [id : SomeVersion, fetched : SomeVersion, imports : Seq(AllVersions),
          shown : SomeVersion \union {Empty}, marks : SUBSET Nat, failed : BOOLEAN]
Diffs == [additions : SUBSET Nat, deletions : SUBSET Nat]
Migrations == [dialog : 1 .. MaxDialogs, target : AllVersions, retargeted : BOOLEAN]
Tries == [batches : Nat, errors : Nat]

MigrateTypeOK ==
  /\ dialog \in 1 .. MaxDialogs /\ isShown \in BOOLEAN
  /\ newVersionNumber \in [1 .. MaxDialogs -> SomeVersion]
  /\ isDiagramOpen \in BOOLEAN /\ isMigrating \in BOOLEAN /\ sourceLate \in BOOLEAN
  /\ diff \in Diffs /\ viewer \in [Sides -> Views]
  /\ migrations \subseteq Migrations
  /\ tries \in [1 .. MaxDialogs -> Tries]

\* A dialog that may still get a batch it asks for
MayAsk(d) == d > dialog \/ (d = dialog /\ isShown) \/ \E m \in migrations : m.dialog = d

RequestsInv ==
  /\ targetDefinitionId = newVersionNumber[dialog]
  /\ versions # "loaded" => newVersionNumber[dialog] = Absent
  /\ \A m \in migrations :
       /\ m.dialog <= dialog /\ newVersionNumber[m.dialog] # Absent
       /\ m.dialog = dialog => isMigrating
       /\ newVersionNumber[m.dialog] = m.target \/ m.retargeted
  /\ \A m, n \in migrations : m.dialog = n.dialog => m = n
  /\ \A t \in migrated : t.version = t.request.target \/ t.request.retargeted
  /\ \A d \in 1 .. MaxDialogs :
       tries[d].batches <= tries[d].errors + (IF MayAsk(d) THEN 0 ELSE 1)

\* What a viewer that is for this version shows once nothing is under way
Aims(v, version) ==
  /\ v.id \in {Absent, version}
  /\ v.id = Absent => v.fetched = Absent /\ v.imports = <<>> /\ v.shown = Absent
  /\ v.fetched \in {Absent, v.id}
  /\ v.id # Absent /\ v.fetched = Absent /\ ~v.failed =>
       \/ v.shown = v.id
       \/ v.shown = Empty /\ v.imports # <<>> /\ v.imports[Len(v.imports)] = v.id

\* The source is fetched and drawn once
DrawnOnce(v) ==
  /\ v.shown \in {Absent, Empty, OldVersion} /\ v.imports \in {<<>>, <<OldVersion>>}
  /\ v.fetched # Absent => v.shown = Absent /\ v.imports = <<>>

MarksFit(d, views) ==
  /\ d.deletions \subseteq ElementsOf(OldVersion)
  /\ views.source.marks \subseteq d.deletions
  /\ views.target.shown = Empty => views.target.marks = {}

MarksExact(views) ==
  /\ views.source.shown = OldVersion
  /\ views.target.marks = ElementsOf(views.target.shown) \ ElementsOf(OldVersion)
  /\ views.source.marks = ElementsOf(OldVersion) \ ElementsOf(views.target.shown)

ViewersInv ==
  /\ Aims(viewer.source, OldVersion) /\ DrawnOnce(viewer.source)
  /\ Aims(viewer.target, newVersionNumber[dialog])
  /\ ~isDiagramOpen => viewer.source.id = Absent /\ viewer.target.id = Absent
  /\ MarksFit(diff, viewer)
  /\ viewer.target.shown \in AllVersions /\ ~sourceLate => MarksExact(viewer)

MigrateInv == MigrateTypeOK /\ RequestsInv /\ ViewersInv

-----------------------------------------------------------------------------
\* Versions and what has no version.
LEMMA VersionFacts ==
  /\ OldVersion \in AllVersions /\ NearestVersion \in AllVersions
  /\ Absent \notin AllVersions /\ Empty \notin AllVersions /\ Empty # Absent
  /\ \A v \in AllVersions : ElementsOf(v) \subseteq Nat
  /\ ElementsOf(Empty) = {}
<1>1. AllVersions = 1 .. Len(VersionElements) /\ Len(VersionElements) \in Nat
  BY MigrateAssumption DEF AllVersions
<1>2. OldVersion \in AllVersions /\ NearestVersion \in AllVersions
  BY <1>1, MigrateAssumption DEF NearestVersion, AllVersions
<1>3. Absent \notin AllVersions /\ Empty \notin AllVersions /\ Empty # Absent
  BY <1>1, MigrateAssumption DEF Empty
<1>4. \A v \in AllVersions : ElementsOf(v) \subseteq Nat
  BY <1>1, <1>3, MigrateAssumption DEF ElementsOf
<1> QED BY <1>2, <1>3, <1>4 DEF ElementsOf

\* Removing an element keeps the last one, unless it is the last (RemoveAt).
LEMMA RemoveAtLast ==
  ASSUME NEW S, NEW s \in Seq(S), NEW i \in DOMAIN s
  PROVE  /\ RemoveAt(s, i) \in Seq(S) /\ Len(RemoveAt(s, i)) = Len(s) - 1
         /\ i # Len(s) => RemoveAt(s, i) # <<>>
                          /\ RemoveAt(s, i)[Len(RemoveAt(s, i))] = s[Len(s)]
<1> DEFINE a == SubSeq(s, 1, i - 1)
           b == SubSeq(s, i + 1, Len(s))
<1>1. i \in 1 .. Len(s) /\ Len(s) \in Nat
  OBVIOUS
<1>2. a \in Seq(S) /\ Len(a) = i - 1
  BY <1>1
<1>3. b \in Seq(S) /\ Len(b) = Len(s) - i /\ \A j \in 1 .. Len(s) - i : b[j] = s[i + j]
  BY <1>1
<1>4. RemoveAt(s, i) = a \o b
  BY DEF RemoveAt, a, b
<1> HIDE DEF a, b
<1>5. /\ a \o b \in Seq(S) /\ Len(a \o b) = Len(a) + Len(b)
      /\ \A j \in 1 .. Len(a) + Len(b) :
           (a \o b)[j] = IF j <= Len(a) THEN a[j] ELSE b[j - Len(a)]
  BY <1>2, <1>3, ConcatProperties
<1>6. Len(a \o b) = Len(s) - 1
  BY <1>1, <1>2, <1>3, <1>5
<1>7. ASSUME i # Len(s) PROVE a \o b # <<>> /\ (a \o b)[Len(a \o b)] = s[Len(s)]
  <2> DEFINE n == Len(s)  c == a \o b  la == Len(a)  lb == Len(b)
  <2>1. n \in Nat /\ i \in Nat /\ 1 <= i /\ i < n /\ la = i - 1 /\ lb = n - i
    BY <1>1, <1>2, <1>3, <1>7
  <2>2. Len(c) = n - 1
    BY <1>6
  <2>3. \A j \in 1 .. la + lb : c[j] = IF j <= la THEN a[j] ELSE b[j - la]
    BY <1>5
  <2>4. \A j \in 1 .. n - i : b[j] = s[i + j]
    BY <1>3
  <2> HIDE DEF n, c, la, lb
  <2>5. n - 1 \in 1 .. la + lb /\ ~(n - 1 <= la) /\ n - 1 - la = n - i
    <3>1. la + lb = n - 1 /\ n - 1 \in Nat /\ 1 <= n - 1
      BY <2>1
    <3>2. ~(n - 1 <= la)
      BY <2>1
    <3>3. n - 1 - la = n - i
      BY <2>1
    <3> QED BY <3>1, <3>2, <3>3
  <2>6. n - i \in 1 .. n - i /\ i + (n - i) = n
    BY <2>1
  <2>7. c[n - 1] = b[n - i]
    BY <2>3, <2>5
  <2>8. b[n - i] = s[n]
    BY <2>4, <2>6
  <2>9. c # <<>>
    <3> SUFFICES ASSUME c = <<>> PROVE FALSE
      OBVIOUS
    <3>1. Len(c) = 0
      OBVIOUS
    <3> QED BY <2>1, <2>2, <3>1
  <2> QED BY <2>2, <2>7, <2>8, <2>9 DEF n, c
<1> QED BY <1>4, <1>5, <1>6, <1>7

\* What showDiff leaves alone, and what becomes of the marks.
LEMMA DifferingFacts ==
  ASSUME NEW views \in [Sides -> Views], diff \in Diffs, MarksFit(diff, views),
         DrawnOnce(views.source)
  PROVE  LET after == Differing(views) IN
         /\ after.diff \in Diffs /\ after.viewer \in [Sides -> Views]
         /\ \A side \in Sides :
              /\ after.viewer[side].id = views[side].id
              /\ after.viewer[side].fetched = views[side].fetched
              /\ after.viewer[side].imports = views[side].imports
              /\ after.viewer[side].shown = views[side].shown
              /\ after.viewer[side].failed = views[side].failed
         /\ MarksFit(after.diff, after.viewer)
         /\ (/\ views.source.shown = OldVersion /\ views.target.shown \in AllVersions
             /\ views.target.marks \subseteq
                  ElementsOf(views.target.shown) \ ElementsOf(OldVersion))
            => MarksExact(after.viewer)
<1> DEFINE source == views.source.shown
           target == views.target.shown
           found == IF Absent \in {source, target} THEN diff
                    ELSE [additions |-> ElementsOf(target) \ ElementsOf(source),
                          deletions |-> ElementsOf(source) \ ElementsOf(target)]
           placed == {e \in found.additions : target # Absent /\ \A f \in found.additions :
                        f <= e => f \in ElementsOf(target)}
           deleted == IF source # Absent /\ (target # Absent => placed = found.additions)
                      THEN found.deletions ELSE {}
           clears == source # Absent => diff.deletions \subseteq ElementsOf(source)
           marked == [views EXCEPT !.target.marks = @ \union placed,
                                   !.source.marks = (@ \ diff.deletions) \union deleted]
<1>1. Differing(views) = IF clears THEN [diff |-> found, viewer |-> marked]
                         ELSE [diff |-> diff, viewer |-> views]
  BY DEF Differing
<1>2. views.source \in Views /\ views.target \in Views /\ views.source = views["source"]
      /\ views.target = views["target"] /\ diff.deletions \subseteq Nat /\ diff.additions \subseteq Nat
  BY DEF Sides, Diffs
<1>3. /\ source \in {Absent, Empty, OldVersion} /\ target \in SomeVersion \union {Empty}
      /\ views.source.marks \subseteq Nat /\ views.target.marks \subseteq Nat
  BY <1>2 DEF DrawnOnce, Views
<1>4. ElementsOf(source) \subseteq Nat \/ source = Absent
  BY <1>3, VersionFacts
<1>5. ElementsOf(target) \subseteq Nat \/ target = Absent
  BY <1>3, VersionFacts DEF SomeVersion
<1>6. found \in Diffs /\ found.additions \subseteq Nat /\ found.deletions \subseteq Nat
  BY <1>2, <1>4, <1>5 DEF Diffs
<1>7. found.deletions \subseteq ElementsOf(OldVersion)
  BY <1>3, VersionFacts DEF MarksFit
<1>8. placed \subseteq Nat /\ placed \subseteq found.additions
      /\ deleted \subseteq found.deletions
  BY <1>6
<1>9. target = Empty => placed = {}
  <2> SUFFICES ASSUME target = Empty, NEW e \in placed PROVE FALSE
    OBVIOUS
  <2>1. e \in Nat /\ e \in found.additions
    BY <1>8
  <2>2. e <= e => e \in ElementsOf(target)
    BY <2>1
  <2> QED BY <2>1, <2>2, VersionFacts
<1>10. source = OldVersion /\ target \in AllVersions =>
         /\ placed = ElementsOf(target) \ ElementsOf(OldVersion)
         /\ deleted = ElementsOf(OldVersion) \ ElementsOf(target)
         /\ clears
  BY VersionFacts DEF MarksFit
<1> HIDE DEF found, placed, deleted, clears
<1>11. marked \in [Sides -> Views]
       /\ marked.target.marks = views.target.marks \union placed
       /\ marked.source.marks = (views.source.marks \ diff.deletions) \union deleted
       /\ \A side \in Sides :
              /\ marked[side].id = views[side].id /\ marked[side].fetched = views[side].fetched
              /\ marked[side].imports = views[side].imports
              /\ marked[side].shown = views[side].shown /\ marked[side].failed = views[side].failed
  <2>1. views.target.marks \union placed \in SUBSET Nat
        /\ (views.source.marks \ diff.deletions) \union deleted \in SUBSET Nat
    BY <1>3, <1>6, <1>8
  <2> QED BY <1>2, <2>1 DEF Sides, Views
<1> HIDE DEF marked
<1>12. clears => MarksFit(found, marked)
  <2> SUFFICES ASSUME clears PROVE MarksFit(found, marked)
    OBVIOUS
  <2>1. marked.source.marks \subseteq found.deletions
    BY <1>8, <1>11 DEF MarksFit
  <2>2. marked.target.shown = target
    BY <1>2, <1>11 DEF Sides
  <2>3. marked.target.shown = Empty => marked.target.marks = {}
    BY <1>9, <1>11, <2>2 DEF MarksFit
  <2> QED BY <1>7, <2>1, <2>3 DEF MarksFit
<1>13. ASSUME source = OldVersion, target \in AllVersions,
              views.target.marks \subseteq ElementsOf(target) \ ElementsOf(OldVersion)
       PROVE  clears /\ MarksExact(marked)
  <2>1. marked.target.shown = target /\ marked.source.shown = source
    BY <1>2, <1>11 DEF Sides
  <2>2. marked.target.marks = ElementsOf(target) \ ElementsOf(OldVersion)
    BY <1>10, <1>11, <1>13
  <2>3. marked.source.marks = ElementsOf(OldVersion) \ ElementsOf(target)
    BY <1>10, <1>11, <1>13 DEF MarksFit
  <2> QED BY <1>10, <1>13, <2>1, <2>2, <2>3 DEF MarksExact
<1>14. CASE clears
  <2>1. Differing(views).diff = found /\ Differing(views).viewer = marked
    BY <1>1, <1>14
  <2> QED BY <1>6, <1>11, <1>12, <1>13, <1>14, <2>1
<1>15. CASE ~clears
  <2>1. Differing(views).diff = diff /\ Differing(views).viewer = views
    BY <1>1, <1>15
  <2> QED BY <1>13, <1>15, <2>1
<1> QED BY <1>14, <1>15

-----------------------------------------------------------------------------
\* Nothing moves that the requests are about.
LEMMA RequestsSame ==
  ASSUME RequestsInv, UNCHANGED <<dialog, isShown, versions, newVersionNumber, targetDefinitionId,
                                  isMigrating, migrations, migrated, tries>>
  PROVE  RequestsInv'
BY DEF RequestsInv, MayAsk

\* Nothing moves that the viewers are about.
LEMMA ViewersSame ==
  ASSUME ViewersInv, UNCHANGED <<dialog, newVersionNumber, isDiagramOpen, diff, viewer, sourceLate>>
  PROVE  ViewersInv'
BY DEF ViewersInv, MarksFit, MarksExact, Aims, DrawnOnce

\* Viewers that come or go leave nothing behind but the lists of the differences.
LEMMA NoViewers ==
  ASSUME ViewersInv, viewer' = [s \in Sides |-> NoViewer], diff' \in {diff, NoDiff}
  PROVE  ViewersInv' /\ viewer' \in [Sides -> Views] /\ NoDiff \in Diffs
<1>1. viewer'.source = NoViewer /\ viewer'.target = NoViewer
  BY DEF Sides
<1>2. NoViewer \in Views
  BY DEF NoViewer, Views, SomeVersion
<1>3. diff'.deletions \subseteq ElementsOf(OldVersion)
  BY DEF ViewersInv, MarksFit, NoDiff
<1>4. /\ NoViewer.id = Absent /\ NoViewer.fetched = Absent /\ NoViewer.imports = <<>>
      /\ NoViewer.shown = Absent /\ NoViewer.marks = {}
  BY DEF NoViewer
<1>5. MarksFit(diff, viewer)'
  BY <1>1, <1>3, <1>4 DEF MarksFit
<1>6. Aims(NoViewer, OldVersion) /\ DrawnOnce(NoViewer) /\ \A v : Aims(NoViewer, v)
  BY <1>4 DEF Aims, DrawnOnce
<1>7. ViewersInv'
  BY <1>1, <1>4, <1>5, <1>6, VersionFacts DEF ViewersInv
<1> QED BY <1>2, <1>7 DEF NoDiff, Diffs

\* A viewer is for another version.
LEMMA AimedFacts ==
  ASSUME NEW v \in Views, NEW old \in SomeVersion, NEW version \in SomeVersion, Aims(v, old),
         version = Absent => v.id = Absent
  PROVE  LET w == Aimed(v, version) IN
         /\ w \in Views /\ Aims(w, version)
         /\ w.shown = v.shown /\ w.marks = v.marks /\ w.imports = v.imports
         /\ w.fetched # v.fetched => version # v.id /\ w.fetched = version
<1>1. CASE version \in {Absent, v.id}
  BY <1>1 DEF Aimed, Aims
<1>2. CASE version \notin {Absent, v.id}
  BY <1>2 DEF Aimed, Aims, Views
<1> QED BY <1>1, <1>2

\* The diagrams of a target are asked for (loadDiagrams).
LEMMA LoadDiagramsInv ==
  ASSUME MigrateTypeOK, ViewersInv, NEW target \in SomeVersion, LoadDiagrams(target),
         newVersionNumber[dialog] # Absent => target # Absent,
         newVersionNumber[dialog]' = target, UNCHANGED <<isDiagramOpen, diff, sourceLate>>
  PROVE  ViewersInv' /\ viewer' \in [Sides -> Views]
<1>1. /\ viewer.source \in Views /\ viewer.target \in Views
      /\ OldVersion \in SomeVersion /\ OldVersion # Absent
      /\ newVersionNumber[dialog] \in SomeVersion
  BY VersionFacts DEF MigrateTypeOK, Sides, SomeVersion
<1>2. CASE isDiagramOpen
  <2> DEFINE s == Aimed(viewer.source, OldVersion)
             t == Aimed(viewer.target, target)
  <2>1. viewer' = [source |-> s, target |-> t]
    BY <1>2 DEF LoadDiagrams
  <2>2. /\ s \in Views /\ Aims(s, OldVersion) /\ s.shown = viewer.source.shown
        /\ s.marks = viewer.source.marks /\ s.imports = viewer.source.imports
        /\ s.fetched # viewer.source.fetched => OldVersion # viewer.source.id
    BY <1>1, AimedFacts DEF ViewersInv
  <2>3. target = Absent => viewer.target.id = Absent
    BY DEF ViewersInv, Aims
  <2>4. /\ t \in Views /\ Aims(t, target) /\ t.shown = viewer.target.shown
        /\ t.marks = viewer.target.marks /\ t.imports = viewer.target.imports
    BY <1>1, <2>3, AimedFacts DEF ViewersInv
  <2> HIDE DEF s, t
  <2>5. viewer'.source = s /\ viewer'.target = t /\ viewer' \in [Sides -> Views]
    BY <2>1, <2>2, <2>4 DEF Sides
  <2>6. DrawnOnce(s)
    <3>1. viewer.source.id = Absent => s.shown = Absent /\ s.imports = <<>>
      BY <2>2 DEF ViewersInv, Aims
    <3>2. s.fetched # viewer.source.fetched => viewer.source.id = Absent
      BY <2>2 DEF ViewersInv, Aims
    <3> QED BY <2>2, <3>1, <3>2 DEF ViewersInv, DrawnOnce
  <2>7. MarksFit(diff, viewer)' /\ (MarksExact(viewer) => MarksExact(viewer)')
    BY <2>2, <2>4, <2>5 DEF ViewersInv, MarksFit, MarksExact
  <2> QED BY <1>2, <2>2, <2>4, <2>5, <2>6, <2>7 DEF ViewersInv
<1>3. CASE ~isDiagramOpen
  <2>1. viewer' = viewer
    BY <1>3 DEF LoadDiagrams
  <2>2. Aims(viewer.target, target)
    BY <1>3 DEF ViewersInv, Aims
  <2> QED BY <1>3, <2>1, <2>2 DEF ViewersInv, MigrateTypeOK, MarksFit, MarksExact, Aims, DrawnOnce
<1> QED BY <1>2, <1>3 DEF MigrateTypeOK

\* One viewer changes, after showDiff if it is the target's.
After(side, views) == IF side = "target" THEN Differing(views) ELSE [diff |-> diff, viewer |-> views]

LEMMA AfterFacts ==
  ASSUME NEW side \in Sides, NEW views \in [Sides -> Views], diff \in Diffs,
         MarksFit(diff, views), DrawnOnce(views.source)
  PROVE  LET after == After(side, views) IN
         /\ after.diff \in Diffs /\ after.viewer \in [Sides -> Views]
         /\ \A s \in Sides :
              /\ after.viewer[s].id = views[s].id
              /\ after.viewer[s].fetched = views[s].fetched
              /\ after.viewer[s].imports = views[s].imports
              /\ after.viewer[s].shown = views[s].shown
              /\ after.viewer[s].failed = views[s].failed
         /\ MarksFit(after.diff, after.viewer)
         /\ side = "source" => after.diff = diff /\ after.viewer = views
         /\ (/\ side = "target"
             /\ views.source.shown = OldVersion /\ views.target.shown \in AllVersions
             /\ views.target.marks \subseteq
                  ElementsOf(views.target.shown) \ ElementsOf(OldVersion))
            => MarksExact(after.viewer)
<1>1. CASE side = "target"
  <2>1. After(side, views) = Differing(views)
    BY <1>1 DEF After
  <2>2. side # "source"
    BY <1>1
  <2> DEFINE after == Differing(views)
  <2>3. /\ after.diff \in Diffs /\ after.viewer \in [Sides -> Views]
        /\ \A s \in Sides :
              /\ after.viewer[s].id = views[s].id
              /\ after.viewer[s].fetched = views[s].fetched
              /\ after.viewer[s].imports = views[s].imports
              /\ after.viewer[s].shown = views[s].shown
              /\ after.viewer[s].failed = views[s].failed
        /\ MarksFit(after.diff, after.viewer)
        /\ (/\ views.source.shown = OldVersion /\ views.target.shown \in AllVersions
            /\ views.target.marks \subseteq
                 ElementsOf(views.target.shown) \ ElementsOf(OldVersion))
           => MarksExact(after.viewer)
    BY DifferingFacts
  <2>4. After(side, views) = after
    BY <2>1
  <2> HIDE DEF after
  <2> QED BY <2>2, <2>3, <2>4
<1>2. CASE side = "source"
  <2>1. After(side, views).diff = diff /\ After(side, views).viewer = views
    BY <1>2 DEF After
  <2> QED BY <1>2, <2>1
<1> QED BY <1>1, <1>2 DEF Sides

-----------------------------------------------------------------------------
LEMMA OpenModalInv ==
  ASSUME MigrateInv, OpenModal
  PROVE  MigrateInv'
<1> DEFINE d == dialog + 1
<1>1. /\ ~isShown /\ dialog < MaxDialogs /\ dialog' = d /\ isShown' = TRUE /\ versions' = "loading"
      /\ newVersionNumber' = [newVersionNumber EXCEPT ![d] = Absent]
      /\ targetDefinitionId' = Absent /\ isDiagramOpen' = FALSE /\ isMigrating' = FALSE
      /\ diff' = NoDiff /\ viewer' = [s \in Sides |-> NoViewer] /\ sourceLate' = FALSE
      /\ UNCHANGED <<migrations, migrated, tries>>
  BY DEF OpenModal, Fresh
<1>2. dialog \in Nat /\ MaxDialogs \in Nat /\ d \in 1 .. MaxDialogs /\ d > dialog
  BY <1>1, MigrateAssumption DEF MigrateInv, MigrateTypeOK
<1>3. /\ newVersionNumber'[d] = Absent
      /\ \A n \in 1 .. MaxDialogs : n # d => newVersionNumber'[n] = newVersionNumber[n]
      /\ newVersionNumber' \in [1 .. MaxDialogs -> SomeVersion]
  BY <1>1, <1>2 DEF MigrateInv, MigrateTypeOK, SomeVersion
<1>4. ViewersInv' /\ viewer' \in [Sides -> Views] /\ NoDiff \in Diffs
  BY <1>1, NoViewers DEF MigrateInv
<1>a. d = dialog + 1
  OBVIOUS
<1> HIDE DEF d
<1>5. MigrateTypeOK'
  BY <1>1, <1>2, <1>3, <1>4 DEF MigrateInv, MigrateTypeOK
<1>6. \A m \in migrations : m.dialog \in 1 .. MaxDialogs /\ m.dialog <= dialog
  BY DEF MigrateInv, MigrateTypeOK, Migrations, RequestsInv
<1>7. \A m \in migrations : m.dialog # d /\ m.dialog <= d
  BY <1>2, <1>6
<1>8. \A n \in 1 .. MaxDialogs : MayAsk(n)' => MayAsk(n)
  BY <1>1, <1>2, <1>a DEF MayAsk
<1>9. ASSUME NEW n \in 1 .. MaxDialogs
      PROVE  tries[n].batches <= tries[n].errors + (IF MayAsk(n)' THEN 0 ELSE 1)
  <2>1. tries[n].batches \in Nat /\ tries[n].errors \in Nat
    BY DEF MigrateInv, MigrateTypeOK, Tries
  <2>2. tries[n].batches <= tries[n].errors + (IF MayAsk(n) THEN 0 ELSE 1)
    BY DEF MigrateInv, RequestsInv
  <2> QED BY <1>8, <2>1, <2>2
<1>10. RequestsInv'
  BY <1>1, <1>3, <1>6, <1>7, <1>9 DEF MigrateInv, RequestsInv
<1> QED BY <1>4, <1>5, <1>10 DEF MigrateInv

LEMMA VersionsLoadedInv ==
  ASSUME MigrateInv, VersionsLoaded
  PROVE  MigrateInv'
<1>1. /\ versions = "loading" /\ versions' = "loaded"
      /\ newVersionNumber' = [newVersionNumber EXCEPT ![dialog] = NearestVersion]
      /\ targetDefinitionId' = NearestVersion /\ LoadDiagrams(NearestVersion)
      /\ UNCHANGED <<dialog, isShown, isDiagramOpen, isMigrating, diff, sourceLate, migrations,
                     migrated, tries>>
  BY DEF VersionsLoaded
<1>2. NearestVersion \in SomeVersion /\ NearestVersion # Absent
  BY VersionFacts DEF SomeVersion
<1>3. /\ newVersionNumber' \in [1 .. MaxDialogs -> SomeVersion]
      /\ newVersionNumber'[dialog] = NearestVersion
      /\ \A n \in 1 .. MaxDialogs : n # dialog => newVersionNumber'[n] = newVersionNumber[n]
  BY <1>1, <1>2 DEF MigrateInv, MigrateTypeOK
<1>4. newVersionNumber[dialog]' = NearestVersion
  BY <1>1, <1>3
<1>5. ViewersInv' /\ viewer' \in [Sides -> Views]
  BY <1>1, <1>2, <1>4, LoadDiagramsInv DEF MigrateInv
<1>6. MigrateTypeOK'
  BY <1>1, <1>3, <1>5 DEF MigrateInv, MigrateTypeOK
<1>7. \A m \in migrations : m.dialog \in 1 .. MaxDialogs /\ m.dialog # dialog
  BY <1>1 DEF MigrateInv, MigrateTypeOK, Migrations, RequestsInv
<1>8. RequestsInv'
  BY <1>1, <1>3, <1>7 DEF MigrateInv, RequestsInv, MayAsk
<1> QED BY <1>5, <1>6, <1>8 DEF MigrateInv

\* The request of the dialog that is open has lost its target.
Retargeted(m) == IF m.dialog = dialog THEN [m EXCEPT !.retargeted = TRUE] ELSE m

LEMMA UpdateTargetInv ==
  ASSUME MigrateInv, UpdateTargetVersion
  PROVE  MigrateInv'
<1>1. PICK v \in AllVersions :
        /\ newVersionNumber' = [newVersionNumber EXCEPT ![dialog] = v]
        /\ targetDefinitionId' = v /\ LoadDiagrams(v)
  BY DEF UpdateTargetVersion
<1>2. /\ versions = "loaded" /\ migrations' = {Retargeted(m) : m \in migrations}
      /\ UNCHANGED <<dialog, isShown, versions, isDiagramOpen, isMigrating, diff, sourceLate,
                     migrated, tries>>
  BY DEF UpdateTargetVersion, Retargeted
<1>3. v \in SomeVersion /\ v # Absent
  BY VersionFacts DEF SomeVersion
<1>4. /\ newVersionNumber' \in [1 .. MaxDialogs -> SomeVersion]
      /\ newVersionNumber'[dialog] = v
      /\ \A n \in 1 .. MaxDialogs : n # dialog => newVersionNumber'[n] = newVersionNumber[n]
  BY <1>1, <1>3 DEF MigrateInv, MigrateTypeOK
<1>5. newVersionNumber[dialog]' = v
  BY <1>2, <1>4
<1>6. ViewersInv' /\ viewer' \in [Sides -> Views]
  BY <1>1, <1>2, <1>3, <1>5, LoadDiagramsInv DEF MigrateInv
<1>7. ASSUME NEW m \in migrations
      PROVE  /\ Retargeted(m) \in Migrations
             /\ Retargeted(m).dialog = m.dialog /\ Retargeted(m).target = m.target
             /\ m.dialog = dialog => Retargeted(m).retargeted = TRUE
             /\ m.dialog # dialog => Retargeted(m) = m
             /\ m.dialog \in 1 .. MaxDialogs
  BY DEF MigrateInv, MigrateTypeOK, Migrations, Retargeted
<1>8. migrations' \subseteq Migrations
  BY <1>2, <1>7
<1>9. MigrateTypeOK'
  BY <1>1, <1>2, <1>4, <1>6, <1>8 DEF MigrateInv, MigrateTypeOK
<1>10. \A m \in migrations' : \E n \in migrations : m = Retargeted(n)
  BY <1>2
<1>11. ASSUME NEW m \in migrations'
       PROVE  /\ m.dialog <= dialog /\ newVersionNumber'[m.dialog] # Absent
              /\ m.dialog = dialog => isMigrating
              /\ newVersionNumber'[m.dialog] = m.target \/ m.retargeted
  <2>1. PICK n \in migrations : m = Retargeted(n)
    BY <1>10
  <2>2. CASE n.dialog = dialog
    BY <1>3, <1>4, <1>7, <2>1, <2>2 DEF MigrateInv, RequestsInv
  <2>3. CASE n.dialog # dialog
    BY <1>4, <1>7, <2>1, <2>3 DEF MigrateInv, RequestsInv
  <2> QED BY <2>2, <2>3
<1>12. ASSUME NEW m \in migrations', NEW n \in migrations', m.dialog = n.dialog PROVE m = n
  <2>1. PICK p \in migrations : m = Retargeted(p)
    BY <1>10
  <2>2. PICK q \in migrations : n = Retargeted(q)
    BY <1>10
  <2>3. p.dialog = q.dialog
    BY <1>7, <1>12, <2>1, <2>2
  <2>4. p = q
    BY <2>3 DEF MigrateInv, RequestsInv
  <2> QED BY <2>1, <2>2, <2>4
<1>13. \A n \in 1 .. MaxDialogs : MayAsk(n)' <=> MayAsk(n)
  <2>1. ASSUME NEW n \in 1 .. MaxDialogs
        PROVE  (\E m \in migrations' : m.dialog = n) <=> (\E m \in migrations : m.dialog = n)
    <3>1. ASSUME NEW m \in migrations', m.dialog = n PROVE \E p \in migrations : p.dialog = n
      <4>1. PICK p \in migrations : m = Retargeted(p)
        BY <1>10
      <4> QED BY <1>7, <3>1, <4>1
    <3>2. ASSUME NEW m \in migrations, m.dialog = n PROVE \E p \in migrations' : p.dialog = n
      <4>1. Retargeted(m) \in migrations' /\ Retargeted(m).dialog = n
        BY <1>2, <1>7, <3>2
      <4> QED BY <4>1
    <3> QED BY <3>1, <3>2
  <2> QED BY <1>2, <2>1 DEF MayAsk
<1>14. RequestsInv'
  BY <1>1, <1>2, <1>4, <1>11, <1>12, <1>13 DEF MigrateInv, RequestsInv
<1> QED BY <1>6, <1>9, <1>14 DEF MigrateInv

LEMMA ToggleModelsInv ==
  ASSUME MigrateInv, ToggleModels
  PROVE  MigrateInv'
<1>1. /\ isDiagramOpen' = ~isDiagramOpen /\ viewer' = [s \in Sides |-> NoViewer]
      /\ UNCHANGED <<dialog, isShown, versions, newVersionNumber, targetDefinitionId, isMigrating,
                     diff, sourceLate, migrations, migrated, tries>>
  BY DEF ToggleModels
<1>2. ViewersInv' /\ viewer' \in [Sides -> Views]
  BY <1>1, NoViewers DEF MigrateInv
<1>3. RequestsInv'
  BY <1>1, RequestsSame DEF MigrateInv
<1> QED BY <1>1, <1>2, <1>3 DEF MigrateInv, MigrateTypeOK

LEMMA TransitionEndInv ==
  ASSUME MigrateInv, TransitionEnd
  PROVE  MigrateInv'
<1>1. /\ LoadDiagrams(targetDefinitionId)
      /\ UNCHANGED <<dialog, isShown, versions, newVersionNumber, targetDefinitionId,
                     isDiagramOpen, isMigrating, diff, sourceLate, migrations, migrated, tries>>
  BY DEF TransitionEnd
<1>2. targetDefinitionId = newVersionNumber[dialog] /\ targetDefinitionId \in SomeVersion
      /\ newVersionNumber[dialog]' = targetDefinitionId
  BY <1>1 DEF MigrateInv, MigrateTypeOK, RequestsInv
<1>3. ViewersInv' /\ viewer' \in [Sides -> Views]
  BY <1>1, <1>2, LoadDiagramsInv DEF MigrateInv
<1>4. RequestsInv'
  BY <1>1, RequestsSame DEF MigrateInv
<1> QED BY <1>1, <1>3, <1>4 DEF MigrateInv, MigrateTypeOK

\* The last of what is imported is what was fetched last.
LEMMA AppendLast ==
  ASSUME NEW S, NEW s \in Seq(S), NEW e \in S
  PROVE  /\ Append(s, e) # <<>> /\ Append(s, e)[Len(Append(s, e))] = e
         /\ s = <<>> => Append(s, e) = <<e>>
<1>1. Append(s, e) # <<>> /\ Len(Append(s, e)) = Len(s) + 1 /\ Append(s, e)[Len(s) + 1] = e
  BY AppendProperties
<1>2. s = <<>> => Append(s, e) = <<e>>
  OBVIOUS
<1> QED BY <1>1, <1>2

\* A viewer that imports what it fetched (renderDiagram).
LEMMA ImportingFacts ==
  ASSUME NEW v \in Views, v.fetched \in AllVersions
  PROVE  /\ Importing(v) \in Views
         /\ Importing(v).id = v.id /\ Importing(v).failed = v.failed
         /\ Importing(v).imports = Append(v.imports, v.fetched)
         /\ Importing(v).fetched = Absent /\ Importing(v).shown = Empty
         /\ Importing(v).marks = {}
<1>1. Append(v.imports, v.fetched) \in Seq(AllVersions) /\ {} \in SUBSET Nat
  BY DEF Views
<1> QED BY <1>1 DEF Importing, Views, SomeVersion

\* The answer to a fetch: a new viewer begins to import.
LEMMA XmlRetrievedInv ==
  ASSUME MigrateInv, NEW side \in Sides, DiagramXmlRetrieved(side)
  PROVE  MigrateInv'
<1> DEFINE after == After(side, viewer)
<1>1. /\ viewer[side].fetched # Absent /\ diff' = after.diff
      /\ viewer' = [after.viewer EXCEPT ![side] = Importing(after.viewer[side])]
      /\ UNCHANGED <<dialog, isShown, versions, newVersionNumber, targetDefinitionId,
                     isDiagramOpen, isMigrating, sourceLate, migrations, migrated, tries>>
  BY DEF DiagramXmlRetrieved, After
<1>2. /\ viewer \in [Sides -> Views] /\ diff \in Diffs /\ MarksFit(diff, viewer)
      /\ DrawnOnce(viewer.source)
  BY DEF MigrateInv, MigrateTypeOK, ViewersInv
<1>3. /\ after.diff \in Diffs /\ after.viewer \in [Sides -> Views]
      /\ \A s \in Sides : /\ after.viewer[s].id = viewer[s].id
                          /\ after.viewer[s].fetched = viewer[s].fetched
                          /\ after.viewer[s].imports = viewer[s].imports
                          /\ after.viewer[s].shown = viewer[s].shown
                          /\ after.viewer[s].failed = viewer[s].failed
      /\ MarksFit(after.diff, after.viewer)
      /\ side = "source" => after.diff = diff /\ after.viewer = viewer
  BY <1>2, AfterFacts
<1> HIDE DEF after
<1>4. viewer[side] \in Views /\ viewer[side].fetched \in AllVersions
      /\ viewer[side].imports \in Seq(AllVersions) /\ {} \in SUBSET Nat
  BY <1>1, <1>2 DEF Views, SomeVersion
<1>5. after.viewer[side] \in Views
  BY <1>3
<1>6. /\ Importing(after.viewer[side]) \in Views
      /\ Importing(after.viewer[side]).id = viewer[side].id
      /\ Importing(after.viewer[side]).failed = viewer[side].failed
      /\ Importing(after.viewer[side]).imports = Append(viewer[side].imports, viewer[side].fetched)
      /\ Importing(after.viewer[side]).fetched = Absent
      /\ Importing(after.viewer[side]).shown = Empty /\ Importing(after.viewer[side]).marks = {}
  BY <1>3, <1>4, <1>5, ImportingFacts
<1>7. viewer' \in [Sides -> Views]
  BY <1>1, <1>3, <1>6
<1> DEFINE imports == Append(viewer[side].imports, viewer[side].fetched)
<1>8. /\ viewer'[side].imports = imports /\ viewer'[side].fetched = Absent
      /\ viewer'[side].shown = Empty /\ viewer'[side].marks = {}
      /\ viewer'[side].id = viewer[side].id /\ viewer'[side].failed = viewer[side].failed
      /\ \A s \in Sides \ {side} : viewer'[s] = after.viewer[s]
  BY <1>1, <1>3, <1>6
<1>a. imports # <<>> /\ imports[Len(imports)] = viewer[side].fetched
      /\ (viewer[side].imports = <<>> => imports = <<viewer[side].fetched>>)
  BY <1>4, AppendLast
<1> HIDE DEF imports
<1>9. MigrateTypeOK'
  BY <1>1, <1>3, <1>7 DEF MigrateInv, MigrateTypeOK
<1>10. RequestsInv'
  BY <1>1, RequestsSame DEF MigrateInv
<1>11. Aims(viewer.source, OldVersion) /\ Aims(viewer.target, newVersionNumber[dialog])
       /\ (~isDiagramOpen => viewer.source.id = Absent /\ viewer.target.id = Absent)
       /\ (viewer.target.shown \in AllVersions /\ ~sourceLate => MarksExact(viewer))
  BY DEF MigrateInv, ViewersInv
<1>12. CASE side = "source"
  <2>1. /\ viewer'.target = viewer.target /\ viewer.source.fetched = OldVersion
        /\ viewer.source.shown = Absent /\ imports = <<OldVersion>>
    <3>1. viewer'.target = viewer.target
      BY <1>3, <1>8, <1>12 DEF Sides
    <3>2. viewer.source.fetched = OldVersion /\ viewer.source.shown = Absent /\ viewer.source.imports = <<>>
      BY <1>1, <1>2, <1>11, <1>12 DEF DrawnOnce, Aims
    <3> QED BY <1>a, <1>12, <3>1, <3>2
  <2>2. /\ viewer'.source.imports = <<OldVersion>> /\ viewer'.source.fetched = Absent
        /\ viewer'.source.shown = Empty /\ viewer'.source.marks = {}
        /\ viewer'.source.id = viewer.source.id
    BY <1>8, <1>12, <2>1
  <2>3. viewer.source.id = OldVersion /\ OldVersion # Absent
    BY <1>1, <1>11, <1>12, VersionFacts DEF Aims
  <2>4. Aims(viewer'.source, OldVersion) /\ DrawnOnce(viewer'.source)
    BY <2>2, <2>3 DEF Aims, DrawnOnce
  <2>5. diff' = diff /\ MarksFit(diff', viewer')
    BY <1>1, <1>2, <1>3, <1>12, <2>1, <2>2 DEF MarksFit
  <2>6. ~(viewer.target.shown \in AllVersions /\ ~sourceLate)
    BY <1>11, <2>1, <2>3 DEF MarksExact
  <2>7. ViewersInv'
    BY <1>1, <1>11, <2>1, <2>2, <2>4, <2>5, <2>6 DEF ViewersInv
  <2> QED BY <1>9, <1>10, <2>7 DEF MigrateInv
<1>13. CASE side = "target"
  <2>1. viewer'.source = after.viewer.source
    BY <1>8, <1>13 DEF Sides
  <2>2. /\ viewer'.source.id = viewer.source.id /\ viewer'.source.fetched = viewer.source.fetched
        /\ viewer'.source.imports = viewer.source.imports
        /\ viewer'.source.shown = viewer.source.shown /\ viewer'.source.failed = viewer.source.failed
    BY <1>3, <2>1 DEF Sides
  <2>3. Aims(viewer'.source, OldVersion) /\ DrawnOnce(viewer'.source)
    BY <1>2, <1>11, <2>2 DEF Aims, DrawnOnce
  <2>4. /\ viewer'.target.imports = imports /\ viewer'.target.fetched = Absent
        /\ viewer'.target.shown = Empty /\ viewer'.target.marks = {}
        /\ viewer'.target.id = viewer.target.id
        /\ viewer.target.fetched # Absent /\ imports[Len(imports)] = viewer.target.fetched
    BY <1>1, <1>8, <1>a, <1>13
  <2>5. Aims(viewer'.target, newVersionNumber[dialog])
    BY <1>a, <1>11, <2>4 DEF Aims
  <2>6. MarksFit(diff', viewer')
    BY <1>1, <1>3, <2>1, <2>4 DEF MarksFit
  <2>7. ViewersInv'
    BY <1>1, <1>11, <2>2, <2>3, <2>4, <2>5, <2>6, VersionFacts DEF ViewersInv
  <2> QED BY <1>9, <1>10, <2>7 DEF MigrateInv
<1> QED BY <1>12, <1>13 DEF Sides

\* An import ends: of the newest viewer, which is drawn, or of another.
LEMMA DiagramRenderedInv ==
  ASSUME MigrateInv, NEW side \in Sides, DiagramRendered(side)
  PROVE  MigrateInv'
<1>1. PICK i \in DOMAIN viewer[side].imports :
       LET lastImport == viewer[side].shown = Empty /\ i = Len(viewer[side].imports)
           drawn == [viewer EXCEPT ![side].imports = RemoveAt(@, i),
                       ![side].shown = IF lastImport THEN viewer[side].imports[i] ELSE @]
           after == After(side, drawn)
       IN /\ diff' = after.diff /\ viewer' = after.viewer
          /\ sourceLate' = IF side = "target" /\ lastImport
                           THEN viewer.source.shown \in {Absent, Empty} ELSE sourceLate
  BY DEF DiagramRendered, After
<1> DEFINE lastImport == viewer[side].shown = Empty /\ i = Len(viewer[side].imports)
           imports == RemoveAt(viewer[side].imports, i)
           drawing == IF lastImport THEN viewer[side].imports[i] ELSE viewer[side].shown
           drawn == [viewer EXCEPT ![side].imports = RemoveAt(@, i),
                       ![side].shown = IF lastImport THEN viewer[side].imports[i] ELSE @]
           after == After(side, drawn)
<1>2. UNCHANGED <<dialog, isShown, versions, newVersionNumber, targetDefinitionId, isDiagramOpen,
                  isMigrating, migrations, migrated, tries>>
  BY DEF DiagramRendered
<1>3. /\ viewer \in [Sides -> Views] /\ diff \in Diffs /\ viewer[side] \in Views
      /\ viewer[side].imports \in Seq(AllVersions)
      /\ viewer.source = viewer["source"] /\ viewer.target = viewer["target"]
  BY DEF MigrateInv, MigrateTypeOK, Views
<1>4. /\ imports \in Seq(AllVersions) /\ Len(imports) = Len(viewer[side].imports) - 1
      /\ i # Len(viewer[side].imports) =>
           imports # <<>> /\ imports[Len(imports)] = viewer[side].imports[Len(viewer[side].imports)]
  BY <1>3, RemoveAtLast
<1>5. /\ drawing \in SomeVersion \union {Empty} /\ viewer[side].imports[i] \in AllVersions
      /\ lastImport \in BOOLEAN
  BY <1>3 DEF Views, SomeVersion
<1> HIDE DEF lastImport
<1>6. drawn = [viewer EXCEPT ![side].imports = imports, ![side].shown = drawing]
  BY <1>3 DEF Views
<1> HIDE DEF imports, drawing, drawn
<1>7. /\ drawn \in [Sides -> Views]
      /\ drawn[side].imports = imports /\ drawn[side].shown = drawing
      /\ drawn[side].id = viewer[side].id /\ drawn[side].fetched = viewer[side].fetched
      /\ drawn[side].failed = viewer[side].failed /\ drawn[side].marks = viewer[side].marks
      /\ \A s \in Sides \ {side} : drawn[s] = viewer[s]
  BY <1>3, <1>4, <1>5, <1>6 DEF Views
<1>8. /\ diff' = after.diff /\ viewer' = after.viewer
      /\ sourceLate' = IF side = "target" /\ lastImport
                       THEN viewer.source.shown \in {Absent, Empty} ELSE sourceLate
  BY <1>1 DEF lastImport, drawn
<1>9. /\ Aims(viewer.source, OldVersion) /\ Aims(viewer.target, newVersionNumber[dialog])
      /\ DrawnOnce(viewer.source) /\ MarksFit(diff, viewer)
      /\ (~isDiagramOpen => viewer.source.id = Absent /\ viewer.target.id = Absent)
      /\ (viewer.target.shown \in AllVersions /\ ~sourceLate => MarksExact(viewer))
  BY DEF MigrateInv, ViewersInv
<1>10. \A v : Aims(viewer[side], v) => Aims(drawn[side], v)
  <2> SUFFICES ASSUME NEW v, Aims(viewer[side], v) PROVE Aims(drawn[side], v)
    OBVIOUS
  <2>1. viewer[side].imports # <<>> /\ viewer[side].id # Absent
    BY <1>3 DEF Aims
  <2>2. CASE lastImport
    <3>1. drawing = viewer[side].imports[Len(viewer[side].imports)]
      BY <2>2 DEF lastImport, drawing
    <3>2. viewer[side].shown = Empty /\ Empty # viewer[side].id
      BY <2>2, <1>3, VersionFacts DEF lastImport, Views, SomeVersion
    <3> QED BY <1>7, <2>1, <3>1, <3>2 DEF Aims
  <2>3. CASE ~lastImport
    <3>1. drawing = viewer[side].shown /\ (drawing = Empty => i # Len(viewer[side].imports))
      BY <2>3 DEF lastImport, drawing
    <3> QED BY <1>4, <1>7, <2>1, <3>1 DEF Aims
  <2> QED BY <2>2, <2>3
<1>11. DrawnOnce(drawn.source)
  <2>1. CASE side = "source"
    <3>1. viewer[side].imports = <<OldVersion>> /\ i = 1 /\ viewer[side].imports[i] = OldVersion
      BY <1>3, <1>9, <2>1 DEF DrawnOnce
    <3>2. imports = <<>>
      BY <1>4, <3>1, EmptySeq
    <3>3. drawing \in {OldVersion, viewer[side].shown}
      BY <3>1 DEF drawing
    <3>4. viewer[side].fetched = Absent
      BY <1>3, <1>9, <2>1, <3>1 DEF DrawnOnce
    <3>5. drawn.source = drawn[side]
      BY <2>1
    <3> QED BY <1>3, <1>7, <1>9, <2>1, <3>2, <3>3, <3>4, <3>5 DEF DrawnOnce
  <2>2. CASE side = "target"
    <3>1. drawn.source = viewer.source
      BY <1>7, <2>2 DEF Sides
    <3> QED BY <1>9, <3>1
  <2> QED BY <2>1, <2>2 DEF Sides
<1>12. MarksFit(diff, drawn)
  <2>1. /\ drawn.source.marks = viewer.source.marks /\ drawn.target.marks = viewer.target.marks
        /\ drawn.target.shown = Empty => viewer.target.shown = Empty
    BY <1>5, <1>7, VersionFacts DEF Sides, drawing
  <2> QED BY <1>9, <2>1 DEF MarksFit
<1>13. /\ after.diff \in Diffs /\ after.viewer \in [Sides -> Views]
       /\ \A s \in Sides : /\ after.viewer[s].id = drawn[s].id
                           /\ after.viewer[s].fetched = drawn[s].fetched
                           /\ after.viewer[s].imports = drawn[s].imports
                           /\ after.viewer[s].shown = drawn[s].shown
                           /\ after.viewer[s].failed = drawn[s].failed
       /\ MarksFit(after.diff, after.viewer)
       /\ side = "source" => after.diff = diff /\ after.viewer = drawn
       /\ (/\ side = "target"
           /\ drawn.source.shown = OldVersion /\ drawn.target.shown \in AllVersions
           /\ drawn.target.marks \subseteq ElementsOf(drawn.target.shown) \ ElementsOf(OldVersion))
          => MarksExact(after.viewer)
  BY <1>3, <1>7, <1>11, <1>12, AfterFacts
<1> HIDE DEF after
<1>14. MigrateTypeOK'
  <2>1. sourceLate' \in BOOLEAN
    <3>1. sourceLate \in BOOLEAN
      BY DEF MigrateInv, MigrateTypeOK
    <3>2. CASE side = "target" /\ lastImport
      <4>1. sourceLate' = (viewer.source.shown \in {Absent, Empty})
        BY <1>8, <3>2
      <4>2. CASE viewer.source.shown \in {Absent, Empty}
        BY <4>1, <4>2
      <4>3. CASE viewer.source.shown \notin {Absent, Empty}
        BY <4>1, <4>3
      <4> QED BY <4>2, <4>3
    <3>3. CASE ~(side = "target" /\ lastImport)
      BY <1>8, <3>1, <3>3
    <3> QED BY <3>2, <3>3
  <2> QED BY <1>2, <1>8, <1>13, <2>1 DEF MigrateInv, MigrateTypeOK
<1>15. RequestsInv'
  BY <1>2, RequestsSame DEF MigrateInv
<1>16. Aims(drawn.source, OldVersion) /\ Aims(drawn.target, newVersionNumber[dialog])
       /\ drawn.source.id = viewer.source.id /\ drawn.target.id = viewer.target.id
  BY <1>7, <1>9, <1>10 DEF Sides
<1>17. /\ Aims(viewer'.source, OldVersion) /\ Aims(viewer'.target, newVersionNumber[dialog])
       /\ DrawnOnce(viewer'.source) /\ MarksFit(diff', viewer')
       /\ viewer'.source.id = viewer.source.id /\ viewer'.target.id = viewer.target.id
       /\ viewer'.source.shown = drawn.source.shown /\ viewer'.target.shown = drawn.target.shown
  BY <1>8, <1>11, <1>13, <1>16 DEF Aims, DrawnOnce, Sides
<1>18. viewer'.target.shown \in AllVersions /\ ~sourceLate' => MarksExact(viewer)'
  <2> SUFFICES ASSUME viewer'.target.shown \in AllVersions, ~sourceLate' PROVE MarksExact(viewer)'
    OBVIOUS
  <2>1. CASE side = "source"
    <3>1. viewer.target.shown \in AllVersions /\ ~sourceLate /\ drawn.target = viewer.target
      BY <1>7, <1>8, <1>17, <2>1 DEF Sides
    <3>2. MarksExact(viewer) /\ viewer.source.shown = OldVersion
      BY <1>9, <3>1 DEF MarksExact
    <3>3. drawn.source.shown = OldVersion /\ drawn.source.marks = viewer.source.marks
      BY <1>7, <2>1, <3>2, VersionFacts DEF drawing, lastImport
    <3>4. MarksExact(drawn) /\ viewer' = drawn
      BY <1>8, <1>13, <2>1, <3>1, <3>2, <3>3 DEF MarksExact
    <3> QED BY <3>4 DEF MarksExact
  <2>2. CASE side = "target" /\ lastImport
    <3>1. viewer.source.shown = OldVersion /\ drawn.source = viewer.source
      BY <1>7, <1>8, <1>9, <2>2 DEF Sides, DrawnOnce
    <3>2. drawn.target.marks = {}
      BY <1>3, <1>7, <1>9, <2>2 DEF lastImport, MarksFit
    <3>3. MarksExact(after.viewer)
      BY <1>13, <1>17, <2>2, <3>1, <3>2
    <3> QED BY <1>8, <3>3 DEF MarksExact
  <2>3. CASE side = "target" /\ ~lastImport
    <3>1. ~sourceLate /\ drawn.target.shown = viewer.target.shown
          /\ drawn.source = viewer.source /\ drawn.target.marks = viewer.target.marks
      BY <1>3, <1>7, <1>8, <2>3 DEF Sides, drawing
    <3>2. MarksExact(viewer)
      BY <1>9, <1>17, <3>1
    <3>3. MarksExact(after.viewer)
      BY <1>13, <1>17, <2>3, <3>1, <3>2 DEF MarksExact
    <3> QED BY <1>8, <3>3 DEF MarksExact
  <2> QED BY <2>1, <2>2, <2>3 DEF Sides
<1>19. ViewersInv'
  BY <1>2, <1>9, <1>17, <1>18 DEF ViewersInv
<1> QED BY <1>14, <1>15, <1>19 DEF MigrateInv

\* A fetch fails.
LEMMA XmlFailedInv ==
  ASSUME MigrateInv, NEW side \in Sides, DiagramXmlFailed(side)
  PROVE  MigrateInv'
<1> DEFINE views == [viewer EXCEPT ![side].fetched = Absent, ![side].failed = TRUE]
           after == After(side, views)
<1>1. /\ viewer[side].fetched # Absent /\ diff' = after.diff /\ viewer' = after.viewer
      /\ UNCHANGED <<dialog, isShown, versions, newVersionNumber, targetDefinitionId,
                     isDiagramOpen, isMigrating, sourceLate, migrations, migrated, tries>>
  BY DEF DiagramXmlFailed, After
<1>2. viewer \in [Sides -> Views] /\ diff \in Diffs /\ viewer[side] \in Views
  BY DEF MigrateInv, MigrateTypeOK
<1>3. /\ views \in [Sides -> Views]
      /\ views[side].fetched = Absent /\ views[side].failed = TRUE
      /\ views[side].id = viewer[side].id /\ views[side].imports = viewer[side].imports
      /\ views[side].shown = viewer[side].shown /\ views[side].marks = viewer[side].marks
      /\ \A s \in Sides \ {side} : views[s] = viewer[s]
  BY <1>2 DEF Views, SomeVersion
<1> HIDE DEF views
<1>4. /\ Aims(viewer.source, OldVersion) /\ Aims(viewer.target, newVersionNumber[dialog])
      /\ DrawnOnce(viewer.source) /\ MarksFit(diff, viewer)
      /\ (~isDiagramOpen => viewer.source.id = Absent /\ viewer.target.id = Absent)
      /\ (viewer.target.shown \in AllVersions /\ ~sourceLate => MarksExact(viewer))
  BY DEF MigrateInv, ViewersInv
<1>5. \A v : Aims(viewer[side], v) => Aims(views[side], v)
  BY <1>3 DEF Aims
<1>6. Aims(views.source, OldVersion) /\ Aims(views.target, newVersionNumber[dialog])
      /\ views.source.id = viewer.source.id /\ views.target.id = viewer.target.id
  BY <1>3, <1>4, <1>5 DEF Sides
<1>7. /\ views.source.shown = viewer.source.shown /\ views.target.shown = viewer.target.shown
      /\ views.source.marks = viewer.source.marks /\ views.target.marks = viewer.target.marks
      /\ views.source.imports = viewer.source.imports
      /\ views.source.fetched \in {Absent, viewer.source.fetched}
  BY <1>3 DEF Sides
<1>8. DrawnOnce(views.source) /\ MarksFit(diff, views)
  BY <1>4, <1>7 DEF DrawnOnce, MarksFit
<1>9. /\ after.diff \in Diffs /\ after.viewer \in [Sides -> Views]
      /\ \A s \in Sides : /\ after.viewer[s].id = views[s].id
                          /\ after.viewer[s].fetched = views[s].fetched
                          /\ after.viewer[s].imports = views[s].imports
                          /\ after.viewer[s].shown = views[s].shown
                          /\ after.viewer[s].failed = views[s].failed
      /\ MarksFit(after.diff, after.viewer)
      /\ side = "source" => after.diff = diff /\ after.viewer = views
      /\ (/\ side = "target"
          /\ views.source.shown = OldVersion /\ views.target.shown \in AllVersions
          /\ views.target.marks \subseteq ElementsOf(views.target.shown) \ ElementsOf(OldVersion))
         => MarksExact(after.viewer)
  BY <1>2, <1>3, <1>8, AfterFacts
<1> HIDE DEF after
<1>10. MigrateTypeOK'
  BY <1>1, <1>9 DEF MigrateInv, MigrateTypeOK
<1>11. RequestsInv'
  BY <1>1, RequestsSame DEF MigrateInv
<1>12. /\ Aims(viewer'.source, OldVersion) /\ Aims(viewer'.target, newVersionNumber[dialog])
       /\ DrawnOnce(viewer'.source) /\ MarksFit(diff', viewer')
       /\ viewer'.source.id = viewer.source.id /\ viewer'.target.id = viewer.target.id
       /\ viewer'.target.shown = viewer.target.shown
  BY <1>1, <1>6, <1>7, <1>8, <1>9 DEF Aims, DrawnOnce, Sides
<1>13. viewer.target.shown \in AllVersions /\ ~sourceLate => MarksExact(viewer)'
  <2> SUFFICES ASSUME viewer.target.shown \in AllVersions, ~sourceLate PROVE MarksExact(viewer)'
    OBVIOUS
  <2>1. MarksExact(views)
    BY <1>4, <1>7 DEF MarksExact
  <2>2. MarksExact(after.viewer)
    BY <1>7, <1>9, <2>1 DEF MarksExact, Sides
  <2> QED BY <1>1, <2>2 DEF MarksExact
<1>14. ViewersInv'
  BY <1>1, <1>4, <1>12, <1>13 DEF ViewersInv
<1> QED BY <1>10, <1>11, <1>14 DEF MigrateInv

\* The engine is asked for a batch.
LEMMA ExecuteInv ==
  ASSUME MigrateInv, ExecuteMigration
  PROVE  MigrateInv'
<1> DEFINE r == [dialog |-> dialog, target |-> targetDefinitionId, retargeted |-> FALSE]
<1>1. /\ isShown /\ ~isMigrating /\ targetDefinitionId # Absent /\ isMigrating' = TRUE
      /\ migrations' = migrations \union {r}
      /\ UNCHANGED <<dialog, isShown, versions, newVersionNumber, targetDefinitionId, isDiagramOpen,
                     diff, viewer, sourceLate, migrated, tries>>
  BY DEF ExecuteMigration
<1>2. /\ targetDefinitionId = newVersionNumber[dialog] /\ targetDefinitionId \in AllVersions
      /\ dialog \in 1 .. MaxDialogs
  BY <1>1 DEF MigrateInv, MigrateTypeOK, RequestsInv, SomeVersion
<1>3. r \in Migrations /\ r.dialog = dialog /\ r.target = targetDefinitionId
  BY <1>2 DEF Migrations
<1> HIDE DEF r
<1>4. MigrateTypeOK'
  BY <1>1, <1>3 DEF MigrateInv, MigrateTypeOK
<1>5. \A m \in migrations : m.dialog # dialog /\ m.dialog \in 1 .. MaxDialogs
  BY <1>1 DEF MigrateInv, MigrateTypeOK, Migrations, RequestsInv
<1>6. \A d \in 1 .. MaxDialogs : MayAsk(d)' => MayAsk(d)
  BY <1>1, <1>3 DEF MayAsk
<1>7. ASSUME NEW d \in 1 .. MaxDialogs
      PROVE  tries[d].batches <= tries[d].errors + (IF MayAsk(d)' THEN 0 ELSE 1)
  <2>1. tries[d].batches \in Nat /\ tries[d].errors \in Nat
    BY DEF MigrateInv, MigrateTypeOK, Tries
  <2>2. tries[d].batches <= tries[d].errors + (IF MayAsk(d) THEN 0 ELSE 1)
    BY DEF MigrateInv, RequestsInv
  <2> QED BY <1>6, <2>1, <2>2
<1>8. ASSUME NEW m \in migrations'
      PROVE  /\ m.dialog <= dialog /\ newVersionNumber[m.dialog] # Absent
             /\ newVersionNumber[m.dialog] = m.target \/ m.retargeted
  <2>1. CASE m = r
    BY <1>1, <1>2, <1>3, <2>1
  <2>2. CASE m # r
    BY <1>1, <2>2 DEF MigrateInv, RequestsInv
  <2> QED BY <2>1, <2>2
<1>9. \A m, n \in migrations' : m.dialog = n.dialog => m = n
  BY <1>1, <1>3, <1>5 DEF MigrateInv, RequestsInv
<1>10. RequestsInv'
  BY <1>1, <1>7, <1>8, <1>9 DEF MigrateInv, RequestsInv
<1>11. ViewersInv'
  BY <1>1, ViewersSame DEF MigrateInv
<1> QED BY <1>4, <1>10, <1>11 DEF MigrateInv

\* What a request that ends leaves of the others.
LEMMA RequestEndedFacts ==
  ASSUME MigrateInv, NEW m \in migrations, RequestEnded(m), dialog' = dialog
  PROVE  /\ isMigrating' \in BOOLEAN /\ migrations' \subseteq Migrations
         /\ \A n \in migrations' : /\ n \in migrations /\ n.dialog # m.dialog
                                   /\ n.dialog = dialog => isMigrating'
         /\ \A n, p \in migrations' : n.dialog = p.dialog => n = p
         /\ m.dialog \in 1 .. MaxDialogs /\ MayAsk(m.dialog)
         /\ m.dialog <= dialog /\ newVersionNumber[m.dialog] # Absent
         /\ (newVersionNumber[m.dialog] = m.target \/ m.retargeted)
<1>1. migrations' = migrations \ {m} /\ isMigrating' = (isMigrating /\ m.dialog # dialog)
  BY DEF RequestEnded
<1>2. isMigrating' \in BOOLEAN
  BY Zenon, <1>1
<1>3. migrations' \subseteq Migrations /\ m.dialog \in 1 .. MaxDialogs
  BY <1>1 DEF MigrateInv, MigrateTypeOK, Migrations
<1>4. \A n \in migrations' : n \in migrations /\ n.dialog # m.dialog
  BY <1>1 DEF MigrateInv, RequestsInv
<1>5. \A n \in migrations' : n.dialog = dialog => isMigrating'
  BY <1>1, <1>4 DEF MigrateInv, RequestsInv
<1>6. \A n, p \in migrations' : n.dialog = p.dialog => n = p
  BY <1>4 DEF MigrateInv, RequestsInv
<1>7. MayAsk(m.dialog)
  BY DEF MayAsk
<1> QED BY <1>2, <1>3, <1>4, <1>5, <1>6, <1>7 DEF MigrateInv, RequestsInv

\* Counts of a dialog
Tried(t, batches, errors) == [t EXCEPT !.batches = batches, !.errors = errors]

LEMMA TriedFacts ==
  ASSUME NEW t \in Tries, NEW b \in Nat, NEW e \in Nat
  PROVE  Tried(t, b, e) \in Tries /\ Tried(t, b, e).batches = b /\ Tried(t, b, e).errors = e
BY DEF Tries, Tried

LEMMA MigrationAnsweredInv ==
  ASSUME MigrateInv, NEW m \in migrations, MigrationAnswered(m)
  PROVE  MigrateInv'
<1> DEFINE t == [request |-> m, version |-> newVersionNumber[m.dialog]]
<1>1. /\ RequestEnded(m) /\ migrated' = migrated \union {t}
      /\ tries' = [tries EXCEPT ![m.dialog].batches = @ + 1]
      /\ IF m.dialog = dialog /\ isShown THEN Gone ELSE UNCHANGED <<isShown, viewer, diff>>
      /\ UNCHANGED <<dialog, versions, newVersionNumber, targetDefinitionId, isDiagramOpen,
                     sourceLate>>
  BY DEF MigrationAnswered
<1>2. /\ isMigrating' \in BOOLEAN /\ migrations' \subseteq Migrations
      /\ \A n \in migrations' : /\ n \in migrations /\ n.dialog # m.dialog
                                /\ n.dialog = dialog => isMigrating'
      /\ \A n, p \in migrations' : n.dialog = p.dialog => n = p
      /\ m.dialog \in 1 .. MaxDialogs /\ MayAsk(m.dialog)
      /\ m.dialog <= dialog
      /\ (newVersionNumber[m.dialog] = m.target \/ m.retargeted)
  BY <1>1, RequestEndedFacts
<1>3. /\ isShown' \in BOOLEAN
      /\ isShown' => isShown /\ m.dialog # dialog
      /\ ViewersInv' /\ viewer' \in [Sides -> Views] /\ diff' \in Diffs
  <2>1. CASE m.dialog = dialog /\ isShown
    <3>1. isShown' = FALSE /\ viewer' = [s \in Sides |-> NoViewer] /\ diff' = NoDiff
      BY <1>1, <2>1 DEF Gone
    <3> QED BY <3>1, NoViewers DEF MigrateInv
  <2>2. CASE ~(m.dialog = dialog /\ isShown)
    <3>1. UNCHANGED <<isShown, viewer, diff>>
      BY <1>1, <2>2
    <3> QED BY <1>1, <2>2, <3>1, ViewersSame DEF MigrateInv, MigrateTypeOK
  <2> QED BY <2>1, <2>2
<1>4. /\ tries' \in [1 .. MaxDialogs -> Tries]
      /\ tries'[m.dialog].batches = tries[m.dialog].batches + 1
      /\ tries'[m.dialog].errors = tries[m.dialog].errors
      /\ \A d \in 1 .. MaxDialogs : d # m.dialog => tries'[d] = tries[d]
      /\ \A d \in 1 .. MaxDialogs : tries[d].batches \in Nat /\ tries[d].errors \in Nat
  BY <1>1, <1>2 DEF MigrateInv, MigrateTypeOK, Tries
<1>5. MigrateTypeOK'
  BY <1>1, <1>2, <1>3, <1>4 DEF MigrateInv, MigrateTypeOK
<1>6. \A d \in 1 .. MaxDialogs : MayAsk(d)' => MayAsk(d) /\ d # m.dialog
  <2>1. dialog \in Nat /\ m.dialog \in Nat /\ dialog' = dialog
    BY <1>1, <1>2 DEF MigrateInv, MigrateTypeOK
  <2> QED BY <1>2, <1>3, <2>1 DEF MayAsk
<1>7. ASSUME NEW d \in 1 .. MaxDialogs
      PROVE  tries'[d].batches <= tries'[d].errors + (IF MayAsk(d)' THEN 0 ELSE 1)
  <2>1. tries[d].batches <= tries[d].errors + (IF MayAsk(d) THEN 0 ELSE 1)
    BY DEF MigrateInv, RequestsInv
  <2>2. CASE d = m.dialog
    BY <1>2, <1>4, <1>6, <2>1, <2>2
  <2>3. CASE d # m.dialog
    BY <1>4, <1>6, <2>1, <2>3
  <2> QED BY <2>2, <2>3
<1>8. \A u \in migrated' : u.version = u.request.target \/ u.request.retargeted
  BY <1>1, <1>2 DEF MigrateInv, RequestsInv
<1>9. RequestsInv'
  BY <1>1, <1>2, <1>7, <1>8 DEF MigrateInv, RequestsInv
<1> QED BY <1>3, <1>5, <1>9 DEF MigrateInv

LEMMA MigrationFailedInv ==
  ASSUME MigrateInv, NEW m \in migrations, MigrationFailed(m)
  PROVE  MigrateInv'
<1>1. PICK made \in 0 .. 1 : tries' = [tries EXCEPT ![m.dialog].batches = @ + made,
                                                    ![m.dialog].errors = @ + 1]
  BY DEF MigrationFailed
<1>2. /\ RequestEnded(m)
      /\ UNCHANGED <<dialog, isShown, versions, newVersionNumber, targetDefinitionId, isDiagramOpen,
                     diff, viewer, sourceLate, migrated>>
  BY DEF MigrationFailed
<1>3. /\ isMigrating' \in BOOLEAN /\ migrations' \subseteq Migrations
      /\ \A n \in migrations' : /\ n \in migrations /\ n.dialog # m.dialog
                                /\ n.dialog = dialog => isMigrating'
      /\ \A n, p \in migrations' : n.dialog = p.dialog => n = p
      /\ m.dialog \in 1 .. MaxDialogs /\ MayAsk(m.dialog)
  BY <1>2, RequestEndedFacts
<1>4. /\ tries' \in [1 .. MaxDialogs -> Tries]
      /\ tries'[m.dialog].batches = tries[m.dialog].batches + made
      /\ tries'[m.dialog].errors = tries[m.dialog].errors + 1
      /\ \A d \in 1 .. MaxDialogs : d # m.dialog => tries'[d] = tries[d]
      /\ \A d \in 1 .. MaxDialogs : tries[d].batches \in Nat /\ tries[d].errors \in Nat
  <2>1. tries[m.dialog] \in Tries
    BY <1>3 DEF MigrateInv, MigrateTypeOK
  <2> DEFINE t == Tried(tries[m.dialog], tries[m.dialog].batches + made, tries[m.dialog].errors + 1)
  <2>2. tries' = [tries EXCEPT ![m.dialog] = t]
    BY <1>1, <1>3, <2>1 DEF MigrateInv, MigrateTypeOK, Tries, Tried
  <2>3. /\ t \in Tries /\ t.batches = tries[m.dialog].batches + made
        /\ t.errors = tries[m.dialog].errors + 1
    <3>1. tries[m.dialog].batches + made \in Nat /\ tries[m.dialog].errors + 1 \in Nat
      BY <2>1 DEF Tries
    <3>2. \A b, e \in Nat : LET u == Tried(tries[m.dialog], b, e) IN
                             u \in Tries /\ u.batches = b /\ u.errors = e
      BY <2>1, TriedFacts
    <3> QED BY ONLY <3>1, <3>2
  <2> HIDE DEF t
  <2>4. /\ tries' \in [1 .. MaxDialogs -> Tries]
        /\ tries'[m.dialog] = t
        /\ \A d \in 1 .. MaxDialogs : d # m.dialog => tries'[d] = tries[d]
    BY <1>3, <2>2, <2>3 DEF MigrateInv, MigrateTypeOK
  <2>5. \A d \in 1 .. MaxDialogs : tries[d].batches \in Nat /\ tries[d].errors \in Nat
    BY DEF MigrateInv, MigrateTypeOK, Tries
  <2> QED BY <2>3, <2>4, <2>5
<1>5. MigrateTypeOK'
  BY <1>2, <1>3, <1>4 DEF MigrateInv, MigrateTypeOK
<1>6. \A d \in 1 .. MaxDialogs : MayAsk(d)' => MayAsk(d)
  BY <1>2, <1>3 DEF MayAsk
<1>7. ASSUME NEW d \in 1 .. MaxDialogs
      PROVE  tries'[d].batches <= tries'[d].errors + (IF MayAsk(d)' THEN 0 ELSE 1)
  <2>1. tries[d].batches <= tries[d].errors + (IF MayAsk(d) THEN 0 ELSE 1)
    BY DEF MigrateInv, RequestsInv
  <2>2. CASE d = m.dialog
    BY <1>3, <1>4, <2>1, <2>2
  <2>3. CASE d # m.dialog
    BY <1>4, <1>6, <2>1, <2>3
  <2> QED BY <2>2, <2>3
<1>8. RequestsInv'
  BY <1>2, <1>3, <1>7 DEF MigrateInv, RequestsInv
<1>9. ViewersInv'
  BY <1>2, ViewersSame DEF MigrateInv
<1> QED BY <1>5, <1>8, <1>9 DEF MigrateInv

LEMMA DismissInv ==
  ASSUME MigrateInv, Dismiss
  PROVE  MigrateInv'
<1>1. /\ isShown' = FALSE /\ viewer' = [s \in Sides |-> NoViewer] /\ diff' = NoDiff
      /\ UNCHANGED <<dialog, versions, newVersionNumber, targetDefinitionId, isDiagramOpen,
                     isMigrating, sourceLate, migrations, migrated, tries>>
  BY DEF Dismiss, Gone
<1>2. ViewersInv' /\ viewer' \in [Sides -> Views] /\ NoDiff \in Diffs
  BY <1>1, NoViewers DEF MigrateInv
<1>3. MigrateTypeOK'
  BY <1>1, <1>2 DEF MigrateInv, MigrateTypeOK
<1>4. \A d \in 1 .. MaxDialogs : MayAsk(d)' => MayAsk(d)
  BY <1>1 DEF MayAsk
<1>5. ASSUME NEW d \in 1 .. MaxDialogs
      PROVE  tries[d].batches <= tries[d].errors + (IF MayAsk(d)' THEN 0 ELSE 1)
  <2>1. tries[d].batches \in Nat /\ tries[d].errors \in Nat
    BY DEF MigrateInv, MigrateTypeOK, Tries
  <2>2. tries[d].batches <= tries[d].errors + (IF MayAsk(d) THEN 0 ELSE 1)
    BY DEF MigrateInv, RequestsInv
  <2> QED BY <1>4, <2>1, <2>2
<1>6. RequestsInv'
  BY <1>1, <1>5 DEF MigrateInv, RequestsInv
<1> QED BY <1>2, <1>3, <1>6 DEF MigrateInv

\* The inductive invariant of the migration dialog.
THEOREM MigrateInvariant == Spec => []MigrateInv
<1>1. MigrateInit => MigrateInv
  <2> SUFFICES ASSUME MigrateInit PROVE MigrateInv
    OBVIOUS
  <2>1. /\ dialog = 1 /\ isShown = TRUE /\ versions = "loading"
        /\ newVersionNumber = [d \in 1 .. MaxDialogs |-> Absent]
        /\ targetDefinitionId = Absent /\ isDiagramOpen = FALSE /\ isMigrating = FALSE
        /\ diff = NoDiff /\ viewer = [s \in Sides |-> NoViewer] /\ sourceLate = FALSE
        /\ migrations = {} /\ migrated = {}
        /\ tries = [d \in 1 .. MaxDialogs |-> [batches |-> 0, errors |-> 0]]
    BY DEF MigrateInit
  <2>2. 1 \in 1 .. MaxDialogs
    BY MigrateAssumption
  <2>3. /\ NoViewer \in Views /\ NoDiff \in Diffs /\ NoDiff.deletions = {}
        /\ NoViewer.id = Absent /\ NoViewer.fetched = Absent /\ NoViewer.imports = <<>>
        /\ NoViewer.shown = Absent /\ NoViewer.marks = {}
    BY DEF NoViewer, Views, NoDiff, Diffs, SomeVersion
  <2>4. viewer.source = NoViewer /\ viewer.target = NoViewer /\ viewer \in [Sides -> Views]
    BY <2>1, <2>3 DEF Sides
  <2>5. newVersionNumber \in [1 .. MaxDialogs -> SomeVersion]
        /\ tries \in [1 .. MaxDialogs -> Tries]
        /\ \A d \in 1 .. MaxDialogs : tries[d].batches = 0 /\ tries[d].errors = 0
    BY <2>1 DEF SomeVersion, Tries
  <2>6. MigrateTypeOK
    BY <2>1, <2>2, <2>3, <2>4, <2>5 DEF MigrateTypeOK
  <2>7. RequestsInv
    BY <2>1, <2>2, <2>5 DEF RequestsInv
  <2>8. ViewersInv
    BY <2>1, <2>3, <2>4, VersionFacts DEF ViewersInv, Aims, DrawnOnce, MarksFit
  <2> QED BY <2>6, <2>7, <2>8 DEF MigrateInv
<1>2. MigrateInv /\ [MigrateNext]_migrateVars => MigrateInv'
  <2> SUFFICES ASSUME MigrateInv, [MigrateNext]_migrateVars PROVE MigrateInv'
    OBVIOUS
  <2>1. CASE VersionsFailed
    <3>1. /\ versions' = "failed" /\ versions = "loading"
          /\ UNCHANGED <<dialog, isShown, newVersionNumber, targetDefinitionId, isDiagramOpen,
                         isMigrating, diff, viewer, sourceLate, migrations, migrated, tries>>
      BY <2>1 DEF VersionsFailed
    <3>2. RequestsInv'
      BY <3>1 DEF MigrateInv, RequestsInv, MayAsk
    <3>3. ViewersInv'
      BY <3>1, ViewersSame DEF MigrateInv
    <3> QED BY <3>1, <3>2, <3>3 DEF MigrateInv, MigrateTypeOK
  <2>2. CASE UNCHANGED migrateVars
    BY <2>2, RequestsSame, ViewersSame DEF migrateVars, MigrateInv, MigrateTypeOK
  <2> QED
    BY <2>1, <2>2, OpenModalInv, VersionsLoadedInv, UpdateTargetInv, ToggleModelsInv,
       TransitionEndInv, XmlRetrievedInv, DiagramRenderedInv, XmlFailedInv, ExecuteInv,
       MigrationAnsweredInv, MigrationFailedInv, DismissInv DEF MigrateNext
<1> QED BY <1>1, <1>2, AllWidgetsStart, OneWidgetMoves, PTL DEF Spec, widgetVars

\* Every batch the dialog tells of was asked of it with the target its toast
\* names or one the user replaced, a dialog makes one batch and one more for
\* every lost answer, and diagrams at rest are those of the two versions, with
\* their differences marked (migrate dialog).
THEOREM MigrateDialog == Spec => []MigrateDialogIsTrue
<1>1. MigrateInv => MigrateDialogIsTrue
  <2> SUFFICES ASSUME MigrateInv PROVE MigrateDialogIsTrue
    OBVIOUS
  <2>1. ASSUME NEW d \in 1 .. MaxDialogs PROVE tries[d].batches <= 1 + tries[d].errors
    <3>1. tries[d].batches \in Nat /\ tries[d].errors \in Nat
      BY DEF MigrateInv, MigrateTypeOK, Tries
    <3>2. tries[d].batches <= tries[d].errors + (IF MayAsk(d) THEN 0 ELSE 1)
      BY DEF MigrateInv, RequestsInv
    <3> QED BY <3>1, <3>2
  <2>2. MigrationToldAsSent
    BY <2>1 DEF MigrateInv, RequestsInv, MigrationToldAsSent
  <2>3. ASSUME AtRest(viewer.source), AtRest(viewer.target)
        PROVE  /\ viewer.target.shown = newVersionNumber[dialog] /\ viewer.source.shown = OldVersion
               /\ ~sourceLate => MarksExact(viewer)
    <3>1. viewer.target \in Views /\ viewer.source \in Views
      BY DEF MigrateInv, MigrateTypeOK, Sides
    <3>2. viewer.target.id = newVersionNumber[dialog] /\ viewer.target.shown = viewer.target.id
          /\ viewer.target.id # Absent
      BY <2>3 DEF MigrateInv, ViewersInv, Aims, AtRest
    <3>3. viewer.source.id = OldVersion /\ viewer.source.shown = viewer.source.id
      BY <2>3 DEF MigrateInv, ViewersInv, Aims, AtRest
    <3>4. viewer.target.shown \in AllVersions
      BY <3>1, <3>2 DEF Views, SomeVersion
    <3> QED BY <3>2, <3>3, <3>4 DEF MigrateInv, ViewersInv
  <2>4. DiffIsOfTheDiagrams
    BY <2>3 DEF DiffIsOfTheDiagrams, MarksExact
  <2> QED BY <2>2, <2>4 DEF MigrateDialogIsTrue
<1> QED BY <1>1, MigrateInvariant, PTL

-----------------------------------------------------------------------------
(***************************************************************************)
(* The doughnut, for any definitions, answers and loads.  What the chart   *)
(* says must hold while it is not shown too: a failed load brings it back  *)
(* by the way up.  SlicesInv relates the slices of the keys to those of    *)
(* their versions, which outlive the load they came with; StoreInv what is *)
(* hidden to what is remembered of it.                                     *)
(***************************************************************************)

IsSeries(f) == f = [label \in DOMAIN f |-> f[label]]

DashboardTypeOK ==
  /\ dataLoading \in BOOLEAN /\ drilldown \in BOOLEAN
  /\ sliceVisibility \in [DOMAIN currentSeries -> BOOLEAN]
  /\ mainVisibilityStore \in [DOMAIN mainVisibilityStore -> BOOLEAN]
  /\ DOMAIN drillData \subseteq Range(KeyOf)
  /\ \A k \in DOMAIN drillData : IsSeries(drillData[k]) /\ DOMAIN drillData[k] \subseteq DOMAIN KeyOf

SlicesInv ==
  /\ DOMAIN mainSeries \subseteq DOMAIN drillData
  /\ \A k \in DOMAIN mainSeries : mainSeries[k] = Total(drillData[k])
  /\ drilldown => /\ selectedDefinitionKey \in DOMAIN mainSeries
                  /\ currentSeries = drillData[selectedDefinitionKey]
  /\ ~drilldown => currentSeries = mainSeries
  /\ chartData # NoSlices => /\ chartData = Masked(currentSeries, sliceVisibility)
                             /\ totalItems = Total(chartData)

StoreInv ==
  /\ DOMAIN mainSeries \subseteq DOMAIN mainVisibilityStore
  /\ ~drilldown => /\ selectedDefinitionKey # Absent => "link" \in carried
                   /\ \A k \in DOMAIN mainSeries \ carried :
                        mainVisibilityStore[k] = sliceVisibility[k]

DashboardInv == DashboardTypeOK /\ SlicesInv /\ StoreInv

-----------------------------------------------------------------------------
\* What an answer becomes (transformDataToSeriesData).
LEMMA SeriesFacts ==
  ASSUME NEW items \in Answers
  PROVE  /\ KeysIn(items) \subseteq Range(KeyOf)
         /\ DOMAIN MainSeries(items) = KeysIn(items)
         /\ \A k \in KeysIn(items) :
              /\ MainSeries(items)[k] = Total(DrillSeries(items, k))
              /\ IsSeries(DrillSeries(items, k)) /\ DOMAIN DrillSeries(items, k) \subseteq DOMAIN KeyOf
         /\ IsSeries(MainSeries(items))
BY DEF KeysIn, MainSeries, DrillSeries, Versions, Restrict, Range, IsSeries

\* A chart with nothing hidden.
LEMMA AllVisibleFacts ==
  ASSUME NEW series, IsSeries(series)
  PROVE  /\ AllVisible(series) \in [DOMAIN series -> BOOLEAN]
         /\ \A l \in DOMAIN series : AllVisible(series)[l] = TRUE
         /\ Masked(series, AllVisible(series)) = series
BY DEF AllVisible, Masked, IsSeries

\* A function that adds to another.
LEMMA MergeFacts ==
  ASSUME NEW f, NEW g
  PROVE  /\ DOMAIN Joined(f, g) = DOMAIN f \union DOMAIN g
         /\ \A x \in DOMAIN f : Joined(f, g)[x] = f[x]
         /\ \A x \in DOMAIN g \ DOMAIN f : Joined(f, g)[x] = g[x]
         /\ Joined(f, g) = [x \in DOMAIN f \union DOMAIN g |-> Joined(f, g)[x]]
BY DEF Joined

LEMMA DataLoadedInv ==
  ASSUME DashboardInv, NEW items \in Answers, DataLoaded(items)
  PROVE  DashboardInv'
<1> DEFINE series == MainSeries(items)
           drill == [k \in KeysIn(items) |-> DrillSeries(items, k)]
           visible == AllVisible(series)
<1>1. /\ dataLoading' = FALSE /\ mainSeries' = series /\ currentSeries' = series
      /\ drilldown' = FALSE /\ chartData' = series /\ totalItems' = Total(series)
      /\ drillData' = Joined(drill, drillData)
      /\ sliceVisibility' = visible
      /\ mainVisibilityStore' = Joined(mainVisibilityStore, visible)
      /\ carried' = {k \in DOMAIN mainVisibilityStore : ~mainVisibilityStore[k]}
                      \union (IF selectedDefinitionKey = Absent THEN {} ELSE {"link"})
      /\ selectedDefinitionKey' = selectedDefinitionKey
  BY DEF DataLoaded, SetChartData
<1>2. /\ KeysIn(items) \subseteq Range(KeyOf) /\ DOMAIN series = KeysIn(items)
      /\ \A k \in KeysIn(items) :
           /\ series[k] = Total(DrillSeries(items, k))
           /\ IsSeries(DrillSeries(items, k)) /\ DOMAIN DrillSeries(items, k) \subseteq DOMAIN KeyOf
      /\ IsSeries(series)
  BY SeriesFacts
<1>3. /\ visible \in [DOMAIN series -> BOOLEAN]
      /\ \A l \in DOMAIN series : visible[l] = TRUE
      /\ Masked(series, visible) = series
  BY <1>2, AllVisibleFacts
<1>4. /\ DOMAIN drill = KeysIn(items)
      /\ \A k \in KeysIn(items) : drill[k] = DrillSeries(items, k)
  OBVIOUS
<1> HIDE DEF series, drill, visible
<1>5. /\ DOMAIN drillData' = DOMAIN drill \union DOMAIN drillData
      /\ \A k \in DOMAIN drill : drillData'[k] = drill[k]
      /\ \A k \in DOMAIN drillData \ DOMAIN drill : drillData'[k] = drillData[k]
  <2>1. LET j == Joined(drill, drillData) IN
        /\ DOMAIN j = DOMAIN drill \union DOMAIN drillData
        /\ \A k \in DOMAIN drill : j[k] = drill[k]
        /\ \A k \in DOMAIN drillData \ DOMAIN drill : j[k] = drillData[k]
    BY ONLY MergeFacts
  <2> QED BY <1>1, <2>1
<1>6. /\ DOMAIN mainVisibilityStore' = DOMAIN mainVisibilityStore \union DOMAIN visible
      /\ \A k \in DOMAIN mainVisibilityStore : mainVisibilityStore'[k] = mainVisibilityStore[k]
      /\ \A k \in DOMAIN visible \ DOMAIN mainVisibilityStore : mainVisibilityStore'[k] = visible[k]
      /\ mainVisibilityStore' = [k \in DOMAIN mainVisibilityStore \union DOMAIN visible |->
                                   mainVisibilityStore'[k]]
  <2>1. LET j == Joined(mainVisibilityStore, visible) IN
        /\ DOMAIN j = DOMAIN mainVisibilityStore \union DOMAIN visible
        /\ \A k \in DOMAIN mainVisibilityStore : j[k] = mainVisibilityStore[k]
        /\ \A k \in DOMAIN visible \ DOMAIN mainVisibilityStore : j[k] = visible[k]
        /\ j = [k \in DOMAIN mainVisibilityStore \union DOMAIN visible |-> j[k]]
    BY ONLY MergeFacts
  <2> QED BY <1>1, <2>1
<1>7. \A k \in DOMAIN mainVisibilityStore' : mainVisibilityStore'[k] \in BOOLEAN
  <2>1. ASSUME NEW k \in DOMAIN mainVisibilityStore PROVE mainVisibilityStore'[k] \in BOOLEAN
    BY <1>6 DEF DashboardInv, DashboardTypeOK
  <2>2. ASSUME NEW k \in DOMAIN visible \ DOMAIN mainVisibilityStore
        PROVE  mainVisibilityStore'[k] \in BOOLEAN
    BY <1>3, <1>6
  <2> QED BY <1>6, <2>1, <2>2
<1>8. mainVisibilityStore' \in [DOMAIN mainVisibilityStore' -> BOOLEAN]
  BY <1>6, <1>7
<1>9. \A k \in DOMAIN drillData' : IsSeries(drillData'[k]) /\ DOMAIN drillData'[k] \subseteq DOMAIN KeyOf
  <2>1. ASSUME NEW k \in DOMAIN drill
        PROVE  IsSeries(drillData'[k]) /\ DOMAIN drillData'[k] \subseteq DOMAIN KeyOf
    BY <1>2, <1>4, <1>5
  <2>2. ASSUME NEW k \in DOMAIN drillData \ DOMAIN drill
        PROVE  IsSeries(drillData'[k]) /\ DOMAIN drillData'[k] \subseteq DOMAIN KeyOf
    BY <1>5 DEF DashboardInv, DashboardTypeOK
  <2> QED BY <1>5, <2>1, <2>2
<1>10. DashboardTypeOK'
  BY <1>1, <1>2, <1>3, <1>4, <1>5, <1>8, <1>9 DEF DashboardInv, DashboardTypeOK
<1>11. SlicesInv'
  BY <1>1, <1>2, <1>3, <1>4, <1>5 DEF SlicesInv
<1>12. \A k \in DOMAIN series \ carried' : mainVisibilityStore'[k] = visible[k]
  <2> SUFFICES ASSUME NEW k \in DOMAIN series \ carried'
               PROVE  mainVisibilityStore'[k] = visible[k]
    OBVIOUS
  <2>1. k \in DOMAIN visible
    BY <1>3
  <2>2. CASE k \in DOMAIN mainVisibilityStore
    BY <1>1, <1>3, <1>6, <2>2 DEF DashboardInv, DashboardTypeOK
  <2>3. CASE k \notin DOMAIN mainVisibilityStore
    BY <1>6, <2>1, <2>3
  <2> QED BY <2>2, <2>3
<1>13. StoreInv'
  BY <1>1, <1>3, <1>6, <1>12 DEF StoreInv
<1> QED BY <1>10, <1>11, <1>13 DEF DashboardInv

LEMMA DrilldownInv ==
  ASSUME DashboardInv, NEW key \in DOMAIN chartData, Drilldown(key)
  PROVE  DashboardInv'
<1>1. /\ chartData # NoSlices /\ key \in DOMAIN drillData
      /\ selectedDefinitionKey' = key
      /\ currentSeries' = drillData[key] /\ sliceVisibility' = AllVisible(drillData[key])
      /\ drilldown' = TRUE /\ chartData' = drillData[key] /\ totalItems' = Total(drillData[key])
      /\ UNCHANGED <<dataLoading, drillData, mainSeries, mainVisibilityStore>>
  BY DEF Drilldown, SetChartData, ChartShown
<1>2. key \in DOMAIN currentSeries
  BY <1>1 DEF DashboardInv, SlicesInv, Masked
<1>3. ~drilldown
  <2> SUFFICES ASSUME drilldown PROVE FALSE
    OBVIOUS
  <2>1. key \in DOMAIN KeyOf
    BY <1>2 DEF DashboardInv, DashboardTypeOK, SlicesInv
  <2>2. key \in Range(KeyOf)
    BY <1>1 DEF DashboardInv, DashboardTypeOK
  <2> QED BY <2>1, <2>2, DashboardAssumption
<1>4. key \in DOMAIN mainSeries
  BY <1>2, <1>3 DEF DashboardInv, SlicesInv
<1>5. IsSeries(drillData[key])
  BY <1>1 DEF DashboardInv, DashboardTypeOK
<1>6. /\ AllVisible(drillData[key]) \in [DOMAIN drillData[key] -> BOOLEAN]
      /\ Masked(drillData[key], AllVisible(drillData[key])) = drillData[key]
  BY <1>5, AllVisibleFacts
<1>7. DashboardTypeOK'
  BY <1>1, <1>6 DEF DashboardInv, DashboardTypeOK
<1>8. SlicesInv'
  BY <1>1, <1>4, <1>6 DEF DashboardInv, SlicesInv
<1>9. StoreInv'
  BY <1>1 DEF DashboardInv, StoreInv
<1> QED BY <1>7, <1>8, <1>9 DEF DashboardInv

LEMMA DrillupInv ==
  ASSUME DashboardInv, Drillup
  PROVE  DashboardInv'
<1>1. /\ currentSeries' = mainSeries /\ sliceVisibility' = Restored(mainSeries)
      /\ drilldown' = FALSE /\ chartData' = Masked(mainSeries, sliceVisibility')
      /\ totalItems' = Total(Masked(mainSeries, sliceVisibility'))
      /\ selectedDefinitionKey' = Absent
      /\ UNCHANGED <<dataLoading, drillData, mainSeries, mainVisibilityStore>>
  BY DEF Drillup, SetChartData
<1>2. Restored(mainSeries) \in [DOMAIN mainSeries -> BOOLEAN]
  BY Zenon DEF Restored
<1>3. \A k \in DOMAIN mainSeries : mainVisibilityStore[k] = Restored(mainSeries)[k]
  BY DEF DashboardInv, DashboardTypeOK, StoreInv, Restored
<1>4. DashboardTypeOK'
  BY <1>1, <1>2 DEF DashboardInv, DashboardTypeOK
<1>5. SlicesInv'
  BY <1>1 DEF DashboardInv, SlicesInv
<1>6. StoreInv'
  BY <1>1, <1>3 DEF DashboardInv, StoreInv
<1> QED BY <1>4, <1>5, <1>6 DEF DashboardInv

LEMMA LegendItemClickInv ==
  ASSUME DashboardInv, NEW label \in DOMAIN chartData, LegendItemClick(label)
  PROVE  DashboardInv'
<1>1. /\ chartData # NoSlices
      /\ sliceVisibility' = [sliceVisibility EXCEPT ![label] = ~sliceVisibility[label]]
      /\ mainVisibilityStore' =
           IF drilldown THEN mainVisibilityStore
           ELSE [mainVisibilityStore EXCEPT ![label] = sliceVisibility'[label]]
      /\ drilldown' = drilldown /\ chartData' = Masked(currentSeries, sliceVisibility')
      /\ totalItems' = Total(Masked(currentSeries, sliceVisibility'))
      /\ carried' = carried \ {label}
      /\ UNCHANGED <<dataLoading, selectedDefinitionKey, drillData, mainSeries, currentSeries>>
  BY DEF LegendItemClick, SetChartData, ChartShown
<1>2. label \in DOMAIN currentSeries
  BY <1>1 DEF DashboardInv, SlicesInv, Masked
<1>3. /\ sliceVisibility' \in [DOMAIN currentSeries -> BOOLEAN]
      /\ \A k \in DOMAIN currentSeries : k # label => sliceVisibility'[k] = sliceVisibility[k]
  BY <1>1, <1>2 DEF DashboardInv, DashboardTypeOK
<1>4. ~drilldown => label \in DOMAIN mainSeries
  BY <1>2 DEF DashboardInv, SlicesInv
<1>5. /\ mainVisibilityStore' \in [DOMAIN mainVisibilityStore' -> BOOLEAN]
      /\ DOMAIN mainVisibilityStore' = DOMAIN mainVisibilityStore
      /\ ~drilldown => /\ mainVisibilityStore'[label] = sliceVisibility'[label]
                       /\ \A k \in DOMAIN mainVisibilityStore :
                            k # label => mainVisibilityStore'[k] = mainVisibilityStore[k]
  <2>1. CASE drilldown
    BY <1>1, <2>1 DEF DashboardInv, DashboardTypeOK
  <2>2. CASE ~drilldown
    <3>1. label \in DOMAIN mainVisibilityStore /\ sliceVisibility'[label] \in BOOLEAN
      BY <1>2, <1>3, <1>4, <2>2 DEF DashboardInv, StoreInv
    <3> QED BY <1>1, <2>2, <3>1 DEF DashboardInv, DashboardTypeOK
  <2> QED BY <2>1, <2>2
<1>6. DashboardTypeOK'
  BY <1>1, <1>3, <1>5 DEF DashboardInv, DashboardTypeOK
<1>7. SlicesInv'
  BY <1>1 DEF DashboardInv, SlicesInv
<1>8. ASSUME ~drilldown
      PROVE  /\ selectedDefinitionKey # Absent => "link" \in carried'
             /\ \A k \in DOMAIN mainSeries \ carried' : mainVisibilityStore'[k] = sliceVisibility'[k]
  <2>1. label # "link"
    BY <1>4, <1>8, DashboardAssumption DEF DashboardInv, DashboardTypeOK, SlicesInv
  <2>2. ASSUME NEW k \in DOMAIN mainSeries \ carried', k # label
        PROVE  mainVisibilityStore'[k] = sliceVisibility'[k]
    <3>1. k \in DOMAIN currentSeries /\ k \in DOMAIN mainVisibilityStore /\ k \notin carried
      BY <1>1, <1>8, <2>2 DEF DashboardInv, SlicesInv, StoreInv
    <3>2. mainVisibilityStore[k] = sliceVisibility[k]
      BY <1>8, <2>2, <3>1 DEF DashboardInv, StoreInv
    <3> QED BY <1>3, <1>5, <1>8, <2>2, <3>1, <3>2
  <2> QED BY <1>1, <1>5, <1>8, <2>1, <2>2 DEF DashboardInv, StoreInv
<1>9. StoreInv'
  BY <1>1, <1>5, <1>8 DEF DashboardInv, StoreInv
<1> QED BY <1>6, <1>7, <1>9 DEF DashboardInv

\* The inductive invariant of the doughnut.
THEOREM DashboardInvariant == Spec => []DashboardInv
<1>1. DashboardInit => DashboardInv
  <2> SUFFICES ASSUME DashboardInit PROVE DashboardInv
    OBVIOUS
  <2>1. DOMAIN NoSlices = {} /\ NoSlices \in [{} -> BOOLEAN]
    BY DEF NoSlices
  <2>2. DashboardTypeOK
    BY <2>1 DEF DashboardInit, DashboardTypeOK
  <2>3. SlicesInv /\ StoreInv
    BY <2>1 DEF DashboardInit, SlicesInv, StoreInv
  <2> QED BY <2>2, <2>3 DEF DashboardInv
<1>2. DashboardInv /\ [DashboardNext]_dashboardVars => DashboardInv'
  <2> SUFFICES ASSUME DashboardInv, [DashboardNext]_dashboardVars PROVE DashboardInv'
    OBVIOUS
  <2>1. CASE SelectTimeFrame
    <3>1. /\ dataLoading' = TRUE /\ chartData' = NoSlices
          /\ UNCHANGED <<drilldown, selectedDefinitionKey, drillData, mainSeries, currentSeries,
                         sliceVisibility, mainVisibilityStore, totalItems, carried>>
      BY <2>1 DEF SelectTimeFrame
    <3> QED BY <3>1 DEF DashboardInv, DashboardTypeOK, SlicesInv, StoreInv
  <2>2. CASE DataLoadFailed
    <3>1. /\ dataLoading' = FALSE
          /\ UNCHANGED <<drilldown, selectedDefinitionKey, drillData, mainSeries, currentSeries,
                         sliceVisibility, mainVisibilityStore, chartData, totalItems, carried>>
      BY <2>2 DEF DataLoadFailed
    <3> QED BY <3>1 DEF DashboardInv, DashboardTypeOK, SlicesInv, StoreInv
  <2>3. CASE UNCHANGED dashboardVars
    BY <2>3 DEF dashboardVars, DashboardInv, DashboardTypeOK, SlicesInv, StoreInv
  <2> QED
    BY <2>1, <2>2, <2>3, DataLoadedInv, DrilldownInv, DrillupInv, LegendItemClickInv
    DEF DashboardNext
<1> QED BY <1>1, <1>2, AllWidgetsStart, OneWidgetMoves, PTL DEF Spec, widgetVars

\* Chart, count, legend and link of the doughnut are about the same items,
\* and what outlives a load is what is named (widget-base.ts).
THEOREM DashboardStory == Spec => []DashboardTellsOneStory
<1>1. DashboardInv => DashboardTellsOneStory
  <2> SUFFICES ASSUME DashboardInv, ChartShown PROVE DashboardTellsOneStory
    BY DEF DashboardTellsOneStory
  <2>1. /\ chartData = Masked(currentSeries, sliceVisibility) /\ totalItems = Total(chartData)
    BY DEF DashboardInv, SlicesInv, ChartShown
  <2>2. drilldown => /\ selectedDefinitionKey \in DOMAIN mainSeries
                     /\ currentSeries = drillData[selectedDefinitionKey]
                     /\ Total(currentSeries) = mainSeries[selectedDefinitionKey]
    BY DEF DashboardInv, SlicesInv
  <2> QED BY <2>1, <2>2 DEF DashboardInv, SlicesInv, StoreInv, DashboardTellsOneStory
<1> QED BY <1>1, DashboardInvariant, PTL

-----------------------------------------------------------------------------
(***************************************************************************)
(* The dialog of a variable, for integers of any widths.  Whatever is      *)
(* entered, the value is one that a control of the type lets the user      *)
(* enter, or still the one the dialog opened with; of the latter kind are  *)
(* the numbers and truths of the engine, which are no texts, and with one  *)
(* of them an edited dialog has nothing to save (ValueInv).                *)
(***************************************************************************)

\* What updateWorkingCopyData makes of the variable's value
Opened(type, value) == IF type = "Null" THEN NoText ELSE Formatted(type, value)

Spellings ==
  {"number", "boolean", "null", "empty", "decimal", "hex", "fraction", "truth", "date", "word",
   "json", "jsonFormatted", "xml", "xmlFormatted"}
Values == [spelling : Spellings, means : Int]
WorkingCopies ==
  [type : VariableTypes, named : BOOLEAN, value : Values, info : {"missing", "changed", "unchanged"}]

VariableTypeOK ==
  /\ working \in WorkingCopies \union {Absent}
  /\ activeTab \in {"Serialized", "Deserialized"}

VariableInv ==
  modalType = "Edit" => /\ variable.type \in VariableTypes
                        /\ variable.value \in EngineValues(variable.type)

ValueInv ==
  working # Absent /\ modalType \in {"Add", "Edit"} =>
    /\ modalType = "Edit" => working.type = variable.type
    /\ \/ working.value \in Enterable(working.type) \union {NoText}
       \/ modalType = "Edit" /\ working.value = Opened(variable.type, variable.value)

UntouchedInv ==
  working # Absent /\ modalType = "Edit" /\ ~touched =>
    working.value = Opened(variable.type, variable.value) /\ working.info = "unchanged"

VariableDialogInv ==
  VariableTypeOK /\ VariableInv /\ ValueInv /\ UntouchedInv /\ SavedValueFits /\ CopiesWhatItShows

-----------------------------------------------------------------------------
\* The types, told apart.
LEMMA WholeFacts ==
  /\ Whole = {"Short", "Integer", "Long"}
  /\ \A type \in Whole : Half(type) \in Nat \ {0}
BY DialogWidths DEF Whole, Half

\* What a control lets the user enter, by type.
LEMMA EnterableFacts ==
  /\ Enterable("Boolean") = {Spelled("truth", n) : n \in 0 .. 1}
  /\ Enterable("Date") = {NoText, Plain("date")}
  /\ Enterable("Null") = {}
  /\ \A type : type \notin {"Boolean", "Null", "Date"} => Enterable(type) = FreeTexts
BY DEF Enterable

\* What the engine has, by type.
LEMMA EngineFacts ==
  /\ \A type \in Whole : EngineValues(type) = {Spelled("number", n) : n \in -Half(type) .. Half(type) - 1}
  /\ EngineValues("Double") = {Spelled("number", n) : n \in 0 .. 1}
  /\ EngineValues("Boolean") = {Spelled("boolean", n) : n \in 0 .. 1}
  /\ EngineValues("Null") = {Plain("null")}
  /\ EngineValues("Json") = {Plain("json"), Plain("jsonFormatted")}
  /\ EngineValues("Xml") = {Plain("xml"), Plain("xmlFormatted")}
  /\ EngineValues("Date") = {Plain("date")}
  /\ EngineValues("String") = {Plain("word")}
  /\ EngineValues("Object") = {Plain("word")}
<1>1. \A type \in {"Double", "Boolean", "Null", "Json", "Xml", "Date", "String", "Object"} : type \notin Whole
  BY WholeFacts
<1> QED BY <1>1 DEF EngineValues

\* A text, as the user enters it: a numeral, a truth, a date or another.
LEMMA EnteredFacts ==
  ASSUME NEW type \in VariableTypes, NEW v \in Enterable(type) \union {NoText}
  PROVE  /\ v \in Values
         /\ v.spelling \notin {"number", "boolean", "null"}
         /\ v.spelling = "empty" => v = NoText
         /\ type = "Boolean" => v.spelling \in {"truth", "empty"}
         /\ type = "Null" => v = NoText
         /\ type \notin {"Boolean", "Null", "Date"} => v \in FreeTexts
<1>1. ASSUME NEW n \in AllInts PROVE n \in Int
  BY <1>1, WholeFacts DEF AllInts
<1>2. NoText \in Values /\ NoText.spelling = "empty" /\ NoText \in FreeTexts
  BY DEF FreeTexts, Spelled, Plain, NoText, Values, Spellings
<1>3. ASSUME NEW u \in FreeTexts
      PROVE  /\ u \in Values /\ u.spelling \notin {"number", "boolean", "null"}
             /\ u.spelling = "empty" => u = NoText
  <2>1. \/ \E n \in AllInts : u = Spelled("decimal", n)
        \/ u = Spelled("hex", 1) \/ u = Plain("fraction") \/ u = NoText
        \/ \E s \in {"word", "json", "jsonFormatted", "xml", "xmlFormatted"} : u = Plain(s)
    BY <1>3 DEF FreeTexts, Numerals
  <2>2. CASE \E n \in AllInts : u = Spelled("decimal", n)
    <3>1. PICK n \in AllInts : u = Spelled("decimal", n)
      BY <2>2
    <3>2. n \in Int
      BY <1>1
    <3> QED BY <3>1, <3>2 DEF Spelled, Plain, NoText, Values, Spellings
  <2>3. CASE \E s \in {"word", "json", "jsonFormatted", "xml", "xmlFormatted"} : u = Plain(s)
    BY <2>3 DEF Spelled, Plain, NoText, Values, Spellings
  <2> QED BY <1>2, <2>1, <2>2, <2>3 DEF Spelled, Plain, NoText, Values, Spellings
<1>4. CASE type = "Boolean"
  <2>1. ASSUME NEW n \in 0 .. 1, v = Spelled("truth", n)
        PROVE  v \in Values /\ v.spelling = "truth"
    BY <2>1 DEF Spelled, Plain, NoText, Values, Spellings
  <2>2. v = NoText \/ \E n \in 0 .. 1 : v = Spelled("truth", n)
    BY <1>4, EnterableFacts
  <2> QED BY <1>2, <1>4, <2>1, <2>2
<1>5. CASE type = "Date"
  <2>1. v = NoText \/ v = Plain("date")
    BY <1>5, EnterableFacts
  <2> QED BY <1>2, <1>5, <2>1 DEF Spelled, Plain, NoText, Values, Spellings
<1>6. CASE type = "Null"
  BY <1>2, <1>6, EnterableFacts
<1>7. CASE type \notin {"Boolean", "Null", "Date"}
  BY <1>2, <1>3, <1>7, EnterableFacts
<1> QED BY <1>4, <1>5, <1>6, <1>7

\* What the dialog opened with, by type.
LEMMA OpenedFacts ==
  ASSUME NEW type \in VariableTypes, NEW value \in EngineValues(type)
  PROVE  /\ value \in Values /\ Opened(type, value) \in Values
         /\ type = "Json" => Opened(type, value) = Formatted("Json", value)
         /\ type = "Xml" => Opened(type, value) = Plain("xmlFormatted")
         /\ type = "Xml" /\ Opened(type, value) # value => value.spelling = "xml"
         /\ type = "Null" => Opened(type, value) = NoText /\ value.spelling = "null"
         /\ type \notin {"Json", "Xml", "Null"} => Opened(type, value) = value
         /\ type = "Object" => Opened(type, value) = Plain("word")
<1>1. CASE type \in Whole
  <2>1. PICK n \in -Half(type) .. Half(type) - 1 : value = Spelled("number", n)
    BY <1>1, EngineFacts
  <2>2. n \in Int /\ type \notin {"Json", "Xml", "Null", "Object"}
    BY <1>1, WholeFacts
  <2>3. Opened(type, value) = value
    BY <2>2 DEF Opened, Formatted
  <2> QED BY <2>1, <2>2, <2>3 DEF Spelled, Plain, NoText, Values, Spellings
<1>2. CASE type \in {"Double", "Boolean"}
  <2>1. PICK n \in 0 .. 1 : value = Spelled("number", n) \/ value = Spelled("boolean", n)
    BY <1>2, EngineFacts
  <2>2. Opened(type, value) = value
    BY <1>2 DEF Opened, Formatted
  <2> QED BY <1>2, <2>1, <2>2 DEF Spelled, Plain, NoText, Values, Spellings
<1>3. CASE type = "Null"
  <2>1. value = Plain("null")
    BY <1>3, EngineFacts
  <2>2. Opened(type, value) = NoText
    BY <1>3 DEF Opened
  <2>3. value \in Values /\ NoText \in Values /\ value.spelling = "null"
    BY <2>1 DEF Spelled, Plain, NoText, Values, Spellings
  <2> QED BY <1>3, <2>2, <2>3
<1>4. CASE type = "Json"
  <2>1. value = Plain("json") \/ value = Plain("jsonFormatted")
    BY <1>4, EngineFacts
  <2>2. Opened(type, value) = Formatted("Json", value)
    BY <1>4 DEF Opened
  <2>3. Formatted("Json", value) = Plain("jsonFormatted")
    BY <2>1 DEF Formatted, Spelled, Plain, NoText, Values, Spellings
  <2> QED BY <1>4, <2>1, <2>2, <2>3 DEF Spelled, Plain, NoText, Values, Spellings
<1>5. CASE type = "Xml"
  <2>1. value = Plain("xml") \/ value = Plain("xmlFormatted")
    BY <1>5, EngineFacts
  <2>2. Opened(type, value) = Formatted("Xml", value)
    BY <1>5 DEF Opened
  <2>3. Formatted("Xml", value) = Plain("xmlFormatted")
    BY <2>1 DEF Formatted, Spelled, Plain, NoText, Values, Spellings
  <2> QED BY <1>5, <2>1, <2>2, <2>3 DEF Spelled, Plain, NoText, Values, Spellings
<1>6. CASE type \in {"Date", "String", "Object"}
  <2>1. value = Plain("date") \/ value = Plain("word")
    BY <1>6, EngineFacts
  <2>2. Opened(type, value) = value
    BY <1>6 DEF Opened, Formatted
  <2> QED BY <1>6, <2>1, <2>2, EngineFacts DEF Spelled, Plain, NoText, Values, Spellings
<1> QED BY <1>1, <1>2, <1>3, <1>4, <1>5, <1>6 DEF VariableTypes, Numeric

\* What may be saved after an edit differs from what the dialog opened with.
LEMMA ChangedFacts ==
  ASSUME VariableTypeOK, VariableInv, ValueInv, working # Absent, modalType = "Edit", CanSave,
         working.value = Opened(variable.type, variable.value)
  PROVE  working.type \in {"Object", "Xml", "Null"}
<1>1. /\ working.type = variable.type /\ variable.type \in VariableTypes
      /\ variable.value \in EngineValues(variable.type)
  BY DEF VariableInv, ValueInv
<1>2. HasValueInfoChanged \/ HasValueChanged
  BY DEF CanSave
<1>3. HasValueInfoChanged => working.type = "Object"
  BY DEF HasValueInfoChanged
<1>4. HasValueChanged => working.type \in {"Xml", "Null"}
  BY <1>1, OpenedFacts DEF HasValueChanged
<1> QED BY <1>2, <1>3, <1>4

\* What is saved fits its type (isVariableValueValid).
LEMMA ValidFits ==
  ASSUME NEW type \in VariableTypes, NEW v \in Enterable(type) \union {NoText},
         IsVariableValueValid(type, v)
  PROVE  \/ Fits(type, IF type = "Null" THEN Plain("null") ELSE v)
         \/ type \in Numeric /\ v.spelling = "hex"
         \/ type \in Whole /\ v = NoText
<1>1. /\ v.means \in Int /\ v.spelling \notin {"number", "boolean", "null"}
      /\ v.spelling = "empty" => v = NoText
  BY EnteredFacts DEF Values
<1>2. /\ \A t \in Whole : t \in {"Short", "Integer", "Long"} /\ Half(t) \in Nat \ {0}
  BY WholeFacts
<1>3. CASE type \in Whole
  <2>1. IsVariableValueValidNumber(type, v)
    BY <1>2, <1>3 DEF IsVariableValueValid, Numeric
  <2>2. ~IsNaN(v) /\ IsBigInt(v) /\ v.means < Half(type) /\ v.means >= -Half(type)
    BY <1>2, <1>3, <2>1 DEF IsVariableValueValidNumber
  <2>3. v.spelling \in {"empty", "decimal", "hex"}
    BY <1>1, <2>2 DEF IsNaN, IsBigInt
  <2>4. v.means \in -Half(type) .. Half(type) - 1
    BY <1>1, <1>2, <1>3, <2>2
  <2>5. CASE v.spelling = "decimal"
    <3>1. type \notin {"Null", "Double", "Boolean", "Date", "Json", "Xml"}
      BY <1>2, <1>3
    <3>2. Fits(type, v)
      BY <1>3, <2>4, <2>5, <3>1 DEF Fits
    <3> QED BY <3>1, <3>2
  <2> QED BY <1>1, <1>3, <2>3, <2>5 DEF Numeric
<1>4. CASE type = "Double"
  <2>1. ~IsNaN(v) /\ ParsesAsFloat(v)
    BY <1>4 DEF IsVariableValueValid, Numeric, IsVariableValueValidNumber
  <2>2. v.spelling \in {"decimal", "hex", "fraction"}
    BY <1>1, <2>1 DEF IsNaN, ParsesAsFloat, Falsy
  <2>3. type \notin Whole
    BY <1>2, <1>4
  <2> QED BY <1>4, <2>2, <2>3 DEF Fits, Numeric
<1>5. CASE type = "Boolean"
  <2>1. type \notin Numeric /\ type \notin Whole
    BY <1>2, <1>5 DEF Numeric
  <2>2. ~Falsy(v) /\ v.spelling \in {"truth", "empty"}
    BY <1>5, <2>1, EnteredFacts DEF IsVariableValueValid
  <2> QED BY <1>5, <2>1, <2>2 DEF Fits, Falsy
<1>6. CASE type = "Date"
  <2>1. type \notin Numeric /\ type \notin Whole
    BY <1>2, <1>6 DEF Numeric
  <2> QED BY <1>6, <2>1 DEF IsVariableValueValid, Fits, Plain, Spelled
<1>7. CASE type \in {"Json", "Xml"}
  <2>1. type \notin Numeric /\ type \notin Whole
    BY <1>2, <1>7 DEF Numeric
  <2> QED BY <1>7, <2>1 DEF IsVariableValueValid, Fits
<1>8. CASE type = "Null"
  <2>1. type \notin Numeric /\ type \notin Whole
    BY <1>2, <1>8 DEF Numeric
  <2> QED BY <1>8, <2>1 DEF Fits, Plain, Spelled
<1>9. CASE type \in {"String", "Object"}
  <2>1. type \notin Numeric /\ type \notin Whole
    BY <1>2, <1>9 DEF Numeric
  <2> QED BY <1>9, <2>1 DEF IsVariableValueValid, Fits
<1> QED BY <1>3, <1>4, <1>5, <1>6, <1>7, <1>8, <1>9 DEF VariableTypes, Numeric

LEMMA SaveDialogInv ==
  ASSUME VariableDialogInv, SaveDialog
  PROVE  VariableDialogInv'
<1>1. /\ working # Absent /\ modalType # "Readonly" /\ CanSave /\ working' = Absent
      /\ result' = [type |-> working.type,
                    value |-> IF working.type = "Null" THEN Plain("null") ELSE working.value]
      /\ UNCHANGED <<modalType, variable, touched, deserialized, activeTab, copied>>
  BY DEF SaveDialog, ConfirmVariable, Closed
<1>2. VariableInv' /\ ValueInv' /\ UntouchedInv' /\ VariableTypeOK' /\ CopiesWhatItShows'
  BY <1>1 DEF VariableDialogInv, VariableInv, ValueInv, UntouchedInv, VariableTypeOK, CopiesWhatItShows
<1>3. ASSUME modalType \in {"Add", "Edit"}
      PROVE  \/ Fits(result'.type, result'.value)
             \/ result'.type \in Numeric /\ result'.value.spelling = "hex"
             \/ result'.type \in Whole /\ result'.value = NoText
  <2> DEFINE type == working.type  v == working.value
  <2>1. /\ type \in VariableTypes
        /\ modalType = "Edit" => type = variable.type
        /\ \/ v \in Enterable(type) \union {NoText}
           \/ modalType = "Edit" /\ v = Opened(variable.type, variable.value)
    BY <1>1, <1>3 DEF VariableDialogInv, ValueInv, VariableTypeOK, WorkingCopies
  <2>2. IsVariableValueValid(type, v)
    BY <1>1, <1>3 DEF CanSave
  <2>3. /\ result'.type = type
        /\ result'.value = IF type = "Null" THEN Plain("null") ELSE v
    BY <1>1
  <2>4. CASE v \in Enterable(type) \union {NoText}
    <3>1. \/ Fits(type, IF type = "Null" THEN Plain("null") ELSE v)
          \/ type \in Numeric /\ v.spelling = "hex"
          \/ type \in Whole /\ v = NoText
      BY <2>1, <2>2, <2>4, ValidFits
    <3>2. type \in Numeric => type # "Null"
      BY WholeFacts DEF Numeric
    <3> QED BY <2>3, <3>1, <3>2 DEF Numeric
  <2>5. CASE modalType = "Edit" /\ v = Opened(variable.type, variable.value)
    <3>1. type \in {"Object", "Xml", "Null"}
      BY <1>1, <2>5, ChangedFacts DEF VariableDialogInv
    <3>2. type = variable.type /\ variable.value \in EngineValues(type)
      BY <2>1, <2>5 DEF VariableDialogInv, VariableInv
    <3>3. /\ type \in {"Object", "Xml"} => v \in FreeTexts
          /\ type = "Null" => v = NoText
      BY <2>1, <2>5, <3>2, OpenedFacts DEF FreeTexts, Opened
    <3>4. v \in Enterable(type) \union {NoText}
      BY <3>1, <3>3 DEF Enterable
    <3> QED BY <2>4, <3>4
  <2> QED BY <2>1, <2>4, <2>5
<1>4. SavedValueFits'
  BY <1>1, <1>3 DEF SavedValueFits
<1> QED BY <1>2, <1>4 DEF VariableDialogInv

\* Something is entered.
LEMMA EnteredInv ==
  ASSUME VariableDialogInv, NEW after \in WorkingCopies, Entered(after),
         modalType = "Edit" => after.type = working.type,
         \/ after.value \in Enterable(after.type) \union {NoText}
         \/ after.value = working.value /\ after.type = working.type
  PROVE  VariableDialogInv'
<1>1. /\ working # Absent /\ modalType \in {"Add", "Edit"} /\ working' = after /\ touched' = TRUE
      /\ UNCHANGED <<modalType, variable, deserialized, activeTab, copied, result>>
  BY DEF Entered, Editable
<1>2. VariableTypeOK' /\ VariableInv' /\ UntouchedInv' /\ SavedValueFits' /\ CopiesWhatItShows'
  BY <1>1 DEF VariableDialogInv, VariableTypeOK, VariableInv, UntouchedInv, SavedValueFits,
              CopiesWhatItShows
<1>3. ValueInv'
  <2>1. /\ modalType = "Edit" => working.type = variable.type
        /\ \/ working.value \in Enterable(working.type) \union {NoText}
           \/ modalType = "Edit" /\ working.value = Opened(variable.type, variable.value)
    BY <1>1 DEF VariableDialogInv, ValueInv
  <2> QED BY <1>1, <2>1 DEF ValueInv
<1> QED BY <1>2, <1>3 DEF VariableDialogInv

\* A text after it was formatted.
LEMMA FormatFacts ==
  ASSUME NEW type \in VariableTypes, NEW v, Formatted(type, v) # v
  PROVE  Formatted(type, v) \in Enterable(type) /\ Formatted(type, v) \in Values
<1>1. \/ type = "Json" /\ Formatted(type, v) = Plain("jsonFormatted")
      \/ type = "Xml" /\ Formatted(type, v) = Plain("xmlFormatted")
  BY DEF Formatted
<1>2. Enterable("Json") = FreeTexts /\ Enterable("Xml") = FreeTexts
  BY DEF Enterable
<1> QED BY <1>1, <1>2 DEF FreeTexts, Plain, Spelled, Values, Spellings

\* The inductive invariant of the dialog.
THEOREM VariableDialogInvariant == Spec => []VariableDialogInv
<1>1. VariableDialogInit => VariableDialogInv
  <2> SUFFICES ASSUME NEW mode \in {"Add", "Edit", "Delete", "Readonly"}, NEW type \in VariableTypes,
                      NEW value, mode # "Add" => value \in EngineValues(type),
                      DialogOpens(mode, type, value)
               PROVE  VariableDialogInv
    BY DEF VariableDialogInit, VariableTypes
  <2>1. /\ modalType = mode /\ variable = IF mode = "Add" THEN Absent ELSE [type |-> type, value |-> value]
        /\ working = [type |-> type, named |-> mode # "Add",
                      value |-> IF mode = "Add" THEN NoText ELSE Opened(type, value),
                      info |-> IF mode = "Add" THEN "missing" ELSE "unchanged"]
        /\ touched = FALSE /\ activeTab = "Deserialized" /\ copied = Absent /\ result = Absent
    BY DEF DialogOpens, Opened
  <2>2. VariableInv /\ UntouchedInv /\ SavedValueFits /\ CopiesWhatItShows
    BY <2>1 DEF VariableInv, UntouchedInv, SavedValueFits, CopiesWhatItShows
  <2>3. ValueInv
    BY <2>1 DEF ValueInv
  <2>4. working.value \in Values
    BY <2>1, OpenedFacts DEF NoText, Plain, Spelled, Values, Spellings
  <2>5. VariableTypeOK
    BY <2>1, <2>4 DEF VariableTypeOK, WorkingCopies
  <2> QED BY <2>2, <2>3, <2>5 DEF VariableDialogInv
<1>2. VariableDialogInv /\ [VariableDialogNext]_dialogVars => VariableDialogInv'
  <2> SUFFICES ASSUME VariableDialogInv, [VariableDialogNext]_dialogVars PROVE VariableDialogInv'
    OBVIOUS
  <2>1. ASSUME working # Absent PROVE working \in WorkingCopies /\ working.type \in VariableTypes
    BY <2>1 DEF VariableDialogInv, VariableTypeOK, WorkingCopies
  <2>2. CASE ChooseType
    <3>1. PICK type \in VariableTypes \ {working.type} :
            Entered([working EXCEPT !.type = type, !.value = NoText])
      BY <2>2, Zenon DEF ChooseType
    <3>2. working # Absent /\ modalType = "Add"
      BY <2>2 DEF ChooseType
    <3> DEFINE after == [working EXCEPT !.type = type, !.value = NoText]
    <3>3. NoText \in Values
      BY DEF NoText, Plain, Spelled, Values, Spellings
    <3>4. after \in WorkingCopies /\ after.value = NoText
      BY <2>1, <3>2, <3>3 DEF WorkingCopies
    <3> QED BY <3>1, <3>2, <3>4, EnteredInv
  <2>3. CASE EnterName
    <3> DEFINE after == [working EXCEPT !.named = ~@]
    <3>1. working # Absent /\ Entered(after)
      BY <2>3 DEF EnterName
    <3>2. (~working.named) \in BOOLEAN
      OBVIOUS
    <3>3. after \in WorkingCopies /\ after.type = working.type /\ after.value = working.value
      BY <2>1, <3>1, <3>2 DEF WorkingCopies
    <3> QED BY <3>1, <3>3, EnteredInv
  <2>4. CASE EnterValue
    <3>1. PICK v \in Enterable(working.type) : Entered([working EXCEPT !.value = v])
      BY <2>4 DEF EnterValue
    <3> DEFINE after == [working EXCEPT !.value = v]
    <3>2. working # Absent
      BY <2>4 DEF EnterValue, Editable
    <3>3. v \in Values
      BY <2>1, <3>2, EnteredFacts
    <3>4. after \in WorkingCopies /\ after.type = working.type /\ after.value = v
      BY <2>1, <3>2, <3>3 DEF WorkingCopies
    <3> QED BY <3>1, <3>4, EnteredInv
  <2>5. CASE EnterValueInfo
    <3>1. PICK info \in {"missing", "changed", "unchanged"} : Entered([working EXCEPT !.info = info])
      BY <2>5 DEF EnterValueInfo
    <3> DEFINE after == [working EXCEPT !.info = info]
    <3>2. working # Absent
      BY <2>5 DEF EnterValueInfo, Editable
    <3>3. after \in WorkingCopies /\ after.type = working.type /\ after.value = working.value
      BY <2>1, <3>2 DEF WorkingCopies
    <3> QED BY <3>1, <3>3, EnteredInv
  <2>6. CASE HandleFormat
    <3> DEFINE v == Formatted(working.type, working.value)
               after == [working EXCEPT !.value = v]
    <3>1. working # Absent /\ Entered(after) /\ v # working.value
      BY <2>6 DEF HandleFormat, Editable
    <3>2. v \in Enterable(working.type) /\ v \in Values
      BY <2>1, <3>1, FormatFacts
    <3>3. after \in WorkingCopies /\ after.type = working.type /\ after.value = v
      BY <2>1, <3>1, <3>2 DEF WorkingCopies
    <3> QED BY <3>1, <3>2, <3>3, EnteredInv
  <2>7. CASE DeserializedLoaded
    BY <2>7 DEF DeserializedLoaded, VariableDialogInv, VariableTypeOK, VariableInv, ValueInv, UntouchedInv,
                SavedValueFits, CopiesWhatItShows
  <2>8. CASE UpdateActiveTab
    BY <2>8 DEF UpdateActiveTab, VariableDialogInv, VariableTypeOK, VariableInv, ValueInv, UntouchedInv,
                SavedValueFits, CopiesWhatItShows
  <2>9. CASE CopyValue
    <3>1. /\ deserialized # "refused"
          /\ copied' = [of |-> IF activeTab = "Deserialized" /\ deserialized = "loaded"
                               THEN "deserialized" ELSE "serialized", shown |-> ValueShown]
          /\ UNCHANGED <<modalType, variable, working, touched, deserialized, activeTab, result>>
      BY <2>9 DEF CopyValue
    <3>2. CopiesWhatItShows'
      BY <3>1 DEF ValueShown, CopiesWhatItShows, VariableDialogInv, VariableTypeOK
    <3> QED BY <3>1, <3>2 DEF VariableDialogInv, VariableTypeOK, VariableInv, ValueInv, UntouchedInv,
                              SavedValueFits
  <2>10. CASE DismissDialog
    BY <2>10 DEF DismissDialog, Closed, VariableDialogInv, VariableTypeOK, VariableInv, ValueInv,
                 UntouchedInv, SavedValueFits, CopiesWhatItShows
  <2>11. CASE UNCHANGED dialogVars
    BY <2>11 DEF dialogVars, VariableDialogInv, VariableTypeOK, VariableInv, ValueInv, UntouchedInv,
                 SavedValueFits, CopiesWhatItShows
  <2> QED
    BY <2>2, <2>3, <2>4, <2>5, <2>6, <2>7, <2>8, <2>9, <2>10, <2>11, SaveDialogInv
    DEF VariableDialogNext
<1> QED BY <1>1, <1>2, AllWidgetsStart, OneWidgetMoves, PTL DEF Spec, widgetVars

\* What the dialog of a variable saves fits the type, a dialog nobody touched saves
\* nothing, and what is copied is what is shown (process-variable-modal.component.ts).
THEOREM VariableDialogTrue == Spec => []VariableDialogIsTrue
<1>1. VariableDialogInv => VariableDialogIsTrue
  <2> SUFFICES ASSUME VariableDialogInv PROVE UntouchedSavesNothing
    BY DEF VariableDialogInv, VariableDialogIsTrue
  <2> SUFFICES ASSUME working # Absent, modalType = "Edit", ~touched, CanSave
               PROVE  variable.value.spelling \in {"xml", "null"}
    BY DEF UntouchedSavesNothing
  <2>1. /\ working.type = variable.type /\ working.value = Opened(variable.type, variable.value)
        /\ working.info = "unchanged"
        /\ variable.type \in VariableTypes /\ variable.value \in EngineValues(variable.type)
    BY DEF VariableDialogInv, ValueInv, UntouchedInv, VariableInv
  <2>2. ~HasValueInfoChanged
    BY <2>1 DEF HasValueInfoChanged
  <2>3. HasValueChanged
    BY <2>2 DEF CanSave
  <2>4. CASE variable.type = "Json"
    BY <2>1, <2>3, <2>4, OpenedFacts DEF HasValueChanged
  <2>5. CASE variable.type # "Json"
    <3>1. Opened(variable.type, variable.value) # variable.value
      BY <2>1, <2>3, <2>5 DEF HasValueChanged
    <3> QED BY <2>1, <2>5, <3>1, OpenedFacts
  <2> QED BY <2>4, <2>5
<1> QED BY <1>1, VariableDialogInvariant, PTL

-----------------------------------------------------------------------------
(***************************************************************************)
(* The history of an instance, for any log and any number of requests.     *)
(* The log only grows, so rows that were whole when they were made stay    *)
(* whole (AnswersInv); what the memo and the tab hold are requests for the *)
(* types they are held for (RequestsFit).                                  *)
(***************************************************************************)

HistoryRow == [entry : Nat, property : Nat, detail : Nat, isNamed : BOOLEAN]
HistoryRequests ==
  [types : TypeChoices, begun : Nat, failed : BOOLEAN, rows : (SUBSET HistoryRow) \union {Absent}]

HistoryTypeOK ==
  /\ log \in Seq(LogEntries) /\ types \in TypeChoices
  /\ histories \in Seq(HistoryRequests)
  /\ memo \in [TypeChoices -> Nat \union {Absent}]

AnswersInv ==
  \A i \in DOMAIN histories :
    /\ histories[i].begun <= Len(log)
    /\ histories[i].rows # Absent => IsWhole(histories[i], log)

RequestsFit ==
  /\ \A c \in TypeChoices :
       memo[c] # Absent => memo[c] \in DOMAIN histories /\ histories[memo[c]].types = c
  /\ awaited # Absent => awaited \in DOMAIN histories /\ histories[awaited].types = types
  /\ shown # Absent => /\ shown \in DOMAIN histories /\ histories[shown].rows # Absent
                       /\ awaited = Absent => histories[shown].types = types
  /\ shown = Absent => isEmptied \/ histories = <<>> \/ awaited # Absent

HistoryInv == HistoryTypeOK /\ AnswersInv /\ RequestsFit

-----------------------------------------------------------------------------
LEMMA LoggedFacts ==
  ASSUME HistoryTypeOK, NEW k \in DOMAIN log
  PROVE  /\ k \in Nat /\ k >= 1 /\ k <= Len(log) /\ log[k].kind \in HistoryTypes
         /\ log[k].kind = "userOperation" => log[k].entries \in Nat \ {0} /\ log[k].details \in Nat
<1>1. log[k] \in LogEntries /\ DOMAIN log = 1 .. Len(log) /\ Len(log) \in Nat
  BY DEF HistoryTypeOK
<1> QED BY <1>1, HistoryAssumption

\* A row tells which entry it is of.
LEMMA RowFacts ==
  ASSUME NEW k \in Nat, NEW p \in Nat, NEW d \in Nat, NEW named \in BOOLEAN
  PROVE  /\ Row(k, p, d, named) \in HistoryRow
         /\ Row(k, p, d, named).entry = k /\ Row(k, p, d, named).property = p
         /\ Row(k, p, d, named).detail = d /\ Row(k, p, d, named).isNamed = named
BY DEF Row, HistoryRow

LEMMA NamedFacts ==
  ASSUME NEW r, NEW k PROVE IsNamed(r, k) \in BOOLEAN
BY DEF IsNamed

\* What is made of the answers is whole, for what was logged before the request
\* (combineAndOrderHistoryData).
LEMMA RowsFacts ==
  ASSUME HistoryTypeOK, NEW wanted \in TypeChoices, NEW begun \in Nat, begun <= Len(log),
         NEW reads \in [HistoryTypes -> begun .. Len(log)],
         NEW q, q = [types |-> wanted, reads |-> reads],
         NEW r, r.types = wanted, r.begun = begun, r.rows = Rows(q)
  PROVE  r.rows \subseteq HistoryRow /\ IsWhole(r, log)
<1> DEFINE ReadRow(k, row) == \E p \in 1 .. log[k].entries : \E d \in RowsOfEntry(q, k) :
                                row = Row(k, p, d, IsNamed(q, k))
           OtherRow(k, row) == /\ row = Row(k, 0, 0, FALSE)
                               /\ \E t \in HistoryTypes \ {"userOperation"} : log[k].kind = t /\ k \in Seen(q, t)
<1>1. DOMAIN log = 1 .. Len(log) /\ Len(log) \in Nat
  BY DEF HistoryTypeOK
<1>2. \A t \in HistoryTypes : /\ Seen(q, t) \subseteq DOMAIN log
                              /\ \A k \in 1 .. begun : k \in Seen(q, t) <=> Wants(wanted, t)
  <2> SUFFICES ASSUME NEW t \in HistoryTypes
               PROVE  /\ Seen(q, t) \subseteq DOMAIN log
                      /\ \A k \in 1 .. begun : k \in Seen(q, t) <=> Wants(wanted, t)
    OBVIOUS
  <2>1. q.types = wanted /\ q.reads[t] \in begun .. Len(log)
    OBVIOUS
  <2>2. Seen(q, t) = IF Wants(wanted, t) THEN {k \in DOMAIN log : k <= q.reads[t]} ELSE {}
    BY <2>1 DEF Seen
  <2> QED BY <1>1, <2>1, <2>2
<1>3. ASSUME NEW row
      PROVE  row \in Rows(q) <=> \/ \E k \in Seen(q, "userOperation") :
                                      log[k].kind = "userOperation" /\ ReadRow(k, row)
                                 \/ \E k \in DOMAIN log : OtherRow(k, row)
  <2>1. row \in Rows(q) <=>
          \/ row \in OperationRows(q)
          \/ \E k \in 1 .. Len(log) : /\ row = Row(k, 0, 0, FALSE)
                                    /\ \E t \in HistoryTypes \ {"userOperation"} :
                                         log[k].kind = t /\ k \in Seen(q, t)
    BY Zenon DEF Rows
  <2>2. row \in OperationRows(q) <=>
          \E k \in Seen(q, "userOperation") : log[k].kind = "userOperation" /\ ReadRow(k, row)
    BY DEF OperationRows
  <2>3. (\E k \in 1 .. Len(log) : OtherRow(k, row)) <=> (\E k \in DOMAIN log : OtherRow(k, row))
    BY <1>1
  <2> HIDE DEF ReadRow
  <2> QED BY <2>1, <2>2, <2>3, Zenon
<1>4. ASSUME NEW k \in DOMAIN log, log[k].kind = "userOperation", NEW d \in RowsOfEntry(q, k)
      PROVE  d \in Nat
  BY <1>4, LoggedFacts DEF RowsOfEntry
<1>5. ASSUME NEW k \in DOMAIN log, log[k].kind = "userOperation", NEW row, ReadRow(k, row)
      PROVE  row \in HistoryRow /\ row.entry = k
  <2>1. PICK p \in 1 .. log[k].entries, d \in RowsOfEntry(q, k) : row = Row(k, p, d, IsNamed(q, k))
    BY <1>5
  <2>2. k \in Nat /\ p \in Nat /\ d \in Nat
    BY <1>4, <1>5, LoggedFacts
  <2> QED BY <2>1, <2>2, NamedFacts DEF Row, HistoryRow
<1>6. ASSUME NEW k \in DOMAIN log, NEW row, OtherRow(k, row)
      PROVE  row \in HistoryRow /\ row.entry = k
  BY <1>6, LoggedFacts DEF Row, HistoryRow
<1>7. Rows(q) \subseteq HistoryRow
  <2> SUFFICES ASSUME NEW row \in Rows(q) PROVE row \in HistoryRow
    OBVIOUS
  <2>1. CASE \E k \in Seen(q, "userOperation") : log[k].kind = "userOperation" /\ ReadRow(k, row)
    BY <2>1, <1>2, <1>5 DEF HistoryTypes
  <2>2. CASE \E k \in DOMAIN log : OtherRow(k, row)
    BY <2>2, <1>6
  <2> QED BY <1>3, <2>1, <2>2
<1> DEFINE rowsOf(k) == {row \in r.rows : row.entry = k}
<1>8. ASSUME NEW k \in 1 .. begun, log[k].kind # "userOperation", NEW row
      PROVE  row \in rowsOf(k) <=> row = Row(k, 0, 0, FALSE) /\ Wants(wanted, log[k].kind)
  <2>1. k \in DOMAIN log /\ log[k].kind \in HistoryTypes /\ k \in Nat
    BY <1>1, LoggedFacts
  <2>2. OtherRow(k, row) <=> row = Row(k, 0, 0, FALSE) /\ Wants(wanted, log[k].kind)
    BY <1>2, <1>8, <2>1
  <2>3. ASSUME row \in Rows(q), row.entry = k PROVE OtherRow(k, row)
    <3>1. CASE \E j \in Seen(q, "userOperation") : log[j].kind = "userOperation" /\ ReadRow(j, row)
      BY <3>1, <1>2, <1>5, <1>8, <2>3 DEF HistoryTypes
    <3>2. CASE \E j \in DOMAIN log : OtherRow(j, row)
      <4>1. PICK j \in DOMAIN log : OtherRow(j, row)
        BY <3>2
      <4>2. row.entry = j
        BY <1>6, <4>1
      <4> QED BY <2>3, <4>1, <4>2
    <3> QED BY <1>3, <2>3, <3>1, <3>2
  <2>4. ASSUME OtherRow(k, row) PROVE row \in Rows(q) /\ row.entry = k
    BY <1>3, <1>6, <2>1, <2>4
  <2> QED BY <2>2, <2>3, <2>4
<1>9. ASSUME NEW k \in 1 .. begun, log[k].kind = "userOperation", NEW row
      PROVE  row \in rowsOf(k) <=> ReadRow(k, row) /\ Wants(wanted, "userOperation")
  <2>1. k \in DOMAIN log /\ k \in Nat
    BY <1>1, LoggedFacts
  <2>2. k \in Seen(q, "userOperation") <=> Wants(wanted, "userOperation")
    BY <1>2 DEF HistoryTypes
  <2>3. ASSUME row \in Rows(q), row.entry = k PROVE k \in Seen(q, "userOperation") /\ ReadRow(k, row)
    <3>1. CASE \E j \in Seen(q, "userOperation") : log[j].kind = "userOperation" /\ ReadRow(j, row)
      BY <3>1, <1>2, <1>5, <2>3 DEF HistoryTypes
    <3>2. CASE \E j \in DOMAIN log : OtherRow(j, row)
      BY <3>2, <1>6, <1>9, <2>3
    <3> QED BY <1>3, <2>3, <3>1, <3>2
  <2>4. ASSUME ReadRow(k, row), k \in Seen(q, "userOperation") PROVE row \in Rows(q) /\ row.entry = k
    BY <1>3, <1>5, <1>9, <2>1, <2>4
  <2> QED BY <2>2, <2>3, <2>4
<1> HIDE DEF ReadRow, OtherRow, rowsOf
<1>10. ASSUME NEW k \in 1 .. begun, log[k].kind # "userOperation", Wants(wanted, log[k].kind)
       PROVE  Cardinality(rowsOf(k)) = 1
  <2>1. rowsOf(k) = {Row(k, 0, 0, FALSE)}
    BY <1>8, <1>10
  <2> QED BY <2>1, FS_Singleton
<1>11. ASSUME NEW k \in 1 .. begun, ~Wants(wanted, log[k].kind)
       PROVE  rowsOf(k) = {}
  BY <1>8, <1>9, <1>11
<1>12. ASSUME NEW k \in 1 .. begun, log[k].kind = "userOperation", Wants(wanted, log[k].kind)
       PROVE  /\ {row.property : row \in {row \in rowsOf(k) : row.detail = 0}} =
                   IF log[k].of = "ModifyVariable" THEN {} ELSE 1 .. log[k].entries
              /\ {row.detail : row \in rowsOf(k)} \ {0} =
                   IF Wants(wanted, "detail") THEN 1 .. log[k].details ELSE {}
              /\ log[k].task # Absent /\ Wants(wanted, "activityInstance") /\
                 (\E a \in 1 .. begun : log[a].kind = "activityInstance" /\ log[a].task = log[k].task)
                 => \A row \in rowsOf(k) : row.isNamed
  <2>1. k \in DOMAIN log /\ k \in Nat /\ log[k].entries \in Nat \ {0} /\ log[k].details \in Nat
    BY <1>1, <1>12, LoggedFacts
  <2>2. RowsOfEntry(q, k) = (IF log[k].of = "ModifyVariable" THEN {} ELSE {0})
                              \union (IF Wants(wanted, "detail") THEN 1 .. log[k].details ELSE {})
    BY <1>2, <2>1 DEF RowsOfEntry, HistoryTypes
  <2>3. ASSUME NEW row \in rowsOf(k)
        PROVE  \E p \in 1 .. log[k].entries : \E d \in RowsOfEntry(q, k) :
                 row.property = p /\ row.detail = d /\ row.isNamed = IsNamed(q, k)
    <3>1. PICK p \in 1 .. log[k].entries, d \in RowsOfEntry(q, k) : row = Row(k, p, d, IsNamed(q, k))
      BY <1>9, <1>12 DEF ReadRow
    <3>2. p \in Nat /\ d \in Nat
      BY <1>4, <1>12, <2>1
    <3> QED BY <2>1, <3>1, <3>2, NamedFacts DEF Row, HistoryRow
  <2>4. ASSUME NEW p \in 1 .. log[k].entries, NEW d \in RowsOfEntry(q, k)
        PROVE  \E row \in rowsOf(k) : row.property = p /\ row.detail = d
    <3>1. p \in Nat /\ d \in Nat
      BY <1>4, <1>12, <2>1
    <3>2. Row(k, p, d, IsNamed(q, k)) \in rowsOf(k)
      BY <1>9, <1>12 DEF ReadRow
    <3> QED BY <2>1, <3>1, <3>2, NamedFacts DEF Row, HistoryRow
  <2>5. {row.property : row \in {row \in rowsOf(k) : row.detail = 0}} =
          IF log[k].of = "ModifyVariable" THEN {} ELSE 1 .. log[k].entries
    <3>1. 0 \in RowsOfEntry(q, k) <=> log[k].of # "ModifyVariable"
      BY <2>1, <2>2
    <3> DEFINE undetailed == {row \in rowsOf(k) : row.detail = 0}
    <3>2. ASSUME log[k].of = "ModifyVariable" PROVE undetailed = {}
      BY <2>3, <3>1, <3>2
    <3>3. ASSUME NEW row \in undetailed PROVE row.property \in 1 .. log[k].entries
      BY <2>3
    <3>4. ASSUME log[k].of # "ModifyVariable", NEW p \in 1 .. log[k].entries
          PROVE  \E row \in undetailed : row.property = p
      BY <2>4, <3>1, <3>4
    <3> HIDE DEF undetailed
    <3>5. CASE log[k].of = "ModifyVariable"
      <4>1. {row.property : row \in undetailed} = {}
        BY <3>2, <3>5
      <4> QED BY <3>5, <4>1 DEF undetailed
    <3>6. CASE log[k].of # "ModifyVariable"
      <4>1. {row.property : row \in undetailed} = 1 .. log[k].entries
        BY <3>3, <3>4, <3>6
      <4> QED BY <3>6, <4>1 DEF undetailed
    <3> QED BY <3>5, <3>6
  <2>6. {row.detail : row \in rowsOf(k)} \ {0} =
          IF Wants(wanted, "detail") THEN 1 .. log[k].details ELSE {}
    <3>1. RowsOfEntry(q, k) \ {0} = IF Wants(wanted, "detail") THEN 1 .. log[k].details ELSE {}
      BY <2>1, <2>2
    <3>2. 1 \in 1 .. log[k].entries
      BY <2>1
    <3>3. ASSUME NEW row \in rowsOf(k) PROVE row.detail \in RowsOfEntry(q, k)
      BY <2>3
    <3>4. ASSUME NEW d \in RowsOfEntry(q, k) PROVE \E row \in rowsOf(k) : row.detail = d
      BY <2>4, <3>2
    <3>5. {row.detail : row \in rowsOf(k)} = RowsOfEntry(q, k)
      BY <3>3, <3>4
    <3> QED BY <3>1, <3>5
  <2>7. ASSUME log[k].task # Absent, Wants(wanted, "activityInstance"),
               NEW a \in 1 .. begun, log[a].kind = "activityInstance", log[a].task = log[k].task
        PROVE  IsNamed(q, k)
    BY <1>2, <2>7 DEF IsNamed, HistoryTypes
  <2> QED BY <2>3, <2>5, <2>6, <2>7
<1>13. IsWhole(r, log)
  BY <1>10, <1>11, <1>12 DEF IsWhole, rowsOf
<1> QED BY <1>7, <1>13

\* What was whole stays whole when the log grows.
LEMMA StaysWhole ==
  ASSUME NEW r, NEW before, NEW after, IsWhole(r, before), \A k \in 1 .. r.begun : after[k] = before[k]
  PROVE  IsWhole(r, after)
BY DEF IsWhole

LEMMA CommitInv ==
  ASSUME HistoryInv, Commit
  PROVE  HistoryInv'
<1>1. PICK e \in LogEntries : log' = Append(log, e)
  BY DEF Commit
<1>2. UNCHANGED <<types, histories, memo, awaited, shown, isEmptied>>
  BY DEF Commit
<1>3. log' \in Seq(LogEntries) /\ Len(log') = Len(log) + 1 /\ Len(log) \in Nat
  BY <1>1 DEF HistoryInv, HistoryTypeOK
<1>4. HistoryTypeOK' /\ RequestsFit'
  BY <1>2, <1>3 DEF HistoryInv, HistoryTypeOK, RequestsFit
<1>5. ASSUME NEW i \in DOMAIN histories
      PROVE  /\ histories[i].begun <= Len(log')
             /\ histories[i].rows # Absent => IsWhole(histories[i], log')
  <2>1. histories[i] \in HistoryRequests /\ histories[i].begun <= Len(log)
    BY DEF HistoryInv, HistoryTypeOK, AnswersInv
  <2>2. histories[i].begun \in Nat
    BY <2>1 DEF HistoryRequests
  <2>3. \A k \in 1 .. histories[i].begun : log'[k] = log[k]
    BY <1>1, <1>3, <2>1, <2>2 DEF HistoryInv, HistoryTypeOK
  <2>4. histories[i].rows # Absent => IsWhole(histories[i], log)
    BY DEF HistoryInv, AnswersInv
  <2> QED BY <1>3, <2>1, <2>2, <2>3, <2>4, StaysWhole
<1>6. AnswersInv'
  BY <1>2, <1>5 DEF AnswersInv
<1> QED BY <1>4, <1>6 DEF HistoryInv

\* A load is answered by the memo or becomes a request (loadData, getFullHistory).
LEMMA LoadHistoryInv ==
  ASSUME HistoryInv, types' \in TypeChoices, LoadHistory(types'), UNCHANGED <<log, shown, isEmptied>>
  PROVE  HistoryInv'
<1>1. CASE memo[types'] # Absent
  <2>1. awaited' = memo[types'] /\ UNCHANGED <<histories, memo>>
    BY <1>1 DEF LoadHistory
  <2>2. awaited' # Absent /\ awaited' \in DOMAIN histories /\ histories[awaited'].types = types'
    BY <1>1, <2>1 DEF HistoryInv, RequestsFit
  <2>3. RequestsFit'
    BY <2>1, <2>2 DEF HistoryInv, RequestsFit
  <2> QED BY <2>1, <2>3 DEF HistoryInv, HistoryTypeOK, AnswersInv
<1>2. CASE memo[types'] = Absent
  <2> DEFINE n == Len(histories) + 1
             request == [types |-> types', begun |-> Len(log), failed |-> FALSE, rows |-> Absent]
  <2>1. /\ awaited' = n /\ histories' = Append(histories, request)
        /\ memo' = [memo EXCEPT ![types'] = n]
    BY <1>2 DEF LoadHistory
  <2>2. histories \in Seq(HistoryRequests) /\ Len(log) \in Nat
    BY DEF HistoryInv, HistoryTypeOK
  <2>3. request \in HistoryRequests
    BY <2>2 DEF HistoryRequests
  <2>4. /\ histories' \in Seq(HistoryRequests) /\ n \in Nat /\ n # Absent
        /\ DOMAIN histories' = DOMAIN histories \union {n} /\ n \notin DOMAIN histories
        /\ \A i \in DOMAIN histories : histories'[i] = histories[i]
        /\ histories'[n] = request
    BY <2>1, <2>2, <2>3, HistoryAssumption
  <2> HIDE DEF n
  <2>5. memo' \in [TypeChoices -> Nat \union {Absent}]
    BY <2>1, <2>4 DEF HistoryInv, HistoryTypeOK
  <2>6. HistoryTypeOK'
    BY <2>4, <2>5 DEF HistoryInv, HistoryTypeOK
  <2>7. request.begun = Len(log) /\ request.rows = Absent /\ request.types = types'
    OBVIOUS
  <2> HIDE DEF request
  <2>8. AnswersInv'
    BY <2>2, <2>4, <2>7 DEF HistoryInv, AnswersInv
  <2>9. ASSUME NEW c \in TypeChoices, memo'[c] # Absent
        PROVE  memo'[c] \in DOMAIN histories' /\ histories'[memo'[c]].types = c
    <3>1. memo'[c] = IF c = types' THEN n ELSE memo[c]
      BY <2>1 DEF HistoryInv, HistoryTypeOK
    <3> QED BY <2>4, <2>7, <2>9, <3>1 DEF HistoryInv, RequestsFit
  <2>10. RequestsFit'
    BY <2>1, <2>4, <2>7, <2>9 DEF HistoryInv, RequestsFit
  <2> QED BY <2>6, <2>8, <2>10 DEF HistoryInv
<1> QED BY <1>1, <1>2

\* A request ends (getProcessInstanceHistory).
LEMMA HistoryReadInv ==
  ASSUME HistoryInv, HistoryRead
  PROVE  HistoryInv'
<1>0. PICK i \in Unread : \E reads \in [HistoryTypes -> histories[i].begun .. Len(log)] :
        histories' = [histories EXCEPT ![i].rows = Rows([types |-> histories[i].types, reads |-> reads])]
  BY DEF HistoryRead
<1>1. PICK reads \in [HistoryTypes -> histories[i].begun .. Len(log)] :
        histories' = [histories EXCEPT ![i].rows = Rows([types |-> histories[i].types, reads |-> reads])]
  BY <1>0
<1>2. UNCHANGED <<log, types, memo, awaited, shown, isEmptied>>
  BY DEF HistoryRead
<1> DEFINE old == histories[i]
           q == [types |-> old.types, reads |-> reads]
           new == histories'[i]
<1>3. i \in DOMAIN histories /\ old \in HistoryRequests /\ old.begun <= Len(log)
  BY DEF Unread, HistoryInv, HistoryTypeOK, AnswersInv
<1>4. /\ old.types \in TypeChoices /\ old.begun \in Nat
      /\ new.types = old.types /\ new.begun = old.begun /\ new.failed = old.failed /\ new.rows = Rows(q)
      /\ new = [old EXCEPT !.rows = Rows(q)]
  BY <1>1, <1>3 DEF HistoryRequests, HistoryInv, HistoryTypeOK
<1> HIDE DEF new
<1>5. new.rows \subseteq HistoryRow /\ IsWhole(new, log)
  BY <1>3, <1>4, RowsFacts DEF HistoryInv
<1>6. new \in HistoryRequests
  BY <1>3, <1>4, <1>5 DEF HistoryRequests
<1>7. /\ histories' \in Seq(HistoryRequests) /\ DOMAIN histories' = DOMAIN histories
      /\ \A j \in DOMAIN histories : j # i => histories'[j] = histories[j]
      /\ histories'[i] = new
  BY <1>1, <1>3, <1>6 DEF new, HistoryInv, HistoryTypeOK
<1>8. HistoryTypeOK' /\ AnswersInv'
  BY <1>2, <1>3, <1>4, <1>5, <1>7 DEF HistoryInv, HistoryTypeOK, AnswersInv
<1>9. histories[i].rows = Absent /\ histories # <<>> /\ histories' # <<>>
  BY <1>3, <1>7 DEF Unread
<1>10. ASSUME NEW j \in DOMAIN histories
       PROVE  histories'[j].types = histories[j].types
  BY <1>4, <1>7
<1>11. RequestsFit'
  BY <1>2, <1>7, <1>9, <1>10 DEF HistoryInv, RequestsFit
<1> QED BY <1>8, <1>11 DEF HistoryInv

LEMMA HistoryReadFailsInv ==
  ASSUME HistoryInv, HistoryReadFails
  PROVE  HistoryInv'
<1>1. PICK i \in Unread : histories' = [histories EXCEPT ![i].failed = TRUE]
  BY DEF HistoryReadFails
<1>2. UNCHANGED <<log, types, memo, awaited, shown, isEmptied>>
  BY DEF HistoryReadFails
<1> DEFINE old == histories[i]
           new == [old EXCEPT !.failed = TRUE]
<1>3. i \in DOMAIN histories /\ old \in HistoryRequests /\ old.begun <= Len(log) /\ old.rows = Absent
  BY DEF Unread, HistoryInv, HistoryTypeOK, AnswersInv
<1>4. /\ new \in HistoryRequests /\ new.types = old.types /\ new.begun = old.begun /\ new.rows = old.rows
  BY <1>3 DEF HistoryRequests
<1>5. /\ histories' \in Seq(HistoryRequests) /\ DOMAIN histories' = DOMAIN histories
      /\ \A j \in DOMAIN histories : j # i => histories'[j] = histories[j]
      /\ histories'[i] = new
  BY <1>1, <1>3, <1>4 DEF HistoryInv, HistoryTypeOK
<1> HIDE DEF new
<1>6. HistoryTypeOK' /\ AnswersInv'
  BY <1>2, <1>3, <1>4, <1>5 DEF HistoryInv, HistoryTypeOK, AnswersInv
<1>7. histories # <<>> /\ histories' # <<>>
  BY <1>3, <1>5
<1>8. ASSUME NEW j \in DOMAIN histories
      PROVE  histories'[j].types = histories[j].types /\ histories'[j].rows = histories[j].rows
  BY <1>4, <1>5
<1>9. RequestsFit'
  BY <1>2, <1>5, <1>7, <1>8 DEF HistoryInv, RequestsFit
<1> QED BY <1>6, <1>9 DEF HistoryInv

\* The inductive invariant of the history.
THEOREM HistoryInvariant == Spec => []HistoryInv
<1>1. HistoryInit => HistoryInv
  <2> SUFFICES ASSUME HistoryInit PROVE HistoryInv
    OBVIOUS
  <2>1. HistoryTypeOK
    BY HistoryAssumption DEF HistoryInit, HistoryTypeOK
  <2>2. AnswersInv /\ RequestsFit
    BY DEF HistoryInit, AnswersInv, RequestsFit
  <2> QED BY <2>1, <2>2 DEF HistoryInv
<1>2. HistoryInv /\ [HistoryNext]_historyVars => HistoryInv'
  <2> SUFFICES ASSUME HistoryInv, [HistoryNext]_historyVars PROVE HistoryInv'
    OBVIOUS
  <2>1. CASE ReloadHistory
    <3>1. types' = types /\ LoadHistory(types) /\ UNCHANGED <<log, shown, isEmptied>>
      BY <2>1 DEF ReloadHistory
    <3>2. types' \in TypeChoices
      BY <3>1 DEF HistoryInv, HistoryTypeOK
    <3>3. LoadHistory(types')
      BY <3>1 DEF LoadHistory
    <3> QED BY <3>1, <3>2, <3>3, LoadHistoryInv
  <2>2. CASE ChooseTypes
    BY <2>2, LoadHistoryInv DEF ChooseTypes
  <2>3. CASE MemoOver
    <3>1. memo' = [c \in TypeChoices |-> Absent]
      BY <2>3 DEF MemoOver
    <3> QED BY <2>3, <3>1 DEF MemoOver, HistoryInv, HistoryTypeOK, AnswersInv, RequestsFit
  <2>4. CASE HistoryArrives
    <3>1. /\ awaited # Absent /\ awaited' = Absent
          /\ \/ shown' = Absent /\ isEmptied' = TRUE
             \/ histories[awaited].rows # Absent /\ shown' = awaited /\ isEmptied' = FALSE
          /\ UNCHANGED <<log, types, histories, memo>>
      BY <2>4 DEF HistoryArrives
    <3>2. RequestsFit'
      BY <3>1 DEF HistoryInv, RequestsFit
    <3> QED BY <3>1, <3>2 DEF HistoryInv, HistoryTypeOK, AnswersInv
  <2>5. CASE UNCHANGED historyVars
    BY <2>5 DEF historyVars, HistoryInv, HistoryTypeOK, AnswersInv, RequestsFit
  <2> QED
    BY <2>1, <2>2, <2>3, <2>4, <2>5, CommitInv, HistoryReadInv, HistoryReadFailsInv DEF HistoryNext
<1> QED BY <1>1, <1>2, AllWidgetsStart, OneWidgetMoves, PTL DEF Spec, widgetVars

\* What was logged before a request began is in its rows, each entry once and nothing half,
\* and the rows are of the types chosen (process-instance.controller.ts, history-tab.service.ts).
THEOREM HistoryIsWhole == Spec => []HistoryRowsAreWhole
<1>1. HistoryInv => HistoryRowsAreWhole
  BY DEF HistoryInv, AnswersInv, RequestsFit, HistoryRowsAreWhole, RowsAreWhole, RowsAreOfTheChoice
<1> QED BY <1>1, HistoryInvariant, PTL

-----------------------------------------------------------------------------
(***************************************************************************)
(* The instances that an instance called, for any activities, keys and     *)
(* filters and any number of calls and requests.  Of which activity a call *)
(* is and which key it has does not change, so what a request found up to  *)
(* some call stays what there is up to it; and as long as a request is     *)
(* under way, a call it does not know to have changed has an incident if   *)
(* and only if it had one in the beginning (AnswerFits).                   *)
(***************************************************************************)

CalledTo == [activity : Callers, key : Keys \union {Absent}, runs : BOOLEAN, incident : BOOLEAN]
CalledLists ==
  [filters : Filters, begun : Nat, before : SUBSET Nat, unsteady : SUBSET Nat,
   calling : (SUBSET Nat) \union {Absent}, upTo : Nat, incidents : (SUBSET Nat) \union {Absent},
   failed : BOOLEAN]

CalledTypeOK ==
  /\ calls \in Seq(CalledTo) /\ lists \in Seq(CalledLists)
  /\ asking \in Filters /\ counting \subseteq Filters
  /\ remembered \in [Filters -> Nat \union {Absent}]

\* Of the first n calls those of an activity that called one, those the badge counts, and
\* whether one has an incident
CallsTo(all, activity, n) ==
  {k \in 1 .. n : all[k].key # Absent /\ Matches(all[k].activity, activity)}
CountedTo(all, f, n) ==
  {k \in CallsTo(all, f.activity, n) : f.activity = Absent => Matches(all[k].key, f.key)}
HasIncident(all, k) == all[k].runs /\ all[k].incident

AnswerFits(l, all) ==
  /\ l.begun <= Len(all)
  /\ l.calling # Absent => /\ l.begun <= l.upTo /\ l.upTo <= Len(all)
                           /\ l.calling = CallsTo(all, l.filters.activity, l.upTo)
  /\ l.incidents # Absent =>
       /\ l.calling # Absent
       /\ \A k \in l.calling \ l.unsteady : k <= l.begun => (k \in l.incidents <=> k \in l.before)
  /\ Underway(l) => \A k \in (1 .. l.begun) \ l.unsteady : HasIncident(all, k) <=> k \in l.before

ListsInv == \A i \in DOMAIN lists : AnswerFits(lists[i], calls)

CalledFit ==
  /\ \A f \in Filters :
       remembered[f] # Absent => remembered[f] \in DOMAIN lists /\ lists[remembered[f]].filters = f
  /\ expected # Absent => expected \in DOMAIN lists /\ lists[expected].filters = asking
  /\ listed # Absent => /\ listed \in DOMAIN lists /\ lists[listed].incidents # Absent
                        /\ expected = Absent => lists[listed].filters = asking

BadgeFits ==
  badge # Absent =>
    /\ badge.filters \in Filters /\ badge.upTo \in Nat /\ badge.upTo <= Len(calls)
    /\ badge.count = Cardinality(CountedTo(calls, badge.filters, badge.upTo))

CalledInv == CalledTypeOK /\ ListsInv /\ CalledFit /\ BadgeFits

-----------------------------------------------------------------------------
\* What was called stays called.
LEMMA CallsStay ==
  ASSUME NEW before \in Seq(CalledTo), NEW after \in Seq(CalledTo), Len(before) <= Len(after),
         \A k \in 1 .. Len(before) : after[k].key = before[k].key /\ after[k].activity = before[k].activity,
         NEW n \in Nat, n <= Len(before), NEW f
  PROVE  /\ CallsTo(after, f, n) = CallsTo(before, f, n)
         /\ CountedTo(after, f, n) = CountedTo(before, f, n)
<1>1. \A k \in 1 .. n : after[k].key = before[k].key /\ after[k].activity = before[k].activity
  OBVIOUS
<1>2. \A a : CallsTo(after, a, n) = CallsTo(before, a, n)
  BY <1>1 DEF CallsTo
<1>3. CallsTo(before, f.activity, n) \subseteq 1 .. n
  BY DEF CallsTo
<1> QED BY <1>1, <1>2, <1>3 DEF CountedTo

\* A request's answer stays fitting when calls begin or change, if it hears of those that changed.
LEMMA AnswerStays ==
  ASSUME NEW before \in Seq(CalledTo), NEW after \in Seq(CalledTo), Len(before) <= Len(after),
         \A k \in 1 .. Len(before) : after[k].key = before[k].key /\ after[k].activity = before[k].activity,
         NEW l \in CalledLists, NEW m \in CalledLists, AnswerFits(l, before),
         m.filters = l.filters, m.begun = l.begun, m.before = l.before, m.calling = l.calling,
         m.upTo = l.upTo, m.incidents = l.incidents, m.failed = l.failed,
         l.unsteady \subseteq m.unsteady,
         Underway(l) => \A k \in (1 .. Len(before)) \ m.unsteady :
                          HasIncident(after, k) <=> HasIncident(before, k)
  PROVE  AnswerFits(m, after)
<1>1. l.begun \in Nat /\ l.upTo \in Nat /\ l.begun <= Len(before)
  BY DEF CalledLists, AnswerFits
<1>2. l.calling # Absent => CallsTo(after, l.filters.activity, l.upTo) = CallsTo(before, l.filters.activity, l.upTo)
  <2> SUFFICES ASSUME l.calling # Absent
               PROVE  CallsTo(after, l.filters.activity, l.upTo) = CallsTo(before, l.filters.activity, l.upTo)
    OBVIOUS
  <2>1. l.upTo <= Len(before)
    BY DEF AnswerFits
  <2> QED BY <1>1, <2>1, CallsStay
<1>3. Underway(m) = Underway(l)
  BY DEF Underway
<1>4. Underway(m) => \A k \in (1 .. m.begun) \ m.unsteady : HasIncident(after, k) <=> k \in m.before
  BY <1>1, <1>3 DEF AnswerFits
<1> QED BY <1>1, <1>2, <1>4 DEF AnswerFits

\* The engine's calls move, the tab's requests hear of it at most.
LEMMA CallsMove ==
  ASSUME CalledInv, calls' \in Seq(CalledTo), Len(calls) <= Len(calls'),
         \A k \in 1 .. Len(calls) : calls'[k].key = calls[k].key /\ calls'[k].activity = calls[k].activity,
         lists' \in Seq(CalledLists), DOMAIN lists' = DOMAIN lists,
         \A i \in DOMAIN lists : lists'[i].filters = lists[i].filters /\ lists'[i].incidents = lists[i].incidents,
         ListsInv', UNCHANGED tabVars
  PROVE  CalledInv'
<1>1. UNCHANGED <<asking, remembered, expected, listed, diagramHere, counting, badge>>
  BY DEF tabVars
<1>2. CalledTypeOK'
  BY <1>1 DEF CalledInv, CalledTypeOK
<1>3. CalledFit'
  BY <1>1 DEF CalledInv, CalledFit, CalledTypeOK
<1>4. BadgeFits'
  <2> SUFFICES ASSUME badge # Absent
               PROVE  /\ badge.filters \in Filters /\ badge.upTo \in Nat /\ badge.upTo <= Len(calls')
                      /\ badge.count = Cardinality(CountedTo(calls', badge.filters, badge.upTo))
    BY <1>1 DEF BadgeFits
  <2>1. /\ badge.filters \in Filters /\ badge.upTo \in Nat /\ badge.upTo <= Len(calls)
        /\ badge.count = Cardinality(CountedTo(calls, badge.filters, badge.upTo))
    BY DEF CalledInv, BadgeFits
  <2>2. CountedTo(calls', badge.filters, badge.upTo) = CountedTo(calls, badge.filters, badge.upTo)
    BY <2>1, CallsStay DEF CalledInv, CalledTypeOK
  <2>3. Len(calls) \in Nat /\ Len(calls') \in Nat
    BY DEF CalledInv, CalledTypeOK
  <2> QED BY <2>1, <2>2, <2>3
<1> QED BY <1>2, <1>3, <1>4 DEF CalledInv

LEMMA BeginCallInv ==
  ASSUME CalledInv, BeginCall
  PROVE  CalledInv'
<1>1. PICK call \in CalledTo : calls' = Append(calls, call)
  BY DEF BeginCall, CalledTo
<1>2. lists' = lists /\ UNCHANGED tabVars
  BY DEF BeginCall
<1>3. /\ calls \in Seq(CalledTo) /\ calls' \in Seq(CalledTo) /\ Len(calls) <= Len(calls')
      /\ \A k \in 1 .. Len(calls) : calls'[k] = calls[k]
  BY <1>1 DEF CalledInv, CalledTypeOK
<1>4. ASSUME NEW i \in DOMAIN lists
      PROVE  AnswerFits(lists[i], calls')
  <2>1. lists[i] \in CalledLists /\ AnswerFits(lists[i], calls)
    BY DEF CalledInv, CalledTypeOK, ListsInv
  <2>2. \A k \in 1 .. Len(calls) : HasIncident(calls', k) <=> HasIncident(calls, k)
    BY <1>3 DEF HasIncident
  <2> QED BY <1>3, <2>1, <2>2, AnswerStays
<1>5. ListsInv'
  BY <1>2, <1>4 DEF ListsInv
<1>6. lists' \in Seq(CalledLists)
  BY <1>2 DEF CalledInv, CalledTypeOK
<1> QED BY <1>2, <1>3, <1>5, <1>6, CallsMove

LEMMA CallChangesInv ==
  ASSUME CalledInv, CallChanges
  PROVE  CalledInv'
<1>1. PICK k \in DOMAIN calls, incident \in BOOLEAN, runs \in BOOLEAN :
        /\ calls' = [calls EXCEPT ![k].incident = incident, ![k].runs = runs]
        /\ lists' = [i \in DOMAIN lists |-> Hears(lists[i], k)]
  BY Zenon DEF CallChanges
<1>2. UNCHANGED tabVars
  BY DEF CallChanges
<1>3. calls \in Seq(CalledTo) /\ lists \in Seq(CalledLists) /\ k \in Nat
  BY DEF CalledInv, CalledTypeOK
<1> DEFINE after == [calls[k] EXCEPT !.incident = incident, !.runs = runs]
<1>4. /\ after \in CalledTo /\ after.key = calls[k].key /\ after.activity = calls[k].activity
  <2>1. calls[k] \in CalledTo
    BY <1>3
  <2> QED BY <2>1 DEF CalledTo
<1>5. calls' = [calls EXCEPT ![k] = after]
  BY <1>1, <1>3
<1> HIDE DEF after
<1>6. /\ calls' \in Seq(CalledTo) /\ Len(calls') = Len(calls) /\ Len(calls) \in Nat
      /\ \A j \in 1 .. Len(calls) : j # k => calls'[j] = calls[j]
      /\ calls'[k] = after
  BY <1>3, <1>4, <1>5
<1>7. \A j \in 1 .. Len(calls) : calls'[j].key = calls[j].key /\ calls'[j].activity = calls[j].activity
  BY <1>4, <1>6
<1>8. ASSUME NEW i \in DOMAIN lists
      PROVE  /\ lists'[i] \in CalledLists /\ AnswerFits(lists'[i], calls')
             /\ lists'[i].filters = lists[i].filters /\ lists'[i].incidents = lists[i].incidents
  <2>1. lists[i] \in CalledLists /\ AnswerFits(lists[i], calls)
    BY <1>3 DEF CalledInv, ListsInv
  <2> DEFINE l == lists[i]  m == Hears(lists[i], k)
  <2>2. lists'[i] = m
    BY <1>1
  <2>3. /\ m \in CalledLists /\ m.filters = l.filters /\ m.begun = l.begun /\ m.before = l.before
        /\ m.calling = l.calling /\ m.upTo = l.upTo /\ m.incidents = l.incidents
        /\ m.failed = l.failed /\ l.unsteady \subseteq m.unsteady
        /\ Underway(l) => k \in m.unsteady
    BY <1>3, <2>1 DEF CalledLists, Hears
  <2>4. Underway(l) => \A j \in (1 .. Len(calls)) \ m.unsteady : HasIncident(calls', j) <=> HasIncident(calls, j)
    BY <1>6, <2>3 DEF HasIncident
  <2>5. Len(calls) <= Len(calls') /\ calls \in Seq(CalledTo)
    BY <1>3, <1>6
  <2> HIDE DEF l, m
  <2>6. l \in CalledLists /\ AnswerFits(l, calls)
    BY <2>1 DEF l
  <2> DEFINE new == calls'
  <2>7. /\ new \in Seq(CalledTo) /\ Len(calls) <= Len(new)
        /\ \A j \in 1 .. Len(calls) : new[j].key = calls[j].key /\ new[j].activity = calls[j].activity
        /\ Underway(l) => \A j \in (1 .. Len(calls)) \ m.unsteady : HasIncident(new, j) <=> HasIncident(calls, j)
    BY <1>6, <1>7, <2>4, <2>5
  <2> HIDE DEF new
  <2>8. AnswerFits(m, new)
    BY ONLY <2>3, <2>5, <2>6, <2>7, AnswerStays
  <2> QED BY <2>2, <2>3, <2>8 DEF l, new
<1>9. lists' \in Seq(CalledLists) /\ DOMAIN lists' = DOMAIN lists
  <2>1. DOMAIN lists = 1 .. Len(lists) /\ Len(lists) \in Nat
    BY <1>3
  <2>2. lists' = [i \in 1 .. Len(lists) |-> lists'[i]]
    BY <1>1, <2>1
  <2>3. \A i \in 1 .. Len(lists) : lists'[i] \in CalledLists
    BY <1>8, <2>1
  <2>4. lists' \in [1 .. Len(lists) -> CalledLists]
    BY <2>2, <2>3
  <2> QED BY <1>1, <2>1, <2>4, SeqDef
<1>10. ListsInv'
  BY <1>8, <1>9 DEF ListsInv
<1> QED BY <1>2, <1>3, <1>6, <1>7, <1>8, <1>9, <1>10, CallsMove

\* A request hears an answer.
LEMMA ListAnswered ==
  ASSUME CalledInv, NEW i \in DOMAIN lists, NEW m \in CalledLists, lists' = [lists EXCEPT ![i] = m],
         m.filters = lists[i].filters, lists[i].incidents = Absent, AnswerFits(m, calls),
         calls' = calls, UNCHANGED tabVars
  PROVE  CalledInv'
<1>1. UNCHANGED <<asking, remembered, expected, listed, diagramHere, counting, badge>>
  BY DEF tabVars
<1>2. /\ lists' \in Seq(CalledLists) /\ DOMAIN lists' = DOMAIN lists
      /\ \A j \in DOMAIN lists : j # i => lists'[j] = lists[j]
      /\ lists'[i] = m
  BY DEF CalledInv, CalledTypeOK
<1>3. CalledTypeOK' /\ ListsInv' /\ BadgeFits'
  BY <1>1, <1>2 DEF CalledInv, CalledTypeOK, ListsInv, BadgeFits
<1>4. \A j \in DOMAIN lists : lists'[j].filters = lists[j].filters
  BY <1>2
<1>5. CalledFit'
  BY <1>1, <1>2, <1>4 DEF CalledInv, CalledFit
<1> QED BY <1>3, <1>5 DEF CalledInv

\* Which activities called an instance is known (getActivityInstances).
LEMMA ActivitiesReadInv ==
  ASSUME CalledInv, ActivitiesRead
  PROVE  CalledInv'
<1>1. PICK i \in DOMAIN lists : LET l == lists[i]  calling == Calling(l.filters.activity) IN
        /\ l.calling = Absent /\ ~l.failed
        /\ lists' = [lists EXCEPT ![i] = [l EXCEPT !.calling = calling, !.upTo = Len(calls),
                                                   !.incidents = IF calling = {} THEN {} ELSE Absent]]
  BY Zenon DEF ActivitiesRead
<1>2. calls' = calls /\ UNCHANGED tabVars
  BY Zenon DEF ActivitiesRead
<1> DEFINE l == lists[i]  c == Calling(l.filters.activity)
           n == IF c = {} THEN {} ELSE Absent
           m == [l EXCEPT !.calling = c, !.upTo = Len(calls), !.incidents = n]
<1>3. l \in CalledLists /\ AnswerFits(l, calls) /\ calls \in Seq(CalledTo) /\ Len(calls) \in Nat
  BY DEF CalledInv, CalledTypeOK, ListsInv
<1>4. c = CallsTo(calls, l.filters.activity, Len(calls)) /\ c \in SUBSET Nat
  BY <1>3 DEF Calling, CallsTo
<1>5. n \in (SUBSET Nat) \union {Absent} /\ (n # Absent => c = {} /\ n = {})
  OBVIOUS
<1>6. lists' = [lists EXCEPT ![i] = m]
  BY <1>1
<1> HIDE DEF c, n
<1>7. /\ m \in CalledLists /\ m.filters = l.filters /\ m.begun = l.begun /\ m.before = l.before
      /\ m.calling = c /\ m.upTo = Len(calls) /\ m.incidents = n
      /\ m.failed = l.failed /\ m.unsteady = l.unsteady
  BY <1>3, <1>4, <1>5 DEF CalledLists
<1>8. l.incidents = Absent /\ l.begun <= Len(calls)
  BY <1>1, <1>3 DEF AnswerFits
<1>9. \A k \in (1 .. l.begun) \ l.unsteady : HasIncident(calls, k) <=> k \in l.before
  BY <1>1, <1>3, <1>8 DEF AnswerFits, Underway
<1>10. n # Absent => c # Absent
  BY <1>5
<1>11. AnswerFits(m, calls)
  BY <1>3, <1>4, <1>5, <1>7, <1>8, <1>9, <1>10 DEF AnswerFits
<1> HIDE DEF m
<1> QED BY <1>2, <1>6, <1>7, <1>8, <1>11, ListAnswered

\* The called instances are known, and which have an incident (getProcessInstanceWithFilterBody).
LEMMA InstancesReadInv ==
  ASSUME CalledInv, InstancesRead
  PROVE  CalledInv'
<1>1. PICK i \in DOMAIN lists :
        /\ lists[i].calling # Absent /\ lists[i].incidents = Absent /\ ~lists[i].failed
        /\ lists' = [lists EXCEPT ![i].incidents = WithIncident \intersect lists[i].calling]
  BY DEF InstancesRead
<1>2. calls' = calls /\ UNCHANGED tabVars
  BY DEF InstancesRead
<1> DEFINE l == lists[i]  n == WithIncident \intersect l.calling
           m == [l EXCEPT !.incidents = n]
<1>3. l \in CalledLists /\ AnswerFits(l, calls) /\ calls \in Seq(CalledTo) /\ Len(calls) \in Nat
  BY DEF CalledInv, CalledTypeOK, ListsInv
<1>4. l.calling \in SUBSET Nat
  BY <1>1, <1>3 DEF CalledLists
<1>5. lists' = [lists EXCEPT ![i] = m]
  BY <1>1, <1>3 DEF CalledInv, CalledTypeOK
<1>6. /\ m \in CalledLists /\ m.filters = l.filters /\ m.begun = l.begun /\ m.before = l.before
      /\ m.calling = l.calling /\ m.upTo = l.upTo /\ m.incidents = n
      /\ m.failed = l.failed /\ m.unsteady = l.unsteady
  BY <1>3, <1>4 DEF CalledLists
<1> HIDE DEF m
<1>7. Underway(l)
  BY <1>1 DEF Underway
<1>8. ASSUME NEW k \in l.calling \ l.unsteady, k <= l.begun
      PROVE  k \in n <=> k \in l.before
  <2>1. k \in 1 .. l.begun /\ k \in DOMAIN calls
    BY <1>1, <1>3, <1>8 DEF AnswerFits, CallsTo, CalledLists
  <2>2. k \in WithIncident <=> HasIncident(calls, k)
    BY <2>1 DEF WithIncident, HasIncident
  <2> QED BY <1>3, <1>7, <1>8, <2>1, <2>2 DEF AnswerFits
<1>9. Underway(m) => Underway(l)
  BY <1>7
<1>10. AnswerFits(m, calls)
  BY <1>1, <1>3, <1>6, <1>7, <1>8 DEF AnswerFits
<1> QED BY <1>1, <1>2, <1>5, <1>6, <1>10, ListAnswered

LEMMA ListFailsInv ==
  ASSUME CalledInv, ListFails
  PROVE  CalledInv'
<1>1. PICK i \in DOMAIN lists : Underway(lists[i]) /\ lists' = [lists EXCEPT ![i].failed = TRUE]
  BY DEF ListFails
<1>2. calls' = calls /\ UNCHANGED tabVars
  BY DEF ListFails
<1> DEFINE l == lists[i]  m == [l EXCEPT !.failed = TRUE]
<1>3. l \in CalledLists /\ AnswerFits(l, calls)
  BY DEF CalledInv, CalledTypeOK, ListsInv
<1>4. lists' = [lists EXCEPT ![i] = m]
  BY <1>1, <1>3 DEF CalledInv, CalledTypeOK
<1>5. /\ m \in CalledLists /\ m.filters = l.filters /\ m.begun = l.begun /\ m.before = l.before
      /\ m.calling = l.calling /\ m.upTo = l.upTo /\ m.incidents = l.incidents
      /\ m.failed = TRUE /\ m.unsteady = l.unsteady
  BY <1>3 DEF CalledLists
<1> HIDE DEF m
<1>6. l.incidents = Absent /\ ~Underway(m)
  BY <1>1, <1>5 DEF Underway
<1>7. AnswerFits(m, calls)
  BY <1>3, <1>5, <1>6 DEF AnswerFits
<1> QED BY <1>2, <1>4, <1>5, <1>6, <1>7, ListAnswered

\* Rows and count are asked for, by other filters (loadData, updateCountForTab).
LEMMA FilterCalledInv ==
  ASSUME CalledInv, FilterCalled
  PROVE  CalledInv'
<1>1. /\ asking' \in Filters /\ LoadCalled(asking') /\ counting' = counting \union {asking'}
      /\ UNCHANGED <<calls, listed, diagramHere, badge>>
  BY DEF FilterCalled
<1> DEFINE f == asking'
<1>2. PICK kept \in {remembered, Forgotten} :
        IF kept[f] # Absent
        THEN expected' = kept[f] /\ remembered' = kept /\ UNCHANGED lists
        ELSE /\ lists' = Append(lists, [filters |-> f, begun |-> Len(calls), before |-> WithIncident,
                                        unsteady |-> {}, calling |-> Absent, upTo |-> 0,
                                        incidents |-> Absent, failed |-> FALSE])
             /\ expected' = Len(lists) + 1 /\ remembered' = [kept EXCEPT ![f] = Len(lists) + 1]
  BY <1>1 DEF LoadCalled
<1>3. /\ kept \in [Filters -> Nat \union {Absent}]
      /\ \A g \in Filters : kept[g] # Absent => kept[g] \in DOMAIN lists /\ lists[kept[g]].filters = g
  BY DEF CalledInv, CalledTypeOK, CalledFit, Forgotten
<1>4. BadgeFits' /\ asking' \in Filters /\ counting' \subseteq Filters /\ calls' \in Seq(CalledTo)
  BY <1>1 DEF CalledInv, CalledTypeOK, BadgeFits
<1>5. CASE kept[f] # Absent
  <2>1. expected' = kept[f] /\ remembered' = kept /\ lists' = lists
    BY <1>2, <1>5
  <2>2. /\ expected' # Absent /\ expected' \in DOMAIN lists /\ lists[expected'].filters = asking'
    BY <1>1, <1>3, <1>5, <2>1
  <2>3. CalledFit'
    BY <1>1, <1>3, <2>1, <2>2 DEF CalledInv, CalledFit
  <2> QED BY <1>1, <1>3, <1>4, <2>1, <2>3 DEF CalledInv, CalledTypeOK, ListsInv
<1>6. CASE kept[f] = Absent
  <2> DEFINE n == Len(lists) + 1
             request == [filters |-> f, begun |-> Len(calls), before |-> WithIncident,
                         unsteady |-> {}, calling |-> Absent, upTo |-> 0,
                         incidents |-> Absent, failed |-> FALSE]
  <2>1. /\ lists' = Append(lists, request) /\ expected' = n /\ remembered' = [kept EXCEPT ![f] = n]
    BY <1>2, <1>6
  <2>2. calls \in Seq(CalledTo) /\ lists \in Seq(CalledLists) /\ Len(calls) \in Nat
    BY DEF CalledInv, CalledTypeOK
  <2>3. WithIncident \in SUBSET Nat
    BY <2>2 DEF WithIncident
  <2>4. request \in CalledLists
    BY <1>1, <2>2, <2>3 DEF CalledLists
  <2>5. /\ request.filters = f /\ request.begun = Len(calls) /\ request.before = WithIncident
        /\ request.calling = Absent /\ request.incidents = Absent /\ request.unsteady = {}
    OBVIOUS
  <2>6. \A k \in 1 .. Len(calls) : HasIncident(calls, k) <=> k \in WithIncident
    BY <2>2 DEF WithIncident, HasIncident
  <2>7. AnswerFits(request, calls)
    BY <2>2, <2>5, <2>6 DEF AnswerFits
  <2>8. /\ lists' \in Seq(CalledLists) /\ n \in Nat /\ n # Absent
        /\ DOMAIN lists' = DOMAIN lists \union {n} /\ n \notin DOMAIN lists
        /\ \A i \in DOMAIN lists : lists'[i] = lists[i]
        /\ lists'[n] = request
    BY <2>1, <2>2, <2>4, HistoryAssumption
  <2> HIDE DEF n, request
  <2>9. remembered' \in [Filters -> Nat \union {Absent}]
    BY <1>1, <1>3, <2>1, <2>8
  <2>10. CalledTypeOK' /\ ListsInv'
    BY <1>1, <1>4, <2>7, <2>8, <2>9 DEF CalledInv, CalledTypeOK, ListsInv
  <2>11. ASSUME NEW g \in Filters, remembered'[g] # Absent
         PROVE  remembered'[g] \in DOMAIN lists' /\ lists'[remembered'[g]].filters = g
    <3>1. remembered'[g] = IF g = f THEN n ELSE kept[g]
      BY <1>1, <1>3, <2>1
    <3> QED BY <1>3, <2>5, <2>8, <2>11, <3>1
  <2>12. CalledFit'
    BY <1>1, <2>1, <2>5, <2>8, <2>11 DEF CalledInv, CalledFit
  <2> QED BY <1>4, <2>10, <2>12 DEF CalledInv
<1> QED BY <1>5, <1>6

\* The count shown is of the filters and the calls it was made for (updateCountForTab).
LEMMA CalledCountedInv ==
  ASSUME CalledInv, CalledCounted
  PROVE  CalledInv'
<1>1. PICK f \in counting : /\ counting' = counting \ {f}
                            /\ badge' = [filters |-> f, count |-> CountOfCalls(f), upTo |-> Len(calls)]
  BY DEF CalledCounted
<1>2. UNCHANGED <<calls, asking, lists, remembered, expected, listed, diagramHere>>
  BY DEF CalledCounted
<1>3. calls \in Seq(CalledTo) /\ Len(calls) \in Nat /\ DOMAIN calls = 1 .. Len(calls) /\ f \in Filters
  BY DEF CalledInv, CalledTypeOK
<1>4. CountOfCalls(f) = Cardinality(CountedTo(calls, f, Len(calls)))
  <2>1. CASE f.activity # Absent
    <3>1. CalledIn(f.activity) = CountedTo(calls, f, Len(calls))
      BY <1>3, <2>1 DEF CalledIn, Calling, CountedTo, CallsTo
    <3> QED BY <2>1, <3>1 DEF CountOfCalls
  <2>2. CASE f.activity = Absent
    <3>1. {k \in Calling(Absent) : Matches(calls[k].key, f.key)} = CountedTo(calls, f, Len(calls))
      BY <1>3, <2>2 DEF Calling, CountedTo, CallsTo
    <3> QED BY <2>2, <3>1 DEF CountOfCalls
  <2> QED BY <2>1, <2>2
<1>5. badge'.filters = f /\ badge'.upTo = Len(calls) /\ badge'.count = Cardinality(CountedTo(calls, f, Len(calls)))
  BY <1>1, <1>4
<1>6. BadgeFits'
  BY <1>2, <1>3, <1>5 DEF BadgeFits
<1> QED BY <1>1, <1>2, <1>6 DEF CalledInv, CalledTypeOK, ListsInv, CalledFit

\* The inductive invariant of the called instances.
THEOREM CalledInvariant == Spec => []CalledInv
<1>1. CalledInit => CalledInv
  <2> SUFFICES ASSUME CalledInit PROVE CalledInv
    OBVIOUS
  <2>1. asking \in Filters
    BY DEF CalledInit, Filters
  <2>2. CalledTypeOK
    BY <2>1 DEF CalledInit, CalledTypeOK, Forgotten
  <2>3. ListsInv /\ CalledFit /\ BadgeFits
    BY DEF CalledInit, ListsInv, CalledFit, BadgeFits, Forgotten
  <2> QED BY <2>2, <2>3 DEF CalledInv
<1>2. CalledInv /\ [CalledNext]_calledVars => CalledInv'
  <2> SUFFICES ASSUME CalledInv, [CalledNext]_calledVars PROVE CalledInv'
    OBVIOUS
  <2>1. CASE CalledArrive
    <3>1. /\ expected # Absent /\ ~Underway(lists[expected]) /\ expected' = Absent
          /\ listed' = IF lists[expected].failed THEN Absent ELSE expected
          /\ UNCHANGED <<calls, asking, lists, remembered, diagramHere, counting, badge>>
      BY <2>1 DEF CalledArrive
    <3>2. listed' # Absent => lists[listed'].incidents # Absent
      BY <3>1 DEF Underway
    <3>3. CalledFit'
      BY <3>1, <3>2 DEF CalledInv, CalledFit
    <3> QED BY <3>1, <3>3 DEF CalledInv, CalledTypeOK, ListsInv, BadgeFits
  <2>2. CASE DrawDiagram
    BY <2>2 DEF DrawDiagram, CalledInv, CalledTypeOK, ListsInv, CalledFit, BadgeFits
  <2>3. CASE UNCHANGED calledVars
    BY <2>3 DEF calledVars, CalledInv, CalledTypeOK, ListsInv, CalledFit, BadgeFits
  <2> QED
    BY <2>1, <2>2, <2>3, BeginCallInv, CallChangesInv, FilterCalledInv, ActivitiesReadInv,
       InstancesReadInv, ListFailsInv, CalledCountedInv
    DEF CalledNext
<1> QED BY <1>1, <1>2, AllWidgetsStart, OneWidgetMoves, PTL DEF Spec, widgetVars

\* The rows are the called instances that fit the filters, marked as they were, and the badge
\* counts them (process-instance.controller.ts, called-process-instances-tab.component.ts).
THEOREM CalledRows == Spec => []CalledRowsAreCounted
<1>1. CalledInv => CalledRowsAreCounted
  <2> SUFFICES ASSUME CalledInv, listed # Absent PROVE CalledRowsAreCounted
    BY DEF CalledRowsAreCounted
  <2> DEFINE l == lists[listed]  f == l.filters
             fitting == {k \in DOMAIN calls : calls[k].key # Absent /\ Matches(calls[k].activity, f.activity)
                                                                  /\ Matches(calls[k].key, f.key)}
  <2>1. /\ l \in CalledLists /\ l.incidents # Absent /\ AnswerFits(l, calls)
        /\ DOMAIN calls = 1 .. Len(calls) /\ Len(calls) \in Nat
    BY DEF CalledInv, CalledTypeOK, ListsInv, CalledFit
  <2>2. /\ l.begun \in Nat /\ l.upTo \in Nat /\ l.begun <= l.upTo /\ l.upTo <= Len(calls)
        /\ l.calling = CallsTo(calls, f.activity, l.upTo)
    BY <2>1 DEF AnswerFits, CalledLists
  <2>3. Found(l) = {k \in CallsTo(calls, f.activity, l.upTo) : Matches(calls[k].key, f.key)}
    BY <2>2 DEF Found
  <2>4. Found(l) \subseteq fitting /\ fitting \intersect (1 .. l.begun) \subseteq Found(l)
    BY <2>1, <2>2, <2>3 DEF CallsTo
  <2>5. \A k \in Found(l) \ l.unsteady : k <= l.begun => (k \in l.incidents <=> k \in l.before)
    BY <2>1 DEF AnswerFits, Found
  <2>6. ASSUME badge # Absent, badge.filters = f, badge.upTo = l.upTo
        PROVE  badge.count = Cardinality(Found(l))
               \/ (f.activity # Absent /\ f.key # Absent /\ badge.count > Cardinality(Found(l)))
    <3> DEFINE counted == CountedTo(calls, f, l.upTo)
    <3>1. badge.count = Cardinality(counted)
      BY <2>6 DEF CalledInv, BadgeFits
    <3>2. CASE f.activity = Absent
      <4>1. counted = Found(l)
        BY <2>3, <3>2 DEF CountedTo
      <4> QED BY <3>1, <4>1
    <3>3. CASE f.activity # Absent /\ f.key = Absent
      <4>1. counted = Found(l)
        BY <2>3, <3>3 DEF CountedTo, Matches
      <4> QED BY <3>1, <4>1
    <3>4. CASE f.activity # Absent /\ f.key # Absent
      <4>1. Found(l) \subseteq counted /\ counted \subseteq 1 .. l.upTo
        BY <2>3, <3>4 DEF CountedTo, CallsTo
      <4>2. \A n \in Nat : IsFiniteSet(1 .. n)
        BY FS_Interval
      <4>3. IsFiniteSet(counted)
        <5>1. IsFiniteSet(1 .. l.upTo)
          BY <2>2, <4>2
        <5> HIDE DEF counted, l
        <5> QED BY <4>1, <5>1, FS_Subset
      <4>4. /\ Cardinality(Found(l)) <= Cardinality(counted)
            /\ Cardinality(Found(l)) \in Nat /\ Cardinality(counted) \in Nat
        BY <4>1, <4>3, FS_Subset, FS_CardinalityType
      <4> QED BY <3>1, <3>4, <4>4
    <3> QED BY <3>2, <3>3, <3>4
  <2>7. expected = Absent => f = asking
    BY DEF CalledInv, CalledFit
  <2> HIDE DEF fitting, f, l
  <2> QED BY <2>4, <2>5, <2>6, <2>7 DEF CalledRowsAreCounted, fitting, f, l
<1> QED BY <1>1, CalledInvariant, PTL

-----------------------------------------------------------------------------
(***************************************************************************)
(* The coloured flows, for any process, loops and histories.  PathInv      *)
(* reads the history as the path of the token: one activity ends when the  *)
(* next begins, and unless it was canceled, which no gateway is, a flow    *)
(* leads from one to the other, and those are the flows taken.  The token  *)
(* rests at the end only where no flow leads away.  That the rule finds    *)
(* exactly these flows again is then a matter of times that never go back. *)
(***************************************************************************)

ActivityInstances ==
  [activityId : Activities, startTime : Nat, endTime : Nat \union {Absent}, canceled : BOOLEAN]

PathTypeOK ==
  historical \in Seq(ActivityInstances) /\ historical # <<>> /\ clock \in Nat

\* The flow by which the token left the k-th activity
FlowFrom(k) == <<historical[k].activityId, historical[k + 1].activityId>>
StepsDone == 1 .. (Len(historical) - 1)

PathInv ==
  /\ \A k \in StepsDone :
       /\ historical[k].endTime = historical[k + 1].startTime
       /\ historical[k].canceled => historical[k].activityId \notin Gateways
       /\ ~historical[k].canceled => FlowFrom(k) \in Flows
  /\ ~historical[Len(historical)].canceled
  /\ historical[Len(historical)].endTime # Absent =>
       Outgoing(historical[Len(historical)].activityId) = {}
  /\ \A f : f \in taken <=> \E k \in StepsDone : ~historical[k].canceled /\ f = FlowFrom(k)

TimesGrow ==
  /\ \A m, n \in DOMAIN historical : m <= n => historical[m].startTime <= historical[n].startTime
  /\ \A m \in DOMAIN historical : historical[m].startTime <= clock

TokenInv == PathTypeOK /\ PathInv /\ TimesGrow

-----------------------------------------------------------------------------
\* Of at most one thing any two are the same.
LEMMA AtMostOne ==
  ASSUME NEW S, IsFiniteSet(S), Cardinality(S) <= 1, NEW x \in S, NEW y \in S
  PROVE  x = y
<1> SUFFICES ASSUME x # y PROVE FALSE
  OBVIOUS
<1>1. IsFiniteSet({x}) /\ Cardinality({x}) = 1
  BY FS_Singleton
<1>2. IsFiniteSet({x} \cup {y}) /\ Cardinality({x} \cup {y}) = 2
  <2>1. /\ IsFiniteSet({x} \cup {y})
        /\ Cardinality({x} \cup {y}) = IF y \in {x} THEN Cardinality({x}) ELSE Cardinality({x}) + 1
    BY <1>1, FS_AddElement
  <2> QED BY <1>1, <2>1
<1>3. ({x} \cup {y}) \in SUBSET S
  OBVIOUS
<1>4. Cardinality({x} \cup {y}) <= Cardinality(S) /\ Cardinality(S) \in Nat
  BY <1>3, FS_Subset, FS_CardinalityType
<1> QED BY <1>2, <1>4

\* Flows are pairs of activities, finitely many, and have a place in the diagram.
LEMMA FlowFacts ==
  /\ IsFiniteSet(Flows)
  /\ \A f \in Flows : f = <<f[1], f[2]>> /\ f[1] \in Activities /\ f[2] \in Activities
  /\ \A f \in Flows : Place(f) \in Nat
<1>1. SequenceFlowList \in Seq(Activities \X Activities)
  BY SequenceFlowsAssumption
<1>2. Flows = {SequenceFlowList[i] : i \in 1 .. Len(SequenceFlowList)} /\ Len(SequenceFlowList) \in Nat
  <2>1. DOMAIN SequenceFlowList = 1 .. Len(SequenceFlowList) /\ Len(SequenceFlowList) \in Nat
    BY <1>1, LenProperties
  <2> QED BY <2>1 DEF Flows, ToSet
<1>3. IsFiniteSet(Flows)
  <2>1. SequenceFlowList \in Surjection(1 .. Len(SequenceFlowList), Flows)
    <3>1. SequenceFlowList \in [1 .. Len(SequenceFlowList) -> Flows]
      BY <1>1, <1>2
    <3> QED BY <1>2, <3>1 DEF Surjection
  <2>2. IsFiniteSet(1 .. Len(SequenceFlowList))
    BY <1>2, FS_Interval
  <2> QED BY <2>1, <2>2, FS_Surjection
<1>4. \A f \in Flows : f \in Activities \X Activities
  BY <1>1, <1>2
<1>5. ASSUME NEW f \in Flows PROVE Place(f) \in Nat
  <2>1. \E n \in DOMAIN SequenceFlowList : SequenceFlowList[n] = f
    BY <1>1, <1>2
  <2>2. Place(f) \in DOMAIN SequenceFlowList
    BY <2>1 DEF Place
  <2> QED BY <1>1, <2>2
<1> QED BY <1>3, <1>4, <1>5

\* The last element of a sequence is replaced, and one is added.
LEMMA LastReplaced ==
  ASSUME NEW S, NEW s \in Seq(S), s # <<>>, NEW e \in S, NEW b \in S,
         NEW t, t = Append([s EXCEPT ![Len(s)] = e], b)
  PROVE  /\ t \in Seq(S) /\ Len(t) = Len(s) + 1 /\ DOMAIN t = 1 .. (Len(s) + 1)
         /\ t[Len(s)] = e /\ t[Len(s) + 1] = b
         /\ \A k \in 1 .. (Len(s) - 1) : t[k] = s[k]
<1>1. Len(s) \in Nat \ {0}
  BY EmptySeq
<1> DEFINE r == [s EXCEPT ![Len(s)] = e]
<1>2. /\ r \in Seq(S) /\ Len(r) = Len(s)
      /\ \A j \in 1 .. Len(s) : r[j] = IF j = Len(s) THEN e ELSE s[j]
  BY <1>1, ExceptSeq
<1> HIDE DEF r
<1>3. /\ Append(r, b) \in Seq(S) /\ Len(Append(r, b)) = Len(r) + 1
      /\ \A j \in 1 .. Len(r) : Append(r, b)[j] = r[j]
      /\ Append(r, b)[Len(r) + 1] = b
  BY <1>2, AppendProperties
<1>4. t = Append(r, b)
  BY DEF r
<1>5. DOMAIN t = 1 .. Len(t)
  BY <1>3, <1>4, LenProperties
<1>6. Len(s) \in 1 .. Len(s) /\ \A k \in 1 .. (Len(s) - 1) : k \in 1 .. Len(s) /\ k # Len(s)
  BY <1>1
<1> QED BY <1>2, <1>3, <1>4, <1>5, <1>6

\* The token leaves its activity, by a flow or by the hand of a user.
LEMMA TokenLeaves ==
  ASSUME TokenInv, NEW c \in BOOLEAN, NEW a \in Activities,
         TokenWaits,
         historical' = Append(Ended(c), Instance(a, clock)), clock' = clock,
         c => historical[Current].activityId \notin Gateways,
         ~c => <<historical[Current].activityId, a>> \in Flows,
         taken' = IF c THEN taken ELSE taken \union {<<historical[Current].activityId, a>>}
  PROVE  TokenInv'
<1>a. PICK n : n = Len(historical)
  OBVIOUS
<1>b. PICK e : e = [historical[n] EXCEPT !.endTime = clock, !.canceled = c]
  OBVIOUS
<1>c. PICK b : b = Instance(a, clock)
  OBVIOUS
<1>1. /\ historical \in Seq(ActivityInstances) /\ n \in Nat \ {0} /\ clock \in Nat
      /\ historical[n] \in ActivityInstances /\ DOMAIN historical = 1 .. n
  BY <1>a, EmptySeq, LenProperties, ElementOfSeq DEF TokenInv, PathTypeOK
<1>2. /\ e \in ActivityInstances /\ e.activityId = historical[n].activityId
      /\ e.startTime = historical[n].startTime /\ e.endTime = clock /\ e.canceled = c
  BY <1>b, <1>1 DEF ActivityInstances
<1>3. /\ b \in ActivityInstances /\ b.activityId = a /\ b.startTime = clock /\ b.endTime = Absent
      /\ b.canceled = FALSE
  BY <1>c, <1>1 DEF Instance, ActivityInstances
<1>4. historical' = Append([historical EXCEPT ![n] = e], b)
  BY <1>a, <1>b, <1>c DEF Ended, Current
<1>6. /\ historical' \in Seq(ActivityInstances) /\ Len(historical') = n + 1
      /\ DOMAIN historical' = 1 .. (n + 1) /\ historical'[n] = e /\ historical'[n + 1] = b
      /\ \A k \in 1 .. (n - 1) : historical'[k] = historical[k]
  BY <1>a, <1>1, <1>2, <1>3, <1>4, LastReplaced DEF TokenInv, PathTypeOK
<1>8. \A k \in 1 .. n : /\ historical'[k].activityId = historical[k].activityId
                        /\ historical'[k].startTime = historical[k].startTime
  <2> SUFFICES ASSUME NEW k \in 1 .. n
               PROVE  /\ historical'[k].activityId = historical[k].activityId
                      /\ historical'[k].startTime = historical[k].startTime
    OBVIOUS
  <2>1. CASE k = n
    BY <1>2, <1>6, <2>1
  <2>2. CASE k # n
    <3>1. k \in 1 .. (n - 1)
      BY <1>1, <2>2
    <3> QED BY <1>6, <3>1
  <2> QED BY <2>1, <2>2
<1>9. PathTypeOK'
  BY <1>1, <1>6, EmptySeq DEF PathTypeOK
<1>d. PICK before : before = 1 .. (n - 1)
  OBVIOUS
<1>10. StepsDone = before /\ StepsDone' = before \union {n} /\ n \notin before
  BY <1>a, <1>d, <1>1, <1>6 DEF StepsDone
<1>11. /\ \A k \in before : FlowFrom(k)' = FlowFrom(k)
       /\ FlowFrom(n)' = <<historical[n].activityId, a>>
  <2>1. \A k \in before : k \in 1 .. n /\ k + 1 \in 1 .. n
    BY <1>d, <1>1
  <2> QED BY <1>1, <1>3, <1>6, <1>8, <2>1 DEF FlowFrom
<1>12. \A k \in before : historical'[k] = historical[k] /\ historical'[k + 1].startTime = historical[k + 1].startTime
  <2>1. \A k \in before : k \in 1 .. n /\ k + 1 \in 1 .. n
    BY <1>d, <1>1
  <2> QED BY <1>d, <1>6, <1>8, <2>1
<1>13. TimesGrow'
  <2>1. \A m \in 1 .. n : historical'[m].startTime <= clock
    BY <1>1, <1>8 DEF TokenInv, TimesGrow
  <2>2. \A m, k \in 1 .. n : m <= k => historical'[m].startTime <= historical'[k].startTime
    BY <1>1, <1>8 DEF TokenInv, TimesGrow
  <2>3. \A m \in 1 .. (n + 1) : historical'[m].startTime <= clock
    BY <1>1, <1>3, <1>6, <2>1
  <2>4. ASSUME NEW m \in 1 .. (n + 1), NEW k \in 1 .. (n + 1), m <= k
        PROVE  historical'[m].startTime <= historical'[k].startTime
    <3>1. CASE k \in 1 .. n
      <4>1. m \in 1 .. n
        BY <1>1, <2>4, <3>1
      <4> QED BY <2>2, <2>4, <3>1, <4>1
    <3>2. CASE k = n + 1
      BY <1>3, <1>6, <2>3, <3>2
    <3>3. k \in 1 .. n \/ k = n + 1
      BY <1>1
    <3> QED BY <3>1, <3>2, <3>3
  <2> QED BY <1>6, <2>3, <2>4 DEF TimesGrow
<1>14. PathInv'
  <2>1. ASSUME NEW k \in StepsDone'
        PROVE  /\ historical'[k].endTime = historical'[k + 1].startTime
               /\ historical'[k].canceled => historical'[k].activityId \notin Gateways
               /\ ~historical'[k].canceled => FlowFrom(k)' \in Flows
    <3>1. CASE k \in before
      BY <1>10, <1>11, <1>12, <3>1 DEF TokenInv, PathInv
    <3>2. CASE k = n
      BY <1>a, <1>2, <1>3, <1>6, <1>11, <3>2 DEF Current
    <3> QED BY <1>10, <2>1, <3>1, <3>2
  <2>2. ~historical'[n + 1].canceled /\ historical'[n + 1].endTime = Absent
    BY <1>3, <1>6
  <2>3. ASSUME NEW f
        PROVE  f \in taken' <=> \E k \in StepsDone' : ~historical'[k].canceled /\ f = FlowFrom(k)'
    <3>1. f \in taken <=> \E k \in before : ~historical'[k].canceled /\ f = FlowFrom(k)'
      <4>1. f \in taken <=> \E k \in StepsDone : ~historical[k].canceled /\ f = FlowFrom(k)
        BY DEF TokenInv, PathInv
      <4> QED BY <1>10, <1>11, <1>12, <4>1
    <3>2. f \in taken' <=> f \in taken \/ (~c /\ f = FlowFrom(n)')
      BY <1>a, <1>11 DEF Current
    <3>3. historical'[n].canceled = c
      BY <1>2, <1>6
    <3> QED BY <1>10, <3>1, <3>2, <3>3
  <2> QED BY <1>6, <2>1, <2>2, <2>3 DEF PathInv
<1> QED BY <1>9, <1>13, <1>14 DEF TokenInv

\* The token comes to an end.
LEMMA EndEventInv ==
  ASSUME TokenInv, EndEvent
  PROVE  TokenInv'
<1>a. PICK n : n = Len(historical)
  OBVIOUS
<1>b. PICK e : e = [historical[n] EXCEPT !.endTime = clock, !.canceled = FALSE]
  OBVIOUS
<1>1. /\ historical' = [historical EXCEPT ![n] = e] /\ clock' = clock /\ taken' = taken
      /\ Outgoing(historical[n].activityId) = {}
  BY <1>a, <1>b DEF EndEvent, Ended, Current
<1>2. /\ historical \in Seq(ActivityInstances) /\ n \in Nat \ {0} /\ clock \in Nat
      /\ historical[n] \in ActivityInstances /\ DOMAIN historical = 1 .. n
  BY <1>a, EmptySeq, LenProperties, ElementOfSeq DEF TokenInv, PathTypeOK
<1>3. /\ e \in ActivityInstances /\ e.activityId = historical[n].activityId
      /\ e.startTime = historical[n].startTime /\ e.endTime = clock /\ e.canceled = FALSE
  BY <1>b, <1>2 DEF ActivityInstances
<1>4. /\ historical' \in Seq(ActivityInstances) /\ Len(historical') = n /\ DOMAIN historical' = 1 .. n
      /\ historical'[n] = e /\ \A k \in 1 .. n : k # n => historical'[k] = historical[k]
  <2>1. n \in 1 .. n /\ n = Len(historical)
    BY <1>a, <1>2
  <2>2. /\ historical' \in Seq(ActivityInstances) /\ Len(historical') = n
        /\ \A k \in 1 .. n : historical'[k] = IF k = n THEN e ELSE historical[k]
    BY <1>1, <1>2, <1>3, <2>1, ExceptSeq
  <2> QED BY <2>1, <2>2, LenProperties
<1>5. \A k \in 1 .. n : /\ historical'[k].activityId = historical[k].activityId
                        /\ historical'[k].startTime = historical[k].startTime
  BY <1>3, <1>4
<1>6. PathTypeOK'
  BY <1>1, <1>2, <1>4, EmptySeq DEF PathTypeOK
<1>7. TimesGrow'
  BY <1>1, <1>2, <1>4, <1>5 DEF TokenInv, TimesGrow
<1>8. StepsDone' = StepsDone /\ \A k \in StepsDone : k \in 1 .. n /\ k + 1 \in 1 .. n /\ k # n
  BY <1>a, <1>2, <1>4 DEF StepsDone
<1>9. \A k \in StepsDone : /\ FlowFrom(k)' = FlowFrom(k) /\ historical'[k] = historical[k]
                           /\ historical'[k + 1].startTime = historical[k + 1].startTime
  BY <1>4, <1>5, <1>8 DEF FlowFrom
<1>10. historical'[n].canceled = FALSE /\ Outgoing(historical'[n].activityId) = {}
  BY <1>1, <1>3, <1>4
<1>11. PathInv'
  BY <1>a, <1>1, <1>4, <1>8, <1>9, <1>10 DEF TokenInv, PathInv
<1> QED BY <1>6, <1>7, <1>11 DEF TokenInv

\* The inductive invariant of the token and its history.
THEOREM TokenInvariant == Spec => []TokenInv
<1>1. FlowsInit => TokenInv
  <2> SUFFICES ASSUME FlowsInit PROVE TokenInv
    OBVIOUS
  <2> DEFINE b == Instance(StartEvent, 1)
  <2>1. b \in ActivityInstances /\ b.startTime = 1 /\ b.endTime = Absent /\ b.canceled = FALSE
    BY SequenceFlowsAssumption DEF Instance, ActivityInstances
  <2>2. historical = <<b>> /\ clock = 1 /\ taken = {}
    BY DEF FlowsInit
  <2> HIDE DEF b
  <2>3. /\ historical \in Seq(ActivityInstances) /\ Len(historical) = 1 /\ DOMAIN historical = {1}
        /\ historical[1] = b
    BY <2>1, <2>2
  <2>4. PathTypeOK
    BY <2>2, <2>3, EmptySeq DEF PathTypeOK
  <2>5. StepsDone = {}
    BY <2>3 DEF StepsDone
  <2>6. PathInv
    BY <2>1, <2>2, <2>3, <2>5 DEF PathInv
  <2>7. TimesGrow
    BY <2>1, <2>2, <2>3 DEF TimesGrow
  <2> QED BY <2>4, <2>6, <2>7 DEF TokenInv
<1>2. TokenInv /\ [FlowsNext]_flowVars => TokenInv'
  <2> SUFFICES ASSUME TokenInv, [FlowsNext]_flowVars PROVE TokenInv'
    OBVIOUS
  <2>1. CASE Tick
    <3>1. clock \in Nat /\ clock' = clock + 1 /\ historical' = historical /\ taken' = taken
      BY <2>1 DEF Tick, TokenInv, PathTypeOK
    <3>2. \A m \in DOMAIN historical : historical[m].startTime \in Nat
      <4>1. historical \in [DOMAIN historical -> ActivityInstances]
        BY LenProperties DEF TokenInv, PathTypeOK
      <4> QED BY <4>1 DEF ActivityInstances
    <3>3. TimesGrow'
      BY <3>1, <3>2 DEF TokenInv, TimesGrow
    <3> QED BY <3>1, <3>3 DEF TokenInv, PathTypeOK, PathInv, StepsDone, FlowFrom
  <2>2. ASSUME NEW flow \in Flows, Leave(flow) PROVE TokenInv'
    <3>1. flow = <<historical[Current].activityId, flow[2]>> /\ flow[2] \in Activities
      BY <2>2, FlowFacts DEF Leave
    <3>2. /\ TokenWaits /\ historical' = Append(Ended(FALSE), Instance(flow[2], clock)) /\ clock' = clock
          /\ taken' = taken \union {<<historical[Current].activityId, flow[2]>>}
      BY <2>2, <3>1 DEF Leave
    <3> QED BY <3>1, <3>2, TokenLeaves
  <2>3. ASSUME NEW activity \in Activities, MoveToken(activity) PROVE TokenInv'
    <3>1. /\ TokenWaits /\ historical' = Append(Ended(TRUE), Instance(activity, clock)) /\ clock' = clock
          /\ historical[Current].activityId \notin Gateways /\ taken' = taken
      BY <2>3 DEF MoveToken
    <3> QED BY <3>1, TokenLeaves
  <2>4. CASE UNCHANGED flowVars
    BY <2>4 DEF flowVars, TokenInv, PathTypeOK, PathInv, TimesGrow, StepsDone, FlowFrom
  <2> QED BY <2>1, <2>2, <2>3, <2>4, EndEventInv DEF FlowsNext
<1> QED BY <1>1, <1>2, AllWidgetsStart, OneWidgetMoves, PTL DEF Spec, widgetVars

-----------------------------------------------------------------------------
\* Of a gateway and its targets the times tell which came first.
LEMMA TellsApart ==
  ASSUME TimesTellApart, NEW m \in DOMAIN historical, NEW n \in DOMAIN historical, m < n,
         NEW g \in Gateways, <<g, historical[n].activityId>> \in Flows,
         historical[m].activityId = g \/ <<g, historical[m].activityId>> \in Flows
  PROVE  historical[m].startTime < historical[n].startTime
BY DEF TimesTellApart

\* The flows the token took are among those that are coloured.
LEMMA TakenAreColoured ==
  ASSUME TokenInv, TimesTellApart, NEW flow \in taken
  PROVE  flow \in SequencesToHighlight
<1>1. PICK k \in StepsDone : ~historical[k].canceled /\ flow = FlowFrom(k)
  BY DEF TokenInv, PathInv
<1> DEFINE source == historical[k]  target == historical[k + 1]  g == source.activityId
<1>2. /\ historical \in Seq(ActivityInstances) /\ DOMAIN historical = 1 .. Len(historical)
      /\ Len(historical) \in Nat /\ k \in DOMAIN historical /\ k + 1 \in DOMAIN historical /\ k \in Nat
  BY <1>1 DEF TokenInv, PathTypeOK, StepsDone
<1>3. /\ source \in ActivityInstances /\ target \in ActivityInstances
      /\ source \in Recorded /\ target \in Recorded
  BY <1>2 DEF Recorded, ToSet
<1>4. flow \in Flows /\ flow = <<g, target.activityId>> /\ source.endTime = target.startTime
  BY <1>1 DEF TokenInv, PathInv, FlowFrom
<1>5. source.endTime # Absent /\ source.endTime \in Nat /\ target.startTime \in Nat /\ source.startTime \in Nat
  BY <1>3, <1>4, HistoryAssumption DEF ActivityInstances
<1>6. flow[1] = g /\ flow[2] = target.activityId
  BY <1>4
<1>7. source \in InstancesOf(flow[1]) /\ target \in InstancesOf(flow[2])
  BY <1>3, <1>6 DEF InstancesOf
<1>8. HasExited(flow[1]) /\ InTemporalOrder(flow)
  BY <1>1, <1>4, <1>5, <1>7 DEF HasExited, InTemporalOrder
<1>9. ASSUME flow[1] \in Gateways PROVE GatewayLedTo(flow)
  <2>1. source.startTime < target.startTime
    <3>1. k < k + 1 /\ g \in Gateways /\ <<g, historical[k + 1].activityId>> \in Flows
      BY <1>2, <1>4, <1>6, <1>9
    <3> QED BY <1>2, <3>1, TellsApart
  <2>2. target \in GatewayTargets(g)
    BY <1>3, <1>4 DEF GatewayTargets
  <2>3. ASSUME NEW j \in GatewayTargets(g), j.startTime > source.startTime
        PROVE  \/ target.startTime < j.startTime
               \/ /\ target.startTime = j.startTime
                  /\ Place(<<g, target.activityId>>) <= Place(<<g, j.activityId>>)
    <3>1. PICK m \in DOMAIN historical : historical[m] = j
      BY <2>3 DEF GatewayTargets, Recorded, ToSet
    <3>2. <<g, j.activityId>> \in Flows
      BY <2>3 DEF GatewayTargets
    <3>3. ~(m <= k)
      <4> SUFFICES ASSUME m <= k PROVE FALSE
        OBVIOUS
      <4>1. historical[m].startTime <= historical[k].startTime
        BY <1>2 DEF TokenInv, TimesGrow
      <4>2. j \in ActivityInstances
        BY <1>2, <3>1
      <4> QED BY <1>5, <2>3, <3>1, <4>1, <4>2 DEF ActivityInstances
    <3>4. CASE m = k + 1
      <4>1. j = target
        BY <3>1, <3>4
      <4>2. Place(<<g, target.activityId>>) \in Nat
        BY <1>4, FlowFacts
      <4> QED BY <4>1, <4>2
    <3>5. CASE m > k + 1
      <4>1. target.startTime < j.startTime
        BY <1>2, <1>4, <1>6, <1>9, <3>1, <3>2, <3>5, TellsApart
      <4> QED BY <4>1
    <3> QED BY <1>2, <3>3, <3>4, <3>5
  <2>4. LedTo(source, target.activityId)
    BY <2>1, <2>2, <2>3 DEF LedTo
  <2> QED BY <1>6, <1>7, <2>4 DEF GatewayLedTo
<1> QED BY <1>4, <1>7, <1>8, <1>9 DEF SequencesToHighlight

\* What is coloured the token took.
LEMMA ColouredAreTaken ==
  ASSUME TokenInv, TimesTellApart, NEW flow \in SequencesToHighlight
  PROVE  flow \in taken
<1> DEFINE g == flow[1]  n == Len(historical)
<1>1. /\ flow \in Flows /\ flow = <<g, flow[2]>> /\ flow \in Outgoing(g)
      /\ g \in Gateways /\ InstancesOf(g) # {} /\ TargetCount(g) > 1 => GatewayLedTo(flow)
      /\ HasExited(g) /\ InTemporalOrder(flow)
  BY FlowFacts DEF SequencesToHighlight, Outgoing
<1>2. /\ historical \in Seq(ActivityInstances) /\ DOMAIN historical = 1 .. n /\ n \in Nat \ {0}
      /\ \A m \in 1 .. n : historical[m] \in ActivityInstances /\ historical[m].startTime \in Nat
  <2>1. historical \in Seq(ActivityInstances) /\ historical # <<>>
    BY DEF TokenInv, PathTypeOK
  <2>2. historical \in [1 .. n -> ActivityInstances] /\ DOMAIN historical = 1 .. n /\ n \in Nat \ {0}
    BY <2>1, LenProperties, EmptySeq
  <2> QED BY <2>1, <2>2 DEF ActivityInstances
<1>3. ASSUME NEW k \in 1 .. n, historical[k].activityId = g, historical[k].endTime # Absent,
             ~historical[k].canceled
      PROVE  /\ k \in StepsDone /\ k + 1 \in 1 .. n
             /\ FlowFrom(k) = <<g, historical[k + 1].activityId>>
             /\ FlowFrom(k) \in Flows /\ FlowFrom(k) \in taken
  <2>1. k # n
    BY <1>1, <1>3 DEF TokenInv, PathInv
  <2>2. k \in StepsDone /\ k + 1 \in 1 .. n
    BY <1>2, <2>1 DEF StepsDone
  <2> QED BY <1>3, <2>2 DEF TokenInv, PathInv, FlowFrom
<1>4. CASE g \notin Gateways
  <2>1. PICK i \in InstancesOf(g) : i.endTime # Absent /\ ~i.canceled
    BY <1>1 DEF HasExited
  <2>2. PICK k \in 1 .. n : historical[k] = i /\ i.activityId = g
    BY <1>2 DEF InstancesOf, Recorded, ToSet
  <2>3. FlowFrom(k) \in Flows /\ FlowFrom(k) \in taken /\ FlowFrom(k) = <<g, historical[k + 1].activityId>>
    BY <1>3, <2>1, <2>2
  <2>4. FlowFrom(k) \in Outgoing(g)
    BY <2>3 DEF Outgoing
  <2>5. g \in Activities
    BY <1>1, FlowFacts
  <2>6. Cardinality(Outgoing(g)) <= 1
    BY <1>4, <2>5, SequenceFlowsAssumption
  <2>7. IsFiniteSet(Outgoing(g))
    BY FlowFacts, FS_Subset DEF Outgoing
  <2>8. FlowFrom(k) = flow
    BY <1>1, <2>4, <2>6, <2>7, AtMostOne
  <2> QED BY <2>3, <2>8
<1>5. CASE g \in Gateways /\ GatewayLedTo(flow)
  <2>1. PICK source \in InstancesOf(g) : LedTo(source, flow[2])
    BY <1>5 DEF GatewayLedTo
  <2>2. PICK i \in GatewayTargets(source.activityId) :
          /\ i.activityId = flow[2] /\ i.startTime > source.startTime
          /\ \A j \in GatewayTargets(source.activityId) :
               j.startTime > source.startTime =>
                 i.startTime < j.startTime \/ i.startTime = j.startTime
    BY <2>1 DEF LedTo
  <2>3. PICK k \in 1 .. n : historical[k] = source /\ source.activityId = g
    BY <1>2 DEF InstancesOf, Recorded, ToSet
  <2>4. PICK m \in 1 .. n : historical[m] = i /\ <<g, i.activityId>> \in Flows
    BY <1>2, <2>3 DEF GatewayTargets, Recorded, ToSet
  <2>5. k < m
    <3> SUFFICES ASSUME m <= k PROVE FALSE
      BY <1>2
    <3>1. historical[m].startTime <= historical[k].startTime
      BY <1>2 DEF TokenInv, TimesGrow
    <3> QED BY <1>2, <2>2, <2>3, <2>4, <3>1
  <2>6. k \in StepsDone /\ k + 1 \in 1 .. n
    BY <1>2, <2>5 DEF StepsDone
  <2>7. ~historical[k].canceled /\ FlowFrom(k) \in Flows /\ FlowFrom(k) \in taken
    BY <1>5, <2>3, <2>6 DEF TokenInv, PathInv
  <2>8. FlowFrom(k) = <<g, historical[k + 1].activityId>>
    BY <2>3 DEF FlowFrom
  <2>9. CASE m = k + 1
    BY <1>1, <2>2, <2>4, <2>7, <2>8, <2>9
  <2>10. CASE m > k + 1
    <3>1. historical[k].startTime < historical[k + 1].startTime
      <4>1. k \in DOMAIN historical /\ k + 1 \in DOMAIN historical /\ k < k + 1
        BY <1>2, <2>6
      <4> QED BY <1>5, <2>3, <2>7, <2>8, <4>1, TellsApart
    <3>2. historical[k + 1].startTime < historical[m].startTime
      <4>1. m \in DOMAIN historical /\ k + 1 \in DOMAIN historical /\ k + 1 < m
        BY <1>2, <2>6, <2>10
      <4> QED BY <1>5, <2>4, <2>7, <2>8, <4>1, TellsApart
    <3>3. historical[k + 1] \in GatewayTargets(source.activityId)
      BY <1>2, <2>3, <2>6, <2>7, <2>8 DEF GatewayTargets, Recorded, ToSet
    <3>4. i.startTime <= historical[k + 1].startTime
      BY <1>2, <2>2, <2>3, <2>4, <2>6, <3>1, <3>3
    <3> QED BY <1>2, <2>4, <2>6, <3>2, <3>4
  <2> QED BY <2>5, <2>6, <2>9, <2>10, <1>2
<1>6. CASE g \in Gateways /\ ~(TargetCount(g) > 1)
  <2>1. PICK source \in InstancesOf(g), target \in InstancesOf(flow[2]) :
          source.endTime # Absent /\ ~source.canceled
    BY <1>1 DEF InTemporalOrder
  <2>2. PICK k \in 1 .. n : historical[k] = source /\ source.activityId = g
    BY <1>2 DEF InstancesOf, Recorded, ToSet
  <2>3. PICK m \in 1 .. n : historical[m] = target /\ target.activityId = flow[2]
    BY <1>2 DEF InstancesOf, Recorded, ToSet
  <2>4. /\ k + 1 \in 1 .. n /\ FlowFrom(k) = <<g, historical[k + 1].activityId>>
        /\ FlowFrom(k) \in Flows /\ FlowFrom(k) \in taken
    BY <1>3, <2>1, <2>2
  <2> DEFINE S == {p \in DOMAIN historical : <<g, historical[p].activityId>> \in Flows}
  <2>5. k + 1 \in S /\ m \in S
    BY <1>1, <1>2, <2>3, <2>4
  <2>6. IsFiniteSet(S)
    <3>1. IsFiniteSet(1 .. n)
      BY <1>2, FS_Interval
    <3>2. S \in SUBSET (1 .. n)
      BY <1>2
    <3> QED BY <3>1, <3>2, FS_Subset
  <2>7. Cardinality(S) \in Nat
    BY <2>6, FS_CardinalityType
  <2>8. Cardinality(S) <= 1
    <3>1. TargetCount(g) = Cardinality(S) \/ TargetCount(g) = Cardinality(S) + 1
      BY <2>7 DEF TargetCount
    <3> QED BY <1>6, <2>7, <3>1
  <2>9. k + 1 = m
    <3> HIDE DEF S
    <3> QED BY <2>5, <2>6, <2>8, AtMostOne
  <2> QED BY <1>1, <2>3, <2>4, <2>9
<1>7. InstancesOf(g) # {}
  BY <1>1 DEF HasExited
<1> QED BY <1>1, <1>4, <1>5, <1>6, <1>7

\* The page colours the flows the token took and no other (process-instance-detail-page.component.ts,
\* colorSequenceFlows), whatever the process, its loops and the moves of its user.
THEOREM FlowsColoured == Spec => []ColouredFlowsWereTaken
<1>1. TokenInv => ColouredFlowsWereTaken
  BY TakenAreColoured, ColouredAreTaken DEF ColouredFlowsWereTaken
<1> QED BY <1>1, TokenInvariant, PTL

-----------------------------------------------------------------------------
(***************************************************************************)
(* What is drawn on a diagram, for any activities, answers and gestures.   *)
(* TokensInv, ColoursInv: since nothing holds what was drawn, each drawing *)
(* is exact only if the one before was what the page takes it for; of an   *)
(* instance this rests on histories that never become empty again          *)
(* (HistoryGrows) and on answers that do not overtake (OneAnswer).         *)
(* CommandsOwned, TipsOwned: what other drawings leave of the overlays of  *)
(* commands and of tooltips.                                               *)
(***************************************************************************)

Overlays == [Kinds -> Seq(Nat)]
MarksTypeOK ==
  /\ drawnFor \in {"instance", "definition"}
  /\ engine \in [MarkedActivities -> ActivityStates]
  /\ answers \in Seq([MarkedActivities -> ActivityStates])
  /\ known \in [MarkedActivities -> ActivityStates] \union {Absent}
  /\ isDrawn \in BOOLEAN /\ areShown \in BOOLEAN /\ pulled \in BOOLEAN
  /\ overlay \in [MarkedActivities -> Overlays]
  /\ command \in SUBSET MarkedActivities /\ timers \in SUBSET MarkedActivities
  /\ under \in [activity : MarkedActivities, kind : Kinds, tip : {"due", "shown"}] \union {Absent}

\* A diagram that tells of an answer
IsMarked == isDrawn /\ known # Absent
Untold(marks) == \A kind \in States : marks[kind] = <<>>
Exactly(marks, a) == \A kind \in States : marks[kind] = Mark(Wanted(a)[kind])

\* Of an instance: what has a history keeps one, so that an answer without comes before all that have
\* one; and where none was told of, the answers told of nothing
HistoryGrows ==
  drawnFor = "instance" => \A e \in MarkedActivities :
    /\ \A i \in DOMAIN answers : InHistory(answers[i][e]) => InHistory(engine[e])
    /\ known # Absent /\ InHistory(known[e]) =>
         InHistory(engine[e]) /\ \A i \in DOMAIN answers : InHistory(answers[i][e])
OneAnswer == drawnFor = "instance" => Len(answers) <= 1

InstanceTokens(e) ==
  LET marks == overlay[e]  a == known[e] IN
  IF IsMarked THEN IF InHistory(a) THEN Exactly(marks, a)
                   ELSE /\ marks.terminated = <<>> /\ marks.completed = <<>>
                        /\ \A kind \in {"active", "incident"} :
                             Wanted(a)[kind] # 0 => Wanted(a)[kind] \in ToSet(marks[kind])
                        /\ e \notin onceToldOf => Untold(marks) /\ a.waiting = 0 /\ a.incidents = 0
  ELSE Untold(marks)
\* Of a definition: only what is open is told, and it is drawn, or nothing is
OpenOnly(a) == \A i \in DOMAIN a.trail : a.trail[i] = "open"
DefinitionTokens(e) ==
  /\ \A i \in DOMAIN answers : OpenOnly(answers[i][e])
  /\ known # Absent => OpenOnly(known[e])
  /\ IF IsMarked THEN Exactly(overlay[e], known[e]) \/ (~areShown /\ Untold(overlay[e])) ELSE Untold(overlay[e])
  /\ IsMarked => (overlay[e].suspended # <<>> <=> known[e].suspended)
TokensInv ==
  \A e \in MarkedActivities : IF drawnFor = "instance" THEN InstanceTokens(e) ELSE DefinitionTokens(e)

ColoursInv ==
  \A e \in MarkedActivities :
    IF ~IsMarked THEN marker[e] = {}
    ELSE IF drawnFor = "instance"
    THEN IF InHistory(known[e]) \/ known[e].incidents > 0
         THEN marker[e] = Coloured({}, known[e], areShown)
         ELSE e \in onceToldOf \/ marker[e] = {}
    ELSE /\ areShown => marker[e] = IncidentsHighlighted({}, known[e])
         /\ ~areShown => marker[e] \subseteq IncidentsHighlighted({}, known[e])

CommandsOwned ==
  /\ drawnFor = "definition" => command = {} /\ onceToldOf = {}
  /\ \A e \in MarkedActivities : /\ overlay[e].command # <<>> => e \in command
                                 /\ e \in command \ wiped => overlay[e].command # <<>>
TipsOwned ==
  ~pulled => /\ timers = {}
             /\ \A e \in MarkedActivities :
                  /\ overlay[e].stray = <<>>
                  /\ overlay[e].tooltip # <<>> => under # Absent /\ under.activity = e /\ under.tip = "shown"
FadedInv == isDrawn => faded = IF filteredBy = Absent THEN {} ELSE MarkedActivities \ {filteredBy}

MarksInv ==
  /\ MarksTypeOK /\ HistoryGrows /\ OneAnswer /\ TokensInv /\ ColoursInv
  /\ CommandsOwned /\ TipsOwned /\ FadedInv

-----------------------------------------------------------------------------
\* What is counted of an activity.
LEMMA CountFacts ==
  ASSUME NEW a \in ActivityStates
  PROVE  /\ \A how : CountOf(how, a.trail) \in Nat
         /\ ~InHistory(a) => \A how : CountOf(how, a.trail) = 0
         /\ OpenOnly(a) => CountOf("canceled", a.trail) = 0 /\ CountOf("completed", a.trail) = 0
<1> DEFINE t == a.trail  S(how) == {i \in DOMAIN t : t[i] = how}
<1>1. DOMAIN t = 1 .. Len(t) /\ Len(t) \in Nat
  BY LenProperties DEF ActivityStates
<1>2. IsFiniteSet(1 .. Len(t))
  BY <1>1, FS_Interval
<1>3. ASSUME NEW how PROVE CountOf(how, t) \in Nat
  <2>1. S(how) \in SUBSET (1 .. Len(t))
    BY <1>1
  <2> HIDE DEF S, t
  <2>2. IsFiniteSet(S(how))
    BY <1>2, <2>1, FS_Subset
  <2>3. Cardinality(S(how)) \in Nat
    BY <2>2, FS_CardinalityType
  <2> QED BY <2>3 DEF CountOf, S
<1>4. ASSUME ~InHistory(a), NEW how PROVE CountOf(how, t) = 0
  <2>1. S(how) = {}
    BY <1>4 DEF InHistory
  <2> HIDE DEF S
  <2> QED BY <2>1, FS_EmptySet DEF CountOf, S
<1>5. ASSUME OpenOnly(a) PROVE CountOf("canceled", t) = 0 /\ CountOf("completed", t) = 0
  <2>1. S("canceled") = {} /\ S("completed") = {}
    BY <1>5 DEF OpenOnly
  <2> HIDE DEF S
  <2> QED BY <2>1, FS_EmptySet DEF CountOf, S
<1> QED BY <1>3, <1>4, <1>5

LEMMA WantedFacts ==
  ASSUME MarksTypeOK, NEW a \in ActivityStates
  PROVE  /\ \A kind \in States : Wanted(a)[kind] \in Nat
         /\ ~InHistory(a) => Wanted(a).terminated = 0 /\ Wanted(a).completed = 0
         /\ ~InHistory(a) /\ drawnFor = "definition" => Wanted(a).active = 0
         /\ OpenOnly(a) => Wanted(a).terminated = 0 /\ Wanted(a).completed = 0
         /\ ~InHistory(a) /\ drawnFor = "instance" => Wanted(a).active = a.waiting
         /\ Wanted(a).incident = a.incidents
         /\ drawnFor = "definition" => Wanted(a).active = CountOf("open", a.trail)
<1>1. a.waiting \in Nat /\ a.incidents \in Nat
  BY DEF ActivityStates
<1>2. drawnFor \in {"instance", "definition"}
  BY DEF MarksTypeOK
<1> DEFINE nOpen == CountOf("open", a.trail)
           nEnded == CountOf("canceled", a.trail)  nDone == CountOf("completed", a.trail)
<1>3. /\ nOpen \in Nat /\ nEnded \in Nat /\ nDone \in Nat
      /\ ~InHistory(a) => nOpen = 0 /\ nEnded = 0 /\ nDone = 0
      /\ OpenOnly(a) => nEnded = 0 /\ nDone = 0
  BY CountFacts
<1>4. PICK w : w = Wanted(a)
  OBVIOUS
<1>5. /\ w.terminated = nEnded /\ w.completed = nDone /\ w.incident = a.incidents
      /\ w.active = nOpen + (IF drawnFor = "instance" THEN a.waiting ELSE 0)
  BY <1>4 DEF Wanted
<1> HIDE DEF nOpen, nEnded, nDone
<1>6. /\ \A kind \in States : w[kind] \in Nat
      /\ ~InHistory(a) /\ drawnFor = "definition" => w.active = 0
      /\ drawnFor = "definition" => w.active = nOpen
      /\ ~InHistory(a) /\ drawnFor = "instance" => w.active = a.waiting
  BY <1>1, <1>2, <1>3, <1>5 DEF States
<1> QED BY <1>3, <1>4, <1>5, <1>6 DEF nOpen, nEnded, nDone

\* An overlay more, or none.
LEMMA MarkFacts ==
  ASSUME NEW s \in Seq(Nat), NEW n \in Nat
  PROVE  /\ Mark(n) \in Seq(Nat) /\ s \o Mark(n) \in Seq(Nat)
         /\ n # 0 => n \in ToSet(s \o Mark(n)) /\ s \o Mark(n) # <<>>
         /\ n = 0 => s \o Mark(n) = s
         /\ s = <<>> => s \o Mark(n) = Mark(n)
<1>1. CASE n = 0
  <2>1. Mark(n) = <<>> /\ <<>> \in Seq(Nat)
    BY <1>1, EmptySeq DEF Mark
  <2>2. s \o <<>> = s
    BY ConcatEmptySeq
  <2> QED BY <1>1, <2>1, <2>2
<1>2. CASE n # 0
  <2>1. Mark(n) = <<n>>
    BY <1>2 DEF Mark
  <2>2. <<n>> \in Seq(Nat) /\ Len(<<n>>) = 1 /\ <<n>>[1] = n
    OBVIOUS
  <2>3. Len(s) \in Nat
    BY LenProperties
  <2>4. /\ s \o <<n>> \in Seq(Nat) /\ Len(s \o <<n>>) = Len(s) + 1
        /\ (s \o <<n>>)[Len(s) + 1] = n
    <3>1. /\ s \o <<n>> \in Seq(Nat) /\ Len(s \o <<n>>) = Len(s) + Len(<<n>>)
          /\ \A i \in 1 .. Len(s) + Len(<<n>>) :
               (s \o <<n>>)[i] = IF i <= Len(s) THEN s[i] ELSE <<n>>[i - Len(s)]
      BY <2>2, ConcatProperties
    <3>2. Len(s) + 1 \in 1 .. Len(s) + Len(<<n>>) /\ ~(Len(s) + 1 <= Len(s)) /\ Len(s) + 1 - Len(s) = 1
      BY <2>2, <2>3
    <3> QED BY <2>2, <3>1, <3>2
  <2>5. DOMAIN (s \o <<n>>) = 1 .. Len(s \o <<n>>)
    BY <2>4, LenProperties
  <2>6. Len(s) + 1 \in DOMAIN (s \o <<n>>)
    BY <2>3, <2>4, <2>5
  <2>7. n \in ToSet(s \o <<n>>)
    BY <2>4, <2>6 DEF ToSet
  <2>8. s \o <<n>> # <<>>
    BY <2>3, <2>4, EmptySeq
  <2>9. s = <<>> => s \o <<n>> = <<n>>
    BY <2>2, ConcatEmptySeq
  <2> QED BY <1>2, <2>1, <2>2, <2>4, <2>7, <2>8, <2>9
<1> QED BY <1>1, <1>2

\* What an instance's history draws on an activity that had the overlays l.
DrawnOfInstance(m, l, a) ==
  /\ m \in Overlays
  /\ InHistory(a) => Exactly(m, a) /\ \A kind \in {"command", "tooltip", "stray"} : m[kind] = <<>>
  /\ ~InHistory(a) =>
       /\ \A kind \in {"terminated", "completed", "command", "tooltip", "stray"} : m[kind] = l[kind]
       /\ m.active = l.active \o Mark(a.waiting)
       /\ m.incident = l.incident \o Mark(a.incidents)
LEMMA InstanceMarkedFacts ==
  ASSUME MarksTypeOK, drawnFor = "instance", NEW l \in Overlays, NEW a \in ActivityStates,
         NEW m, m = InstanceMarked(l, a)
  PROVE  DrawnOfInstance(m, l, a)
<1> DEFINE nOpen == CountOf("open", a.trail)
           nEnded == CountOf("canceled", a.trail)  nDone == CountOf("completed", a.trail)
<1>0. a.waiting \in Nat /\ a.incidents \in Nat
  BY DEF ActivityStates
<1>1. /\ nOpen \in Nat /\ nEnded \in Nat /\ nDone \in Nat /\ a.waiting \in Nat /\ a.incidents \in Nat
      /\ nOpen + a.waiting \in Nat
      /\ ~InHistory(a) => nOpen = 0
  BY <1>0, CountFacts
<1> HIDE DEF nOpen, nEnded, nDone
<1>2. <<>> \in Seq(Nat) /\ NoOverlays \in Overlays
  BY EmptySeq DEF NoOverlays, Overlays
<1>3. Mark(nEnded) \in Seq(Nat) /\ Mark(nDone) \in Seq(Nat)
  BY <1>1, <1>2, MarkFacts
<1>4. /\ EndedMarked(a) \in Overlays
      /\ EndedMarked(a).terminated = Mark(nEnded) /\ EndedMarked(a).completed = Mark(nDone)
      /\ \A kind \in Kinds \ {"terminated", "completed"} : EndedMarked(a)[kind] = <<>>
  BY <1>2, <1>3 DEF EndedMarked, NoOverlays, Overlays, Kinds, nEnded, nDone
<1>5. PICK kept \in Overlays : kept = IF InHistory(a) THEN EndedMarked(a) ELSE l
  BY <1>4
<1>6. kept.active \in Seq(Nat) /\ kept.incident \in Seq(Nat)
  BY DEF Overlays, Kinds
<1>7. kept.active \o Mark(nOpen + a.waiting) \in Seq(Nat) /\ kept.incident \o Mark(a.incidents) \in Seq(Nat)
  BY <1>1, <1>6, MarkFacts
<1>8. m = [kept EXCEPT !.active = kept.active \o Mark(nOpen + a.waiting),
                       !.incident = kept.incident \o Mark(a.incidents)]
  BY <1>5 DEF InstanceMarked, Marked, nOpen
<1>9. /\ m \in Overlays
      /\ m.active = kept.active \o Mark(nOpen + a.waiting) /\ m.incident = kept.incident \o Mark(a.incidents)
      /\ \A kind \in Kinds \ {"active", "incident"} : m[kind] = kept[kind]
  BY <1>7, <1>8 DEF Overlays, Kinds
<1>10. CASE InHistory(a)
  <2>1. kept = EndedMarked(a)
    BY <1>5, <1>10
  <2>0. kept.active = <<>> /\ kept.incident = <<>>
    BY <1>4, <2>1 DEF Kinds
  <2>2. m.active = Mark(nOpen + a.waiting) /\ m.incident = Mark(a.incidents)
    <3>1. <<>> \o Mark(nOpen + a.waiting) = Mark(nOpen + a.waiting)
      BY <1>1, <1>2, MarkFacts
    <3>2. <<>> \o Mark(a.incidents) = Mark(a.incidents)
      BY <1>1, <1>2, MarkFacts
    <3> QED BY <1>9, <2>0, <3>1, <3>2
  <2>3. m.terminated = Mark(nEnded) /\ m.completed = Mark(nDone)
    BY <1>4, <1>9, <2>1 DEF Kinds
  <2>4. Exactly(m, a)
    BY <2>2, <2>3 DEF Exactly, Wanted, States, nOpen, nEnded, nDone
  <2>5. \A kind \in {"command", "tooltip", "stray"} : m[kind] = <<>>
    BY <1>4, <1>9, <2>1 DEF Kinds
  <2> QED BY <1>9, <1>10, <2>4, <2>5 DEF DrawnOfInstance
<1>11. CASE ~InHistory(a)
  <2>1. kept = l /\ nOpen + a.waiting = a.waiting
    BY <1>1, <1>5, <1>11
  <2>2. \A kind \in {"terminated", "completed", "command", "tooltip", "stray"} : m[kind] = l[kind]
    BY <1>9, <2>1 DEF Kinds
  <2> QED BY <1>9, <1>11, <2>1, <2>2 DEF DrawnOfInstance
<1> QED BY <1>10, <1>11

\* What a definition's answer draws on an activity that tells of nothing, and what is cleared.
LEMMA SuspendedFacts ==
  ASSUME NEW l \in Overlays, NEW a \in ActivityStates
  PROVE  LET m == SuspensionMarked(l, a) IN
         /\ m \in Overlays /\ (m.suspended # <<>> <=> a.suspended)
         /\ \A kind \in Kinds \ {"suspended"} : m[kind] = l[kind]
<1>1. l.suspended \in Seq(Nat) /\ <<>> \in Seq(Nat)
  BY EmptySeq DEF Overlays, Kinds
<1>2. Append(l.suspended, 1) \in Seq(Nat) /\ Append(l.suspended, 1) # <<>>
  <2>1. Append(l.suspended, 1) \in Seq(Nat) /\ Len(Append(l.suspended, 1)) = Len(l.suspended) + 1
    BY <1>1, AppendProperties
  <2>2. Len(l.suspended) \in Nat
    BY <1>1, LenProperties
  <2> QED BY <2>1, <2>2, EmptySeq
<1>3. PICK s \in Seq(Nat) : /\ s = IF a.suspended THEN Append(l.suspended, 1) ELSE <<>>
                            /\ s # <<>> <=> a.suspended
  BY <1>1, <1>2
<1>4. SuspensionMarked(l, a) = [l EXCEPT !.suspended = s]
  BY <1>3 DEF SuspensionMarked
<1>5. PICK m : m = [l EXCEPT !.suspended = s]
  OBVIOUS
<1>6. m \in Overlays /\ m.suspended = s /\ \A kind \in Kinds \ {"suspended"} : m[kind] = l[kind]
  BY <1>5 DEF Overlays, Kinds
<1> QED BY <1>3, <1>4, <1>5, <1>6

LEMMA DefinitionMarkedFacts ==
  ASSUME MarksTypeOK, drawnFor = "definition", NEW l \in Overlays, NEW a \in ActivityStates,
         OpenOnly(a), Untold(l)
  PROVE  LET m == DefinitionMarked(l, a) IN
         /\ m \in Overlays /\ Exactly(m, a) /\ (m.suspended # <<>> <=> a.suspended)
         /\ m.command = l.command /\ m.tooltip = l.tooltip /\ m.stray = l.stray
<1> DEFINE nOpen == CountOf("open", a.trail)
<1>1. nOpen \in Nat /\ a.incidents \in Nat
  <2>1. a.incidents \in Nat
    BY DEF ActivityStates
  <2> QED BY <2>1, CountFacts
<1>2. /\ l.active = <<>> /\ l.incident = <<>> /\ l.terminated = <<>> /\ l.completed = <<>>
      /\ <<>> \in Seq(Nat)
  BY EmptySeq DEF Untold, States
<1>3. l.active \o Mark(nOpen) = Mark(nOpen) /\ l.incident \o Mark(a.incidents) = Mark(a.incidents)
  BY <1>1, <1>2, MarkFacts
<1>4. Mark(nOpen) \in Seq(Nat) /\ Mark(a.incidents) \in Seq(Nat)
  BY <1>1, <1>2, MarkFacts
<1>5. PICK k : k = [l EXCEPT !.incident = Mark(a.incidents), !.active = Mark(nOpen)]
  OBVIOUS
<1>6. k \in Overlays /\ k.incident = Mark(a.incidents) /\ k.active = Mark(nOpen)
      /\ \A kind \in Kinds \ {"active", "incident"} : k[kind] = l[kind]
  BY <1>4, <1>5 DEF Overlays, Kinds
<1>7. DefinitionMarked(l, a) = SuspensionMarked(k, a)
  BY <1>3, <1>5 DEF DefinitionMarked
<1>8. PICK m : m = SuspensionMarked(k, a)
  OBVIOUS
<1>9. /\ m \in Overlays /\ (m.suspended # <<>> <=> a.suspended)
      /\ \A kind \in Kinds \ {"suspended"} : m[kind] = k[kind]
  BY <1>6, <1>8, SuspendedFacts
<1>10. /\ m.active = Mark(nOpen) /\ m.incident = Mark(a.incidents)
       /\ m.terminated = <<>> /\ m.completed = <<>>
       /\ m.command = l.command /\ m.tooltip = l.tooltip /\ m.stray = l.stray
  BY <1>2, <1>6, <1>9 DEF Kinds
<1>11. /\ Wanted(a).terminated = 0 /\ Wanted(a).completed = 0 /\ Wanted(a).active = nOpen
       /\ Wanted(a).incident = a.incidents
  BY WantedFacts
<1>12. Exactly(m, a)
  BY <1>10, <1>11 DEF Exactly, States, Mark
<1> QED BY <1>7, <1>8, <1>9, <1>10, <1>12

LEMMA DefinitionUpdatedFacts ==
  ASSUME MarksTypeOK, drawnFor = "definition", NEW l \in Overlays, NEW a \in ActivityStates,
         OpenOnly(a), Untold(l), NEW b \in BOOLEAN
  PROVE  LET m == DefinitionUpdated(l, a, b) IN
         /\ m \in Overlays /\ (b => Exactly(m, a)) /\ (~b => Untold(m))
         /\ m.suspended # <<>> <=> a.suspended
         /\ m.command = l.command /\ m.tooltip = l.tooltip /\ m.stray = l.stray
<1>1. PICK k : k = IF b THEN DefinitionMarked(l, a) ELSE l
  OBVIOUS
<1>2. /\ k \in Overlays /\ (b => Exactly(k, a)) /\ (~b => Untold(k))
      /\ k.command = l.command /\ k.tooltip = l.tooltip /\ k.stray = l.stray
  BY <1>1, DefinitionMarkedFacts
<1>3. PICK m : m = SuspensionMarked(k, a)
  OBVIOUS
<1>4. DefinitionUpdated(l, a, b) = m
  BY <1>1, <1>3 DEF DefinitionUpdated
<1>5. /\ m \in Overlays /\ (m.suspended # <<>> <=> a.suspended)
      /\ \A kind \in Kinds \ {"suspended"} : m[kind] = k[kind]
  BY <1>2, <1>3, SuspendedFacts
<1>6. (b => Exactly(m, a)) /\ (~b => Untold(m))
  BY <1>2, <1>5 DEF Exactly, Untold, States, Kinds
<1>7. m.command = l.command /\ m.tooltip = l.tooltip /\ m.stray = l.stray
  BY <1>2, <1>5 DEF Kinds
<1> QED BY <1>4, <1>5, <1>6, <1>7

LEMMA DefinitionClearedFacts ==
  ASSUME MarksTypeOK, drawnFor = "definition", NEW l \in Overlays, NEW a \in ActivityStates,
         OpenOnly(a), Exactly(l, a) \/ Untold(l)
  PROVE  LET m == DefinitionCleared(l, a) IN
         /\ m \in Overlays /\ Untold(m)
         /\ \A kind \in Kinds : m[kind] \in {l[kind], <<>>}
<1>1. <<>> \in Seq(Nat) /\ NoOverlays \in Overlays /\ \A kind \in Kinds : NoOverlays[kind] = <<>>
  BY EmptySeq DEF NoOverlays, Overlays
<1>2. CASE InHistory(a) \/ a.incidents > 0
  BY <1>1, <1>2 DEF DefinitionCleared, Untold, States, Kinds
<1>3. CASE ~(InHistory(a) \/ a.incidents > 0)
  <2>1. a.incidents = 0
    BY <1>3 DEF ActivityStates
  <2>2. \A kind \in States : Wanted(a)[kind] = 0
    BY <1>3, <2>1, WantedFacts DEF States
  <2>3. Exactly(l, a) => Untold(l)
    BY <2>2 DEF Exactly, Untold, Mark
  <2> QED BY <1>3, <2>3 DEF DefinitionCleared
<1> QED BY <1>2, <1>3

\* The overlays become others, and the mouse may lose its own (removeOverlay).
LEMMA RedrawnFacts ==
  ASSUME MarksTypeOK, NEW drawn \in [MarkedActivities -> Overlays], Redrawn(drawn)
  PROVE  /\ overlay' \in [MarkedActivities -> Overlays]
         /\ \A e \in MarkedActivities : \A kind \in Kinds \ Tips : overlay'[e][kind] = drawn[e][kind]
         /\ under' \in [activity : MarkedActivities, kind : Kinds, tip : {"due", "shown"}] \union {Absent}
         /\ timers' \in SUBSET MarkedActivities /\ pulled' \in BOOLEAN
         /\ ~pulled' => ~pulled /\ overlay' = drawn /\ under' = under /\ timers' = timers
<1> DEFINE gone == under # Absent /\ Len(drawn[under.activity][under.kind])
                                     < Len(overlay[under.activity][under.kind])
<1>1. CASE gone
  <2>1. /\ under' = Absent /\ timers' \in {timers \union {under.activity}, timers} /\ pulled'
        /\ overlay' = [drawn EXCEPT ![under.activity] = Strayed(drawn[under.activity])]
    BY <1>1 DEF Redrawn
  <2>2. under.activity \in MarkedActivities
    BY <1>1 DEF MarksTypeOK
  <2>3. PICK x \in MarkedActivities : x = under.activity
    BY <2>2
  <2>4. PICK l \in Overlays : l = drawn[x]
    OBVIOUS
  <2>5. l.stray \in Seq(Nat) /\ l.tooltip \in Seq(Nat) /\ <<>> \in Seq(Nat)
    BY EmptySeq DEF Overlays, Kinds
  <2>6. l.stray \o l.tooltip \in Seq(Nat)
    BY <2>5, ConcatProperties
  <2>7. /\ Strayed(l) \in Overlays
        /\ \A kind \in Kinds \ Tips : Strayed(l)[kind] = l[kind]
    BY <2>5, <2>6 DEF Strayed, Overlays, Kinds, Tips
  <2>8. /\ overlay' \in [MarkedActivities -> Overlays]
        /\ \A e \in MarkedActivities : overlay'[e] = IF e = x THEN Strayed(l) ELSE drawn[e]
    BY <2>1, <2>3, <2>4, <2>7
  <2>9. \A e \in MarkedActivities : \A kind \in Kinds \ Tips : overlay'[e][kind] = drawn[e][kind]
    BY <2>4, <2>7, <2>8
  <2>10. pulled' \in BOOLEAN
    BY DEF Redrawn
  <2> QED BY <2>1, <2>2, <2>8, <2>9, <2>10 DEF MarksTypeOK
<1>2. CASE ~gone
  <2>1. under' = under /\ timers' = timers /\ pulled' = pulled /\ overlay' = drawn
    BY <1>2 DEF Redrawn, MarksTypeOK
  <2> QED BY <2>1 DEF MarksTypeOK
<1> QED BY <1>1, <1>2

LEMMA TipsStay ==
  ASSUME MarksTypeOK, TipsOwned, NEW drawn \in [MarkedActivities -> Overlays], Redrawn(drawn),
         \A e \in MarkedActivities : /\ drawn[e].tooltip \in {overlay[e].tooltip, <<>>}
                                     /\ drawn[e].stray \in {overlay[e].stray, <<>>}
  PROVE  TipsOwned'
BY RedrawnFacts DEF TipsOwned

\* What is told of the activities stays true if their overlays and the answers do.
LEMMA TokensStay ==
  ASSUME TokensInv, drawnFor' = drawnFor, answers' = answers, known' = known, isDrawn' = isDrawn,
         areShown' = areShown, onceToldOf' = onceToldOf,
         \A e \in MarkedActivities : \A kind \in Kinds \ (Tips \union {"command"}) :
           overlay'[e][kind] = overlay[e][kind]
  PROVE  TokensInv'
<1> SUFFICES ASSUME NEW e \in MarkedActivities
             PROVE  IF drawnFor = "instance" THEN InstanceTokens(e)' ELSE DefinitionTokens(e)'
  BY DEF TokensInv
<1>1. PICK old : old = overlay[e]
  OBVIOUS
<1>2. PICK new : new = overlay'[e]
  OBVIOUS
<1>3. /\ \A kind \in States : new[kind] = old[kind]
      /\ new.suspended = old.suspended /\ new.terminated = old.terminated
      /\ new.completed = old.completed /\ new.active = old.active /\ new.incident = old.incident
  BY <1>1, <1>2 DEF Kinds, Tips, States
<1>4. CASE drawnFor = "instance"
  <2>1. InstanceTokens(e)
    BY <1>4 DEF TokensInv
  <2> QED BY <1>1, <1>2, <1>3, <1>4, <2>1 DEF InstanceTokens, IsMarked, Exactly, Untold, Wanted
<1>5. CASE drawnFor # "instance"
  <2>1. DefinitionTokens(e)
    BY <1>5 DEF TokensInv
  <2> QED BY <1>1, <1>2, <1>3, <1>5, <2>1 DEF DefinitionTokens, IsMarked, Exactly, Untold, Wanted
<1> QED BY <1>4, <1>5

LEMMA ColoursStay ==
  ASSUME ColoursInv, drawnFor' = drawnFor, known' = known, isDrawn' = isDrawn, areShown' = areShown,
         marker' = marker, onceToldOf' = onceToldOf
  PROVE  ColoursInv'
BY DEF ColoursInv, IsMarked, Coloured, IncidentsHighlighted

\* A drawing of an instance (markupDiagram): what had a history in the answer before has one in this.
LEMMA InstanceIsDrawn ==
  ASSUME MarksInv, drawnFor = "instance", drawnFor' = drawnFor,
         known' \in [MarkedActivities -> ActivityStates],
         isDrawn', areShown' \in BOOLEAN, command' = command,
         \A e \in MarkedActivities : known # Absent /\ InHistory(known[e]) => InHistory(known'[e]),
         DrawInstance(overlay, marker)
  PROVE  /\ overlay' \in [MarkedActivities -> Overlays]
         /\ under' \in [activity : MarkedActivities, kind : Kinds, tip : {"due", "shown"}] \union {Absent}
         /\ timers' \in SUBSET MarkedActivities /\ pulled' \in BOOLEAN
         /\ TokensInv' /\ ColoursInv' /\ CommandsOwned' /\ TipsOwned'
<1>1. PICK drawn : drawn = [e \in MarkedActivities |-> InstanceMarked(overlay[e], known'[e])]
  OBVIOUS
<1>2. MarksTypeOK
  BY DEF MarksInv
<1>3. /\ Redrawn(drawn)
      /\ marker' = [e \in MarkedActivities |-> Coloured(marker[e], known'[e], areShown')]
      /\ onceToldOf' = onceToldOf \union
           {e \in MarkedActivities : ~InHistory(known'[e]) /\ known'[e].waiting + known'[e].incidents > 0}
      /\ wiped' = wiped \union {e \in MarkedActivities : InHistory(known'[e])}
  BY <1>1 DEF DrawInstance, Everywhere
<1>4. /\ overlay \in [MarkedActivities -> Overlays]
      /\ \A e \in MarkedActivities : overlay[e] \in Overlays /\ known'[e] \in ActivityStates
  BY <1>2 DEF MarksTypeOK
<1>5. ASSUME NEW e \in MarkedActivities
      PROVE  /\ drawn[e] \in Overlays
             /\ InHistory(known'[e]) =>
                  /\ Exactly(drawn[e], known'[e])
                  /\ \A kind \in {"command", "tooltip", "stray"} : drawn[e][kind] = <<>>
             /\ ~InHistory(known'[e]) =>
                  /\ \A kind \in {"terminated", "completed", "command", "tooltip", "stray"} :
                       drawn[e][kind] = overlay[e][kind]
                  /\ drawn[e].active = overlay[e].active \o Mark(known'[e].waiting)
                  /\ drawn[e].incident = overlay[e].incident \o Mark(known'[e].incidents)
  <2>1. PICK l \in Overlays : l = overlay[e]
    BY <1>4
  <2>2. PICK a \in ActivityStates : a = known'[e]
    BY <1>4
  <2>3. drawn[e] = InstanceMarked(l, a)
    BY <1>1, <2>1, <2>2
  <2>4. PICK m : m = drawn[e]
    OBVIOUS
  <2>5. m = InstanceMarked(l, a)
    BY <2>3, <2>4
  <2>6. DrawnOfInstance(m, l, a)
    BY <1>2, <2>5, InstanceMarkedFacts
  <2> QED BY <2>1, <2>2, <2>4, <2>6 DEF DrawnOfInstance
<1>6. drawn \in [MarkedActivities -> Overlays]
  BY <1>1, <1>5
<1>7. /\ overlay' \in [MarkedActivities -> Overlays]
      /\ \A e \in MarkedActivities : \A kind \in Kinds \ Tips : overlay'[e][kind] = drawn[e][kind]
      /\ under' \in [activity : MarkedActivities, kind : Kinds, tip : {"due", "shown"}] \union {Absent}
      /\ timers' \in SUBSET MarkedActivities /\ pulled' \in BOOLEAN
  BY <1>2, <1>3, <1>6, RedrawnFacts
<1>8. known' # Absent
  BY MarkAssumption
<1>9. IsMarked'
  BY <1>8 DEF IsMarked
<1>10. ASSUME NEW e \in MarkedActivities PROVE InstanceTokens(e)'
  <2>1. /\ \A kind \in States : overlay'[e][kind] = drawn[e][kind]
    BY <1>7 DEF Kinds, Tips, States
  <2>2. CASE InHistory(known'[e])
    <3>1. Exactly(drawn[e], known'[e])
      BY <1>5, <2>2
    <3>2. Exactly(overlay[e], known[e])'
      BY <2>1, <3>1 DEF Exactly, Wanted
    <3> QED BY <1>9, <2>2, <3>2 DEF InstanceTokens
  <2>3. CASE ~InHistory(known'[e])
    <3>1. known # Absent => ~InHistory(known[e])
      BY <2>3
    <3>2. InstanceTokens(e)
      BY DEF MarksInv, TokensInv
    <3>3. overlay[e].terminated = <<>> /\ overlay[e].completed = <<>>
      BY <3>1, <3>2 DEF InstanceTokens, IsMarked, Untold, States
    <3>4. /\ overlay'[e].terminated = <<>> /\ overlay'[e].completed = <<>>
          /\ overlay'[e].active = overlay[e].active \o Mark(known'[e].waiting)
          /\ overlay'[e].incident = overlay[e].incident \o Mark(known'[e].incidents)
      BY <1>5, <2>1, <2>3, <3>3 DEF States, Kinds
    <3>5. PICK a \in ActivityStates : a = known'[e]
      BY <1>4
    <3>6. /\ overlay[e].active \in Seq(Nat) /\ overlay[e].incident \in Seq(Nat)
          /\ a.waiting \in Nat /\ a.incidents \in Nat
      BY <1>4 DEF Overlays, Kinds, ActivityStates
    <3>7. Wanted(a).active = a.waiting /\ Wanted(a).incident = a.incidents
      BY <1>2, <2>3, <3>5, WantedFacts
    <3>8. (Wanted(a).active)' = a.waiting /\ (Wanted(a).incident)' = a.incidents
      BY <3>7 DEF Wanted
    <3>9. /\ a.waiting # 0 => a.waiting \in ToSet(overlay'[e].active)
          /\ a.incidents # 0 => a.incidents \in ToSet(overlay'[e].incident)
      BY <3>4, <3>5, <3>6, MarkFacts
    <3>10. ASSUME e \notin onceToldOf'
           PROVE  Untold(overlay'[e]) /\ a.waiting = 0 /\ a.incidents = 0
      <4>1. e \notin onceToldOf /\ a.waiting = 0 /\ a.incidents = 0
        <5>1. e \notin onceToldOf /\ ~(a.waiting + a.incidents > 0)
          BY <1>3, <2>3, <3>5, <3>10
        <5> QED BY <3>6, <5>1
      <4>2. Untold(overlay[e])
        BY <3>1, <3>2, <4>1 DEF InstanceTokens, IsMarked
      <4>3. overlay[e].active = <<>> /\ overlay[e].incident = <<>>
        BY <4>2 DEF Untold, States
      <4>4. overlay'[e].active = <<>> /\ overlay'[e].incident = <<>>
        BY <3>4, <3>5, <3>6, <4>1, <4>3, MarkFacts
      <4> QED BY <3>4, <4>1, <4>4 DEF Untold, States
    <3>11. \A kind \in {"active", "incident"} :
             (Wanted(a)[kind])' # 0 => (Wanted(a)[kind])' \in ToSet(overlay'[e][kind])
      BY <3>8, <3>9
    <3> QED BY <1>9, <2>3, <3>4, <3>5, <3>10, <3>11 DEF InstanceTokens, Untold, Wanted
  <2> QED BY <2>2, <2>3
<1>11. TokensInv'
  BY <1>10 DEF TokensInv
<1>12. ColoursInv'
  <2> SUFFICES ASSUME NEW e \in MarkedActivities
               PROVE  IF InHistory(known'[e]) \/ known'[e].incidents > 0
                      THEN marker'[e] = Coloured({}, known'[e], areShown')
                      ELSE e \in onceToldOf' \/ marker'[e] = {}
    BY <1>9 DEF ColoursInv, Coloured, MarkerOf
  <2>1. marker'[e] = Coloured(marker[e], known'[e], areShown')
    BY <1>3
  <2>2. CASE InHistory(known'[e]) \/ known'[e].incidents > 0
    BY <2>1, <2>2 DEF Coloured
  <2>3. CASE ~(InHistory(known'[e]) \/ known'[e].incidents > 0)
    <3>1. marker'[e] = marker[e]
      BY <2>1, <2>3 DEF Coloured
    <3>2. e \in onceToldOf \/ marker[e] = {}
      <4>1. InstanceTokens(e)
        BY DEF MarksInv, TokensInv
      <4>2. IF ~IsMarked THEN marker[e] = {}
            ELSE IF InHistory(known[e]) \/ known[e].incidents > 0
                 THEN marker[e] = Coloured({}, known[e], areShown)
                 ELSE e \in onceToldOf \/ marker[e] = {}
        BY DEF MarksInv, ColoursInv
      <4>3. IsMarked => ~InHistory(known[e])
        BY <2>3 DEF IsMarked
      <4>4. IsMarked /\ e \notin onceToldOf => known[e].incidents = 0
        BY <4>1, <4>3 DEF InstanceTokens
      <4>5. ~(0 > 0)
        OBVIOUS
      <4> QED BY <4>2, <4>3, <4>4, <4>5
    <3> QED BY <1>3, <2>3, <3>1, <3>2
  <2> QED BY <2>2, <2>3
<1>13. CommandsOwned'
  <2>1. drawnFor' # "definition"
    OBVIOUS
  <2> SUFFICES ASSUME NEW e \in MarkedActivities
               PROVE  /\ overlay'[e].command # <<>> => e \in command
                      /\ e \in command \ wiped' => overlay'[e].command # <<>>
    BY <2>1 DEF CommandsOwned
  <2>2. overlay'[e].command = IF InHistory(known'[e]) THEN <<>> ELSE overlay[e].command
    <3>1. overlay'[e].command = drawn[e].command
      BY <1>7 DEF Kinds, Tips
    <3>2. drawn[e].command = IF InHistory(known'[e]) THEN <<>> ELSE overlay[e].command
      BY <1>5 DEF Kinds
    <3> QED BY <3>1, <3>2
  <2>3. /\ overlay[e].command # <<>> => e \in command
        /\ e \in command \ wiped => overlay[e].command # <<>>
    BY DEF MarksInv, CommandsOwned
  <2> QED BY <1>3, <2>2, <2>3
<1>14. TipsOwned'
  <2>1. ASSUME NEW e \in MarkedActivities
        PROVE  /\ drawn[e].tooltip \in {overlay[e].tooltip, <<>>}
               /\ drawn[e].stray \in {overlay[e].stray, <<>>}
    BY <1>5 DEF Kinds
  <2>2. TipsOwned
    BY DEF MarksInv
  <2> QED BY <1>2, <1>3, <1>6, <2>1, <2>2, TipsStay
<1> QED BY <1>7, <1>11, <1>12, <1>13, <1>14

\* A drawing of a definition (updateDiagram): the page clears what it knows to be drawn, which is all.
LEMMA DefinitionIsDrawn ==
  ASSUME MarksInv, drawnFor = "definition", drawnFor' = drawnFor,
         known' \in [MarkedActivities -> ActivityStates] \union {Absent},
         isDrawn' = isDrawn, areShown' \in BOOLEAN, command' = command,
         onceToldOf' = onceToldOf, wiped' = wiped,
         \A e \in MarkedActivities : \A i \in DOMAIN answers' : OpenOnly(answers'[i][e]),
         known' # Absent => \A e \in MarkedActivities : OpenOnly(known'[e]),
         UpdateDiagram
  PROVE  /\ overlay' \in [MarkedActivities -> Overlays]
         /\ under' \in [activity : MarkedActivities, kind : Kinds, tip : {"due", "shown"}] \union {Absent}
         /\ timers' \in SUBSET MarkedActivities /\ pulled' \in BOOLEAN
         /\ TokensInv' /\ ColoursInv' /\ CommandsOwned' /\ TipsOwned'
<1>1. MarksTypeOK
  BY DEF MarksInv
<1>2. /\ overlay \in [MarkedActivities -> Overlays]
      /\ \A e \in MarkedActivities :
           /\ overlay[e] \in Overlays
           /\ known # Absent => known[e] \in ActivityStates
           /\ known' # Absent => known'[e] \in ActivityStates
  BY <1>1 DEF MarksTypeOK
<1>3. ASSUME NEW e \in MarkedActivities
      PROVE  /\ Cleaned[e] \in Overlays /\ Untold(Cleaned[e])
             /\ \A kind \in Kinds : Cleaned[e][kind] \in {overlay[e][kind], <<>>}
  <2>1. DefinitionTokens(e)
    BY DEF MarksInv, TokensInv
  <2>2. CASE known = Absent
    BY <1>2, <2>1, <2>2 DEF Cleaned, DefinitionTokens, IsMarked
  <2>3. CASE known # Absent
    <3>1. PICK l \in Overlays : l = overlay[e]
      BY <1>2
    <3>2. PICK a \in ActivityStates : a = known[e]
      BY <1>2, <2>3
    <3>3. OpenOnly(a) /\ (Exactly(l, a) \/ Untold(l))
      BY <2>1, <2>3, <3>1, <3>2 DEF DefinitionTokens
    <3>4. Cleaned[e] = DefinitionCleared(l, a)
      BY <2>3, <3>1, <3>2 DEF Cleaned
    <3> QED BY <1>1, <3>1, <3>3, <3>4, DefinitionClearedFacts
  <2> QED BY <2>2, <2>3
<1>4. Cleaned \in [MarkedActivities -> Overlays]
  <2>1. Cleaned = [e \in MarkedActivities |-> Cleaned[e]]
    BY <1>2 DEF Cleaned
  <2> QED BY <1>3, <2>1
<1>5. ASSUME NEW e \in MarkedActivities PROVE Unhighlighted[e] = {}
  <2>1. IF ~IsMarked THEN marker[e] = {}
        ELSE /\ areShown => marker[e] = IncidentsHighlighted({}, known[e])
             /\ ~areShown => marker[e] \subseteq IncidentsHighlighted({}, known[e])
    BY DEF MarksInv, ColoursInv
  <2>2. CASE known = Absent
    BY <2>1, <2>2 DEF Unhighlighted, IsMarked
  <2>3. CASE known # Absent
    <3>1. marker[e] \subseteq IF known[e].incidents > 0 THEN {"incident"} ELSE {}
      BY <2>1 DEF IncidentsHighlighted
    <3>2. Unhighlighted[e] = IF known[e].incidents > 0 THEN marker[e] \ {"incident"} ELSE marker[e]
      BY <2>3 DEF Unhighlighted
    <3> QED BY <3>1, <3>2
  <2> QED BY <2>2, <2>3
<1>6. PICK drawn :
        drawn = IF isDrawn /\ known' # Absent
                THEN [e \in MarkedActivities |-> DefinitionUpdated(Cleaned[e], known'[e], areShown')]
                ELSE Cleaned
  OBVIOUS
<1>7. /\ Redrawn(drawn)
      /\ \A e \in MarkedActivities :
           marker'[e] = IF isDrawn /\ known' # Absent /\ areShown'
                        THEN IncidentsHighlighted(Unhighlighted[e], known'[e]) ELSE Unhighlighted[e]
  BY <1>6 DEF UpdateDiagram, Everywhere
<1>8. ASSUME NEW e \in MarkedActivities
      PROVE  /\ drawn[e] \in Overlays
             /\ \A kind \in {"command", "tooltip", "stray"} :
                  drawn[e][kind] \in {overlay[e][kind], <<>>}
             /\ isDrawn /\ known' # Absent =>
                  /\ areShown' => Exactly(drawn[e], known'[e])
                  /\ ~areShown' => Untold(drawn[e])
                  /\ drawn[e].suspended # <<>> <=> known'[e].suspended
             /\ ~(isDrawn /\ known' # Absent) => Untold(drawn[e])
  <2>1. CASE isDrawn /\ known' # Absent
    <3>1. PICK l \in Overlays : l = Cleaned[e]
      BY <1>3
    <3>2. PICK a \in ActivityStates : a = known'[e]
      BY <1>2, <2>1
    <3>3. PICK b \in BOOLEAN : b = areShown'
      OBVIOUS
    <3>4. OpenOnly(a) /\ Untold(l)
      BY <1>3, <2>1, <3>1, <3>2
    <3>5. drawn[e] = DefinitionUpdated(l, a, b)
      BY <1>6, <2>1, <3>1, <3>2, <3>3
    <3>6. /\ drawn[e] \in Overlays /\ (b => Exactly(drawn[e], a)) /\ (~b => Untold(drawn[e]))
          /\ drawn[e].suspended # <<>> <=> a.suspended
          /\ drawn[e].command = l.command /\ drawn[e].tooltip = l.tooltip /\ drawn[e].stray = l.stray
      BY <1>1, <3>4, <3>5, DefinitionUpdatedFacts
    <3>7. \A kind \in {"command", "tooltip", "stray"} : l[kind] \in {overlay[e][kind], <<>>}
      BY <1>3, <3>1 DEF Kinds
    <3> QED BY <2>1, <3>2, <3>3, <3>6, <3>7
  <2>2. CASE ~(isDrawn /\ known' # Absent)
    <3>1. drawn[e] = Cleaned[e]
      BY <1>6, <2>2
    <3> QED BY <1>3, <2>2, <3>1 DEF Kinds
  <2> QED BY <2>1, <2>2
<1>9. drawn \in [MarkedActivities -> Overlays]
  <2>1. drawn = [e \in MarkedActivities |-> drawn[e]]
    BY <1>4, <1>6
  <2> QED BY <1>8, <2>1
<1>10. /\ overlay' \in [MarkedActivities -> Overlays]
       /\ \A e \in MarkedActivities : \A kind \in Kinds \ Tips : overlay'[e][kind] = drawn[e][kind]
       /\ under' \in [activity : MarkedActivities, kind : Kinds, tip : {"due", "shown"}] \union {Absent}
       /\ timers' \in SUBSET MarkedActivities /\ pulled' \in BOOLEAN
  BY <1>1, <1>7, <1>9, RedrawnFacts
<1>11. TokensInv'
  <2>1. drawnFor' # "instance"
    OBVIOUS
  <2> SUFFICES ASSUME NEW e \in MarkedActivities PROVE DefinitionTokens(e)'
    BY <2>1 DEF TokensInv
  <2>2. /\ \A kind \in States : overlay'[e][kind] = drawn[e][kind]
        /\ overlay'[e].suspended = drawn[e].suspended
    BY <1>10 DEF Kinds, Tips, States
  <2>3. CASE isDrawn /\ known' # Absent
    <3>1. /\ areShown' => Exactly(overlay[e], known[e])'
          /\ ~areShown' => Untold(overlay'[e])
      BY <1>8, <2>2, <2>3 DEF Exactly, Untold, Wanted
    <3>2. overlay'[e].suspended # <<>> <=> known'[e].suspended
      BY <1>8, <2>2, <2>3
    <3> QED BY <2>3, <3>1, <3>2 DEF DefinitionTokens, IsMarked, Untold
  <2>4. CASE ~(isDrawn /\ known' # Absent)
    <3>1. Untold(overlay'[e])
      BY <1>8, <2>2, <2>4 DEF Untold
    <3> QED BY <2>4, <3>1 DEF DefinitionTokens, IsMarked, Untold
  <2> QED BY <2>3, <2>4
<1>12. ColoursInv'
  <2>1. drawnFor' # "instance"
    OBVIOUS
  <2> SUFFICES ASSUME NEW e \in MarkedActivities
               PROVE  IF ~IsMarked' THEN marker'[e] = {}
                      ELSE /\ areShown' => marker'[e] = IncidentsHighlighted({}, known'[e])
                           /\ ~areShown' => marker'[e] \subseteq IncidentsHighlighted({}, known'[e])
    BY <2>1 DEF ColoursInv, IncidentsHighlighted
  <2> QED BY <1>5, <1>7 DEF IsMarked
<1>13. CommandsOwned'
  <2>1. command' = {} /\ onceToldOf' = {}
    BY DEF MarksInv, CommandsOwned
  <2>2. ASSUME NEW e \in MarkedActivities PROVE overlay'[e].command = <<>>
    <3>1. overlay[e].command = <<>>
      BY DEF MarksInv, CommandsOwned
    <3> QED BY <1>8, <1>10, <3>1 DEF Kinds, Tips
  <2> QED BY <2>1, <2>2 DEF CommandsOwned
<1>14. TipsOwned'
  <2>1. ASSUME NEW e \in MarkedActivities
        PROVE  /\ drawn[e].tooltip \in {overlay[e].tooltip, <<>>}
               /\ drawn[e].stray \in {overlay[e].stray, <<>>}
    BY <1>8
  <2>2. TipsOwned
    BY DEF MarksInv
  <2> QED BY <1>1, <1>7, <1>9, <2>1, <2>2, TipsStay
<1> QED BY <1>10, <1>11, <1>12, <1>13, <1>14

\* What the engine does leaves an activity with a state, and never takes its history.
LEMMA WorkedFacts ==
  ASSUME NEW a \in ActivityStates, NEW b \in Worked(a)
  PROVE  b \in ActivityStates /\ (InHistory(a) => InHistory(b))
<1>1. /\ a.trail \in Seq({"open", "completed", "canceled"}) /\ a.waiting \in 0 .. 1
      /\ a.incidents \in 0 .. 1 /\ a.suspended \in BOOLEAN
      /\ a = [trail |-> a.trail, waiting |-> a.waiting, incidents |-> a.incidents,
              suspended |-> a.suspended]
  BY DEF ActivityStates
<1>2. ASSUME b = [a EXCEPT !.waiting = 0, !.incidents = 0, !.trail = Append(a.trail, "open")]
      PROVE  b \in ActivityStates /\ (InHistory(a) => InHistory(b))
  <2>1. PICK t : t = Append(a.trail, "open")
    OBVIOUS
  <2>2. t \in Seq({"open", "completed", "canceled"}) /\ Len(t) = Len(a.trail) + 1
    BY <1>1, <2>1, AppendProperties
  <2>3. t # <<>>
    <3>1. Len(a.trail) \in Nat
      BY <1>1, LenProperties
    <3> QED BY <2>2, <3>1, EmptySeq
  <2>4. b = [trail |-> t, waiting |-> 0, incidents |-> 0, suspended |-> a.suspended]
    BY <1>1, <1>2, <2>1
  <2> QED BY <1>1, <2>2, <2>3, <2>4 DEF ActivityStates, InHistory
<1>3. ASSUME NEW i \in DOMAIN a.trail, NEW h \in {"completed", "canceled"},
             b = EndedAs(a, i, h)
      PROVE  b \in ActivityStates /\ (InHistory(a) => InHistory(b))
  <2>1. PICK t : t = [a.trail EXCEPT ![i] = h]
    OBVIOUS
  <2>2. i \in 1 .. Len(a.trail)
    BY <1>1, LenProperties
  <2>3. t \in Seq({"open", "completed", "canceled"}) /\ Len(t) = Len(a.trail)
    BY <1>1, <2>1, <2>2, ExceptSeq
  <2>4. t # <<>>
    <3>1. Len(a.trail) # 0
      BY <1>1, <2>2, LenProperties
    <3> QED BY <2>3, <3>1, EmptySeq
  <2>5. b = [trail |-> t, waiting |-> a.waiting, incidents |-> 0, suspended |-> a.suspended]
    BY <1>1, <1>3, <2>1 DEF EndedAs
  <2> QED BY <1>1, <2>3, <2>4, <2>5 DEF ActivityStates, InHistory
<1>4. ASSUME \/ b = [a EXCEPT !.waiting = 1] \/ b = [a EXCEPT !.waiting = 0, !.incidents = 0]
             \/ b = [a EXCEPT !.incidents = 1 - a.incidents] \/ b = [a EXCEPT !.suspended = ~a.suspended]
      PROVE  b \in ActivityStates /\ (InHistory(a) => InHistory(b))
  <2>1. b.trail = a.trail /\ b \in ActivityStates
    <3>1. CASE b = [a EXCEPT !.waiting = 1]
      BY <1>1, <3>1 DEF ActivityStates
    <3>2. CASE b = [a EXCEPT !.waiting = 0, !.incidents = 0]
      <4>1. b = [trail |-> a.trail, waiting |-> 0, incidents |-> 0, suspended |-> a.suspended]
        BY <1>1, <3>2
      <4> QED BY <1>1, <4>1 DEF ActivityStates
    <3>3. CASE b = [a EXCEPT !.incidents = 1 - a.incidents]
      <4>1. 1 - a.incidents \in 0 .. 1
        BY <1>1
      <4> QED BY <1>1, <3>3, <4>1 DEF ActivityStates
    <3>4. CASE b = [a EXCEPT !.suspended = ~a.suspended]
      BY <1>1, <3>4 DEF ActivityStates
    <3> QED BY <1>4, <3>1, <3>2, <3>3, <3>4
  <2> QED BY <2>1 DEF InHistory
<1> DEFINE queue == IF a.waiting = 0 THEN {[a EXCEPT !.waiting = 1]}
                    ELSE {[a EXCEPT !.waiting = 0, !.incidents = 0],
                          [a EXCEPT !.waiting = 0, !.incidents = 0, !.trail = Append(a.trail, "open")]}
           ends == {EndedAs(a, i, h) : i \in OpenOf(a), h \in {"completed", "canceled"}}
           fails == IF a.waiting + CountOf("open", a.trail) > 0
                    THEN {[a EXCEPT !.incidents = 1 - a.incidents]} ELSE {}
           suspends == IF drawnFor = "definition" THEN {[a EXCEPT !.suspended = ~a.suspended]} ELSE {}
<1>5. b \in queue \/ b \in ends \/ b \in fails \/ b \in suspends
  <2>1. Worked(a) = queue \union ends \union fails \union suspends
    BY DEF Worked
  <2> HIDE DEF queue, ends, fails, suspends
  <2> QED BY <2>1
<1>6. CASE b \in queue
  <2>1. \/ b = [a EXCEPT !.waiting = 1] \/ b = [a EXCEPT !.waiting = 0, !.incidents = 0]
        \/ b = [a EXCEPT !.waiting = 0, !.incidents = 0, !.trail = Append(a.trail, "open")]
    BY <1>6
  <2> QED BY <1>2, <1>4, <2>1
<1>7. CASE b \in ends
  <2>1. PICK i \in OpenOf(a), h \in {"completed", "canceled"} : b = EndedAs(a, i, h)
    BY <1>7
  <2>2. i \in DOMAIN a.trail
    BY DEF OpenOf
  <2> QED BY <1>3, <2>1, <2>2
<1>8. CASE b \in fails \/ b \in suspends
  <2>1. b = [a EXCEPT !.incidents = 1 - a.incidents] \/ b = [a EXCEPT !.suspended = ~a.suspended]
    BY <1>8
  <2> QED BY <1>4, <2>1
<1> HIDE DEF queue, ends, fails, suspends
<1> QED BY <1>5, <1>6, <1>7, <1>8

\* What is told of an activity: of an instance all, of a definition what is open.
LEMMA ToldFacts ==
  ASSUME NEW a \in ActivityStates
  PROVE  /\ Told(a) \in ActivityStates
         /\ drawnFor = "instance" => Told(a) = a
         /\ drawnFor # "instance" => OpenOnly(Told(a))
<1>1. CASE drawnFor = "instance"
  BY <1>1 DEF Told
<1>2. CASE drawnFor # "instance"
  <2>1. PICK n \in Nat : n = CountOf("open", a.trail)
    BY CountFacts
  <2>2. PICK t : t = [i \in 1 .. n |-> "open"]
    OBVIOUS
  <2>3. /\ t \in Seq({"open", "completed", "canceled"})
        /\ \A i \in DOMAIN t : t[i] = "open"
    BY <2>1, <2>2
  <2>4. Told(a) = [a EXCEPT !.trail = t]
    BY <1>2, <2>1, <2>2 DEF Told
  <2>5. PICK b : b = [a EXCEPT !.trail = t]
    OBVIOUS
  <2>6. b \in ActivityStates /\ b.trail = t
    BY <2>3, <2>5 DEF ActivityStates
  <2>7. OpenOnly(b)
    BY <2>3, <2>6 DEF OpenOnly
  <2> QED BY <1>2, <2>4, <2>5, <2>6, <2>7
<1> QED BY <1>1, <1>2

LEMMA MarksStart ==
  ASSUME MarksInit
  PROVE  MarksInv
<1>1. Nothing \in ActivityStates /\ ~InHistory(Nothing)
  BY EmptySeq DEF Nothing, ActivityStates, InHistory
<1>2. NoOverlays \in Overlays /\ \A kind \in Kinds : NoOverlays[kind] = <<>>
  BY EmptySeq DEF NoOverlays, Overlays
<1>3. /\ drawnFor \in {"instance", "definition"}
      /\ engine = [e \in MarkedActivities |-> Nothing] /\ answers = <<>> /\ known = Absent
      /\ isDrawn = FALSE /\ areShown \in BOOLEAN /\ pulled = FALSE
      /\ overlay = [e \in MarkedActivities |-> NoOverlays] /\ marker = [e \in MarkedActivities |-> {}]
      /\ command = {} /\ under = Absent /\ timers = {} /\ onceToldOf = {}
  BY DEF MarksInit
<1>4. answers \in Seq([MarkedActivities -> ActivityStates]) /\ Len(answers) = 0 /\ DOMAIN answers = {}
  BY <1>3, EmptySeq
<1>5. MarksTypeOK
  BY <1>1, <1>2, <1>3, <1>4 DEF MarksTypeOK
<1>6. HistoryGrows /\ OneAnswer
  BY <1>3, <1>4 DEF HistoryGrows, OneAnswer
<1>7. ASSUME NEW e \in MarkedActivities
      PROVE  Untold(overlay[e]) /\ overlay[e].command = <<>> /\ overlay[e].tooltip = <<>>
             /\ overlay[e].stray = <<>>
  BY <1>2, <1>3 DEF Untold, States, Kinds
<1>8. TokensInv
  BY <1>3, <1>4, <1>7 DEF TokensInv, InstanceTokens, DefinitionTokens, IsMarked
<1>9. ColoursInv
  BY <1>3 DEF ColoursInv, IsMarked
<1>10. CommandsOwned /\ TipsOwned /\ FadedInv
  BY <1>3, <1>7 DEF CommandsOwned, TipsOwned, FadedInv
<1> QED BY <1>5, <1>6, <1>8, <1>9, <1>10 DEF MarksInv

LEMMA EngineActsStep ==
  ASSUME MarksInv, EngineActs
  PROVE  MarksInv'
<1>0. PICK e \in MarkedActivities : \E b \in Worked(engine[e]) : engine' = [engine EXCEPT ![e] = b]
  BY DEF EngineActs
<1>1. PICK b \in Worked(engine[e]) : engine' = [engine EXCEPT ![e] = b]
  BY <1>0
<1>2. /\ drawnFor' = drawnFor /\ answers' = answers /\ known' = known /\ isDrawn' = isDrawn
      /\ areShown' = areShown /\ overlay' = overlay /\ marker' = marker /\ command' = command
      /\ under' = under /\ timers' = timers /\ faded' = faded /\ filteredBy' = filteredBy
      /\ pulled' = pulled /\ onceToldOf' = onceToldOf /\ wiped' = wiped
  BY DEF EngineActs, pageVars
<1>3. engine \in [MarkedActivities -> ActivityStates] /\ engine[e] \in ActivityStates
  BY DEF MarksInv, MarksTypeOK
<1>4. b \in ActivityStates /\ (InHistory(engine[e]) => InHistory(b))
  BY <1>3, WorkedFacts
<1>5. /\ engine' \in [MarkedActivities -> ActivityStates]
      /\ \A x \in MarkedActivities : InHistory(engine[x]) => InHistory(engine'[x])
  BY <1>1, <1>3, <1>4
<1>6. MarksTypeOK'
  BY <1>2, <1>5 DEF MarksInv, MarksTypeOK
<1>7. HistoryGrows' /\ OneAnswer'
  BY <1>2, <1>5 DEF MarksInv, HistoryGrows, OneAnswer
<1>8. TokensInv' /\ ColoursInv'
  BY <1>2, TokensStay, ColoursStay DEF MarksInv
<1>9. CommandsOwned' /\ TipsOwned' /\ FadedInv'
  BY <1>2 DEF MarksInv, CommandsOwned, TipsOwned, FadedInv
<1> QED BY <1>6, <1>7, <1>8, <1>9 DEF MarksInv

LEMMA LoadMarksStep ==
  ASSUME MarksInv, LoadMarks
  PROVE  MarksInv'
<1>1. PICK answer : answer = [e \in MarkedActivities |-> Told(engine[e])]
  OBVIOUS
<1>2. answers' = IF drawnFor = "instance" THEN <<answer>> ELSE Append(answers, answer)
  BY <1>1 DEF LoadMarks
<1>3. /\ drawnFor' = drawnFor /\ engine' = engine /\ known' = known /\ isDrawn' = isDrawn
      /\ areShown' = areShown /\ overlay' = overlay /\ marker' = marker /\ command' = command
      /\ under' = under /\ timers' = timers /\ faded' = faded /\ filteredBy' = filteredBy
      /\ pulled' = pulled /\ onceToldOf' = onceToldOf /\ wiped' = wiped
  BY DEF LoadMarks
<1>4. /\ drawnFor \in {"instance", "definition"} /\ engine \in [MarkedActivities -> ActivityStates]
      /\ answers \in Seq([MarkedActivities -> ActivityStates])
  BY DEF MarksInv, MarksTypeOK
<1>5. /\ answer \in [MarkedActivities -> ActivityStates]
      /\ \A e \in MarkedActivities : /\ drawnFor = "instance" => answer[e] = engine[e]
                                     /\ drawnFor # "instance" => OpenOnly(answer[e])
  BY <1>1, <1>4, ToldFacts
<1>6. CASE drawnFor = "instance"
  <2>1. answers' = <<answer>>
    BY <1>2, <1>6
  <2>2. /\ answers' \in Seq([MarkedActivities -> ActivityStates])
        /\ Len(answers') = 1 /\ DOMAIN answers' = {1} /\ answers'[1] = answer
    BY <1>5, <2>1
  <2>3. MarksTypeOK'
    BY <1>3, <2>2 DEF MarksInv, MarksTypeOK
  <2>4. HistoryGrows' /\ OneAnswer'
    BY <1>3, <1>5, <1>6, <2>2 DEF MarksInv, HistoryGrows, OneAnswer
  <2>5. ASSUME NEW e \in MarkedActivities PROVE InstanceTokens(e)'
    <3>1. InstanceTokens(e)
      BY <1>6 DEF MarksInv, TokensInv
    <3> QED BY <1>3, <3>1 DEF InstanceTokens, IsMarked, Exactly, Untold, Wanted
  <2>6. TokensInv'
    BY <1>3, <1>6, <2>5 DEF TokensInv
  <2> QED BY <1>3, <2>3, <2>4, <2>6, ColoursStay DEF MarksInv, CommandsOwned, TipsOwned, FadedInv
<1>7. CASE drawnFor # "instance"
  <2>1. answers' = Append(answers, answer)
    BY <1>2, <1>7
  <2>2. /\ answers' \in Seq([MarkedActivities -> ActivityStates])
        /\ Len(answers') = Len(answers) + 1 /\ answers'[Len(answers) + 1] = answer
        /\ \A i \in 1 .. Len(answers) : answers'[i] = answers[i]
    BY <1>4, <1>5, <2>1, AppendProperties
  <2>3. /\ DOMAIN answers' = 1 .. Len(answers) + 1 /\ DOMAIN answers = 1 .. Len(answers)
        /\ Len(answers) \in Nat
    BY <1>4, <2>2, LenProperties
  <2>4. MarksTypeOK'
    BY <1>3, <2>2 DEF MarksInv, MarksTypeOK
  <2>5. HistoryGrows' /\ OneAnswer'
    BY <1>3, <1>7 DEF HistoryGrows, OneAnswer
  <2>6. ASSUME NEW e \in MarkedActivities PROVE DefinitionTokens(e)'
    <3>1. DefinitionTokens(e)
      BY <1>7 DEF MarksInv, TokensInv
    <3>2. \A i \in DOMAIN answers' : OpenOnly(answers'[i][e])
      <4> SUFFICES ASSUME NEW i \in DOMAIN answers' PROVE OpenOnly(answers'[i][e])
        OBVIOUS
      <4>1. CASE i = Len(answers) + 1
        BY <1>5, <1>7, <2>2, <4>1
      <4>2. CASE i # Len(answers) + 1
        <5>1. i \in 1 .. Len(answers)
          BY <2>3, <4>2
        <5>2. answers'[i] = answers[i] /\ i \in DOMAIN answers
          BY <2>2, <2>3, <5>1
        <5> QED BY <3>1, <5>2 DEF DefinitionTokens
      <4> QED BY <4>1, <4>2
    <3> QED BY <1>3, <3>1, <3>2 DEF DefinitionTokens, IsMarked, Exactly, Untold, Wanted
  <2>7. TokensInv'
    BY <1>3, <1>7, <2>6 DEF TokensInv
  <2> QED BY <1>3, <2>4, <2>5, <2>7, ColoursStay DEF MarksInv, CommandsOwned, TipsOwned, FadedInv
<1> QED BY <1>6, <1>7

LEMMA InstanceLoadedStep ==
  ASSUME MarksInv, NEW i \in DOMAIN answers, InstanceLoaded(i)
  PROVE  MarksInv'
<1>1. /\ drawnFor = "instance" /\ answers' = RemoveAt(answers, i) /\ known' = answers[i]
      /\ drawnFor' = drawnFor /\ engine' = engine /\ isDrawn' = isDrawn /\ areShown' = areShown
      /\ command' = command /\ faded' = faded /\ filteredBy' = filteredBy
  BY DEF InstanceLoaded
<1>2. /\ answers \in Seq([MarkedActivities -> ActivityStates]) /\ Len(answers) <= 1
      /\ isDrawn \in BOOLEAN /\ areShown \in BOOLEAN
  BY <1>1 DEF MarksInv, MarksTypeOK, OneAnswer
<1>3. /\ RemoveAt(answers, i) \in Seq([MarkedActivities -> ActivityStates])
      /\ Len(RemoveAt(answers, i)) = Len(answers) - 1
  BY <1>2, RemoveAtLast
<1>4. answers' = <<>> /\ Len(answers') = 0 /\ DOMAIN answers' = {}
  <2>1. Len(answers) = 1
    <3>1. Len(answers) \in Nat /\ DOMAIN answers = 1 .. Len(answers)
      BY <1>2, LenProperties
    <3> QED BY <1>2, <3>1
  <2>2. answers' \in Seq([MarkedActivities -> ActivityStates]) /\ Len(answers') = 0
    BY <1>1, <1>3, <2>1
  <2> QED BY <2>2, EmptySeq
<1>5. answers[i] \in [MarkedActivities -> ActivityStates]
  BY <1>2, ElementOfSeq, LenProperties
<1>6. \A e \in MarkedActivities : /\ InHistory(known'[e]) => InHistory(engine[e])
                                  /\ known # Absent /\ InHistory(known[e]) => InHistory(known'[e])
  BY <1>1 DEF MarksInv, HistoryGrows
<1>7. HistoryGrows' /\ OneAnswer'
  BY <1>1, <1>4, <1>6 DEF HistoryGrows, OneAnswer
<1>8. /\ overlay' \in [MarkedActivities -> Overlays]
      /\ under' \in [activity : MarkedActivities, kind : Kinds, tip : {"due", "shown"}] \union {Absent}
      /\ timers' \in SUBSET MarkedActivities /\ pulled' \in BOOLEAN
      /\ TokensInv' /\ ColoursInv' /\ CommandsOwned' /\ TipsOwned'
  <2>1. CASE isDrawn
    <3>1. DrawInstance(overlay, marker)
      BY <2>1 DEF InstanceLoaded
    <3> QED BY <1>1, <1>2, <1>5, <1>6, <2>1, <3>1, InstanceIsDrawn
  <2>2. CASE ~isDrawn
    <3>1. /\ overlay' = overlay /\ marker' = marker /\ under' = under /\ timers' = timers
          /\ pulled' = pulled /\ onceToldOf' = onceToldOf /\ wiped' = wiped
      BY <2>2 DEF InstanceLoaded
    <3>2. TokensInv'
      <4>1. ASSUME NEW e \in MarkedActivities PROVE InstanceTokens(e)'
        <5>1. InstanceTokens(e)
          BY <1>1 DEF MarksInv, TokensInv
        <5> QED BY <1>1, <2>2, <3>1, <5>1 DEF InstanceTokens, IsMarked, Untold
      <4> QED BY <1>1, <4>1 DEF TokensInv
    <3>3. ColoursInv'
      BY <1>1, <2>2, <3>1 DEF MarksInv, ColoursInv, IsMarked
    <3> QED BY <1>1, <3>1, <3>2, <3>3 DEF MarksInv, MarksTypeOK, CommandsOwned, TipsOwned
  <2> QED BY <2>1, <2>2
<1>9. MarksTypeOK'
  BY <1>1, <1>3, <1>5, <1>8 DEF MarksInv, MarksTypeOK
<1>10. FadedInv'
  BY <1>1 DEF MarksInv, FadedInv
<1> QED BY <1>7, <1>8, <1>9, <1>10 DEF MarksInv

LEMMA DefinitionLoadedStep ==
  ASSUME MarksInv, NEW i \in DOMAIN answers, DefinitionLoaded(i)
  PROVE  MarksInv'
<1>1. /\ drawnFor = "definition" /\ answers' = RemoveAt(answers, i) /\ known' = answers[i]
      /\ drawnFor' = drawnFor /\ engine' = engine /\ isDrawn' = isDrawn /\ areShown' = areShown
      /\ command' = command /\ faded' = faded /\ filteredBy' = filteredBy
      /\ onceToldOf' = onceToldOf /\ wiped' = wiped /\ UpdateDiagram
  BY DEF DefinitionLoaded
<1>2. /\ answers \in Seq([MarkedActivities -> ActivityStates])
      /\ isDrawn \in BOOLEAN /\ areShown \in BOOLEAN
  BY DEF MarksInv, MarksTypeOK
<1>3. PICK told : told = {f \in [MarkedActivities -> ActivityStates] :
                            \A e \in MarkedActivities : OpenOnly(f[e])}
  OBVIOUS
<1>4. answers \in Seq(told)
  <2>1. \A j \in DOMAIN answers : \A e \in MarkedActivities : OpenOnly(answers[j][e])
    BY <1>1 DEF MarksInv, TokensInv, DefinitionTokens
  <2>2. \A j \in 1 .. Len(answers) : answers[j] \in told
    BY <1>2, <1>3, <2>1
  <2> QED BY <1>2, <2>2
<1>5. answers' \in Seq(told)
  BY <1>1, <1>4, RemoveAtLast
<1>6. known' \in told
  BY <1>1, <1>4, ElementOfSeq, LenProperties
<1>7. /\ answers' \in Seq([MarkedActivities -> ActivityStates])
      /\ known' \in [MarkedActivities -> ActivityStates]
      /\ \A e \in MarkedActivities : \A j \in DOMAIN answers' : OpenOnly(answers'[j][e])
      /\ \A e \in MarkedActivities : OpenOnly(known'[e])
  <2>1. \A j \in DOMAIN answers' : answers'[j] \in told
    BY <1>5
  <2>2. \A f \in told : f \in [MarkedActivities -> ActivityStates]
                        /\ \A e \in MarkedActivities : OpenOnly(f[e])
    BY <1>3
  <2>3. answers' \in Seq([MarkedActivities -> ActivityStates])
    BY <1>5, <2>2
  <2> QED BY <1>6, <2>1, <2>2, <2>3
<1>8. /\ overlay' \in [MarkedActivities -> Overlays]
      /\ under' \in [activity : MarkedActivities, kind : Kinds, tip : {"due", "shown"}] \union {Absent}
      /\ timers' \in SUBSET MarkedActivities /\ pulled' \in BOOLEAN
      /\ TokensInv' /\ ColoursInv' /\ CommandsOwned' /\ TipsOwned'
  BY <1>1, <1>2, <1>7, DefinitionIsDrawn
<1>9. MarksTypeOK'
  BY <1>1, <1>7, <1>8 DEF MarksInv, MarksTypeOK
<1>10. HistoryGrows' /\ OneAnswer' /\ FadedInv'
  BY <1>1 DEF MarksInv, HistoryGrows, OneAnswer, FadedInv
<1> QED BY <1>8, <1>9, <1>10 DEF MarksInv

LEMMA RenderStep ==
  ASSUME MarksInv, Render
  PROVE  MarksInv'
<1>1. /\ ~isDrawn /\ isDrawn' = TRUE
      /\ faded' = IF filteredBy = Absent THEN {} ELSE MarkedActivities \ {filteredBy}
      /\ drawnFor' = drawnFor /\ engine' = engine /\ answers' = answers /\ known' = known
      /\ areShown' = areShown /\ command' = command /\ filteredBy' = filteredBy
  BY DEF Render
<1>2. /\ MarksTypeOK /\ areShown \in BOOLEAN /\ drawnFor \in {"instance", "definition"}
      /\ overlay \in [MarkedActivities -> Overlays]
      /\ known # Absent => known \in [MarkedActivities -> ActivityStates]
  BY DEF MarksInv, MarksTypeOK
<1>3. FadedInv' /\ HistoryGrows' /\ OneAnswer'
  BY <1>1 DEF MarksInv, FadedInv, HistoryGrows, OneAnswer
<1> SUFFICES /\ overlay' \in [MarkedActivities -> Overlays]
             /\ under' \in [activity : MarkedActivities, kind : Kinds, tip : {"due", "shown"}] \union {Absent}
             /\ timers' \in SUBSET MarkedActivities /\ pulled' \in BOOLEAN
             /\ TokensInv' /\ ColoursInv' /\ CommandsOwned' /\ TipsOwned'
  BY <1>1, <1>3 DEF MarksInv, MarksTypeOK
<1>4. CASE known = Absent
  <2>1. /\ overlay' = overlay /\ marker' = marker /\ under' = under /\ timers' = timers
        /\ pulled' = pulled /\ onceToldOf' = onceToldOf /\ wiped' = wiped
    BY <1>4 DEF Render
  <2>2. TokensInv'
    <3> SUFFICES ASSUME NEW e \in MarkedActivities
                 PROVE  IF drawnFor = "instance" THEN InstanceTokens(e)' ELSE DefinitionTokens(e)'
      BY <1>1 DEF TokensInv
    <3>1. CASE drawnFor = "instance"
      <4>1. InstanceTokens(e)
        BY <3>1 DEF MarksInv, TokensInv
      <4> QED BY <1>1, <1>4, <2>1, <3>1, <4>1 DEF InstanceTokens, IsMarked, Untold
    <3>2. CASE drawnFor # "instance"
      <4>1. DefinitionTokens(e)
        BY <3>2 DEF MarksInv, TokensInv
      <4> QED BY <1>1, <1>4, <2>1, <3>2, <4>1 DEF DefinitionTokens, IsMarked, Untold
    <3> QED BY <3>1, <3>2
  <2>3. ColoursInv'
    BY <1>1, <1>4, <2>1 DEF MarksInv, ColoursInv, IsMarked
  <2> QED BY <1>1, <2>1, <2>2, <2>3 DEF MarksInv, MarksTypeOK, CommandsOwned, TipsOwned
<1>5. CASE known # Absent /\ drawnFor = "instance"
  <2>1. DrawInstance(overlay, marker)
    BY <1>5 DEF Render
  <2> QED BY <1>1, <1>2, <1>5, <2>1, InstanceIsDrawn
<1>6. CASE known # Absent /\ drawnFor # "instance"
  <2>1. drawnFor = "definition"
    BY <1>2, <1>6
  <2>2. PICK drawn : drawn = [e \in MarkedActivities |-> DefinitionMarked(overlay[e], known[e])]
    OBVIOUS
  <2>3. /\ Redrawn(drawn) /\ onceToldOf' = onceToldOf /\ wiped' = wiped
        /\ \A e \in MarkedActivities : marker'[e] = IncidentsHighlighted(marker[e], known[e])
    <3>1. /\ Redrawn(Everywhere(DefinitionMarked, overlay))
          /\ marker' = Everywhere(IncidentsHighlighted, marker)
          /\ onceToldOf' = onceToldOf /\ wiped' = wiped
      BY <1>6, <2>1 DEF Render
    <3> QED BY <1>1, <2>2, <3>1 DEF Everywhere
  <2>4. ASSUME NEW e \in MarkedActivities
        PROVE  /\ drawn[e] \in Overlays /\ Exactly(drawn[e], known[e])
               /\ drawn[e].suspended # <<>> <=> known[e].suspended
               /\ drawn[e].command = overlay[e].command /\ drawn[e].tooltip = overlay[e].tooltip
               /\ drawn[e].stray = overlay[e].stray
    <3>1. PICK l \in Overlays : l = overlay[e]
      BY <1>2
    <3>2. PICK a \in ActivityStates : a = known[e]
      BY <1>2, <1>6
    <3>3. OpenOnly(a) /\ Untold(l)
      BY <1>1, <1>6, <3>1, <3>2 DEF MarksInv, TokensInv, DefinitionTokens, IsMarked
    <3>4. drawn[e] = DefinitionMarked(l, a)
      BY <2>2, <3>1, <3>2
    <3>5. /\ drawn[e] \in Overlays /\ Exactly(drawn[e], a) /\ (drawn[e].suspended # <<>> <=> a.suspended)
          /\ drawn[e].command = l.command /\ drawn[e].tooltip = l.tooltip /\ drawn[e].stray = l.stray
      BY <1>2, <2>1, <3>3, <3>4, DefinitionMarkedFacts
    <3> QED BY <3>1, <3>2, <3>5
  <2>5. drawn \in [MarkedActivities -> Overlays]
    BY <2>2, <2>4
  <2>6. /\ overlay' \in [MarkedActivities -> Overlays]
        /\ \A e \in MarkedActivities : \A kind \in Kinds \ Tips : overlay'[e][kind] = drawn[e][kind]
        /\ under' \in [activity : MarkedActivities, kind : Kinds, tip : {"due", "shown"}] \union {Absent}
        /\ timers' \in SUBSET MarkedActivities /\ pulled' \in BOOLEAN
    BY <1>2, <2>3, <2>5, RedrawnFacts
  <2>7. ASSUME NEW e \in MarkedActivities PROVE DefinitionTokens(e)'
    <3>1. /\ \A kind \in States : overlay'[e][kind] = drawn[e][kind]
          /\ overlay'[e].suspended = drawn[e].suspended
      BY <2>6 DEF Kinds, Tips, States
    <3>2. Exactly(overlay[e], known[e])'
      BY <1>1, <2>4, <3>1 DEF Exactly, Wanted
    <3>3. DefinitionTokens(e)
      BY <1>6 DEF MarksInv, TokensInv
    <3> QED BY <1>1, <1>6, <2>4, <3>1, <3>2, <3>3 DEF DefinitionTokens, IsMarked
  <2>8. TokensInv'
    BY <1>1, <1>6, <2>7 DEF TokensInv
  <2>9. ColoursInv'
    <3>1. \A e \in MarkedActivities : marker[e] = {}
      BY <1>1 DEF MarksInv, ColoursInv, IsMarked
    <3> QED BY <1>1, <1>6, <2>3, <3>1 DEF ColoursInv, IsMarked, IncidentsHighlighted
  <2>10. CommandsOwned'
    <3>1. \A e \in MarkedActivities : overlay'[e].command = overlay[e].command
      BY <2>4, <2>6 DEF Kinds, Tips
    <3> QED BY <1>1, <2>3, <3>1 DEF MarksInv, CommandsOwned
  <2>11. TipsOwned'
    BY <1>2, <2>3, <2>4, <2>5, TipsStay DEF MarksInv
  <2> QED BY <2>6, <2>8, <2>9, <2>10, <2>11
<1> QED BY <1>4, <1>5, <1>6

LEMMA ToggleShownStep ==
  ASSUME MarksInv, ToggleShown
  PROVE  MarksInv'
<1>1. /\ areShown' = ~areShown /\ known' = known /\ onceToldOf' = onceToldOf /\ wiped' = wiped
      /\ drawnFor' = drawnFor /\ engine' = engine /\ answers' = answers /\ isDrawn' = isDrawn
      /\ command' = command /\ faded' = faded /\ filteredBy' = filteredBy
  BY DEF ToggleShown
<1>2. /\ MarksTypeOK /\ areShown' \in BOOLEAN /\ drawnFor \in {"instance", "definition"}
      /\ known' \in [MarkedActivities -> ActivityStates] \union {Absent}
  BY <1>1 DEF MarksInv, MarksTypeOK
<1>3. FadedInv' /\ HistoryGrows' /\ OneAnswer'
  BY <1>1 DEF MarksInv, FadedInv, HistoryGrows, OneAnswer
<1> SUFFICES /\ overlay' \in [MarkedActivities -> Overlays]
             /\ under' \in [activity : MarkedActivities, kind : Kinds, tip : {"due", "shown"}] \union {Absent}
             /\ timers' \in SUBSET MarkedActivities /\ pulled' \in BOOLEAN
             /\ TokensInv' /\ ColoursInv' /\ CommandsOwned' /\ TipsOwned'
  BY <1>1, <1>2, <1>3 DEF MarksInv, MarksTypeOK
<1>4. CASE drawnFor = "definition"
  <2>1. UpdateDiagram
    BY <1>4 DEF ToggleShown
  <2>2. /\ \A e \in MarkedActivities : \A i \in DOMAIN answers' : OpenOnly(answers'[i][e])
        /\ known' # Absent => \A e \in MarkedActivities : OpenOnly(known'[e])
    BY <1>1, <1>4 DEF MarksInv, TokensInv, DefinitionTokens
  <2> QED BY <1>1, <1>2, <1>4, <2>1, <2>2, DefinitionIsDrawn
<1>5. CASE drawnFor # "definition"
  <2>1. /\ drawnFor = "instance" /\ overlay' = overlay /\ under' = under /\ timers' = timers
        /\ pulled' = pulled
        /\ marker' = IF isDrawn /\ known # Absent
                     THEN [e \in MarkedActivities |-> Coloured(marker[e], known[e], areShown')]
                     ELSE marker
    BY <1>2, <1>5 DEF ToggleShown
  <2>2. TokensInv'
    <3>1. ASSUME NEW e \in MarkedActivities PROVE InstanceTokens(e)'
      <4>1. InstanceTokens(e)
        BY <2>1 DEF MarksInv, TokensInv
      <4> QED BY <1>1, <2>1, <4>1 DEF InstanceTokens, IsMarked, Exactly, Untold, Wanted
    <3> QED BY <1>1, <2>1, <3>1 DEF TokensInv
  <2>3. ColoursInv'
    <3> SUFFICES ASSUME NEW e \in MarkedActivities
                 PROVE  IF ~IsMarked' THEN marker'[e] = {}
                        ELSE IF InHistory(known[e]) \/ known[e].incidents > 0
                             THEN marker'[e] = Coloured({}, known[e], areShown')
                             ELSE e \in onceToldOf \/ marker'[e] = {}
      BY <1>1, <2>1 DEF ColoursInv, Coloured, MarkerOf
    <3>1. IF ~IsMarked THEN marker[e] = {}
          ELSE IF InHistory(known[e]) \/ known[e].incidents > 0
               THEN marker[e] = Coloured({}, known[e], areShown)
               ELSE e \in onceToldOf \/ marker[e] = {}
      BY <2>1 DEF MarksInv, ColoursInv
    <3>2. IsMarked' <=> IsMarked
      BY <1>1 DEF IsMarked
    <3>3. CASE ~IsMarked
      BY <2>1, <3>1, <3>2, <3>3 DEF IsMarked
    <3>4. CASE IsMarked
      <4>1. marker'[e] = Coloured(marker[e], known[e], areShown')
        BY <2>1, <3>4 DEF IsMarked
      <4> QED BY <3>1, <3>2, <3>4, <4>1 DEF Coloured
    <3> QED BY <3>3, <3>4
  <2> QED BY <1>1, <2>1, <2>2, <2>3 DEF MarksInv, MarksTypeOK, CommandsOwned, TipsOwned
<1> QED BY <1>4, <1>5

LEMMA SuspensionChangedStep ==
  ASSUME MarksInv, SuspensionChanged
  PROVE  MarksInv'
<1>1. PICK e \in MarkedActivities, b \in BOOLEAN :
        /\ engine' = [engine EXCEPT ![e] = [engine[e] EXCEPT !.suspended = b]]
        /\ known' = [known EXCEPT ![e] = [known[e] EXCEPT !.suspended = b]]
        /\ Redrawn([overlay EXCEPT ![e] = SuspensionMarked(overlay[e], known'[e])])
  BY DEF SuspensionChanged
<1>2. /\ drawnFor = "definition" /\ isDrawn /\ known # Absent
      /\ drawnFor' = drawnFor /\ answers' = answers /\ isDrawn' = isDrawn /\ areShown' = areShown
      /\ marker' = marker /\ command' = command /\ faded' = faded /\ filteredBy' = filteredBy
      /\ onceToldOf' = onceToldOf /\ wiped' = wiped
  BY DEF SuspensionChanged
<1>3. /\ MarksTypeOK /\ engine \in [MarkedActivities -> ActivityStates]
      /\ known \in [MarkedActivities -> ActivityStates] /\ overlay \in [MarkedActivities -> Overlays]
  BY <1>2 DEF MarksInv, MarksTypeOK
<1>4. PICK a \in ActivityStates : a = [known[e] EXCEPT !.suspended = b]
  <2>1. known[e] \in ActivityStates
    BY <1>3
  <2> QED BY <2>1 DEF ActivityStates
<1>5. PICK c \in ActivityStates : c = [engine[e] EXCEPT !.suspended = b]
  <2>1. engine[e] \in ActivityStates
    BY <1>3
  <2> QED BY <2>1 DEF ActivityStates
<1>6. /\ engine' \in [MarkedActivities -> ActivityStates] /\ known' \in [MarkedActivities -> ActivityStates]
      /\ known'[e] = a /\ \A x \in MarkedActivities : x # e => known'[x] = known[x]
  BY <1>1, <1>3, <1>4, <1>5
<1>7. \A x \in MarkedActivities : /\ known'[x].trail = known[x].trail /\ known'[x].waiting = known[x].waiting
                                  /\ known'[x].incidents = known[x].incidents
  <2>1. /\ a.trail = known[e].trail /\ a.waiting = known[e].waiting /\ a.incidents = known[e].incidents
    <3>1. known[e] \in ActivityStates
      BY <1>3
    <3> QED BY <1>4, <3>1 DEF ActivityStates
  <2> QED BY <1>6, <2>1
<1>8. known' # Absent
  BY <1>6, MarkAssumption
<1>9. PICK l \in Overlays : l = overlay[e]
  BY <1>3
<1>10. PICK m : m = SuspensionMarked(l, a)
  OBVIOUS
<1>11. /\ m \in Overlays /\ (m.suspended # <<>> <=> a.suspended)
       /\ \A kind \in Kinds \ {"suspended"} : m[kind] = l[kind]
  BY <1>10, SuspendedFacts
<1>12. PICK drawn : drawn = [overlay EXCEPT ![e] = m]
  OBVIOUS
<1>13. Redrawn(drawn)
  BY <1>1, <1>6, <1>9, <1>10, <1>12
<1>14. /\ drawn \in [MarkedActivities -> Overlays] /\ drawn[e] = m
       /\ \A x \in MarkedActivities : x # e => drawn[x] = overlay[x]
  BY <1>3, <1>11, <1>12
<1>15. /\ overlay' \in [MarkedActivities -> Overlays]
       /\ \A x \in MarkedActivities : \A kind \in Kinds \ Tips : overlay'[x][kind] = drawn[x][kind]
       /\ under' \in [activity : MarkedActivities, kind : Kinds, tip : {"due", "shown"}] \union {Absent}
       /\ timers' \in SUBSET MarkedActivities /\ pulled' \in BOOLEAN
  BY <1>3, <1>13, <1>14, RedrawnFacts
<1>16. \A x \in MarkedActivities : \A kind \in Kinds \ {"suspended"} : drawn[x][kind] = overlay[x][kind]
  BY <1>9, <1>11, <1>14
<1>17. ASSUME NEW x \in MarkedActivities PROVE DefinitionTokens(x)'
  <2>1. DefinitionTokens(x)
    BY <1>2 DEF MarksInv, TokensInv
  <2>2. \A kind \in States : overlay'[x][kind] = overlay[x][kind]
    BY <1>15, <1>16 DEF Kinds, Tips, States
  <2>3. overlay'[x].suspended = drawn[x].suspended
    BY <1>15 DEF Kinds, Tips
  <2>4. overlay'[x].suspended # <<>> <=> known'[x].suspended
    <3>1. CASE x = e
      BY <1>6, <1>11, <1>14, <2>3, <3>1
    <3>2. CASE x # e
      BY <1>2, <1>6, <1>14, <2>1, <2>3, <3>2 DEF DefinitionTokens, IsMarked
    <3> QED BY <3>1, <3>2
  <2>5. OpenOnly(known'[x])
    BY <1>2, <1>7, <2>1 DEF DefinitionTokens, OpenOnly
  <2>6. Exactly(overlay[x], known[x])' <=> Exactly(overlay[x], known[x])
    BY <1>2, <1>7, <2>2 DEF Exactly, Wanted
  <2>7. Untold(overlay[x])' <=> Untold(overlay[x])
    BY <2>2 DEF Untold
  <2> QED BY <1>2, <1>8, <2>1, <2>4, <2>5, <2>6, <2>7 DEF DefinitionTokens, IsMarked
<1>18. TokensInv'
  BY <1>2, <1>17 DEF TokensInv
<1>19. ColoursInv'
  BY <1>2, <1>7, <1>8 DEF MarksInv, ColoursInv, IsMarked, IncidentsHighlighted
<1>20. CommandsOwned'
  <2>1. \A x \in MarkedActivities : overlay'[x].command = overlay[x].command
    BY <1>15, <1>16 DEF Kinds, Tips
  <2> QED BY <1>2, <2>1 DEF MarksInv, CommandsOwned
<1>21. TipsOwned'
  <2>1. \A x \in MarkedActivities : /\ drawn[x].tooltip = overlay[x].tooltip
                                    /\ drawn[x].stray = overlay[x].stray
    BY <1>16 DEF Kinds
  <2> QED BY <1>3, <1>13, <1>14, <2>1, TipsStay DEF MarksInv
<1>22. MarksTypeOK'
  BY <1>2, <1>6, <1>15 DEF MarksInv, MarksTypeOK
<1>23. HistoryGrows' /\ OneAnswer' /\ FadedInv'
  BY <1>2 DEF MarksInv, HistoryGrows, OneAnswer, FadedInv
<1> QED BY <1>18, <1>19, <1>20, <1>21, <1>22, <1>23 DEF MarksInv

LEMMA CommandStep ==
  ASSUME MarksInv, Command
  PROVE  MarksInv'
<1>1. PICK e \in MarkedActivities :
        IF e \in command
        THEN /\ command' = command \ {e} /\ wiped' = wiped
             /\ Redrawn([overlay EXCEPT ![e] = WithOf(overlay[e], "command", <<>>)])
        ELSE /\ command' = command \union {e} /\ wiped' = wiped \ {e}
             /\ Redrawn([overlay EXCEPT ![e] = WithOneOf(overlay[e], "command")])
  BY DEF Command
<1>2. /\ drawnFor = "instance" /\ drawnFor' = drawnFor /\ engine' = engine /\ answers' = answers
      /\ known' = known /\ isDrawn' = isDrawn /\ areShown' = areShown /\ marker' = marker
      /\ faded' = faded /\ filteredBy' = filteredBy /\ onceToldOf' = onceToldOf
  BY DEF Command
<1>3. /\ MarksTypeOK /\ overlay \in [MarkedActivities -> Overlays] /\ overlay[e] \in Overlays
      /\ command \in SUBSET MarkedActivities
  BY DEF MarksInv, MarksTypeOK
<1>4. PICK l \in Overlays : l = overlay[e]
  BY <1>3
<1>5. PICK s \in Seq(Nat) : /\ s = IF e \in command THEN <<>> ELSE Append(l.command, 1)
                            /\ s # <<>> <=> e \notin command
  <2>1. l.command \in Seq(Nat) /\ <<>> \in Seq(Nat)
    BY EmptySeq DEF Overlays, Kinds
  <2>2. Append(l.command, 1) \in Seq(Nat) /\ Len(Append(l.command, 1)) = Len(l.command) + 1
    BY <2>1, AppendProperties
  <2>3. Append(l.command, 1) # <<>>
    <3>1. Len(l.command) \in Nat
      BY <2>1, LenProperties
    <3> QED BY <2>2, <3>1, EmptySeq
  <2> QED BY <2>1, <2>2, <2>3
<1>6. PICK m : m = [l EXCEPT !["command"] = s]
  OBVIOUS
<1>7. m \in Overlays /\ m.command = s /\ \A kind \in Kinds \ {"command"} : m[kind] = l[kind]
  BY <1>6 DEF Overlays, Kinds
<1>8. PICK drawn : drawn = [overlay EXCEPT ![e] = m]
  OBVIOUS
<1>9. Redrawn(drawn)
  <2>1. CASE e \in command
    BY <1>1, <1>4, <1>5, <1>6, <1>8, <2>1 DEF WithOf
  <2>2. CASE e \notin command
    <3>1. WithOneOf(l, "command") = m
      BY <1>5, <1>6, <2>2 DEF WithOneOf, WithOf
    <3> QED BY <1>1, <1>4, <1>8, <2>2, <3>1
  <2> QED BY <2>1, <2>2
<1>10. /\ drawn \in [MarkedActivities -> Overlays] /\ drawn[e] = m
       /\ \A x \in MarkedActivities : x # e => drawn[x] = overlay[x]
  BY <1>3, <1>7, <1>8
<1>11. \A x \in MarkedActivities : \A kind \in Kinds \ {"command"} : drawn[x][kind] = overlay[x][kind]
  BY <1>4, <1>7, <1>10
<1>12. /\ overlay' \in [MarkedActivities -> Overlays]
       /\ \A x \in MarkedActivities : \A kind \in Kinds \ Tips : overlay'[x][kind] = drawn[x][kind]
       /\ under' \in [activity : MarkedActivities, kind : Kinds, tip : {"due", "shown"}] \union {Absent}
       /\ timers' \in SUBSET MarkedActivities /\ pulled' \in BOOLEAN
  BY <1>3, <1>9, <1>10, RedrawnFacts
<1>13. TokensInv' /\ ColoursInv'
  <2>1. \A x \in MarkedActivities : \A kind \in Kinds \ (Tips \union {"command"}) :
          overlay'[x][kind] = overlay[x][kind]
    BY <1>11, <1>12
  <2> QED BY <1>2, <2>1, TokensStay, ColoursStay DEF MarksInv
<1>14. CommandsOwned'
  <2>1. drawnFor' # "definition"
    BY <1>2
  <2> SUFFICES ASSUME NEW x \in MarkedActivities
               PROVE  /\ overlay'[x].command # <<>> => x \in command'
                      /\ x \in command' \ wiped' => overlay'[x].command # <<>>
    BY <2>1 DEF CommandsOwned
  <2>2. overlay'[x].command = drawn[x].command
    BY <1>12 DEF Kinds, Tips
  <2>3. CASE x = e
    <3>1. overlay'[x].command # <<>> <=> e \notin command
      BY <1>5, <1>7, <1>10, <2>2, <2>3
    <3> QED BY <1>1, <2>3, <3>1
  <2>4. CASE x # e
    <3>1. /\ overlay[x].command # <<>> => x \in command
          /\ x \in command \ wiped => overlay[x].command # <<>>
      BY DEF MarksInv, CommandsOwned
    <3> QED BY <1>1, <1>10, <2>2, <2>4, <3>1
  <2> QED BY <2>3, <2>4
<1>15. TipsOwned'
  <2>1. \A x \in MarkedActivities : /\ drawn[x].tooltip = overlay[x].tooltip
                                    /\ drawn[x].stray = overlay[x].stray
    BY <1>11 DEF Kinds
  <2> QED BY <1>3, <1>9, <1>10, <2>1, TipsStay DEF MarksInv
<1>16. MarksTypeOK'
  <2>1. command' \in SUBSET MarkedActivities
    BY <1>1, <1>3
  <2> QED BY <1>2, <1>12, <2>1 DEF MarksInv, MarksTypeOK
<1>17. HistoryGrows' /\ OneAnswer' /\ FadedInv'
  BY <1>2 DEF MarksInv, HistoryGrows, OneAnswer, FadedInv
<1> QED BY <1>13, <1>14, <1>15, <1>16, <1>17 DEF MarksInv

LEMMA MouseStep ==
  ASSUME MarksInv, MouseEnter \/ TooltipDue \/ MouseLeave
  PROVE  MarksInv'
<1>1. /\ drawnFor' = drawnFor /\ engine' = engine /\ answers' = answers /\ known' = known
      /\ isDrawn' = isDrawn /\ areShown' = areShown /\ marker' = marker /\ command' = command
      /\ faded' = faded /\ filteredBy' = filteredBy /\ pulled' = pulled /\ onceToldOf' = onceToldOf
      /\ wiped' = wiped
  BY DEF MouseEnter, TooltipDue, MouseLeave
<1>2. /\ MarksTypeOK /\ overlay \in [MarkedActivities -> Overlays] /\ timers \in SUBSET MarkedActivities
      /\ under \in [activity : MarkedActivities, kind : Kinds, tip : {"due", "shown"}] \union {Absent}
  BY DEF MarksInv, MarksTypeOK
<1> SUFFICES /\ overlay' \in [MarkedActivities -> Overlays] /\ timers' \in SUBSET MarkedActivities
             /\ under' \in [activity : MarkedActivities, kind : Kinds, tip : {"due", "shown"}] \union {Absent}
             /\ \A x \in MarkedActivities : \A kind \in Kinds \ Tips : overlay'[x][kind] = overlay[x][kind]
             /\ TipsOwned'
  <2>1. \A x \in MarkedActivities : overlay'[x].command = overlay[x].command
    BY DEF Kinds, Tips
  <2>2. CommandsOwned'
    BY <1>1, <2>1 DEF MarksInv, CommandsOwned
  <2>3. TokensInv' /\ ColoursInv'
    BY <1>1, TokensStay, ColoursStay DEF MarksInv
  <2>4. MarksTypeOK'
    BY <1>1 DEF MarksInv, MarksTypeOK
  <2>5. HistoryGrows' /\ OneAnswer' /\ FadedInv'
    BY <1>1 DEF MarksInv, HistoryGrows, OneAnswer, FadedInv
  <2> QED BY <2>2, <2>3, <2>4, <2>5 DEF MarksInv
<1>3. CASE MouseEnter
  <2>1. /\ under = Absent /\ overlay' = overlay /\ timers' = timers
        /\ \E e \in MarkedActivities : \E kind \in Kinds :
             under' = [activity |-> e, kind |-> kind, tip |-> "due"]
    BY <1>3 DEF MouseEnter
  <2>2. under' \in [activity : MarkedActivities, kind : Kinds, tip : {"due", "shown"}]
    BY <2>1
  <2>3. TipsOwned'
    BY <1>1, <2>1 DEF MarksInv, TipsOwned
  <2> QED BY <1>2, <2>1, <2>2, <2>3
\* One list of an activity's overlays becomes another: that of its tooltips, or of those left behind.
<1>4. ASSUME NEW e \in MarkedActivities, NEW which \in Tips, NEW s \in Seq(Nat),
             overlay' = [overlay EXCEPT ![e] = WithOf(overlay[e], which, s)]
      PROVE  /\ overlay' \in [MarkedActivities -> Overlays]
             /\ \A x \in MarkedActivities : \A kind \in Kinds :
                  overlay'[x][kind] = IF x = e /\ kind = which THEN s ELSE overlay[x][kind]
             /\ \A x \in MarkedActivities : \A kind \in Kinds \ Tips :
                  overlay'[x][kind] = overlay[x][kind]
  <2>1. PICK l \in Overlays : l = overlay[e]
    BY <1>2
  <2>2. PICK m : m = [l EXCEPT ![which] = s]
    OBVIOUS
  <2>3. which \in Kinds
    BY DEF Tips, Kinds
  <2>4. m \in Overlays /\ \A kind \in Kinds : m[kind] = IF kind = which THEN s ELSE l[kind]
    BY <2>2, <2>3 DEF Overlays
  <2>5. overlay' = [overlay EXCEPT ![e] = m]
    BY <1>4, <2>1, <2>2 DEF WithOf
  <2>6. /\ overlay' \in [MarkedActivities -> Overlays] /\ overlay'[e] = m
        /\ \A x \in MarkedActivities : x # e => overlay'[x] = overlay[x]
    BY <1>2, <2>4, <2>5
  <2>7. \A x \in MarkedActivities : \A kind \in Kinds :
          overlay'[x][kind] = IF x = e /\ kind = which THEN s ELSE overlay[x][kind]
    BY <2>1, <2>4, <2>6
  <2> QED BY <2>6, <2>7
<1>5. ASSUME NEW e \in MarkedActivities, NEW which \in Tips
      PROVE  \E s \in Seq(Nat) : WithOneOf(overlay[e], which) = WithOf(overlay[e], which, s)
  <2>1. overlay[e][which] \in Seq(Nat)
    BY <1>2 DEF Overlays, Kinds, Tips
  <2>2. Append(overlay[e][which], 1) \in Seq(Nat)
    BY <2>1, AppendProperties
  <2> QED BY <2>2 DEF WithOneOf
<1>6. \A u \in [activity : MarkedActivities, kind : Kinds, tip : {"due", "shown"}] :
        u.activity \in MarkedActivities
  OBVIOUS
<1>7. CASE TooltipDue
  <2>1. CASE /\ under # Absent /\ under.tip = "due" /\ under' = [under EXCEPT !.tip = "shown"]
             /\ overlay' = [overlay EXCEPT ![under.activity] = WithOneOf(overlay[under.activity], "tooltip")]
             /\ timers' = timers
    <3>1. PICK u \in [activity : MarkedActivities, kind : Kinds, tip : {"due", "shown"}] : u = under
      BY <1>2, <2>1
    <3>2. PICK e \in MarkedActivities : e = u.activity
      BY <1>6
    <3>3. under' = [u EXCEPT !.tip = "shown"]
      BY <2>1, <3>1
    <3>4. /\ under' \in [activity : MarkedActivities, kind : Kinds, tip : {"due", "shown"}]
          /\ under'.activity = e /\ under'.tip = "shown"
      BY <3>2, <3>3
    <3>5. PICK s \in Seq(Nat) : overlay' = [overlay EXCEPT ![e] = WithOf(overlay[e], "tooltip", s)]
      BY <1>5, <2>1, <3>1, <3>2 DEF Tips
    <3>6. /\ overlay' \in [MarkedActivities -> Overlays]
          /\ \A x \in MarkedActivities : \A kind \in Kinds :
               overlay'[x][kind] = IF x = e /\ kind = "tooltip" THEN s ELSE overlay[x][kind]
          /\ \A x \in MarkedActivities : \A kind \in Kinds \ Tips :
               overlay'[x][kind] = overlay[x][kind]
      BY <1>4, <3>5 DEF Tips
    <3>7. TipsOwned'
      <4> SUFFICES ASSUME ~pulled
                   PROVE  /\ timers' = {}
                          /\ \A x \in MarkedActivities :
                               /\ overlay'[x].stray = <<>>
                               /\ overlay'[x].tooltip # <<>> =>
                                    under' # Absent /\ under'.activity = x /\ under'.tip = "shown"
        BY <1>1 DEF TipsOwned
      <4>1. /\ timers = {}
            /\ \A x \in MarkedActivities :
                 /\ overlay[x].stray = <<>>
                 /\ overlay[x].tooltip # <<>> => under.tip = "shown"
        BY DEF MarksInv, TipsOwned
      <4>2. under' # Absent
        BY <3>4, MarkAssumption
      <4>3. \A x \in MarkedActivities :
              /\ overlay'[x].stray = overlay[x].stray
              /\ x # e => overlay'[x].tooltip = overlay[x].tooltip
        BY <3>6 DEF Kinds
      <4>4. under.tip # "shown"
        BY <2>1
      <4> QED BY <2>1, <3>4, <4>1, <4>2, <4>3, <4>4
    <3> QED BY <1>2, <2>1, <3>4, <3>6, <3>7
  <2>2. CASE \E e \in timers : /\ timers' = timers \ {e} /\ under' = under
                               /\ overlay' = [overlay EXCEPT ![e] = WithOneOf(overlay[e], "stray")]
    <3>1. PICK e \in timers : /\ timers' = timers \ {e} /\ under' = under
                              /\ overlay' = [overlay EXCEPT ![e] = WithOneOf(overlay[e], "stray")]
      BY <2>2
    <3>2. e \in MarkedActivities /\ timers # {}
      BY <1>2, <3>1
    <3>3. PICK s \in Seq(Nat) : overlay' = [overlay EXCEPT ![e] = WithOf(overlay[e], "stray", s)]
      BY <1>5, <3>1, <3>2 DEF Tips
    <3>4. /\ overlay' \in [MarkedActivities -> Overlays]
          /\ \A x \in MarkedActivities : \A kind \in Kinds \ Tips :
               overlay'[x][kind] = overlay[x][kind]
      BY <1>4, <3>2, <3>3 DEF Tips
    <3>5. TipsOwned'
      BY <1>1, <3>2 DEF MarksInv, TipsOwned
    <3> QED BY <1>2, <3>1, <3>4, <3>5
  <2> QED BY <1>7, <2>1, <2>2 DEF TooltipDue
<1>8. CASE MouseLeave
  <2>1. /\ under # Absent /\ under' = Absent /\ timers' = timers
        /\ overlay' = [overlay EXCEPT ![under.activity] = WithOf(overlay[under.activity], "tooltip", <<>>)]
    BY <1>8 DEF MouseLeave
  <2>2. PICK u \in [activity : MarkedActivities, kind : Kinds, tip : {"due", "shown"}] : u = under
    BY <1>2, <2>1
  <2>3. PICK e \in MarkedActivities : e = u.activity
    BY <1>6
  <2>4. <<>> \in Seq(Nat)
    BY EmptySeq
  <2>5. overlay' = [overlay EXCEPT ![e] = WithOf(overlay[e], "tooltip", <<>>)]
    BY <2>1, <2>2, <2>3
  <2>6. /\ overlay' \in [MarkedActivities -> Overlays]
        /\ \A x \in MarkedActivities : \A kind \in Kinds :
             overlay'[x][kind] = IF x = e /\ kind = "tooltip" THEN <<>> ELSE overlay[x][kind]
        /\ \A x \in MarkedActivities : \A kind \in Kinds \ Tips :
             overlay'[x][kind] = overlay[x][kind]
    BY <1>4, <2>4, <2>5 DEF Tips
  <2>7. TipsOwned'
    <3> SUFFICES ASSUME ~pulled
                 PROVE  /\ timers' = {}
                        /\ \A x \in MarkedActivities :
                             overlay'[x].stray = <<>> /\ overlay'[x].tooltip = <<>>
      BY <1>1 DEF TipsOwned
    <3>1. /\ timers = {}
          /\ \A x \in MarkedActivities :
               /\ overlay[x].stray = <<>>
               /\ overlay[x].tooltip # <<>> => under.activity = x
      BY DEF MarksInv, TipsOwned
    <3>2. \A x \in MarkedActivities :
            /\ overlay'[x].stray = overlay[x].stray
            /\ overlay'[x].tooltip = IF x = e THEN <<>> ELSE overlay[x].tooltip
      BY <2>6 DEF Kinds
    <3> QED BY <2>1, <2>2, <2>3, <3>1, <3>2
  <2> QED BY <1>2, <2>1, <2>6, <2>7
<1> QED BY <1>3, <1>7, <1>8

LEMMA FilterActivityStep ==
  ASSUME MarksInv, FilterActivity
  PROVE  MarksInv'
<1>1. /\ drawnFor' = drawnFor /\ engine' = engine /\ answers' = answers /\ known' = known
      /\ isDrawn' = isDrawn /\ areShown' = areShown /\ overlay' = overlay /\ marker' = marker
      /\ command' = command /\ under' = under /\ timers' = timers
      /\ pulled' = pulled /\ onceToldOf' = onceToldOf /\ wiped' = wiped
      /\ faded' = IF ~isDrawn \/ filteredBy' = Absent THEN {} ELSE MarkedActivities \ {filteredBy'}
  BY DEF FilterActivity
<1>2. TokensInv' /\ ColoursInv'
  BY <1>1, TokensStay, ColoursStay DEF MarksInv
<1>3. MarksTypeOK' /\ HistoryGrows' /\ OneAnswer'
  BY <1>1 DEF MarksInv, MarksTypeOK, HistoryGrows, OneAnswer
<1>4. CommandsOwned' /\ TipsOwned' /\ FadedInv'
  BY <1>1 DEF MarksInv, CommandsOwned, TipsOwned, FadedInv
<1> QED BY <1>2, <1>3, <1>4 DEF MarksInv

LEMMA MarksStutter ==
  ASSUME MarksInv, UNCHANGED markVars
  PROVE  MarksInv'
<1>1. /\ drawnFor' = drawnFor /\ engine' = engine /\ answers' = answers /\ known' = known
      /\ isDrawn' = isDrawn /\ areShown' = areShown /\ overlay' = overlay /\ marker' = marker
      /\ command' = command /\ under' = under /\ timers' = timers /\ faded' = faded
      /\ filteredBy' = filteredBy /\ pulled' = pulled /\ onceToldOf' = onceToldOf /\ wiped' = wiped
  BY DEF markVars
<1>2. TokensInv' /\ ColoursInv'
  BY <1>1, TokensStay, ColoursStay DEF MarksInv
<1>3. MarksTypeOK' /\ HistoryGrows' /\ OneAnswer'
  BY <1>1 DEF MarksInv, MarksTypeOK, HistoryGrows, OneAnswer
<1>4. CommandsOwned' /\ TipsOwned' /\ FadedInv'
  BY <1>1 DEF MarksInv, CommandsOwned, TipsOwned, FadedInv
<1> QED BY <1>2, <1>3, <1>4 DEF MarksInv

\* The inductive invariant of the drawings on the diagram, for any activities, answers and gestures.
THEOREM MarksInvariant == Spec => []MarksInv
<1>1. MarksInit => MarksInv
  BY MarksStart
<1>2. MarksInv /\ [MarksNext]_markVars => MarksInv'
  <2> SUFFICES ASSUME MarksInv, [MarksNext]_markVars PROVE MarksInv'
    OBVIOUS
  <2>1. CASE EngineActs \/ LoadMarks
    BY <2>1, EngineActsStep, LoadMarksStep
  <2>2. CASE \E i \in DOMAIN answers : InstanceLoaded(i)
    BY <2>2, InstanceLoadedStep
  <2>3. CASE \E i \in DOMAIN answers : DefinitionLoaded(i)
    BY <2>3, DefinitionLoadedStep
  <2>4. CASE Render \/ ToggleShown \/ SuspensionChanged \/ Command
    BY <2>4, RenderStep, ToggleShownStep, SuspensionChangedStep, CommandStep
  <2>5. CASE MouseEnter \/ TooltipDue \/ MouseLeave \/ FilterActivity
    BY <2>5, MouseStep, FilterActivityStep
  <2>6. CASE UNCHANGED markVars
    BY <2>6, MarksStutter
  <2> QED BY <2>1, <2>2, <2>3, <2>4, <2>5, <2>6 DEF MarksNext
<1> QED BY <1>1, <1>2, AllWidgetsStart, OneWidgetMoves, PTL DEF Spec, widgetVars

\* What is drawn is what the page knows: tokens, suspensions, colours and who owns the overlays.
THEOREM DiagramShows == Spec => []DiagramShowsWhatIsKnown
<1>1. ASSUME MarksInv PROVE TokensAreKnown
  <2> SUFFICES ASSUME isDrawn, known # Absent, NEW e \in MarkedActivities
               PROVE  LET hidden == /\ drawnFor = "definition" /\ ~areShown
                                    /\ \A kind \in States : overlay[e][kind] = <<>>
                          wanted(kind) == IF hidden THEN <<>> ELSE Mark(Wanted(known[e])[kind])
                      IN \A kind \in States :
                           /\ ToSet(wanted(kind)) \subseteq ToSet(overlay[e][kind])
                           /\ e \notin onceToldOf \/ InHistory(known[e]) => overlay[e][kind] = wanted(kind)
    BY DEF TokensAreKnown
  <2>1. MarksTypeOK /\ IsMarked /\ drawnFor \in {"instance", "definition"}
    BY <1>1 DEF MarksInv, MarksTypeOK, IsMarked
  <2>2. CASE drawnFor = "definition"
    <3>1. Exactly(overlay[e], known[e]) \/ (~areShown /\ Untold(overlay[e]))
      BY <1>1, <2>1, <2>2 DEF MarksInv, TokensInv, DefinitionTokens
    <3> QED BY <2>2, <3>1 DEF Exactly, Untold
  <2>3. CASE drawnFor = "instance"
    <3>1. InstanceTokens(e)
      BY <1>1, <2>3 DEF MarksInv, TokensInv
    <3>2. CASE InHistory(known[e])
      BY <2>1, <2>3, <3>1, <3>2 DEF InstanceTokens, Exactly
    <3>3. CASE ~InHistory(known[e])
      <4>1. PICK a \in ActivityStates : a = known[e]
        BY <2>1 DEF MarksTypeOK
      <4>2. /\ Wanted(a).terminated = 0 /\ Wanted(a).completed = 0
            /\ Wanted(a).active = a.waiting /\ Wanted(a).incident = a.incidents
        BY <2>1, <2>3, <3>3, <4>1, WantedFacts
      <4>3. /\ overlay[e].terminated = <<>> /\ overlay[e].completed = <<>>
            /\ \A kind \in {"active", "incident"} :
                 Wanted(a)[kind] # 0 => Wanted(a)[kind] \in ToSet(overlay[e][kind])
            /\ e \notin onceToldOf => Untold(overlay[e]) /\ a.waiting = 0 /\ a.incidents = 0
        BY <2>1, <3>1, <3>3, <4>1 DEF InstanceTokens
      <4>4. \A n : Mark(n) = (IF n = 0 THEN <<>> ELSE <<n>>)
        BY DEF Mark
      <4>5. ToSet(<<>>) = {} /\ \A n : ToSet(<<n>>) = {n}
        BY DEF ToSet
      <4>6. ASSUME NEW kind \in States
            PROVE  ToSet(Mark(Wanted(a)[kind])) \subseteq ToSet(overlay[e][kind])
        <5>1. CASE Wanted(a)[kind] = 0
          BY <4>4, <4>5, <5>1
        <5>2. CASE Wanted(a)[kind] # 0
          <6>1. kind \in {"active", "incident"}
            BY <4>2, <5>2 DEF States
          <6>2. Wanted(a)[kind] \in ToSet(overlay[e][kind])
            BY <4>3, <5>2, <6>1
          <6> QED BY <4>4, <4>5, <5>2, <6>2
        <5> QED BY <5>1, <5>2
      <4>7. ASSUME NEW kind \in States, e \notin onceToldOf
            PROVE  overlay[e][kind] = Mark(Wanted(a)[kind])
        <5>1. Wanted(a)[kind] = 0
          BY <4>2, <4>3, <4>7 DEF States
        <5> QED BY <4>3, <4>4, <4>7, <5>1 DEF Untold
      <4> QED BY <2>3, <3>3, <4>1, <4>6, <4>7
    <3> QED BY <3>2, <3>3
  <2> QED BY <2>1, <2>2, <2>3
<1>2. ASSUME MarksInv PROVE SuspensionsAreKnown
  BY <1>2 DEF MarksInv, TokensInv, DefinitionTokens, IsMarked, SuspensionsAreKnown
<1>3. ASSUME MarksInv PROVE MarkersAreKnown
  <2> SUFFICES ASSUME isDrawn, known # Absent, NEW e \in MarkedActivities, NEW a, a = known[e]
               PROVE  IF drawnFor = "instance"
                      THEN IF InHistory(a) \/ a.incidents > 0
                           THEN marker[e] = IF ~areShown THEN {}
                                            ELSE IF a.incidents > 0 THEN {"incident"} ELSE {MarkerOf(a)}
                           ELSE e \in onceToldOf \/ marker[e] = {}
                      ELSE IF areShown THEN marker[e] = {"incident"} <=> a.incidents > 0
                           ELSE marker[e] = {} \/ a.incidents > 0
    BY DEF MarkersAreKnown
  <2>1. IF drawnFor = "instance"
        THEN IF InHistory(a) \/ a.incidents > 0
             THEN marker[e] = Coloured({}, a, areShown)
             ELSE e \in onceToldOf \/ marker[e] = {}
        ELSE /\ areShown => marker[e] = IncidentsHighlighted({}, a)
             /\ ~areShown => marker[e] \subseteq IncidentsHighlighted({}, a)
    BY <1>3 DEF MarksInv, ColoursInv, IsMarked
  <2>2. CASE drawnFor = "instance"
    <3>1. areShown \in BOOLEAN
      BY <1>3 DEF MarksInv, MarksTypeOK
    <3>2. CASE InHistory(a) \/ a.incidents > 0
      <4>1. marker[e] = Coloured({}, a, areShown)
        BY <2>1, <2>2, <3>2
      <4>2. marker[e] = IF ~areShown THEN {} ELSE IF a.incidents > 0 THEN {"incident"} ELSE {MarkerOf(a)}
        BY <3>1, <3>2, <4>1 DEF Coloured
      <4> QED BY <2>2, <3>2, <4>2
    <3>3. CASE ~(InHistory(a) \/ a.incidents > 0)
      BY <2>1, <2>2, <3>3
    <3> QED BY <3>2, <3>3
  <2>3. CASE drawnFor # "instance"
    BY <2>1, <2>3 DEF IncidentsHighlighted
  <2> QED BY <2>2, <2>3
<1>4. ASSUME MarksInv PROVE OverlaysAreOwned
  BY <1>4 DEF MarksInv, CommandsOwned, TipsOwned, FadedInv, OverlaysAreOwned, Tips
<1>5. MarksInv => DiagramShowsWhatIsKnown
  BY <1>1, <1>2, <1>3, <1>4 DEF DiagramShowsWhatIsKnown
<1> QED BY <1>5, MarksInvariant, PTL
-----------------------------------------------------------------------------
(***************************************************************************)
(* Induction over numbers is induction over the intervals below them,      *)
(* which strict inclusion orders well; so are the elements of a finite set *)
(* that are above one of them.                                             *)
(***************************************************************************)

\* Numbers have a least one among them.
LEMMA LeastNatural ==
  ASSUME NEW B, B \subseteq Nat, B # {}
  PROVE  \E m \in B : \A n \in B : m <= n
<1> DEFINE Below(n) == 0 .. n
           T == {Below(n) : n \in B}
<1>1. IsWellFoundedOn(StrictSubsetOrdering(Nat), FiniteSubsetsOf(Nat))
  BY FS_StrictSubsetOrderingWellFounded
<1>2. ASSUME NEW n \in B PROVE Below(n) \in FiniteSubsetsOf(Nat)
  <2>1. n \in Nat /\ 0 \in Int /\ n \in Int
    OBVIOUS
  <2>2. IsFiniteSet(0 .. n)
    BY <2>1, FS_Interval
  <2> QED BY <2>1, <2>2 DEF FiniteSubsetsOf
<1>3. T \subseteq FiniteSubsetsOf(Nat) /\ T # {}
  BY <1>2
<1>4. \E x \in T : \A y \in T : ~ (<<y, x>> \in StrictSubsetOrdering(Nat))
  <2> HIDE DEF T
  <2> QED BY <1>1, <1>3, WFMin
<1>5. PICK m \in B : \A n \in B : ~ (<<Below(n), Below(m)>> \in StrictSubsetOrdering(Nat))
  BY <1>4
<1>6. ASSUME NEW n \in B, n < m PROVE FALSE
  <2>1. m \in Nat /\ n \in Nat
    OBVIOUS
  <2>2. Below(n) \subseteq Below(m) /\ Below(n) # Below(m) /\ Below(n) \in SUBSET Nat /\ Below(m) \in SUBSET Nat
    <3>1. m \in Below(m) /\ m \notin Below(n)
      BY <2>1, <1>6
    <3> QED BY <2>1, <3>1, <1>6
  <2> HIDE DEF Below
  <2>3. <<Below(n), Below(m)>> \in StrictSubsetOrdering(Nat)
    BY <2>2 DEF StrictSubsetOrdering
  <2> QED BY <1>5, <2>3
<1> QED BY <1>6

\* f is the sequences joined so far, step by step
Joins(f, seqs, n) ==
  /\ Len(seqs) = n /\ f \in [1 .. n -> {f[i] : i \in 1 .. n}]
  /\ f[1] = seqs[1] /\ \A i \in 2 .. n : f[i] = f[i - 1] \o seqs[i]

\* A sequence of sequences is flattened step by step, to what has the same steps.
LEMMA FlattenedBySteps ==
  ASSUME NEW seqs, NEW n \in Nat \ {0}, NEW f, Joins(f, seqs, n)
  PROVE  FlattenSeq(seqs) = f[n]
<1> DEFINE X == {f[i] : i \in 1 .. n}
<1>0. /\ Len(seqs) = n /\ f \in [1 .. n -> X]
      /\ f[1] = seqs[1] /\ \A i \in 2 .. n : f[i] = f[i - 1] \o seqs[i]
  BY DEF Joins
<1> HIDE DEF X
<1> DEFINE Steps(h) == [i \in 1 .. n |-> IF i = 1 THEN seqs[i] ELSE h[i - 1] \o seqs[i]]
<1>a. \A i \in 2 .. n : i \in 1 .. n /\ i # 1
  OBVIOUS
<1>b. \A i \in 1 .. n : i = 1 \/ i \in 2 .. n
  OBVIOUS
<1>1. f = Steps(f)
  BY <1>0, <1>b
<1>2. ASSUME NEW g, g = Steps(g) PROVE g = f
  <2> DEFINE h == Steps(g)
             Y == {h[i] : i \in 1 .. n}
  <2>0. 1 \in 1 .. n
    OBVIOUS
  <2>1. h[1] = seqs[1]
    <3> HIDE <1>1, <2>0
    <3>1. \A i \in 1 .. n : h[i] = IF i = 1 THEN seqs[i] ELSE g[i - 1] \o seqs[i]
      BY Zenon
    <3> QED BY <2>0, <3>1, Zenon
  <2>5. h \in [1 .. n -> Y]
    <3>1. h = [i \in 1 .. n |-> h[i]]
      BY Zenon
    <3> HIDE DEF h
    <3> QED BY <3>1, Zenon
  <2>2. \A i \in 2 .. n : h[i] = g[i - 1] \o seqs[i]
    BY <1>a, Zenon
  <2>3. g = h
    BY <1>2
  <2> HIDE DEF h, Y
  <2>4. \A i \in 1 .. n : h[i] = f[i]
    <3> SUFFICES ASSUME NEW j \in 1 .. n, h[j] # f[j] PROVE FALSE
      OBVIOUS
    <3> DEFINE B == {i \in 1 .. n : h[i] # f[i]}
    <3>1. B \subseteq Nat /\ j \in B
      OBVIOUS
    <3>2. PICK m \in B : \A i \in B : m <= i
      BY <3>1, LeastNatural
    <3>3. m \in 1 .. n /\ h[m] # f[m]
      OBVIOUS
    <3>4. m # 1
      BY <1>0, <3>3, <2>1
    <3>5. m \in 2 .. n /\ m - 1 \in 1 .. n /\ m - 1 \notin B
      BY <3>2, <3>3, <3>4
    <3>6. h[m - 1] = f[m - 1]
      BY <3>5
    <3> QED BY <1>0, <3>3, <3>5, <3>6, <2>2, <2>3
  <2> QED BY <1>0, <2>5, <2>3, <2>4
<1>3. FlattenSeq(seqs) = (CHOOSE g : g = Steps(g))[n]
  BY <1>0 DEF FlattenSeq
<1>4. (CHOOSE g : g = Steps(g)) = f
  <2> HIDE DEF Steps
  <2> QED BY <1>1, <1>2
<1> QED BY <1>3, <1>4

\* What the first has, and each has that comes after one that has it, all have.
LEMMA OneAfterTheOther ==
  ASSUME NEW n \in Nat, NEW G, n # 0 => 1 \in G, \A i \in 2 .. n : i - 1 \in G => i \in G
  PROVE  \A i \in 1 .. n : i \in G
<1> SUFFICES ASSUME NEW j \in 1 .. n, j \notin G PROVE FALSE
  OBVIOUS
<1> DEFINE B == {i \in 1 .. n : i \notin G}
<1>1. B \subseteq Nat /\ j \in B
  OBVIOUS
<1>2. PICK m \in B : \A i \in B : m <= i
  BY <1>1, LeastNatural
<1>3. m \in 1 .. n /\ m \notin G /\ m # 1
  OBVIOUS
<1>4. m \in 2 .. n /\ m - 1 \in 1 .. n /\ ~ (m <= m - 1)
  BY <1>3
<1>5. m - 1 \in G
  BY <1>2, <1>4
<1> QED BY <1>3, <1>4, <1>5

\* Joining ends: there is what is joined so far, step by step.
LEMMA JoiningEnds ==
  ASSUME NEW seqs, NEW n \in Nat \ {0}, Len(seqs) = n
  PROVE  \E f : Joins(f, seqs, n)
<1> DEFINE Upto(g, m) == /\ g = [i \in 1 .. m |-> g[i]] /\ g[1] = seqs[1]
                         /\ \A i \in 2 .. m : g[i] = g[i - 1] \o seqs[i]
           Can(m) == \E g : Upto(g, m)
           G == {m \in 1 .. n : Can(m)}
<1>1. Can(1)
  <2> DEFINE g == [i \in 1 .. 1 |-> seqs[i]]
  <2>1. g[1] = seqs[1] /\ g = [i \in 1 .. 1 |-> g[i]] /\ 2 .. 1 = {}
    OBVIOUS
  <2> HIDE DEF g
  <2> QED BY <2>1
<1>2. ASSUME NEW m \in 2 .. n, Can(m - 1) PROVE Can(m)
  <2>1. PICK g : Upto(g, m - 1)
    BY <1>2
  <2> DEFINE h == [i \in 1 .. m |-> IF i = m THEN g[m - 1] \o seqs[m] ELSE g[i]]
  <2>2. \A i \in 1 .. m : h[i] = IF i = m THEN g[m - 1] \o seqs[m] ELSE g[i]
    OBVIOUS
  <2>3. h = [i \in 1 .. m |-> h[i]]
    BY <2>2
  <2> HIDE DEF h
  <2>4. h[1] = seqs[1]
    <3>1. 1 \in 1 .. m /\ 1 # m
      OBVIOUS
    <3>2. g[1] = seqs[1]
      BY <2>1
    <3> QED BY <2>2, <3>1, <3>2
  <2>5. ASSUME NEW i \in 2 .. m PROVE h[i] = h[i - 1] \o seqs[i]
    <3>1. i \in 1 .. m /\ i - 1 \in 1 .. m /\ i - 1 # m
      OBVIOUS
    <3>2. h[i - 1] = g[i - 1]
      BY <2>2, <3>1
    <3>3. CASE i = m
      BY <2>2, <3>1, <3>2, <3>3
    <3>4. CASE i # m
      <4>1. i \in 2 .. m - 1
        BY <3>1, <3>4
      <4>2. g[i] = g[i - 1] \o seqs[i]
        BY <2>1, <4>1
      <4> QED BY <2>2, <3>1, <3>2, <3>4, <4>2
    <3> QED BY <3>3, <3>4
  <2>6. Upto(h, m)
    BY <2>3, <2>4, <2>5
  <2> HIDE DEF Upto
  <2> QED BY <2>6
<1> HIDE DEF Can
<1>3. 1 \in G /\ \A i \in 2 .. n : i - 1 \in G => i \in G
  BY <1>1, <1>2
<1>4. n \in 1 .. n
  OBVIOUS
<1>5. Can(n)
  <2> HIDE DEF G
  <2>1. n \in G
    BY <1>3, <1>4, OneAfterTheOther
  <2> QED BY <2>1 DEF G
<1>6. PICK f : Upto(f, n)
  BY <1>5 DEF Can
<1>7. f \in [1 .. n -> {f[i] : i \in 1 .. n}]
  BY <1>6
<1>8. Joins(f, seqs, n)
  BY <1>6, <1>7 DEF Joins
<1> QED BY <1>8

\* A finite set of numbers has a greatest (Max).
LEMMA MaxFacts ==
  ASSUME NEW S, S \subseteq Int, S # {}, IsFiniteSet(S)
  PROVE  Max(S) \in S /\ \A y \in S : Max(S) >= y
<1> DEFINE Above(n) == {y \in S : y > n}
           T == {Above(n) : n \in S}
<1>1. IsWellFoundedOn(StrictSubsetOrdering(S), FiniteSubsetsOf(S))
  BY FS_StrictSubsetOrderingWellFounded
<1>2. \A n \in S : Above(n) \in FiniteSubsetsOf(S)
  <2> SUFFICES ASSUME NEW n \in S PROVE Above(n) \in FiniteSubsetsOf(S)
    OBVIOUS
  <2>1. Above(n) \subseteq S
    OBVIOUS
  <2>2. IsFiniteSet(Above(n))
    BY <2>1, FS_Subset
  <2> QED BY <2>1, <2>2 DEF FiniteSubsetsOf
<1>3. T \subseteq FiniteSubsetsOf(S) /\ T # {}
  BY <1>2
<1>4. \E x \in T : \A y \in T : ~ (<<y, x>> \in StrictSubsetOrdering(S))
  <2> HIDE DEF T
  <2> QED BY <1>1, <1>3, WFMin
<1>5. PICK m \in S : \A n \in S : ~ (<<Above(n), Above(m)>> \in StrictSubsetOrdering(S))
  BY <1>4
<1>6. \A y \in S : m >= y
  <2> SUFFICES ASSUME NEW y \in S, y > m PROVE FALSE
    OBVIOUS
  <2>1. m \in Int /\ y \in Int
    OBVIOUS
  <2>2. y \in Above(m) /\ y \notin Above(y) /\ Above(y) \subseteq Above(m)
    <3>1. y \in Above(m) /\ y \notin Above(y)
      BY <2>1
    <3>2. ASSUME NEW z \in S, z > y PROVE z > m
      <4>1. z \in Int
        OBVIOUS
      <4> QED BY <2>1, <3>2, <4>1
    <3> QED BY <3>1, <3>2
  <2>3. Above(y) \in SUBSET S /\ Above(m) \in SUBSET S
    OBVIOUS
  <2> HIDE DEF Above
  <2>4. <<Above(y), Above(m)>> \in StrictSubsetOrdering(S)
    BY <2>2, <2>3 DEF StrictSubsetOrdering
  <2> QED BY <1>5, <2>4
<1> QED BY <1>6 DEF Max

\* How far it is to the end of each segment.
LEMMA CumulativeFacts ==
  ASSUME NEW segments \in Seq(Nat)
  PROVE  /\ CumulativeDistances(segments) \in [0 .. Len(segments) -> Nat]
         /\ CumulativeDistances(segments)[0] = 0
         /\ \A i \in 1 .. Len(segments) : CumulativeDistances(segments)[i]
                                          = CumulativeDistances(segments)[i - 1] + segments[i]
<1> DEFINE n == Len(segments)
           Steps(g) == [i \in 0 .. n |-> IF i = 0 THEN 0 ELSE g[i - 1] + segments[i]]
           Upto(g, m) == /\ g \in [0 .. n -> Nat] /\ g[0] = 0
                         /\ \A i \in 1 .. m : g[i] = g[i - 1] + segments[i]
           Can(m) == \E g : Upto(g, m)
           G == {m \in 1 .. n : Can(m)}
<1>1. n \in Nat /\ \A i \in 1 .. n : segments[i] \in Nat
  OBVIOUS
<1> HIDE DEF n
<1>2. Can(0)
  <2> DEFINE g == [i \in 0 .. n |-> 0]
  <2>1. g \in [0 .. n -> Nat] /\ g[0] = 0 /\ 1 .. 0 = {}
    BY <1>1
  <2> HIDE DEF g
  <2> QED BY <2>1
<1>3. ASSUME NEW m \in 1 .. n, Can(m - 1) PROVE Can(m)
  <2>1. PICK g : Upto(g, m - 1)
    BY <1>3
  <2>2. m \in 0 .. n /\ m - 1 \in 0 .. n /\ m # 0
    BY <1>1
  <2>3. g[m - 1] + segments[m] \in Nat
    BY <1>1, <2>1, <2>2
  <2> DEFINE h == [g EXCEPT ![m] = g[m - 1] + segments[m]]
  <2>4. h \in [0 .. n -> Nat] /\ \A i \in 0 .. n : h[i] = IF i = m THEN g[m - 1] + segments[m] ELSE g[i]
    BY <2>1, <2>2, <2>3
  <2> HIDE DEF h
  <2>5. ASSUME NEW i \in 1 .. m PROVE h[i] = h[i - 1] + segments[i]
    <3>1. i \in 0 .. n /\ i - 1 \in 0 .. n /\ i - 1 # m
      BY <1>1
    <3>2. CASE i = m
      BY <2>4, <3>1, <3>2
    <3>3. CASE i # m
      <4>1. i \in 1 .. m - 1
        BY <1>1, <3>3
      <4>2. g[i] = g[i - 1] + segments[i]
        BY <2>1, <4>1
      <4> QED BY <2>4, <3>1, <3>3, <4>2
    <3> QED BY <3>2, <3>3
  <2>6. h[0] = 0
    BY <1>1, <2>1, <2>2, <2>4
  <2>7. Upto(h, m)
    BY <2>4, <2>5, <2>6
  <2> HIDE DEF Upto
  <2> QED BY <2>7
<1>4. Can(n)
  <2> HIDE DEF Can
  <2>1. CASE n = 0
    BY <1>2, <2>1
  <2>2. CASE n # 0
    <3>1. 1 \in 1 .. n /\ n \in 1 .. n /\ 1 - 1 = 0 /\ \A i \in 2 .. n : i \in 1 .. n
      BY <1>1, <2>2
    <3>2. 1 \in G /\ \A i \in 2 .. n : i - 1 \in G => i \in G
      BY <1>2, <1>3, <3>1
    <3> HIDE DEF G
    <3>3. n \in G
      BY <1>1, <3>1, <3>2, OneAfterTheOther
    <3> QED BY <3>3 DEF G
  <2> QED BY <2>1, <2>2
<1>5. PICK f : Upto(f, n)
  BY <1>4
<1>6. f = Steps(f)
  <2>1. \A i \in 0 .. n : i = 0 \/ i \in 1 .. n
    BY <1>1
  <2>2. \A i \in 0 .. n : f[i] = Steps(f)[i]
    BY <1>5, <2>1
  <2> QED BY <1>5, <2>2
<1> DEFINE d == CHOOSE g : g = Steps(g)
<1>7. d = CumulativeDistances(segments)
  BY DEF CumulativeDistances, n
<1>8. d = Steps(d)
  <2> HIDE DEF Steps
  <2> QED BY <1>6
<1> HIDE DEF d
<1>9. DOMAIN d = 0 .. n /\ \A i \in 0 .. n : d[i] = IF i = 0 THEN 0 ELSE d[i - 1] + segments[i]
  <2>1. \A e : e = Steps(d) => /\ DOMAIN e = 0 .. n
                               /\ \A i \in 0 .. n : e[i] = IF i = 0 THEN 0 ELSE d[i - 1] + segments[i]
    OBVIOUS
  <2> HIDE DEF Steps
  <2> QED BY <1>8, <2>1
<1>10. \A i \in 0 .. n : d[i] = f[i]
  <2> SUFFICES ASSUME NEW j \in 0 .. n PROVE d[j] = f[j]
    OBVIOUS
  <2> DEFINE E == {i \in 1 .. n : d[i] = f[i]}
  <2>1. 0 \in 0 .. n /\ d[0] = f[0]
    BY <1>1, <1>5, <1>9
  <2>2. n # 0 => 1 \in E
    <3> SUFFICES ASSUME n # 0 PROVE 1 \in E
      OBVIOUS
    <3>1. 1 \in 1 .. n /\ 1 \in 0 .. n /\ 1 - 1 = 0 /\ 1 # 0
      BY <1>1
    <3> QED BY <1>5, <1>9, <2>1, <3>1
  <2>3. ASSUME NEW i \in 2 .. n, i - 1 \in E PROVE i \in E
    <3>1. i \in 1 .. n /\ i \in 0 .. n /\ i # 0
      BY <1>1
    <3> QED BY <1>5, <1>9, <2>3, <3>1
  <2> HIDE DEF E
  <2>4. \A i \in 1 .. n : i \in E
    BY <1>1, <2>2, <2>3, OneAfterTheOther
  <2>5. j = 0 \/ j \in 1 .. n
    BY <1>1
  <2> QED BY <2>1, <2>4, <2>5 DEF E
<1>11. d \in [0 .. n -> Nat]
  <2>1. d = [i \in 0 .. n |-> d[i]]
    <3>1. \A e : e = Steps(d) => e = [i \in 0 .. n |-> e[i]]
      OBVIOUS
    <3> HIDE DEF Steps
    <3> QED BY <1>8, <3>1
  <2> QED BY <1>5, <1>10, <2>1
<1>12. \A i \in 1 .. n : i \in 0 .. n /\ i # 0
  BY <1>1
<1> QED BY <1>1, <1>7, <1>9, <1>11, <1>12 DEF n

-----------------------------------------------------------------------------
(***************************************************************************)
(* The points of a flow, for any bends: joined segment by segment, they    *)
(* lead on from where the last segment ended.                              *)
(***************************************************************************)

\* The points lead from the start to that distance, a step at a time
Leads(points, to) ==
  /\ points \in Seq(Nat) /\ Len(points) >= 1
  /\ points[1] = 0 /\ points[Len(points)] = to
  /\ \A k \in 1 .. Len(points) - 1 : points[k + 1] - points[k] \in {0, 1}

\* What leads on is joined to it.
LEMMA LeadsOn ==
  ASSUME NEW p, NEW a \in Nat, Leads(p, a), NEW b \in Nat,
         NEW q, q = [j \in 1 .. (b + 1) |-> a + j - 1]
  PROVE  Leads(p \o q, a + b)
<1>1. q \in Seq(Nat) /\ Len(q) = b + 1 /\ \A j \in 1 .. b + 1 : q[j] = a + j - 1
  OBVIOUS
<1>2. p \in Seq(Nat) /\ Len(p) \in Nat /\ Len(p) >= 1
  BY DEF Leads
<1>3. /\ p \o q \in Seq(Nat) /\ Len(p \o q) = Len(p) + b + 1
      /\ \A j \in 1 .. Len(p) + b + 1 : (p \o q)[j] = IF j <= Len(p) THEN p[j] ELSE q[j - Len(p)]
  BY <1>1, <1>2, ConcatProperties
<1> DEFINE r == p \o q
           n == Len(p)
<1>4. /\ r \in Seq(Nat) /\ Len(r) = n + b + 1 /\ n \in Nat /\ n >= 1
      /\ \A j \in 1 .. n + b + 1 : r[j] = IF j <= n THEN p[j] ELSE q[j - n]
  BY <1>2, <1>3
<1>5. /\ p[1] = 0 /\ p[n] = a
      /\ \A k \in 1 .. n - 1 : p[k + 1] - p[k] \in {0, 1}
  BY DEF Leads
<1> HIDE DEF r, n
<1>6. r[1] = 0
  BY <1>4, <1>5
<1>7. \A j \in n + 1 .. n + b + 1 : r[j] = a + (j - n) - 1
  <2> SUFFICES ASSUME NEW j \in n + 1 .. n + b + 1 PROVE r[j] = a + (j - n) - 1
    OBVIOUS
  <2>1. j - n \in 1 .. b + 1 /\ j \in 1 .. n + b + 1 /\ ~ (j <= n)
    BY <1>4
  <2>2. r[j] = q[j - n]
    BY <1>4, <2>1
  <2> QED BY <1>1, <2>1, <2>2
<1>8. r[n + b + 1] = a + b
  BY <1>4, <1>7
<1>9. \A k \in 1 .. n + b : r[k + 1] - r[k] \in {0, 1}
  <2> SUFFICES ASSUME NEW k \in 1 .. n + b PROVE r[k + 1] - r[k] \in {0, 1}
    OBVIOUS
  <2>1. CASE k < n
    <3>1. k \in 1 .. n - 1 /\ k + 1 <= n /\ k \in 1 .. n + b + 1 /\ k + 1 \in 1 .. n + b + 1
      BY <1>4, <2>1
    <3>2. r[k] = p[k] /\ r[k + 1] = p[k + 1]
      BY <1>4, <3>1
    <3> QED BY <1>5, <3>1, <3>2
  <2>2. CASE k = n
    <3>1. r[k] = a
      BY <1>4, <1>5, <2>2
    <3>2. r[k + 1] = a
      BY <1>4, <1>7, <2>2
    <3> QED BY <3>1, <3>2
  <2>3. CASE k > n
    <3>1. k \in n + 1 .. n + b + 1 /\ k + 1 \in n + 1 .. n + b + 1
      BY <1>4, <2>3
    <3>2. r[k] = a + (k - n) - 1 /\ r[k + 1] = a + ((k + 1) - n) - 1
      BY <1>7, <3>1, Zenon
    <3> QED BY <1>4, <3>2
  <2> QED BY <1>4, <2>1, <2>2, <2>3
<1>10. Len(r) >= 1 /\ Len(r) = n + b + 1 /\ Len(r) - 1 = n + b
  BY <1>4
<1>11. Leads(r, a + b)
  BY <1>4, <1>6, <1>8, <1>9, <1>10 DEF Leads
<1> QED BY <1>11 DEF r

\* The points of a flow lead from one end to the other (generateSequenceFlowPoints).
LEMMA FlowPointsLead ==
  ASSUME NEW segments \in Seq(Nat \ {0}), segments # <<>>
  PROVE  Leads(FlowPoints(segments), LengthOf(segments))
<1> DEFINE n == Len(segments)
           d == CumulativeDistances(segments)
           seqs == [i \in DOMAIN segments |-> [j \in 1 .. (segments[i] + 1) |-> d[i - 1] + j - 1]]
<1>1. n \in Nat \ {0} /\ DOMAIN segments = 1 .. n /\ \A i \in 1 .. n : segments[i] \in Nat
  OBVIOUS
<1>2. segments \in Seq(Nat)
  OBVIOUS
<1>3. d \in [0 .. n -> Nat] /\ d[0] = 0 /\ \A i \in 1 .. n : d[i] = d[i - 1] + segments[i]
  BY <1>2, CumulativeFacts
<1> HIDE DEF n, d
<1>4. Len(seqs) = n /\ \A i \in 1 .. n : seqs[i] = [j \in 1 .. (segments[i] + 1) |-> d[i - 1] + j - 1]
  BY <1>1
<1>5. FlowPoints(segments) = FlattenSeq(seqs)
  BY DEF FlowPoints, d
<1> HIDE DEF seqs
<1>6. PICK f : Joins(f, seqs, n)
  BY <1>1, <1>4, JoiningEnds
<1>7. FlowPoints(segments) = f[n]
  BY <1>1, <1>5, <1>6, FlattenedBySteps
<1> DEFINE G == {i \in 1 .. n : Leads(f[i], d[i])}
<1>8. 1 \in 1 .. n /\ n \in 1 .. n /\ 1 - 1 = 0 /\ \A i \in 2 .. n : i \in 1 .. n
  BY <1>1
<1>9. 1 \in G
  <2> DEFINE b == segments[1]
             q == [j \in 1 .. (b + 1) |-> j - 1]
  <2>1. b \in Nat /\ d[1] = b
    BY <1>1, <1>3, <1>8
  <2>2. f[1] = [j \in 1 .. (b + 1) |-> d[0] + j - 1]
    BY <1>4, <1>6, <1>8 DEF Joins
  <2>3. f[1] = [j \in 1 .. (b + 1) |-> 0 + j - 1]
    BY <1>3, <2>2
  <2> HIDE DEF b
  <2>4. Leads(f[1], b)
    BY <2>1, <2>3 DEF Leads
  <2> QED BY <1>8, <2>1, <2>4
<1>10. ASSUME NEW i \in 2 .. n, i - 1 \in G PROVE i \in G
  <2>1. i - 1 \in 0 .. n /\ i \in 1 .. n
    BY <1>1
  <2>2. f[i] = f[i - 1] \o seqs[i]
    BY <1>6 DEF Joins
  <2>3. seqs[i] = [j \in 1 .. (segments[i] + 1) |-> d[i - 1] + j - 1]
    BY <1>4, <2>1
  <2>4. d[i - 1] \in Nat /\ segments[i] \in Nat /\ d[i] = d[i - 1] + segments[i]
    BY <1>1, <1>3, <2>1
  <2>5. Leads(f[i - 1], d[i - 1])
    BY <1>10
  <2>6. Leads(f[i - 1] \o seqs[i], d[i - 1] + segments[i])
    BY <2>3, <2>4, <2>5, LeadsOn
  <2> QED BY <2>1, <2>2, <2>4, <2>6
<1>11. n \in G
  <2> HIDE DEF G
  <2> QED BY <1>1, <1>8, <1>9, <1>10, OneAfterTheOther
<1>12. LengthOf(segments) = d[n]
  BY DEF LengthOf, d, n
<1> QED BY <1>7, <1>11, <1>12

-----------------------------------------------------------------------------
(***************************************************************************)
(* The scales.  Both are ladders of four rungs, on each of which the value *)
(* rises in a straight line to where the next begins (Ladder): so they     *)
(* rise throughout (LadderRises).                                          *)
(***************************************************************************)

Fractions == Nat \X (Nat \ {0})

\* Products of what is not negative are in the order of their factors.
LEMMA Products ==
  /\ \A a, b \in Int, c \in Nat : a <= b => a * c <= b * c
  /\ \A a, b \in Int, c \in Nat \ {0} : a * c <= b * c => a <= b
  /\ \A a, b \in Nat : a * b \in Nat
<1>1. ASSUME NEW a \in Int, NEW b \in Int, NEW c \in Nat, a <= b PROVE a * c <= b * c
  BY <1>1
<1>2. ASSUME NEW a \in Int, NEW b \in Int, NEW c \in Nat \ {0}, a * c <= b * c PROVE a <= b
  <2>1. CASE b < a
    <3>1. b + 1 <= a /\ b + 1 \in Int
      BY <2>1
    <3>2. (b + 1) * c <= a * c
      BY <3>1
    <3>3. (b + 1) * c = b * c + c
      OBVIOUS
    <3> QED BY <1>2, <3>2, <3>3
  <2> QED BY <2>1
<1>3. ASSUME NEW a \in Nat, NEW b \in Nat PROVE a * b \in Nat
  OBVIOUS
<1> QED BY <1>1, <1>2, <1>3

\* The order of fractions is one.
LEMMA LteTransitive ==
  ASSUME NEW x \in Fractions, NEW y \in Fractions, NEW z \in Fractions, Lte(x, y), Lte(y, z)
  PROVE  Lte(x, z)
<1>1. /\ x[1] \in Nat /\ y[1] \in Nat /\ z[1] \in Nat
      /\ x[2] \in Nat \ {0} /\ y[2] \in Nat \ {0} /\ z[2] \in Nat \ {0}
  BY DEF Fractions
<1> DEFINE a == x[1]  b == x[2]  c == y[1]  d == y[2]  e == z[1]  f == z[2]
<1>2. /\ a \in Nat /\ c \in Nat /\ e \in Nat
      /\ b \in Nat \ {0} /\ d \in Nat \ {0} /\ f \in Nat \ {0}
  BY <1>1
<1>3. a * d <= c * b /\ c * f <= e * d
  BY DEF Lte
<1> HIDE DEF a, b, c, d, e, f
<1>4. /\ a * d \in Int /\ c * b \in Int /\ c * f \in Int /\ e * d \in Int
      /\ a * f \in Int /\ e * b \in Int
  BY <1>2
<1>5. (a * d) * f <= (c * b) * f /\ (c * f) * b <= (e * d) * b
  BY <1>2, <1>3, <1>4, Products
<1>6. (a * d) * f = (a * f) * d /\ (c * b) * f = (c * f) * b /\ (e * d) * b = (e * b) * d
  BY <1>2
<1>7. (a * f) * d <= (e * b) * d
  <2>1. (a * f) * d \in Int /\ (c * f) * b \in Int /\ (e * b) * d \in Int
    BY <1>2
  <2> QED BY <1>5, <1>6, <2>1
<1>8. a * f <= e * b
  BY <1>2, <1>4, <1>7, Products
<1> QED BY <1>8 DEF Lte, a, b, e, f

\* On a rung a value is between its ends.
LEMMA WithinFacts ==
  ASSUME NEW s \in Nat, NEW e \in Nat, s <= e, NEW low \in Nat, NEW high \in Nat, low < high,
         NEW v \in low .. high
  PROVE  /\ Within(s, e, v, low, high) \in Fractions
         /\ Lte(<<s, 1>>, Within(s, e, v, low, high)) /\ Lte(Within(s, e, v, low, high), <<e, 1>>)
<1> DEFINE k == high - low
           d == e - s
           u == v - low
<1>1. k \in Nat \ {0} /\ d \in Nat /\ u \in Nat /\ u <= k /\ e = s + d
  OBVIOUS
<1>2. Within(s, e, v, low, high) = <<s * k + d * u, k>>
  BY DEF Within
<1> HIDE DEF k, d, u
<1>3. d * u \in Nat /\ d * k \in Nat /\ s * k \in Nat
  BY <1>1
<1>4. d * u <= d * k
  <2>1. u * d <= k * d /\ u * d = d * u /\ k * d = d * k
    BY <1>1, Products
  <2> QED BY <2>1
<1>5. e * k = s * k + d * k
  BY <1>1
<1>6. s * k + d * u \in Nat /\ s * k <= s * k + d * u /\ s * k + d * u <= e * k
  BY <1>3, <1>4, <1>5
<1> DEFINE w == s * k + d * u
<1>7. w \in Nat /\ s * k <= w * 1 /\ w * 1 <= e * k
  BY <1>3, <1>6
<1> HIDE DEF w
<1>8. Lte(<<s, 1>>, <<w, k>>) /\ Lte(<<w, k>>, <<e, 1>>)
  BY <1>1, <1>7 DEF Lte
<1> QED BY <1>1, <1>2, <1>7, <1>8 DEF w, Fractions

\* On a rung values rise.
LEMMA WithinRises ==
  ASSUME NEW s \in Nat, NEW e \in Nat, s <= e, NEW low \in Nat, NEW high \in Nat, low < high,
         NEW v \in low .. high, NEW w \in low .. high, v <= w
  PROVE  Lte(Within(s, e, v, low, high), Within(s, e, w, low, high))
<1> DEFINE k == high - low
           d == e - s
           u == v - low
           t == w - low
<1>1. k \in Nat \ {0} /\ d \in Nat /\ u \in Nat /\ t \in Nat /\ u <= t
  OBVIOUS
<1>2. Within(s, e, v, low, high) = <<s * k + d * u, k>> /\ Within(s, e, w, low, high) = <<s * k + d * t, k>>
  BY DEF Within
<1> HIDE DEF k, d, u, t
<1>3. u * d <= t * d /\ u * d = d * u /\ t * d = d * t /\ d * u \in Nat /\ d * t \in Nat /\ s * k \in Nat
  BY <1>1, Products
<1>4. s * k + d * u \in Nat /\ s * k + d * t \in Nat /\ s * k + d * u <= s * k + d * t
  BY <1>3
<1> DEFINE x == s * k + d * u
           y == s * k + d * t
<1>5. x \in Nat /\ y \in Nat /\ x <= y
  BY <1>4
<1> HIDE DEF x, y
<1>6. x * k <= y * k
  BY <1>1, <1>5, Products
<1> QED BY <1>2, <1>6 DEF Lte, x, y

\* A scale of four rungs
Rungs(l, m, h, top) == /\ l \in Nat \ {0} /\ m \in Nat /\ h \in Nat /\ top \in Nat
                       /\ l < m /\ m < h /\ h < top
Ladder(v, l, m, h, top) ==
  IF v = 0 THEN <<0, 1>>
  ELSE IF v >= top THEN <<100, 1>>
  ELSE IF v < l THEN Within(0, 10, v, 0, l)
  ELSE IF v < m THEN Within(10, 20, v, l, m)
  ELSE IF v < h THEN Within(20, 30, v, m, h)
  ELSE Within(30, 100, v, h, top)

\* Below each rung a value is below what it begins with, above it above.
LEMMA LadderFacts ==
  ASSUME NEW l, NEW m, NEW h, NEW top, Rungs(l, m, h, top), NEW v \in Nat
  PROVE  LET x == Ladder(v, l, m, h, top)
         IN /\ x \in Fractions /\ Lte(<<0, 1>>, x) /\ Lte(x, <<100, 1>>)
            /\ IF v < l THEN Lte(x, <<10, 1>>) ELSE Lte(<<10, 1>>, x)
            /\ IF v < m THEN Lte(x, <<20, 1>>) ELSE Lte(<<20, 1>>, x)
            /\ IF v < h THEN Lte(x, <<30, 1>>) ELSE Lte(<<30, 1>>, x)
            /\ v >= top => x = <<100, 1>>
<1> USE DEF Rungs
<1>0. \A s \in Nat : <<s, 1>> \in Fractions
  BY DEF Fractions
<1>1. \A s, t \in Nat : s <= t => Lte(<<s, 1>>, <<t, 1>>)
  BY DEF Lte
<1> DEFINE x == Ladder(v, l, m, h, top)
<1>2. ASSUME x \in Fractions, NEW s \in Nat, Lte(<<s, 1>>, x), NEW t \in Nat, t <= s
      PROVE  Lte(<<t, 1>>, x)
  <2> HIDE DEF x
  <2> QED BY <1>0, <1>1, <1>2, LteTransitive
<1>2a. ASSUME x \in Fractions, NEW e \in Nat, Lte(x, <<e, 1>>), NEW t \in Nat, e <= t
       PROVE  Lte(x, <<t, 1>>)
  <2> HIDE DEF x
  <2> QED BY <1>0, <1>1, <1>2a, LteTransitive
<1>3. CASE v = 0
  <2>1. x = <<0, 1>>
    BY <1>3 DEF Ladder
  <2>2. v < l /\ v < m /\ v < h /\ ~ (v >= top)
    BY <1>3
  <2> QED BY <1>0, <1>1, <2>1, <2>2
<1>4. CASE v # 0 /\ v >= top
  <2>1. x = <<100, 1>>
    BY <1>4 DEF Ladder
  <2>2. ~(v < l) /\ ~(v < m) /\ ~(v < h)
    BY <1>4
  <2> QED BY <1>0, <1>1, <2>1, <2>2
<1>5. CASE v # 0 /\ v < l
  <2>1. v \in 0 .. l /\ 0 < l /\ v < m /\ v < h /\ ~(v >= top)
    BY <1>5
  <2>2. x = Within(0, 10, v, 0, l)
    BY <1>5, <2>1 DEF Ladder
  <2>3. x \in Fractions /\ Lte(<<0, 1>>, x) /\ Lte(x, <<10, 1>>)
    BY <2>1, <2>2, WithinFacts
  <2>4. /\ \A t \in Nat : t <= 0 => Lte(<<t, 1>>, x)
        /\ \A t \in Nat : 10 <= t => Lte(x, <<t, 1>>)
    <3> HIDE DEF x
    <3>1. ASSUME NEW t \in Nat, t <= 0 PROVE Lte(<<t, 1>>, x)
      BY <1>2, <2>3, <3>1
    <3>2. ASSUME NEW t \in Nat, 10 <= t PROVE Lte(x, <<t, 1>>)
      BY <1>2a, <2>3, <3>2
    <3> QED BY <3>1, <3>2
  <2> QED BY <1>5, <2>1, <2>3, <2>4
<1>6. CASE v >= l /\ v < m
  <2>1. v \in l .. m /\ l < m /\ v # 0 /\ ~(v < l) /\ v < h /\ ~(v >= top)
    BY <1>6
  <2>2. x = Within(10, 20, v, l, m)
    BY <1>6, <2>1 DEF Ladder
  <2>3. x \in Fractions /\ Lte(<<10, 1>>, x) /\ Lte(x, <<20, 1>>)
    BY <2>1, <2>2, WithinFacts
  <2>4. /\ \A t \in Nat : t <= 10 => Lte(<<t, 1>>, x)
        /\ \A t \in Nat : 20 <= t => Lte(x, <<t, 1>>)
    <3> HIDE DEF x
    <3>1. ASSUME NEW t \in Nat, t <= 10 PROVE Lte(<<t, 1>>, x)
      BY <1>2, <2>3, <3>1
    <3>2. ASSUME NEW t \in Nat, 20 <= t PROVE Lte(x, <<t, 1>>)
      BY <1>2a, <2>3, <3>2
    <3> QED BY <3>1, <3>2
  <2> QED BY <1>6, <2>1, <2>3, <2>4
<1>7. CASE v >= m /\ v < h
  <2>1. v \in m .. h /\ m < h /\ v # 0 /\ ~(v < l) /\ ~(v < m) /\ ~(v >= top)
    BY <1>7
  <2>2. x = Within(20, 30, v, m, h)
    BY <1>7, <2>1 DEF Ladder
  <2>3. x \in Fractions /\ Lte(<<20, 1>>, x) /\ Lte(x, <<30, 1>>)
    BY <2>1, <2>2, WithinFacts
  <2>4. /\ \A t \in Nat : t <= 20 => Lte(<<t, 1>>, x)
        /\ \A t \in Nat : 30 <= t => Lte(x, <<t, 1>>)
    <3> HIDE DEF x
    <3>1. ASSUME NEW t \in Nat, t <= 20 PROVE Lte(<<t, 1>>, x)
      BY <1>2, <2>3, <3>1
    <3>2. ASSUME NEW t \in Nat, 30 <= t PROVE Lte(x, <<t, 1>>)
      BY <1>2a, <2>3, <3>2
    <3> QED BY <3>1, <3>2
  <2> QED BY <1>7, <2>1, <2>3, <2>4
<1>8. CASE v >= h /\ v < top
  <2>1. v \in h .. top /\ h < top /\ v # 0 /\ ~(v < l) /\ ~(v < m) /\ ~(v < h) /\ ~(v >= top)
    BY <1>8
  <2>2. x = Within(30, 100, v, h, top)
    BY <1>8, <2>1 DEF Ladder
  <2>3. x \in Fractions /\ Lte(<<30, 1>>, x) /\ Lte(x, <<100, 1>>)
    BY <2>1, <2>2, WithinFacts
  <2>4. /\ \A t \in Nat : t <= 30 => Lte(<<t, 1>>, x)
        /\ \A t \in Nat : 100 <= t => Lte(x, <<t, 1>>)
    <3> HIDE DEF x
    <3>1. ASSUME NEW t \in Nat, t <= 30 PROVE Lte(<<t, 1>>, x)
      BY <1>2, <2>3, <3>1
    <3>2. ASSUME NEW t \in Nat, 100 <= t PROVE Lte(x, <<t, 1>>)
      BY <1>2a, <2>3, <3>2
    <3> QED BY <3>1, <3>2
  <2> QED BY <1>8, <2>1, <2>3, <2>4
<1> QED BY <1>3, <1>4, <1>5, <1>6, <1>7, <1>8

\* A ladder rises.
LEMMA LadderRises ==
  ASSUME NEW l, NEW m, NEW h, NEW top, Rungs(l, m, h, top), NEW a \in Nat, NEW b \in Nat, a <= b
  PROVE  Lte(Ladder(a, l, m, h, top), Ladder(b, l, m, h, top))
<1> USE DEF Rungs
<1> DEFINE x == Ladder(a, l, m, h, top)
           y == Ladder(b, l, m, h, top)
<1>0. \A s \in Nat : <<s, 1>> \in Fractions
  BY DEF Fractions
<1>1. /\ x \in Fractions /\ Lte(<<0, 1>>, x) /\ Lte(x, <<100, 1>>)
      /\ IF a < l THEN Lte(x, <<10, 1>>) ELSE Lte(<<10, 1>>, x)
      /\ IF a < m THEN Lte(x, <<20, 1>>) ELSE Lte(<<20, 1>>, x)
      /\ IF a < h THEN Lte(x, <<30, 1>>) ELSE Lte(<<30, 1>>, x)
  BY LadderFacts
<1>2. /\ y \in Fractions /\ Lte(<<0, 1>>, y)
      /\ IF b < l THEN Lte(y, <<10, 1>>) ELSE Lte(<<10, 1>>, y)
      /\ IF b < m THEN Lte(y, <<20, 1>>) ELSE Lte(<<20, 1>>, y)
      /\ IF b < h THEN Lte(y, <<30, 1>>) ELSE Lte(<<30, 1>>, y)
      /\ b >= top => y = <<100, 1>>
  BY LadderFacts
<1>3. ASSUME NEW s \in Nat, Lte(x, <<s, 1>>), Lte(<<s, 1>>, y) PROVE Lte(x, y)
  <2> HIDE DEF x, y
  <2> QED BY <1>0, <1>1, <1>2, <1>3, LteTransitive
<1>4. CASE a = 0
  <2>1. x = <<0, 1>>
    BY <1>4 DEF Ladder
  <2> QED BY <1>2, <2>1
<1>5. CASE b >= top
  <2>1. y = <<100, 1>>
    BY <1>2, <1>5
  <2> QED BY <1>1, <2>1
<1>6. CASE a # 0 /\ b < top
  <2>1. CASE b < l
    <3>1. x = Within(0, 10, a, 0, l) /\ y = Within(0, 10, b, 0, l)
      BY <1>6, <2>1 DEF Ladder
    <3>2. a \in 0 .. l /\ b \in 0 .. l /\ 0 < l
      BY <2>1
    <3> QED BY <3>1, <3>2, WithinRises
  <2>2. CASE a < l /\ ~(b < l)
    <3> QED BY <1>1, <1>2, <1>3, <2>2
  <2>3. CASE ~(a < l) /\ b < m
    <3>1. a \in l .. m /\ b \in l .. m /\ l < m /\ ~(b < l) /\ a < m /\ b # 0 /\ ~(a >= top) /\ ~(b >= top)
      BY <2>3
    <3>2. x = Within(10, 20, a, l, m) /\ y = Within(10, 20, b, l, m)
      BY <1>6, <2>3, <3>1 DEF Ladder
    <3> QED BY <3>1, <3>2, WithinRises
  <2>4. CASE a < m /\ ~(b < m)
    <3> QED BY <1>1, <1>2, <1>3, <2>4
  <2>5. CASE ~(a < m) /\ b < h
    <3>1. a \in m .. h /\ b \in m .. h /\ m < h /\ ~(b < m) /\ ~(a < l) /\ ~(b < l) /\ a < h /\ b # 0
          /\ ~(a >= top) /\ ~(b >= top)
      BY <2>5
    <3>2. x = Within(20, 30, a, m, h) /\ y = Within(20, 30, b, m, h)
      BY <1>6, <2>5, <3>1 DEF Ladder
    <3> QED BY <3>1, <3>2, WithinRises
  <2>6. CASE a < h /\ ~(b < h)
    <3> QED BY <1>1, <1>2, <1>3, <2>6
  <2>7. CASE ~(a < h)
    <3>1. a \in h .. top /\ b \in h .. top /\ h < top /\ ~(b < h) /\ ~(a < l) /\ ~(b < l)
          /\ ~(a < m) /\ ~(b < m) /\ b # 0 /\ ~(a >= top) /\ ~(b >= top)
      BY <1>6, <2>7
    <3>2. x = Within(30, 100, a, h, top) /\ y = Within(30, 100, b, h, top)
      BY <1>6, <2>7, <3>1 DEF Ladder
    <3> QED BY <3>1, <3>2, WithinRises
  <2>8. (~(b < l) \/ b < l) /\ (b < l => a < l) /\ (b < m => a < m) /\ (b < h => a < h)
    OBVIOUS
  <2> QED BY <2>1, <2>2, <2>3, <2>4, <2>5, <2>6, <2>7, <2>8
<1>7. a = 0 \/ b >= top \/ (a # 0 /\ b < top)
  OBVIOUS
<1> QED BY <1>4, <1>5, <1>6, <1>7

-----------------------------------------------------------------------------
(***************************************************************************)
(* How hot the nodes are.  The highest value is the top of the ladder, so  *)
(* no node is above it.                                                    *)
(***************************************************************************)

HeatData == [HeatNodes -> [count : Nat, duration : Nat]]

\* The greater of two (Math.max).
LEMMA MaxOfTwo ==
  ASSUME NEW a \in Int, NEW b \in Int
  PROVE  Max({a, b}) = IF a < b THEN b ELSE a
<1> DEFINE w == IF a < b THEN b ELSE a
<1>1. /\ w \in {a, b} /\ \A y \in {a, b} : w >= y
      /\ \A x \in {a, b} : (\A y \in {a, b} : x >= y) => x = w
  OBVIOUS
<1> HIDE DEF w
<1>2. Max({a, b}) = w
  BY <1>1 DEF Max
<1> QED BY <1>2 DEF w

\* The values of the data are not negative.
LEMMA HeatValueFacts ==
  ASSUME NEW data \in HeatData, NEW viewBy, NEW e
  PROVE  HeatValue(data, viewBy, e) \in Nat
<1>1. CASE e \notin HeatNodes \/ data[e].count = 0
  BY <1>1 DEF HeatValue
<1>2. CASE ~(e \notin HeatNodes \/ data[e].count = 0)
  <2>1. data[e].count \in Nat \ {0} /\ data[e].duration \in Nat
    BY <1>2 DEF HeatData
  <2>2. data[e].duration \div data[e].count \in Nat
    BY <2>1
  <2> QED BY <1>2, <2>1, <2>2 DEF HeatValue
<1> QED BY <1>1, <1>2

\* No value is higher than the highest.
LEMMA HighestFacts ==
  ASSUME NEW data \in HeatData, NEW viewBy
  PROVE  /\ HighestValue(data, viewBy) \in Nat /\ HighestValue(data, viewBy) >= 100
         /\ \A e \in HeatNodes : HeatValue(data, viewBy, e) <= HighestValue(data, viewBy)
<1> DEFINE V == {HeatValue(data, viewBy, e) : e \in HeatNodes}
           S == V \union {100}
<1>1. IsFiniteSet(HeatNodes)
  BY HeatPointsAssumption
<1>2. V \subseteq Nat
  BY HeatValueFacts
<1>3. IsFiniteSet(V)
  <2> DEFINE f == [e \in HeatNodes |-> HeatValue(data, viewBy, e)]
  <2>1. f \in Surjection(HeatNodes, V)
    BY DEF Surjection
  <2> HIDE DEF f, V
  <2> QED BY <1>1, <2>1, FS_Surjection
<1> HIDE DEF V
<1>4. IsFiniteSet(S)
  <2>1. IsFiniteSet({100})
    BY FS_Singleton
  <2> QED BY <1>3, <2>1, FS_Union
<1>5. S \subseteq Nat /\ S \subseteq Int /\ S # {} /\ 100 \in S
  BY <1>2
<1> HIDE DEF S
<1>6. Max(S) \in S /\ \A y \in S : Max(S) >= y
  BY <1>4, <1>5, MaxFacts
<1>7. HighestValue(data, viewBy) = Max(S)
  BY DEF HighestValue, S, V
<1>8. \A e \in HeatNodes : HeatValue(data, viewBy, e) \in S
  BY DEF S, V
<1>9. \A e \in HeatNodes : HeatValue(data, viewBy, e) <= Max(S)
  <2> SUFFICES ASSUME NEW e \in HeatNodes PROVE HeatValue(data, viewBy, e) <= Max(S)
    OBVIOUS
  <2> DEFINE v == HeatValue(data, viewBy, e)
  <2>1. v \in S
    BY <1>8
  <2> HIDE DEF v
  <2>2. Max(S) >= v /\ v \in Nat /\ Max(S) \in Nat
    BY <1>5, <1>6, <2>1
  <2> QED BY <2>2 DEF v
<1> QED BY <1>5, <1>6, <1>7, <1>9

\* Counts are scaled on a ladder (scaleCountValue).
LEMMA CountLadder ==
  ASSUME NEW M \in Nat, M >= 100
  PROVE  /\ Rungs(M \div 4, M \div 2, (3 * M) \div 4, M)
         /\ \A v \in 0 .. M : ScaleCountValue(v, M)
                              = Ladder(v, M \div 4, M \div 2, (3 * M) \div 4, M)
<1> DEFINE l == M \div 4
           m == M \div 2
           h == (3 * M) \div 4
<1>1. l \in Nat \ {0} /\ m \in Nat /\ h \in Nat /\ l < m /\ m < h /\ h < M
  OBVIOUS
<1>2. ASSUME NEW v \in 0 .. M
      PROVE  ScaleCountValue(v, M) = CASE v = 0 -> <<0, 1>>
                                       [] v > 0 /\ v >= M -> <<100, 1>>
                                       [] v \in 1..(l - 1) -> Within(0, 10, v, 0, l)
                                       [] v \in l..(m - 1) -> Within(10, 20, v, l, m)
                                       [] v \in m..(h - 1) -> Within(20, 30, v, m, h)
                                       [] v \in h..(M - 1) -> Within(30, 100, v, h, M)
  BY DEF ScaleCountValue
<1> HIDE DEF l, m, h
<1>3. ASSUME NEW v \in 0 .. M PROVE ScaleCountValue(v, M) = Ladder(v, l, m, h, M)
  <2>1. v \in Nat
    OBVIOUS
  <2>2. CASE v = 0
    BY <1>1, <1>2, <2>1, <2>2 DEF Ladder
  <2>3. CASE v # 0 /\ v >= M
    BY <1>1, <1>2, <2>1, <2>3 DEF Ladder
  <2>4. CASE v # 0 /\ v < l
    BY <1>1, <1>2, <2>1, <2>4 DEF Ladder
  <2>5. CASE v >= l /\ v < m
    BY <1>1, <1>2, <2>1, <2>5 DEF Ladder
  <2>6. CASE v >= m /\ v < h
    BY <1>1, <1>2, <2>1, <2>6 DEF Ladder
  <2>7. CASE v >= h /\ v < M
    BY <1>1, <1>2, <2>1, <2>7 DEF Ladder
  <2> QED BY <1>1, <2>1, <2>2, <2>3, <2>4, <2>5, <2>6, <2>7
<1>4. Rungs(l, m, h, M)
  BY <1>1 DEF Rungs
<1> QED BY <1>3, <1>4 DEF l, m, h

\* Durations are scaled on a ladder (scaleDurationValue).
LEMMA DurationLadder ==
  ASSUME NEW M \in Nat, M > HeatHour
  PROVE  /\ Rungs(HeatSecond, HeatMinute, HeatHour, M)
         /\ \A v \in 0 .. M : ScaleDurationValue(v, M)
                              = Ladder(v, HeatSecond, HeatMinute, HeatHour, M)
<1> DEFINE l == HeatSecond
           m == HeatMinute
           h == HeatHour
<1>1. l \in Nat \ {0} /\ m \in Nat /\ h \in Nat /\ l < m /\ m < h /\ h < M
  BY HeatPointsAssumption
<1>2. ASSUME NEW v \in 0 .. M
      PROVE  ScaleDurationValue(v, M) = CASE v = 0 -> <<0, 1>>
                                          [] v >= M -> <<100, 1>>
                                          [] v > 0 /\ v < l -> Within(0, 10, v, 0, l)
                                          [] v \in l..(m - 1) -> Within(10, 20, v, l, m)
                                          [] v \in m..(h - 1) -> Within(20, 30, v, m, h)
                                          [] v \in h..(M - 1) -> Within(30, 100, v, h, M)
  BY DEF ScaleDurationValue
<1> HIDE DEF l, m, h
<1>3. ASSUME NEW v \in 0 .. M PROVE ScaleDurationValue(v, M) = Ladder(v, l, m, h, M)
  <2>1. v \in Nat
    OBVIOUS
  <2>2. CASE v = 0
    BY <1>1, <1>2, <2>1, <2>2 DEF Ladder
  <2>3. CASE v # 0 /\ v >= M
    BY <1>1, <1>2, <2>1, <2>3 DEF Ladder
  <2>4. CASE v # 0 /\ v < l
    BY <1>1, <1>2, <2>1, <2>4 DEF Ladder
  <2>5. CASE v >= l /\ v < m
    BY <1>1, <1>2, <2>1, <2>5 DEF Ladder
  <2>6. CASE v >= m /\ v < h
    BY <1>1, <1>2, <2>1, <2>6 DEF Ladder
  <2>7. CASE v >= h /\ v < M
    BY <1>1, <1>2, <2>1, <2>7 DEF Ladder
  <2> QED BY <1>1, <2>1, <2>2, <2>3, <2>4, <2>5, <2>6, <2>7
<1>4. Rungs(l, m, h, M)
  BY <1>1 DEF Rungs
<1> QED BY <1>3, <1>4 DEF l, m, h

\* The nodes of one rendering are on one ladder.
LEMMA NormalizedOnLadder ==
  ASSUME NEW data \in HeatData, NEW viewBy \in {"count", "timeSpent"}
  PROVE  \E l, m, h, top : /\ Rungs(l, m, h, top)
                           /\ \A e \in HeatNodes :
                                Normalized(data, viewBy, e)
                                = Ladder(HeatValue(data, viewBy, e), l, m, h, top)
<1> DEFINE highest == HighestValue(data, viewBy)
           value(e) == HeatValue(data, viewBy, e)
<1>1. highest \in Nat /\ highest >= 100 /\ \A e \in HeatNodes : value(e) <= highest /\ value(e) \in Nat
  BY HighestFacts, HeatValueFacts
<1> HIDE DEF highest, value
<1>2. CASE viewBy = "count"
  <2>1. \A e \in HeatNodes : Normalized(data, viewBy, e) = ScaleCountValue(value(e), highest)
    BY <1>2 DEF Normalized, highest, value
  <2>2. \A e \in HeatNodes : value(e) \in 0 .. highest
    BY <1>1
  <2>3. /\ Rungs(highest \div 4, highest \div 2, (3 * highest) \div 4, highest)
        /\ \A v \in 0 .. highest : ScaleCountValue(v, highest)
             = Ladder(v, highest \div 4, highest \div 2, (3 * highest) \div 4, highest)
    BY <1>1, CountLadder
  <2>4. \A e \in HeatNodes : Normalized(data, viewBy, e)
          = Ladder(value(e), highest \div 4, highest \div 2, (3 * highest) \div 4, highest)
    BY <2>1, <2>2, <2>3, Zenon
  <2> QED BY <2>3, <2>4, Zenon DEF value
<1>3. CASE viewBy # "count"
  <2> DEFINE M == Max({100 * HeatHour, highest})
  <2>1. \A e \in HeatNodes : Normalized(data, viewBy, e) = ScaleDurationValue(value(e), M)
    BY <1>3 DEF Normalized, highest, value
  <2>2. M \in Nat /\ M > HeatHour /\ M >= highest
    <3>1. HeatHour \in Nat /\ HeatHour > 0
      BY HeatPointsAssumption
    <3>2. 100 * HeatHour \in Int /\ 100 * HeatHour > HeatHour
      BY <3>1
    <3>3. M = IF 100 * HeatHour < highest THEN highest ELSE 100 * HeatHour
      BY <1>1, <3>2, MaxOfTwo
    <3> HIDE DEF M
    <3> QED BY <1>1, <3>1, <3>2, <3>3
  <2> HIDE DEF M
  <2>3. \A e \in HeatNodes : value(e) \in 0 .. M
    BY <1>1, <2>2
  <2>4. /\ Rungs(HeatSecond, HeatMinute, HeatHour, M)
        /\ \A v \in 0 .. M : ScaleDurationValue(v, M)
                             = Ladder(v, HeatSecond, HeatMinute, HeatHour, M)
    BY <2>2, DurationLadder
  <2>5. \A e \in HeatNodes : Normalized(data, viewBy, e)
                             = Ladder(value(e), HeatSecond, HeatMinute, HeatHour, M)
    BY <2>1, <2>3, <2>4, Zenon
  <2> QED BY <2>4, <2>5, Zenon DEF value
<1> QED BY <1>2, <1>3

\* From 0 to 100, and in order.
LEMMA NormalizedFacts ==
  ASSUME NEW data \in HeatData, NEW viewBy \in {"count", "timeSpent"},
         NEW a \in HeatNodes, NEW b \in HeatNodes
  PROVE  /\ Normalized(data, viewBy, a) \in Fractions
         /\ Lte(<<0, 1>>, Normalized(data, viewBy, a)) /\ Lte(Normalized(data, viewBy, a), <<100, 1>>)
         /\ HeatValue(data, viewBy, a) <= HeatValue(data, viewBy, b) =>
              Lte(Normalized(data, viewBy, a), Normalized(data, viewBy, b))
<1>1. PICK l, m, h, top : /\ Rungs(l, m, h, top)
                          /\ \A e \in HeatNodes : Normalized(data, viewBy, e)
                                                  = Ladder(HeatValue(data, viewBy, e), l, m, h, top)
  BY NormalizedOnLadder
<1> DEFINE u == HeatValue(data, viewBy, a)
           v == HeatValue(data, viewBy, b)
<1>2. u \in Nat /\ v \in Nat
  BY HeatValueFacts
<1>3. /\ Normalized(data, viewBy, a) = Ladder(u, l, m, h, top)
      /\ Normalized(data, viewBy, b) = Ladder(v, l, m, h, top)
  BY <1>1
<1> HIDE DEF u, v
<1>4. /\ Ladder(u, l, m, h, top) \in Fractions
      /\ Lte(<<0, 1>>, Ladder(u, l, m, h, top)) /\ Lte(Ladder(u, l, m, h, top), <<100, 1>>)
  BY <1>1, <1>2, LadderFacts
<1>5. u <= v => Lte(Ladder(u, l, m, h, top), Ladder(v, l, m, h, top))
  BY <1>1, <1>2, LadderRises
<1> QED BY <1>3, <1>4, <1>5 DEF u, v

\* The centre of a shape is hotter than its rim and than the end of a flow.
LEMMA PeakFacts ==
  ASSUME NEW x \in Fractions
  PROVE  Lte(<<0, 1>>, Peak(x)) /\ Lte(<<2, 1>>, Peak(x)) /\ Lte(FlowEnd(x), Peak(x))
<1> DEFINE a == x[1]  b == x[2]
<1>1. a \in Nat /\ b \in Nat \ {0}
  BY DEF Fractions
<1>2. Peak(x) = <<2 * a + 10 * b, b>>
  BY DEF Peak
<1>3. x = <<a, b>>
  BY DEF Fractions
<1> HIDE DEF a, b
<1>4. Lte(<<0, 1>>, Peak(x)) /\ Lte(<<2, 1>>, Peak(x)) /\ Lte(<<5, 1>>, Peak(x))
  BY <1>1, <1>2 DEF Lte
<1>5. Lte(x, Peak(x))
  <2>1. a <= 2 * a + 10 * b /\ 2 * a + 10 * b \in Int
    BY <1>1
  <2>2. a * b <= (2 * a + 10 * b) * b
    BY <1>1, <2>1, Products
  <2> QED BY <1>2, <1>3, <2>2 DEF Lte
<1> QED BY <1>4, <1>5 DEF FlowEnd

-----------------------------------------------------------------------------
(***************************************************************************)
(* The grid of points over a shape, for any number of spacings: its middle *)
(* is the point or the four points next to the centre.                     *)
(***************************************************************************)

\* A point of the grid and its mirror image, as far from the centre as a corner at most.
LEMMA GridFacts ==
  ASSUME NEW s \in Nat, s >= 3, NEW p \in Grid(s)
  PROVE  /\ p = <<p[1], p[2]>> /\ p[1] \in Int /\ p[2] \in Int
         /\ p[1] * p[1] \in 0 .. (s - 1) * (s - 1) /\ p[2] * p[2] \in 0 .. (s - 1) * (s - 1)
         /\ <<-p[1], -p[2]>> \in Grid(s)
<1> DEFINE h == s - 1
<1>1. PICK i \in 0 .. h, j \in 0 .. h : p = <<2 * i - h, 2 * j - h>>
  BY DEF Grid
<1>2. h \in Nat /\ h >= 2
  OBVIOUS
<1>3. ASSUME NEW k \in 0 .. h PROVE (2 * k - h) * (2 * k - h) \in 0 .. h * h
  <2> DEFINE a == 2 * k - h
  <2>1. a \in Int /\ a <= h /\ -h <= a
    BY <1>2
  <2> HIDE DEF a, h
  <2>2. CASE a >= 0
    <3>1. a \in Nat /\ a * a <= h * a /\ a * h <= h * h /\ a * h = h * a
      BY <1>2, <2>1, <2>2, Products
    <3>2. a * a \in Nat /\ h * h \in Nat /\ h * a \in Nat
      BY <1>2, <3>1
    <3> QED BY <3>1, <3>2 DEF a
  <2>3. CASE a < 0
    <3> DEFINE b == -a
    <3>1. b \in Nat /\ b <= h /\ a * a = b * b
      BY <1>2, <2>1, <2>3
    <3> HIDE DEF b
    <3>2. b * b <= h * b /\ b * h <= h * h /\ b * h = h * b
      BY <1>2, <3>1, Products
    <3>3. b * b \in Nat /\ h * h \in Nat /\ h * b \in Nat
      BY <1>2, <3>1
    <3>4. b * b \in 0 .. h * h
      BY <3>2, <3>3
    <3> QED BY <3>1, <3>4 DEF a
  <2> QED BY <2>1, <2>2, <2>3
<1>4. p[1] = 2 * i - h /\ p[2] = 2 * j - h
  BY <1>1
<1>5. <<-p[1], -p[2]>> \in Grid(s)
  <2>1. h - i \in 0 .. s - 1 /\ h - j \in 0 .. s - 1
    BY <1>2
  <2>2. -p[1] = 2 * (h - i) - (s - 1) /\ -p[2] = 2 * (h - j) - (s - 1)
    BY <1>4
  <2> DEFINE u == h - i
             v == h - j
  <2>3. /\ u \in 0 .. s - 1 /\ v \in 0 .. s - 1
        /\ <<-p[1], -p[2]>> = <<2 * u - (s - 1), 2 * v - (s - 1)>>
    BY <2>1, <2>2
  <2> HIDE DEF u, v
  <2> QED BY <2>3 DEF Grid
<1> QED BY <1>1, <1>3, <1>4, <1>5

\* The points are evenly about the centre, the first next to it
EvenlyAbout(points) ==
  /\ \E p \in points : Lte(p.cold, <<1, 4>>)
  /\ \A p \in points : Lte(p.cold, <<1, 1>>) /\ \E q \in points : q.at = <<-p.at[1], -p.at[2]>>

\* A shape has points, evenly about its centre (generateTaskPoints and the others).
LEMMA ShapesEven ==
  ASSUME NEW n \in Nat, NEW e, HeatTypes[e] \in {"Task", "Event", "Gateway"}
  PROVE  EvenlyAbout(ShapePoints(e, n))
<1> DEFINE s == GridSize(n)
           h == s - 1
           Point(p) == [at |-> p, cold |-> <<p[1] * p[1] + p[2] * p[2], 2 * h * h>>]
           In(p) == Inside(HeatTypes[e], p, h)
<1>1. s \in Nat /\ s >= 3
  <2>1. s = IF 3 < n THEN n ELSE 3
    BY MaxOfTwo DEF GridSize
  <2> QED BY <2>1
<1>2. ShapePoints(e, n) = {Point(p) : p \in {p \in Grid(s) : In(p)}}
  BY DEF ShapePoints
<1>3. ASSUME NEW p
      PROVE  In(p) <=> \/ HeatTypes[e] = "Task"
                       \/ HeatTypes[e] = "Event" /\ p[1] * p[1] + p[2] * p[2] <= h * h
                       \/ HeatTypes[e] = "Gateway" /\ Abs(p[1]) + Abs(p[2]) <= h
  BY DEF Inside
<1>4. h \in Nat /\ h >= 2
  BY <1>1
<1> HIDE DEF s
<1>5. PICK c \in {0, 1}, i \in 0 .. h : 2 * i - h = c /\ (c = 1 => h >= 3)
  <2>1. CASE h % 2 = 0
    <3>1. h \div 2 \in 0 .. h /\ 2 * (h \div 2) - h = 0
      BY <1>4, <2>1
    <3> QED BY <3>1
  <2>2. CASE h % 2 = 1
    <3>1. (h + 1) \div 2 \in 0 .. h /\ 2 * ((h + 1) \div 2) - h = 1 /\ h >= 3
      BY <1>4, <2>2
    <3> QED BY <3>1
  <2> QED BY <1>4, <2>1, <2>2
<1> DEFINE m == <<c, c>>
<1>6. m \in Grid(s) /\ m[1] = c /\ m[2] = c
  <2>1. m = <<2 * i - (s - 1), 2 * i - (s - 1)>>
    BY <1>5
  <2>2. m \in Grid(s)
    BY <2>1 DEF Grid
  <2> QED BY <2>2
<1>7. c * c + c * c = 2 * c /\ 2 * c <= h /\ 2 * c <= h * h /\ 4 * (2 * c) <= 2 * (h * h)
  <2>1. h * h >= 2 * h
    BY <1>4, Products
  <2>2. c = 1 => h * h >= 3 * h
    BY <1>4, <1>5, Products
  <2>3. h * h \in Nat
    BY <1>4
  <2> HIDE DEF h
  <2> QED BY <1>4, <1>5, <2>1, <2>2, <2>3
<1>8. In(m)
  <2>1. Abs(c) + Abs(c) <= h
    BY <1>4, <1>5, <1>7 DEF Abs
  <2>2. m[1] * m[1] + m[2] * m[2] <= h * h
    BY <1>6, <1>7
  <2>3. Abs(m[1]) + Abs(m[2]) <= h
    BY <1>6, <2>1
  <2> HIDE DEF In, m, h
  <2> QED BY <1>3, <2>2, <2>3
<1>9. Point(m) \in ShapePoints(e, n) /\ Lte(Point(m).cold, <<1, 4>>)
  <2>1. Point(m) \in ShapePoints(e, n)
    BY <1>2, <1>6, <1>8
  <2>2. Point(m).cold = <<2 * c, 2 * h * h>>
    BY <1>6, <1>7
  <2>3. 2 * h * h = 2 * (h * h) /\ h * h \in Nat
    BY <1>4
  <2>4. (2 * c) * 4 <= 1 * (2 * h * h)
    <3> DEFINE k == h * h
    <3>1. k \in Nat /\ 4 * (2 * c) <= 2 * k /\ 2 * h * h = 2 * k
      BY <1>7, <2>3
    <3> HIDE DEF k
    <3>2. (2 * c) * 4 <= 1 * (2 * k)
      BY <1>5, <3>1
    <3> QED BY <3>1, <3>2
  <2>5. Lte(<<2 * c, 2 * h * h>>, <<1, 4>>)
    BY <2>4 DEF Lte
  <2> QED BY <2>1, <2>2, <2>5
<1>10. ASSUME NEW p \in ShapePoints(e, n)
       PROVE  /\ Lte(p.cold, <<1, 1>>)
              /\ \E q \in ShapePoints(e, n) : q.at = <<-p.at[1], -p.at[2]>>
  <2>1. PICK o \in Grid(s) : In(o) /\ p = Point(o)
    BY <1>2
  <2>2. /\ o[1] \in Int /\ o[2] \in Int
        /\ o[1] * o[1] \in 0 .. h * h /\ o[2] * o[2] \in 0 .. h * h
        /\ <<-o[1], -o[2]>> \in Grid(s)
    BY <1>1, GridFacts
  <2> DEFINE a == o[1]  b == o[2]  q == <<-a, -b>>
  <2>3. a * a + b * b <= 2 * h * h
    <3>1. 2 * h * h = h * h + h * h /\ h * h \in Nat
      BY <1>4
    <3> DEFINE x == a * a  y == b * b  z == h * h
    <3>2. x \in 0 .. z /\ y \in 0 .. z /\ z \in Nat /\ 2 * h * h = z + z
      BY <2>2, <3>1
    <3> HIDE DEF x, y, z
    <3>3. x + y <= 2 * h * h
      BY <3>2
    <3> QED BY <3>3 DEF x, y
  <2>4. p.cold = <<a * a + b * b, 2 * h * h>> /\ p.at = o
    BY <2>1
  <2>5. Lte(p.cold, <<1, 1>>)
    <3> DEFINE x == a * a + b * b  z == 2 * h * h
    <3>1. x \in Int /\ z \in Int /\ x <= z /\ p.cold = <<x, z>>
      BY <1>4, <2>2, <2>3, <2>4
    <3> HIDE DEF x, z
    <3> QED BY <3>1 DEF Lte
  <2>6. q \in Grid(s) /\ q[1] = -a /\ q[2] = -b
    BY <2>2
  <2>7. In(q)
    <3>1. (-a) * (-a) = a * a /\ (-b) * (-b) = b * b /\ Abs(-a) = Abs(a) /\ Abs(-b) = Abs(b)
      BY <2>2 DEF Abs
    <3>2. q[1] * q[1] + q[2] * q[2] = a * a + b * b /\ Abs(q[1]) + Abs(q[2]) = Abs(a) + Abs(b)
      BY <2>6, <3>1
    <3> HIDE DEF In, q, h
    <3> QED BY <1>3, <2>1, <3>2
  <2>8. Point(q) \in ShapePoints(e, n) /\ Point(q).at = q
    BY <1>2, <2>6, <2>7
  <2> QED BY <2>4, <2>5, <2>8
<1> QED BY <1>9, <1>10 DEF EvenlyAbout

-----------------------------------------------------------------------------
(***************************************************************************)
(* What is rendered, for any diagram, history and any number of renderings *)
(* under the mouse: the listeners are always those of the last rendering   *)
(* (HeatInv), and the tooltip is hidden whenever they are replaced.        *)
(***************************************************************************)

Rendered == [data : HeatData, viewBy : {"count", "timeSpent"}]

HeatInv ==
  /\ ran \in HeatData
  /\ heat # Absent => heat \in Rendered
  /\ spacings \in Nat /\ bends \in HeatBends
  /\ listens = IF heat = Absent THEN [e \in HeatElements |-> Absent]
               ELSE SetupHeatmapTooltip(heat.data, heat.viewBy)
  /\ follows \in Seq(HeatElements)
  /\ tip # Absent => /\ over \in HeatElements /\ tip = listens[over]
                     /\ follows # <<>> /\ Last(follows) = over

\* What is rendered is in order, and what is shown of it.
LEMMA RenderedRight == HeatInv => HeatTellsTheHistory
<1> SUFFICES ASSUME HeatInv PROVE HeatTellsTheHistory
  OBVIOUS
<1>1. heat # Absent => /\ heat.data \in HeatData /\ heat.viewBy \in {"count", "timeSpent"}
  BY DEF HeatInv, Rendered
<1>2. HeatIsInOrder
  <2> SUFFICES ASSUME heat # Absent, NEW a \in HeatNodes, NEW b \in HeatNodes
               PROVE  LET x == Normalized(heat.data, heat.viewBy, a)
                          y == Normalized(heat.data, heat.viewBy, b)
                      IN /\ Lte(<<0, 1>>, x) /\ Lte(x, <<100, 1>>)
                         /\ HeatValue(heat.data, heat.viewBy, a) <= HeatValue(heat.data, heat.viewBy, b)
                              => Lte(x, y)
                         /\ Lte(Floor(a), Peak(x))
    BY DEF HeatIsInOrder
  <2> DEFINE x == Normalized(heat.data, heat.viewBy, a)
             y == Normalized(heat.data, heat.viewBy, b)
  <2>1. /\ x \in Fractions /\ Lte(<<0, 1>>, x) /\ Lte(x, <<100, 1>>)
        /\ HeatValue(heat.data, heat.viewBy, a) <= HeatValue(heat.data, heat.viewBy, b) => Lte(x, y)
    BY <1>1, NormalizedFacts
  <2> HIDE DEF x, y
  <2>2. Floor(a) = <<0, 1>> \/ Floor(a) = <<2, 1>>
    BY DEF Floor
  <2>3. Lte(Floor(a), Peak(x))
    BY <2>1, <2>2, PeakFacts
  <2> QED BY <2>1, <2>3 DEF x, y
<1>3. FlowsLeadFromEndToEnd
  <2> SUFFICES ASSUME heat # Absent, NEW f \in HeatFlows
               PROVE  LET points == FlowPoints(bends)
                      IN /\ Head(points) = 0 /\ Last(points) = LengthOf(bends)
                         /\ \A k \in 1..(Len(points) - 1) : points[k + 1] - points[k] \in {0, 1}
                         /\ \A end \in {f[1], f[2]} : LET v == Normalized(heat.data, heat.viewBy, end)
                                                      IN Lte(FlowEnd(v), Peak(v))
    BY DEF FlowsLeadFromEndToEnd
  <2> DEFINE points == FlowPoints(bends)
  <2>1. Leads(points, LengthOf(bends))
    <3>1. bends \in Seq(Nat \ {0}) /\ bends # <<>>
      BY HeatPointsAssumption DEF HeatInv
    <3> QED BY <3>1, FlowPointsLead
  <2> HIDE DEF points
  <2>2. /\ Head(points) = 0 /\ Last(points) = LengthOf(bends)
        /\ \A k \in 1..(Len(points) - 1) : points[k + 1] - points[k] \in {0, 1}
    BY <2>1 DEF Leads, Last
  <2>3. f[1] \in HeatNodes /\ f[2] \in HeatNodes
    BY HeatPointsAssumption
  <2>4. ASSUME NEW end \in HeatNodes
        PROVE  Lte(FlowEnd(Normalized(heat.data, heat.viewBy, end)),
                   Peak(Normalized(heat.data, heat.viewBy, end)))
    BY <1>1, NormalizedFacts, PeakFacts
  <2> QED BY <2>2, <2>3, <2>4 DEF points
<1>4. ShapesHavePoints
  <2> SUFFICES ASSUME heat # Absent, NEW e \in HeatNodes, e \in Heated(heat.data)
               PROVE  LET points == ShapePoints(e, spacings)
                      IN /\ \E p \in points : Lte(p.cold, <<1, 4>>)
                         /\ \A p \in points : /\ Lte(p.cold, <<1, 1>>)
                                              /\ \E q \in points : q.at = <<-p.at[1], -p.at[2]>>
    BY DEF ShapesHavePoints
  <2>1. e \notin HeatFlows
    BY HeatPointsAssumption
  <2>2. HeatTypes[e] \in {"Task", "Event", "Gateway"}
    BY <2>1 DEF Heated
  <2>3. spacings \in Nat
    BY DEF HeatInv
  <2>4. EvenlyAbout(ShapePoints(e, spacings))
    BY <2>2, <2>3, ShapesEven
  <2> QED BY <2>4 DEF EvenlyAbout
<1>5. TooltipIsOfElement
  <2> SUFFICES ASSUME tip # Absent
               PROVE  /\ heat # Absent /\ over \in Heated(heat.data)
                      /\ tip = HeatValue(heat.data, heat.viewBy, over) /\ Last(follows) = over
    BY DEF TooltipIsOfElement
  <2>1. over \in HeatElements /\ tip = listens[over] /\ Last(follows) = over
    BY DEF HeatInv
  <2>2. heat # Absent
    BY <2>1 DEF HeatInv
  <2>3. listens = SetupHeatmapTooltip(heat.data, heat.viewBy)
    BY <2>2 DEF HeatInv
  <2>4. listens[over] = IF over \in Heated(heat.data)
                        THEN HeatValue(heat.data, heat.viewBy, over) ELSE Absent
    BY <2>1, <2>3 DEF SetupHeatmapTooltip
  <2> QED BY <2>1, <2>2, <2>4
<1> QED BY <1>2, <1>3, <1>4, <1>5 DEF HeatTellsTheHistory

\* HeatInv holds in every state of the heatmap.
LEMMA HeatInduction ==
  /\ HeatInit => HeatInv
  /\ HeatInv /\ [HeatNext]_heatPointVars => HeatInv'
<1>1. HeatInit => HeatInv
  <2> SUFFICES ASSUME HeatInit PROVE HeatInv
    OBVIOUS
  <2>1. ran \in HeatData
    BY DEF HeatInit, HeatData
  <2>2. /\ heat = Absent /\ spacings \in HeatSpacings /\ bends \in HeatBends /\ follows = <<>>
        /\ tip = Absent /\ listens = [e \in HeatElements |-> Absent]
    BY DEF HeatInit
  <2>3. spacings \in Nat
    BY <2>2, HeatPointsAssumption
  <2> QED BY <2>1, <2>2, <2>3 DEF HeatInv
<1>2. HeatInv /\ [HeatNext]_heatPointVars => HeatInv'
  <2> SUFFICES ASSUME HeatInv, [HeatNext]_heatPointVars PROVE HeatInv'
    OBVIOUS
  <2>0. /\ ran \in HeatData
        /\ heat # Absent => heat \in Rendered
        /\ spacings \in Nat /\ bends \in HeatBends
        /\ listens = IF heat = Absent THEN [e \in HeatElements |-> Absent]
                     ELSE SetupHeatmapTooltip(heat.data, heat.viewBy)
        /\ follows \in Seq(HeatElements)
        /\ tip # Absent => /\ over \in HeatElements /\ tip = listens[over]
                           /\ follows # <<>> /\ Last(follows) = over
    BY DEF HeatInv
  <2>1. CASE CreateHeatmap
    <3>1. PICK viewBy \in {"count", "timeSpent"} :
            /\ heat' = [data |-> ran, viewBy |-> viewBy] /\ listens' = SetupHeatmapTooltip(ran, viewBy)
      BY <2>1 DEF CreateHeatmap
    <3>2. heat' \in Rendered /\ heat'.data = ran /\ heat'.viewBy = viewBy
      BY <2>0, <3>1 DEF Rendered
    <3>3. heat' # Absent
      BY <3>2, HeatPointsAssumption DEF Rendered, HeatData
    <3>4. listens' = SetupHeatmapTooltip(heat.data, heat.viewBy)'
      BY <3>1, <3>2 DEF SetupHeatmapTooltip
    <3>5. tip' = Absent /\ UNCHANGED <<ran, spacings, bends, over, follows>>
      BY <2>1 DEF CreateHeatmap, Cleanup
    <3> QED BY <2>0, <3>2, <3>3, <3>4, <3>5 DEF HeatInv
  <2>2. CASE DestroyHeatmap
    <3>1. /\ heat' = Absent /\ listens' = [e \in HeatElements |-> Absent] /\ tip' = Absent
          /\ UNCHANGED <<ran, spacings, bends, over, follows>>
      BY <2>2 DEF DestroyHeatmap, Cleanup
    <3> QED BY <2>0, <3>1 DEF HeatInv
  <2>3. CASE HistoryChanges
    <3>1. UNCHANGED <<heat, spacings, bends, listens, over, tip, follows>>
      BY <2>3 DEF HistoryChanges
    <3>2. ran' \in HeatData
      <4>1. PICK e \in HeatNodes :
              \/ \E r \in HeatRuns : ran' = [ran EXCEPT ![e] = [count |-> @.count + r.count,
                                                                duration |-> @.duration + r.duration]]
              \/ ran' = [ran EXCEPT ![e] = [count |-> 0, duration |-> 0]]
        BY <2>3 DEF HistoryChanges
      <4>2. ran[e] \in [count : Nat, duration : Nat]
        BY <2>0 DEF HeatData
      <4>3. ASSUME NEW r \in HeatRuns
            PROVE  [count |-> ran[e].count + r.count, duration |-> ran[e].duration + r.duration]
                   \in [count : Nat, duration : Nat]
        <5>1. r \in [count : Nat, duration : Nat]
          BY HeatPointsAssumption
        <5> QED BY <4>2, <5>1
      <4>4. \A v \in [count : Nat, duration : Nat] : [ran EXCEPT ![e] = v] \in HeatData
        BY <2>0 DEF HeatData
      <4>5. [count |-> 0, duration |-> 0] \in [count : Nat, duration : Nat]
        OBVIOUS
      <4> QED BY <4>1, <4>3, <4>4, <4>5
    <3> QED BY <2>0, <3>1, <3>2 DEF HeatInv, SetupHeatmapTooltip
  <2>4. CASE EnterElement
    <3>1. PICK e \in HeatElements :
            /\ over' = e
            /\ IF listens[e] = Absent THEN UNCHANGED <<tip, follows>>
               ELSE tip' = listens[e] /\ follows' = Append(follows, e)
      BY <2>4 DEF EnterElement
    <3>2. over = Absent /\ UNCHANGED <<ran, heat, spacings, bends, listens>>
      BY <2>4 DEF EnterElement
    <3>3. tip = Absent
      BY <2>0, <3>2, HeatPointsAssumption DEF HeatElements
    <3>4. CASE listens[e] = Absent
      BY <2>0, <3>1, <3>2, <3>3, <3>4 DEF HeatInv, SetupHeatmapTooltip
    <3>5. CASE listens[e] # Absent
      <4>1. tip' = listens[e] /\ follows' = Append(follows, e)
        BY <3>1, <3>5
      <4>2. follows' \in Seq(HeatElements) /\ follows' # <<>> /\ Last(follows') = e
        BY <2>0, <4>1 DEF Last
      <4> QED BY <2>0, <3>1, <3>2, <4>1, <4>2 DEF HeatInv, SetupHeatmapTooltip
    <3> QED BY <3>4, <3>5
  <2>5. CASE LeaveElement
    <3>1. /\ over' = Absent /\ tip' = (IF listens[over] = Absent THEN tip ELSE Absent)
          /\ follows' = (IF tip # Absent /\ listens[over] # Absent THEN Front(follows) ELSE follows)
          /\ UNCHANGED <<ran, heat, spacings, bends, listens>>
      BY <2>5 DEF LeaveElement
    <3>2. tip' = Absent
      BY <2>0, <3>1
    <3>3. follows' \in Seq(HeatElements)
      <4>1. follows # <<>> => Front(follows) \in Seq(HeatElements)
        BY <2>0 DEF Front
      <4> QED BY <2>0, <3>1, <4>1
    <3> QED BY <2>0, <3>1, <3>2, <3>3 DEF HeatInv, SetupHeatmapTooltip
  <2>6. CASE UNCHANGED heatPointVars
    BY <2>0, <2>6 DEF heatPointVars, HeatInv, SetupHeatmapTooltip
  <2> QED BY <2>1, <2>2, <2>3, <2>4, <2>5, <2>6 DEF HeatNext
<1> QED BY <1>1, <1>2

\* HeatInv holds in every state.
THEOREM HeatInvariant == Spec => []HeatInv
<1>1. WidgetsInit => HeatInv
  BY HeatInduction, AllWidgetsStart
<1>2. HeatInv /\ [WidgetsNext]_widgetVars => HeatInv'
  BY HeatInduction, OneWidgetMoves
<1> QED BY <1>1, <1>2, PTL DEF Spec, widgetVars

\* For any diagram, any history and any sizes of its shapes and flows: what
\* ran more or longer is as hot or hotter, from 0 to 100, whatever the units
\* and the highest value; every heated shape has points, evenly about its
\* centre, and those of a flow lead from one end to the other; and the tooltip
\* is that of the heated element under the mouse, however often the heatmap is
\* rendered again under it.
THEOREM HeatTold == Spec => []HeatTellsTheHistory
BY HeatInvariant, RenderedRight, PTL
=============================================================================
