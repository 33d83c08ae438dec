------------------------------- MODULE BatchPage -------------------------------
(***************************************************************************)
(* The batch page (BatchDetailsComponent): one batch, loaded once for a    *)
(* visit by two requests, its toolbar, and the actions it confirms.  The   *)
(* page does not load again after an action: it changes what it shows by   *)
(* itself, when the callback of success comes 200 ms after the answer.  An *)
(* error only ends the spinner, also when the engine had carried out what  *)
(* it was asked and its answer was lost.                                   *)
(*                                                                         *)
(* A spinner covers some of this work and does not keep the user from the  *)
(* buttons.  The page is not left while a dialog is open.  Retrying asks   *)
(* the engine for new attempts and leaves the batch's state alone.         *)
(***************************************************************************)
EXTENDS Toolbar

CONSTANT MaxActions \* bound

Actions == [button : {"toggle", "retry", "delete"}, to : States, ours : BOOLEAN]

ASSUME BatchPageAssumption == MaxActions \in Nat /\ Absent \notin Actions

VARIABLES
  batchOpen,    \* the page is open
  batchState,   \* state of the batch in the engine, Absent once it is deleted
  batchRead,    \* getBatch: "none", or the request that is under way
  batchShown,   \* state of the batch that is shown, Absent if there is none
  isLoading,
  batchDialog,  \* what the open dialog asks, Absent if none is open
  batchSent,    \* requests under way
  batchDue,     \* callbacks of success that come in 200 ms, in order
  batchForeign  \* auxiliary: what is shown may differ from the engine because
                \* others acted, the batch ended between the two requests, a
                \* toggle was begun while another was under way, or an action
                \* was carried out and its answer lost

batchVars == <<batchOpen, batchState, batchRead, batchShown, isLoading, batchDialog, batchSent,
               batchDue, batchForeign>>

BatchInit ==
  /\ batchOpen = FALSE /\ batchState = "active" /\ batchRead = "none" /\ batchShown = Absent
  /\ isLoading = FALSE /\ batchDialog = Absent /\ batchSent = <<>> /\ batchDue = <<>>
  /\ batchForeign = FALSE

\* An action of the page: the button, for a toggle the new state, and whether
\* the visit that began it goes on.
Action(button, to) == [button |-> button, to |-> to, ours |-> TRUE]

\* Only callbacks of this visit are seen.
Ours(actions) == {i \in DOMAIN actions : actions[i].ours}
Disowned(actions) == [i \in DOMAIN actions |-> [actions[i] EXCEPT !.ours = FALSE]]

Toggles(actions) == {i \in Ours(actions) : actions[i].button = "toggle"}

-----------------------------------------------------------------------------
OpenBatch ==
  /\ Event /\ ~batchOpen
  /\ batchOpen' = TRUE /\ batchRead' = "history" /\ isLoading' = TRUE
  /\ batchForeign' = FALSE
  /\ bar' = InitButtons
  /\ UNCHANGED <<batchState, batchShown, batchDialog, batchSent, batchDue>>

\* ngOnDestroy unsubscribes the read; requests and timers go on.
BatchClosed ==
  /\ batchOpen' = FALSE /\ batchRead' = "none" /\ batchShown' = Absent /\ isLoading' = FALSE
  /\ bar' = [EmptyBar EXCEPT !.typeKnown = bar.typeKnown]
  /\ UNCHANGED <<batchState, batchDialog, batchForeign>>

LeaveBatch ==
  /\ Event /\ batchOpen /\ batchDialog = Absent
  /\ BatchClosed
  /\ batchSent' = Disowned(batchSent) /\ batchDue' = Disowned(batchDue)

\* getBatch has emitted: updateButtonStates, then RETRY is enabled at any rate.
BatchLoaded(state) ==
  /\ batchRead' = "none" /\ isLoading' = FALSE /\ batchShown' = state
  /\ bar' = [Updated(bar, "Batch", state) EXCEPT !.enabled = @ \union {"retry"}]

\* A batch without an end is also asked for its statistics, which say
\* whether it is suspended.
HistoryAnswered ==
  /\ batchRead = "history" /\ batchState # Absent
  /\ IF batchState = "ended"
     THEN BatchLoaded("ended")
     ELSE batchRead' = "statistics" /\ UNCHANGED <<isLoading, batchShown, bar>>
  /\ UNCHANGED <<batchOpen, batchState, batchDialog, batchSent, batchDue, batchForeign, events>>

\* There are no statistics of a batch that has ended: statistics[0] adds
\* nothing to a history that has neither an end nor "suspended".
StatisticsAnswered ==
  /\ batchRead = "statistics"
  /\ BatchLoaded(IF batchState = "suspended" THEN "suspended" ELSE "active")
  /\ batchForeign' = (batchForeign \/ batchState \notin {"active", "suspended"})
  /\ UNCHANGED <<batchOpen, batchState, batchDialog, batchSent, batchDue, events>>

\* The answer of a deleted batch's history is an error too.
BatchReadFailed ==
  /\ batchRead # "none"
  /\ IF batchState = Absent THEN UNCHANGED events ELSE Event
  /\ batchRead' = "none" /\ isLoading' = FALSE /\ batchShown' = Absent
  /\ UNCHANGED <<batchOpen, batchState, batchDialog, batchSent, batchDue, batchForeign, bar>>

-----------------------------------------------------------------------------
Opposite(state) == IF state = "suspended" THEN "active" ELSE "suspended"

\* The spinner starts before the dialog of toggle and retry, not of delete.
ClickBatch(button) ==
  /\ Event /\ batchOpen /\ batchDialog = Absent /\ batchShown # Absent
  /\ Usable(button)
  /\ batchDialog' = CASE button \in {"activate", "suspend"} -> Action("toggle", Opposite(batchShown))
                      [] OTHER -> Action(button, batchShown)
  /\ isLoading' = (isLoading \/ button # "delete")
  /\ batchForeign' = (batchForeign \/ /\ button \in {"activate", "suspend"}
                                      /\ Toggles(batchSent) \union Toggles(batchDue) # {})
  /\ UNCHANGED <<batchOpen, batchState, batchRead, batchShown, batchSent, batchDue, bar>>

\* Mutant: a cancelled dialog leaves the spinner.
CancelForgetsSpinner ==
  /\ batchDialog # Absent
  /\ batchDialog' = Absent
  /\ UNCHANGED <<batchOpen, batchState, batchRead, batchShown, isLoading, batchSent, batchDue,
                 batchForeign, bar, events>>

\* onActionCancel
CancelBatch ==
  /\ batchDialog # Absent
  /\ batchDialog' = Absent /\ isLoading' = FALSE
  /\ UNCHANGED <<batchOpen, batchState, batchRead, batchShown, batchSent, batchDue, batchForeign,
                 bar, events>>

ConfirmBatch ==
  /\ batchDialog # Absent
  /\ Len(batchSent) < MaxActions
  /\ batchSent' = Append(batchSent, batchDialog) /\ batchDialog' = Absent
  /\ UNCHANGED <<batchOpen, batchState, batchRead, batchShown, isLoading, batchDue, batchForeign,
                 bar, events>>

\* What the engine makes of an action: only a batch that has not ended can be
\* toggled, and without cascade its history stays when it is deleted.
Becomes(a) ==
  IF batchState \in {"active", "suspended"}
  THEN CASE a.button = "toggle" -> {a.to}
         [] a.button = "retry" -> {batchState}
         [] a.button = "delete" -> {"ended", Absent}
  ELSE IF batchState = "ended" /\ a.button = "delete" THEN {Absent} ELSE {}

BatchActed(i) ==
  LET a == batchSent[i]
  IN /\ batchState' \in Becomes(a)
     /\ batchSent' = RemoveAt(batchSent, i)
     /\ batchDue' = Append(batchDue, a)
     /\ batchForeign' = (batchForeign \/ (a.button # "retry" /\ ~a.ours))
     /\ UNCHANGED <<batchOpen, batchRead, batchShown, isLoading, batchDialog, bar, events>>

\* onActionError: the engine refused, or it acted and its answer was lost.
\* The page goes on showing what it shows.
BatchFailed(i) ==
  /\ batchState' \in {batchState} \union Becomes(batchSent[i])
  /\ batchForeign' = (batchForeign \/ (batchShown # Absent /\ batchState' # batchState))
  /\ batchSent' = RemoveAt(batchSent, i)
  /\ isLoading' = (isLoading /\ ~batchSent[i].ours)
  /\ UNCHANGED <<batchOpen, batchRead, batchShown, batchDialog, batchDue, bar, events>>

\* Mutant: the toggle's callback loads nothing and changes nothing.
ShownUntouched(a) == batchShown

\* onToggleSuspended changes "suspended", which an ended batch does not show.
ShownAfter(a) ==
  IF a.button = "toggle" /\ batchShown \in {"active", "suspended"}
  THEN Opposite(batchShown) ELSE batchShown

\* The timer of the first callback ends.  onDelete goes to the list from
\* wherever the user is, if no dialog keeps him.
BatchCallback ==
  /\ batchDue # <<>>
  /\ LET a == Head(batchDue)
         due == Tail(batchDue)
     IN IF a.button = "delete"
        THEN /\ BatchClosed /\ batchDialog = Absent
             /\ batchSent' = Disowned(batchSent) /\ batchDue' = Disowned(due)
        ELSE /\ batchDue' = due
             /\ isLoading' = (isLoading /\ ~a.ours)
             /\ batchShown' = IF a.ours THEN ShownAfter(a) ELSE batchShown
             /\ bar' = IF a.ours /\ a.button = "toggle"
                       THEN Updated(bar, "Batch", ShownAfter(a)) ELSE bar
             /\ UNCHANGED <<batchOpen, batchState, batchRead, batchDialog, batchSent, batchForeign>>
  /\ UNCHANGED events

\* Another user acts, or the batch has done its jobs.
BatchMoves ==
  /\ Event /\ batchState \in {"active", "suspended"}
  /\ batchState' \in {"active", "suspended", "ended"} \ {batchState}
  /\ batchForeign' = (batchForeign \/ batchShown # Absent \/ batchRead # "history")
  /\ UNCHANGED <<batchOpen, batchRead, batchShown, isLoading, batchDialog, batchSent, batchDue, bar>>

BatchPermissions ==
  /\ PermissionsAnswered
  /\ UNCHANGED <<batchVars, events>>

BatchNext ==
  \/ OpenBatch \/ LeaveBatch
  \/ HistoryAnswered \/ StatisticsAnswered \/ BatchReadFailed
  \/ \E b \in {"activate", "suspend", "retry", "delete"} : ClickBatch(b)
  \/ CancelBatch \/ ConfirmBatch
  \/ \E i \in DOMAIN batchSent : BatchActed(i) \/ BatchFailed(i)
  \/ BatchCallback \/ BatchMoves \/ BatchPermissions

-----------------------------------------------------------------------------
\* The spinner turns only while something is under way that will stop it: the
\* read, a dialog, a request or a callback of this visit
\* (batch-details.component.ts:143, 152).
SpinnerMeansWork ==
  isLoading => \/ batchRead # "none" \/ batchDialog # Absent
               \/ Ours(batchSent) # {} \/ Ours(batchDue) # {}

BatchAtRest ==
  /\ batchShown # Absent /\ batchRead = "none" /\ batchDialog = Absent
  /\ Ours(batchSent) = {} /\ Ours(batchDue) = {} /\ BarAtRest

\* A page at rest shows the state the batch has in the engine, though it
\* never loads it again, unless others acted, it ended during the read,
\* toggles overlapped, or an error hid that an action was carried out (its
\* answer was lost, and onActionError loads nothing); and its toolbar fits
\* what is shown, unless a permission check was overtaken
\* (batch-details.component.ts:159, 169).
BatchAtRestIsTrue ==
  BatchAtRest =>
    /\ batchForeign \/ batchShown = batchState
    /\ bar.overtaken \/ Fits(batchShown)
=============================================================================
