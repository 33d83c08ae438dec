---------------------------- MODULE TokenEditing ----------------------------
(***************************************************************************)
(* Moving tokens on the diagram of a process instance: the command stack   *)
(* (PimCommandStackService, a root singleton), the page that shows an      *)
(* instance (ProcessInstanceDetailPageComponent with the WithModifiable-   *)
(* Instance mixin), its context menu, its diagram toolbar, the dialog that *)
(* confirms the changes and the requests that apply them.                  *)
(*                                                                         *)
(* One action is one turn of the browser's event loop: a click, an answer  *)
(* of the server, a timer.  Subjects call their subscribers synchronously, *)
(* so what toolbar and page do on isEmpty$ is part of the action that      *)
(* emits it.  The process engine behind the server is left open: what it   *)
(* answers is any value.                                                   *)
(***************************************************************************)
EXTENDS Naturals, Sequences, FiniteSets, Functions

CONSTANTS
  Instances,   \* process instances
  Diagrams,    \* rendered process definitions
  Elements,    \* diagram elements (bpmn-js objects, so of one diagram each)
  DiagramOf,   \* [Instances -> Diagrams]
  Shown,       \* [Diagrams -> SUBSET Elements], the element registry
  Nested,      \* elements inside a sub-process
  Requests,    \* slots for modifications under way (bound)
  NoItem       \* the detail page is not on screen

ASSUME ConstantsAssumption ==
  /\ DiagramOf \in [Instances -> Diagrams]
  /\ Shown \in [Diagrams -> SUBSET Elements]
  /\ IsFiniteSet(Elements) /\ Nested \subseteq Elements
  /\ NoItem \notin Instances

VARIABLES
  stack,       \* PimCommandStackService._stack
  undoStack,   \* PimCommandStackService._undoStack
  request,     \* what each execute() under way is waiting for
  itemId,      \* the instance of the route, or NoItem
  diagram,     \* the diagram on screen
  overlays,    \* elements that show an add-token or remove-token overlay
  active,      \* activities of activityInstanceInfo.active, nested included
  infoLoaded,  \* activityInstanceInfo is there
  menu,        \* the open context menu and its enabled items
  modal,       \* the apply-changes dialog
  hasChanges,  \* DiagramToolbarComponent.hasChanges
  isEditing,   \* DiagramToolbarComponent.isEditing
  isSaving     \* ProcessInstanceDetailPageComponent.isSaving

service == <<stack, undoStack>>
page    == <<itemId, diagram, active, infoLoaded>>
toolbar == <<hasChanges, isEditing>>
vars    == <<stack, undoStack, request, itemId, diagram, overlays, active, infoLoaded,
             menu, modal, hasChanges, isEditing, isSaving>>

Kind    == {"add_token", "remove_token"}
Item    == Kind \cup {"undo", "redo"}
Command == [processInstanceId : Instances, target : Elements, type : Kind]

\* transformCommandsToModifications: what is posted for a command.
Instruction == [type : {"cancel", "start"}, activityId : Elements]

Closed == [target |-> NoItem, enabled |-> {}]
NoModal == [open |-> FALSE, willTerminate |-> FALSE]
Idle     == [phase |-> "idle", processInstanceId |-> NoItem, instructions |-> <<>>]
Settling == [Idle EXCEPT !.phase = "settling"]

Targets(cmds) == {cmds[k].target : k \in DOMAIN cmds}
Top(cmds)     == cmds[Len(cmds)]
Pop(cmds)     == SubSeq(cmds, 1, Len(cmds) - 1)
OnPage        == itemId # NoItem

-----------------------------------------------------------------------------
(* The command stack and the subscribers of its subjects.                  *)

\* isEmpty$ emitted while the stack is cmds and the undo stack is undone: the
\* toolbar reads both, the page removes the token overlays of an empty stack;
\* overlaid is what the overlays would be otherwise.  Off the page nobody listens.
IsEmptyEmitted(cmds, undone, overlaid) ==
  /\ hasChanges' = (OnPage /\ cmds # <<>>)
  /\ isEditing' = (OnPage /\ (cmds # <<>> \/ undone # <<>>))
  /\ overlays' = IF cmds = <<>> THEN {} ELSE overlaid

\* Mutant: a new command leaves the undone ones in place.
AddKeepingUndone(c) ==
  /\ stack' = Append(stack, c)
  /\ UNCHANGED undoStack
  /\ IsEmptyEmitted(stack', undoStack, overlays \cup ({c.target} \cap Shown[diagram]))

\* add(): drops the undo stack, pushes, emits; then the page draws the overlay.
Add(c) ==
  /\ stack' = Append(stack, c)
  /\ undoStack' = <<>>
  /\ IsEmptyEmitted(stack', <<>>, overlays \cup ({c.target} \cap Shown[diagram]))

\* Mutant: undo leaves the overlay of its command.
UndoKeepingOverlay ==
  /\ stack # <<>>
  /\ stack' = Pop(stack)
  /\ undoStack' = Append(undoStack, Top(stack))
  /\ IsEmptyEmitted(stack', undoStack', overlays)

\* undo(): guarded by the length; the page then removes the overlays of the target.
Undo ==
  /\ stack # <<>>
  /\ stack' = Pop(stack)
  /\ undoStack' = Append(undoStack, Top(stack))
  /\ IsEmptyEmitted(stack', undoStack', overlays \ {Top(stack).target})

\* Mutant: redo takes the command that was undone first.
RedoOldest ==
  /\ undoStack # <<>>
  /\ stack' = Append(stack, Head(undoStack))
  /\ undoStack' = Tail(undoStack)
  /\ IsEmptyEmitted(stack', undoStack',
                    overlays \cup ({Head(undoStack).target} \cap Shown[diagram]))

Redo ==
  /\ undoStack # <<>>
  /\ stack' = Append(stack, Top(undoStack))
  /\ undoStack' = Pop(undoStack)
  /\ IsEmptyEmitted(stack', undoStack',
                    overlays \cup ({Top(undoStack).target} \cap Shown[diagram]))

\* clear(): emits isEmpty$ before it drops the undo stack.
Clear ==
  /\ stack' = <<>>
  /\ undoStack' = <<>>
  /\ IsEmptyEmitted(<<>>, undoStack, {})

\* Mutant: the menu's own action names are posted.
ModificationsUntranslated(cmds) ==
  [k \in DOMAIN cmds |-> [type |-> cmds[k].type, activityId |-> cmds[k].target]]

\* transformCommandsToModifications; the two ways to start (before an activity,
\* on a sequence flow) are one.
Modifications(cmds) ==
  [k \in DOMAIN cmds |->
     [type |-> IF cmds[k].type = "remove_token" THEN "cancel" ELSE "start",
      activityId |-> cmds[k].target]]

\* The groups of willActionsTerminateProcess: the activities at the top of the
\* tree.  A nested activity is not among them, and what is not loaded is one group.
TopLevelActive == active \ Nested
Groups == IF infoLoaded THEN Cardinality(TopLevelActive) ELSE 1
Removals == {k \in DOMAIN stack : stack[k].type = "remove_token"}

\* Mutant: added tokens are not looked for.
WillTerminateByRemovals == Groups = Cardinality(Removals)

WillTerminate ==
  /\ \A k \in DOMAIN stack : stack[k].type # "add_token"
  /\ Groups = Cardinality(Removals)

-----------------------------------------------------------------------------
(* The page.                                                               *)

\* The route leads to the page of an instance that is not on screen yet.
OpenPage(i) ==
  /\ ~OnPage
  /\ itemId' = i
  /\ UNCHANGED <<service, request, diagram, overlays, active, infoLoaded, menu,
                 modal, toolbar, isSaving>>

\* A link or the browser's history leads from an instance to another one: the
\* router keeps the component, itemId$ emits, and the stack is left as it is.
SwitchItem(i) ==
  /\ OnPage /\ i # itemId
  /\ itemId' = i
  /\ UNCHANGED <<service, request, diagram, overlays, active, infoLoaded, menu,
                 modal, toolbar, isSaving>>

\* ngOnDestroy: the page's subscriptions end, then the stack is cleared.  An open
\* dialog and the requests under way stay.
LeavePage ==
  /\ OnPage
  /\ itemId' = NoItem /\ diagram' = NoItem
  /\ active' = {} /\ infoLoaded' = FALSE
  /\ menu' = Closed
  /\ stack' = <<>> /\ undoStack' = <<>> /\ overlays' = {}
  /\ hasChanges' = FALSE /\ isEditing' = FALSE /\ isSaving' = FALSE
  /\ UNCHANGED <<request, modal>>

\* The answer to getActivityInstances.  markupDiagram draws the activity counts
\* anew and removes every overlay of an element with history, those of the
\* pending commands included.
ActivityInstancesLoaded ==
  /\ OnPage
  /\ active' \in SUBSET Shown[DiagramOf[itemId]] /\ infoLoaded' = TRUE
  /\ \E history \in SUBSET Elements :
       overlays' = IF diagram = NoItem THEN overlays ELSE overlays \ history
  /\ UNCHANGED <<service, request, itemId, diagram, menu, modal,
                 toolbar, isSaving>>

\* The viewer fetches and draws another definition; its overlays are new.
DiagramRendered ==
  /\ OnPage /\ diagram # DiagramOf[itemId]
  /\ diagram' = DiagramOf[itemId]
  /\ overlays' = {}
  /\ UNCHANGED <<service, request, itemId, active, infoLoaded, menu, modal,
                 toolbar, isSaving>>

\* The user can click on the page: no dialog is in front of it.
Clickable == OnPage /\ ~modal.open

-----------------------------------------------------------------------------
(* The context menu.                                                       *)

\* What the menu offers for x: the items are enabled when the menu is filled,
\* and are not enabled or disabled again while it is open.
EnabledItems(x) ==
  {a \in Kind : /\ x \notin Targets(stack)
                /\ (a = "add_token" => x \notin active)
                /\ (a = "remove_token" => x \in active)}
    \cup {a \in {"undo"} : stack # <<>>}
    \cup {a \in {"redo"} : undoStack # <<>>}

OpenMenu(x) ==
  /\ Clickable /\ diagram # NoItem /\ x \in Shown[diagram]
  /\ menu' = [target |-> x, enabled |-> EnabledItems(x)]
  /\ UNCHANGED <<service, request, page, overlays, modal, toolbar, isSaving>>

CloseMenu ==
  /\ menu # Closed
  /\ menu' = Closed
  /\ UNCHANGED <<service, request, page, overlays, modal, toolbar, isSaving>>

ChooseKind(a) ==
  /\ Clickable /\ a \in menu.enabled
  /\ menu' = Closed
  /\ Add([processInstanceId |-> itemId, target |-> menu.target, type |-> a])
  /\ UNCHANGED <<request, page, modal, isSaving>>

\* With nothing left to undo (the stack was cleared behind the open menu) the
\* handler reads the top of the empty stack and throws.
ChooseUndo ==
  /\ Clickable /\ "undo" \in menu.enabled
  /\ menu' = Closed
  /\ \/ Undo
     \/ stack = <<>> /\ UNCHANGED <<service, overlays, toolbar>>
  /\ UNCHANGED <<request, page, modal, isSaving>>

ChooseRedo ==
  /\ Clickable /\ "redo" \in menu.enabled
  /\ menu' = Closed
  /\ \/ Redo
     \/ undoStack = <<>> /\ UNCHANGED <<service, overlays, toolbar>>
  /\ UNCHANGED <<request, page, modal, isSaving>>

-----------------------------------------------------------------------------
(* The diagram toolbar and the dialog.                                     *)

EditClicked ==
  /\ Clickable /\ ~isEditing
  /\ isEditing' = TRUE
  /\ menu' = Closed
  /\ UNCHANGED <<service, request, page, overlays, modal, hasChanges, isSaving>>

CancelClicked ==
  /\ Clickable /\ isEditing
  /\ menu' = Closed
  /\ Clear
  /\ UNCHANGED <<request, page, modal, isSaving>>

\* APPLY_CHANGES up to the await: the dialog is told what the stack would do now.
ApplyClicked ==
  /\ Clickable /\ isEditing /\ hasChanges
  /\ menu' = Closed
  /\ modal' = [open |-> TRUE, willTerminate |-> WillTerminate]
  /\ UNCHANGED <<service, request, page, overlays, toolbar, isSaving>>

ModalDismissed ==
  /\ modal.open
  /\ modal' = NoModal
  /\ UNCHANGED <<service, request, page, overlays, menu, toolbar, isSaving>>

ModalCleared ==
  /\ modal.open
  /\ modal' = NoModal
  /\ Clear
  /\ UNCHANGED <<request, page, menu, isSaving>>

\* execute(): isApplyingChanges$ first, then the stack is read.  With an empty
\* stack currentProcessInstanceId throws between the two.
Execute(r) ==
  /\ isSaving' = OnPage
  /\ \/ /\ stack # <<>>
        /\ request[r] = Idle
        /\ request' = [request EXCEPT ![r] =
             [phase |-> "posted",
              processInstanceId |-> Top(stack).processInstanceId,
              instructions |-> Modifications(stack)]]
     \/ stack = <<>> /\ UNCHANGED request

ModalConfirmed(r) ==
  /\ modal.open
  /\ modal' = NoModal
  /\ Execute(r)
  /\ UNCHANGED <<service, page, overlays, menu, toolbar>>

-----------------------------------------------------------------------------
(* The answers to a modification.                                          *)

Accepted(r) ==
  /\ request[r].phase = "posted"
  /\ request' = [request EXCEPT ![r] = Settling]
  /\ isSaving' = FALSE
  /\ UNCHANGED <<service, page, overlays, menu, modal, toolbar>>

Rejected(r) ==
  /\ request[r].phase = "posted"
  /\ request' = [request EXCEPT ![r] = Idle]
  /\ isSaving' = FALSE
  /\ UNCHANGED <<service, page, overlays, menu, modal, toolbar>>

\* An error without a body: err.error.message throws inside catchError, and the
\* subscriber that would emit isApplyingChanges$ is not called.
RejectedWithoutBody(r) ==
  /\ request[r].phase = "posted"
  /\ request' = [request EXCEPT ![r] = Idle]
  /\ UNCHANGED <<service, page, overlays, menu, modal, toolbar, isSaving>>

\* DATA_RELOAD_DELAY after an accepted modification: the toast, clear() and
\* wasStackAppliedSuccessfully$.  The toast reads the top of the stack, so an
\* empty one ends the callback there.
Settled(r) ==
  /\ request[r].phase = "settling"
  /\ request' = [request EXCEPT ![r] = Idle]
  /\ \/ /\ stack # <<>>
        /\ stack' = <<>> /\ undoStack' = <<>> /\ overlays' = {}
        /\ hasChanges' = FALSE /\ isEditing' = FALSE
     \/ stack = <<>> /\ UNCHANGED <<service, overlays, toolbar>>
  /\ UNCHANGED <<page, menu, modal, isSaving>>

-----------------------------------------------------------------------------
Init ==
  /\ stack = <<>> /\ undoStack = <<>>
  /\ request = [r \in Requests |-> Idle]
  /\ itemId = NoItem /\ diagram = NoItem
  /\ overlays = {} /\ active = {} /\ infoLoaded = FALSE
  /\ menu = Closed /\ modal = NoModal
  /\ hasChanges = FALSE /\ isEditing = FALSE /\ isSaving = FALSE

Next ==
  \/ \E i \in Instances : OpenPage(i) \/ SwitchItem(i)
  \/ LeavePage
  \/ ActivityInstancesLoaded
  \/ DiagramRendered
  \/ \E x \in Elements : OpenMenu(x)
  \/ CloseMenu
  \/ \E a \in Kind : ChooseKind(a)
  \/ ChooseUndo
  \/ ChooseRedo
  \/ EditClicked
  \/ CancelClicked
  \/ ApplyClicked
  \/ ModalDismissed
  \/ ModalCleared
  \/ \E r \in Requests :
        ModalConfirmed(r) \/ Accepted(r) \/ Rejected(r)
          \/ RejectedWithoutBody(r) \/ Settled(r)

Spec == Init /\ [][Next]_vars

-----------------------------------------------------------------------------
(* Properties.                                                             *)

Request ==
  {Idle, Settling} \cup
    [phase : {"posted"}, processInstanceId : Instances, instructions : Seq(Instruction)]

TypeOK ==
  /\ stack \in Seq(Command) /\ undoStack \in Seq(Command)
  /\ request \in [Requests -> Request]
  /\ itemId \in Instances \cup {NoItem}
  /\ diagram \in Diagrams \cup {NoItem}
  /\ overlays \subseteq Elements /\ active \subseteq Elements /\ infoLoaded \in BOOLEAN
  /\ menu \in [target : Elements \cup {NoItem}, enabled : SUBSET Item]
  /\ modal \in [open : BOOLEAN, willTerminate : BOOLEAN]
  /\ hasChanges \in BOOLEAN /\ isEditing \in BOOLEAN /\ isSaving \in BOOLEAN

\* The two stacks as one history: the pending commands, then those that redo
\* would bring back, next first.
Timeline ==
  [k \in 1..(Len(stack) + Len(undoStack)) |->
     IF k <= Len(stack) THEN stack[k]
     ELSE undoStack[Len(stack) + Len(undoStack) + 1 - k]]

Hist == INSTANCE EditHistory WITH log <- Timeline, pos <- Len(stack)

\* Whatever page, menu, dialog, requests and timers do in whatever order, the
\* two stacks are one edit history with a cursor: undo and redo lose and invent
\* nothing, and no command is given for an element that has one pending.
HistoryImplemented == Hist!Spec

\* No element has two commands among the pending and the undone ones: the guard
\* is a flag computed when the menu was filled, before whatever happened since.
NoElementTwice == Hist!NoElementTwice

\* An open menu that still offers to add or remove a token is for an element with
\* nothing pending: while it is open the stack can only be emptied.
MenuOffersFreeElements ==
  menu.enabled \cap Kind # {} => menu.target \notin Targets(stack)

\* Every add-token or remove-token overlay on the diagram belongs to a pending
\* command: undo, cancelling, applying and drawing anew leave no ghost.
OverlaysArePending == overlays \subseteq Targets(stack)

\* "Apply Changes" is enabled exactly when something is pending, although the
\* toolbar only hears of the stack through emissions.
ApplyEnabledIffPending == OnPage => (hasChanges <=> stack # <<>>)

\* While anything is pending or can be redone, the page is in edit mode, so the
\* user can still cancel.
HistoryKeepsEditMode == (stack # <<>> \/ undoStack # <<>>) => isEditing

\* What the user sees of the stack is the stack: the open menu, the overlays on the
\* diagram and the toolbar, each told of it by an event of its own.
EditorAgreesWithStack ==
  /\ MenuOffersFreeElements
  /\ OverlaysArePending
  /\ ApplyEnabledIffPending
  /\ HistoryKeepsEditMode

\* Counting commands is enough for the warning that the change set terminates the
\* instance, when the activities are loaded, none is nested and every removal is of
\* an activity that is active by the data on screen: it is then given exactly when
\* nothing is added and every active activity is cancelled.
WarningExactOnFlatTrees ==
  LET removed == {c \in Range(stack) : c.type = "remove_token"}
  IN  (infoLoaded /\ active \cap Nested = {} /\ \A c \in removed : c.target \in active) =>
        (WillTerminate <=> (removed = Range(stack) /\ active = Targets(stack)))

\* The spinner of "saving" is shown only while a modification is under way.
SavingMeansWaiting == isSaving => \E r \in Requests : request[r].phase = "posted"
=============================================================================
