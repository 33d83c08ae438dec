------------------------------- MODULE Toolbar -------------------------------
(***************************************************************************)
(* The toolbar of the detail pages (ToolbarComponent).  Two functions      *)
(* decide what it offers, and both wait for permission checks: initButtons *)
(* shows what the user may do with the item, once for a toolbar, and       *)
(* updateButtonStates hides what the state of the item forbids, each time  *)
(* the page has loaded it.  A hidden button and a disabled one are two     *)
(* different things; a button can be used when it is shown and enabled.    *)
(*                                                                         *)
(* There are two checks: one on the item, for initButtons, and one on its  *)
(* type, for updateButtonStates.  Its answer is kept for the session, and  *)
(* what waits for one check goes on together, in the order of the calls.   *)
(* The download button and the decision definition's toolbar, which has no *)
(* buttons, are left out; a check that fails is in Permissions.            *)
(***************************************************************************)
EXTENDS DetailPages

CONSTANTS ItemPermitted, \* the buttons permitted on the item
          TypePermitted  \* those permitted on items of its type in general

Buttons == {"activate", "suspend", "terminate", "retry", "delete"}
ItemTypes == {"ProcessInstance", "ProcessDefinition", "Batch"}
States == {"active", "suspended", "ended"}

ASSUME PermittedAssumption == ItemPermitted \subseteq Buttons /\ TypePermitted \subseteq Buttons
ASSUME StatesAssumption == Absent \notin States \union {"pending"}

VARIABLE
  bar       \* shown, enabled: buttons; tools: the diagram's tools are enabled;
            \* initWaits: initButtons waits; typeKnown: the check on the type
            \* was answered; updates: states whose updates wait for it.
            \* Auxiliary: overtaken: something waited for a check while a
            \* later update ran, or the toolbar missed an update

EmptyBar == [shown |-> {}, enabled |-> {}, tools |-> FALSE, initWaits |-> FALSE,
             typeKnown |-> FALSE, updates |-> {}, overtaken |-> FALSE]

-----------------------------------------------------------------------------
\* initButtons: the buttons shown at first, if permitted
InitialButtons(type) ==
  CASE type = "ProcessInstance"   -> {"suspend", "terminate"}
    [] type = "ProcessDefinition" -> {"suspend", "delete"}
    [] type = "Batch"             -> {"suspend", "retry", "delete"}

\* Setting the item of a new toolbar
InitButtons == [EmptyBar EXCEPT !.initWaits = TRUE, !.typeKnown = bar.typeKnown]

\* Mutant: the opposite button is only disabled for an active item.
HiddenForgetsActivate(type, state) ==
  CASE state = "active"    -> {}
    [] state = "suspended" -> {"suspend"}
    [] state = "ended"     -> {"activate", "suspend",
                               IF type = "Batch" THEN "retry" ELSE "terminate"}

\* What the state of an item forbids: hidden and disabled at once
HiddenBy(type, state) ==
  CASE state = "active"    -> {"activate"}
    [] state = "suspended" -> {"suspend"}
    [] state = "ended"     -> {"activate", "suspend",
                               IF type = "Batch" THEN "retry" ELSE "terminate"}

\* The one of the two buttons that fits the state
Fitting(state) ==
  CASE state = "active"    -> {"suspend"}
    [] state = "suspended" -> {"activate"}
    [] state = "ended"     -> {}

\* The button that does not depend on whether the item is suspended
Lasting(type) == IF type = "ProcessInstance" THEN "terminate" ELSE "delete"

\* The diagram's tools: MOVE_TOKEN of an instance, START_PROCESS of a definition
ToolsAfter(b, type, state) == IF type = "Batch" THEN b.tools ELSE state = "active"

\* What updateButtonStates does once the check on the type is answered, one
\* update for each of the states
Offered(b, type, states) ==
  LET fitting == UNION {Fitting(state) : state \in states}
  IN [b EXCEPT !.shown = @ \union (fitting \intersect TypePermitted),
               !.enabled = @ \union fitting \union {Lasting(type)}]

\* updateButtonStates(item)
Updated(b, type, state) ==
  LET hidden == [b EXCEPT !.shown = @ \ HiddenBy(type, state),
                          !.enabled = @ \ HiddenBy(type, state),
                          !.tools = ToolsAfter(b, type, state),
                          !.overtaken = b.initWaits \/ b.updates # {}]
  IN CASE state = "ended" ->
            [hidden EXCEPT !.enabled = @ \union (IF type = "Batch" THEN {"delete"} ELSE {})]
       [] state # "ended" /\ b.typeKnown -> Offered(hidden, type, {state})
       [] OTHER -> [hidden EXCEPT !.updates = @ \union {state}]

\* initButtons goes on.
ItemChecked(b, type) ==
  [b EXCEPT !.shown = @ \union (InitialButtons(type) \intersect ItemPermitted),
            !.initWaits = FALSE]

\* All updates that wait go on.
TypeChecked(b, type) ==
  [Offered(b, type, b.updates) EXCEPT !.updates = {}, !.typeKnown = TRUE]

PermissionsAnswered ==
  \/ bar.initWaits /\ bar' = ItemChecked(bar, itemType)
  \/ bar.updates # {} /\ bar' = TypeChecked(bar, itemType)

BarAtRest == ~bar.initWaits /\ bar.updates = {}

Usable(button) == button \in bar.shown /\ button \in bar.enabled

\* The toolbar at rest fits an item in this state.
Fits(state) ==
  /\ bar.shown \intersect HiddenBy(itemType, state) = {}
  /\ bar.enabled \intersect {"activate", "suspend"} = Fitting(state)
  /\ Fitting(state) \intersect TypePermitted \subseteq bar.shown
  /\ itemType # "Batch" => bar.tools = (state = "active")
=============================================================================
