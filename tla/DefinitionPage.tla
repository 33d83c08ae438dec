---------------------------- MODULE DefinitionPage ----------------------------
(***************************************************************************)
(* The process definition page (ProcessDefinitionDetailPageComponent): the *)
(* details of a version, its diagram, the tokens of its statistics on the  *)
(* diagram, and the toolbar.  Another version keeps the page; the load of  *)
(* the version before is cancelled then, a reload is not.  The heatmap is  *)
(* in HeatmapLayer.                                                        *)
(*                                                                         *)
(* An answer carries any state the definition may have had; the memo of    *)
(* getProcessDefinitionsByFilter makes it up to two seconds old.  The      *)
(* import of a diagram ends before the next XML is answered.  A page that  *)
(* found nothing is left before another is opened.                         *)
(***************************************************************************)
EXTENDS Toolbar

CONSTANT MaxLoads  \* bound

DefinitionStates == {"active", "suspended"}
Details == [id : Ids, state : DefinitionStates]

ASSUME DefinitionPageAssumption == MaxLoads \in Nat /\ Absent \notin Details

VARIABLES
  version,      \* id in the URL, Absent on any other page
  detailLoads,  \* loads under way: a number, the version, and whether subs$ has them
  details,      \* processDefinition: the version and its state
  kept,         \* version whose statistics, history and jobs are kept
  itemFound,    \* isItemFound$
  drawing,      \* version whose XML is asked for
  importing,    \* version that is being imported into a new viewer
  rendered,     \* diagramRendered
  tokens,       \* versions whose tokens are on the diagram
  statsShown,   \* instanceStatisticsShown$
  detailStray,  \* auxiliary: the last load was of another version or empty
  drawnHidden,  \* auxiliary: rendering drew tokens that were switched off
  defAction,    \* the action of the toolbar: "none", "asked", "sent"
  defReloadDue  \* reloadNeeded() was called

detailVars == <<detailLoads, details, kept, itemFound, detailStray, bar>>
diagramVars == <<drawing, importing, rendered, tokens, statsShown, drawnHidden>>
definitionVars == <<version, detailVars, diagramVars, defAction, defReloadDue>>

Version == Ids \union {Absent}

DefinitionInit ==
  /\ version = Absent
  /\ detailLoads = {} /\ details = Absent /\ kept = Absent /\ itemFound = TRUE
  /\ detailStray = FALSE
  /\ drawing = Absent /\ importing = Absent /\ rendered = FALSE
  /\ tokens = {} /\ statsShown = TRUE /\ drawnHidden = FALSE
  /\ bar = EmptyBar
  /\ defAction = "none" /\ defReloadDue = FALSE

-----------------------------------------------------------------------------
\* updateDiagram after clearDiagram: tokens of the version that is kept
Marked(id, shown) == IF id # Absent /\ rendered /\ shown THEN {id} ELSE {}

\* Mutant: the diagram is cleared of the new version's tokens.
ClearedOfTheNew(old, new) == tokens \ {new}

\* clearDiagram goes by the history that is kept before the new one is.
Cleared(old, new) == tokens \ {old}

\* A load of this version, with a number that no other load has
NewLoads(id, tracked) ==
  {l \in [nr : 1 .. MaxLoads, id : {id}, tracked : {tracked}] :
     \A other \in detailLoads : other.nr # l.nr}

\* navigateToVersion or a link.  A new page gets its toolbar afterwards.
VisitVersion(id) ==
  /\ Event /\ version # id /\ itemFound /\ defAction # "asked"
  /\ version' = id
  /\ \E load \in NewLoads(id, TRUE) : detailLoads' = {l \in detailLoads : ~l.tracked} \union {load}
  /\ drawing' = id
  /\ bar' = IF version = Absent THEN InitButtons ELSE bar
  /\ UNCHANGED <<details, kept, itemFound, detailStray, importing, rendered, tokens, statsShown,
                 drawnHidden, defAction, defReloadDue>>

\* ngOnDestroy.  What a load does to a page that is gone is not seen again.
Destroyed ==
  /\ version' = Absent
  /\ detailLoads' = {} /\ details' = Absent /\ kept' = Absent /\ itemFound' = TRUE
  /\ detailStray' = FALSE
  /\ drawing' = Absent /\ importing' = Absent /\ rendered' = FALSE
  /\ tokens' = {} /\ statsShown' = TRUE /\ drawnHidden' = FALSE
  /\ bar' = [EmptyBar EXCEPT !.typeKnown = bar.typeKnown]

LeaveDefinition ==
  /\ Event /\ version # Absent /\ defAction # "asked"
  /\ Destroyed
  /\ UNCHANGED <<defAction, defReloadDue>>

\* onDetailsLoaded.  The list of definitions may be empty.
DetailsLoaded(l, found, state) ==
  LET id == l.id
  IN /\ detailLoads' = detailLoads \ {l}
     /\ tokens' = Cleared(kept, id) \union Marked(id, statsShown)
     /\ kept' = id
     /\ details' = IF found THEN [id |-> id, state |-> state] ELSE details
     /\ bar' = IF found THEN Updated(bar, "ProcessDefinition", state) ELSE bar
     /\ detailStray' = (id # version \/ ~found)
     /\ drawnHidden' = FALSE
     /\ UNCHANGED <<version, itemFound, drawing, importing, rendered, statsShown, defAction,
                    defReloadDue>>

\* onDetailsLoadFailed
DetailsFailed(l) ==
  /\ Event
  /\ detailLoads' = detailLoads \ {l}
  /\ itemFound' = FALSE
  /\ UNCHANGED <<version, details, kept, detailStray, bar, diagramVars, defAction, defReloadDue>>

\* eventBus.reloadNeeded$.  Nothing ends the subscription of this load.
ReloadDefinition ==
  /\ defReloadDue
  /\ defReloadDue' = FALSE
  /\ IF version = Absent
     THEN UNCHANGED detailLoads
     ELSE \E load \in NewLoads(version, FALSE) : detailLoads' = detailLoads \union {load}
  /\ UNCHANGED <<version, details, kept, itemFound, detailStray, bar, diagramVars, defAction, events>>

-----------------------------------------------------------------------------
\* onDiagramXmlRetrieved destroys the viewer and renders with a new one.
XmlAnswered ==
  /\ drawing # Absent /\ importing = Absent
  /\ importing' = drawing /\ drawing' = Absent
  /\ UNCHANGED <<version, detailVars, rendered, tokens, statsShown, drawnHidden, defAction,
                 defReloadDue, events>>

XmlFailed ==
  /\ Event /\ drawing # Absent
  /\ drawing' = Absent
  /\ UNCHANGED <<version, detailVars, importing, rendered, tokens, statsShown, drawnHidden,
                 defAction, defReloadDue>>

\* onDiagramRendered: markupDiagram does not ask whether they are shown.
DiagramRendered ==
  /\ importing # Absent
  /\ importing' = Absent /\ rendered' = TRUE
  /\ tokens' = {kept} \ {Absent}
  /\ drawnHidden' = (~statsShown /\ kept # Absent)
  /\ UNCHANGED <<version, detailVars, drawing, statsShown, defAction, defReloadDue, events>>

\* onToggleInstanceStatistics
ToggleStatistics ==
  /\ Event /\ version # Absent
  /\ statsShown' = ~statsShown
  /\ tokens' = Cleared(kept, kept) \union Marked(kept, ~statsShown)
  /\ drawnHidden' = FALSE
  /\ UNCHANGED <<version, detailVars, drawing, importing, rendered, defAction, defReloadDue>>

-----------------------------------------------------------------------------
\* onToolbarButtonClick, and the dialog of confirmActionService
ClickDefinition ==
  /\ Event /\ version # Absent /\ defAction = "none"
  /\ bar.tools \/ \E button \in {"activate", "suspend", "delete"} : Usable(button)
  /\ defAction' = "asked"
  /\ UNCHANGED <<version, detailVars, diagramVars, defReloadDue>>

AnswerDialog(confirmed) ==
  /\ defAction = "asked"
  /\ defAction' = IF confirmed THEN "sent" ELSE "none"
  /\ UNCHANGED <<version, detailVars, diagramVars, defReloadDue, events>>

\* The callback of success reloads the page, that of delete leaves it;
\* an error only shows a toast.
DefinitionActed(deleted) ==
  /\ defAction = "sent"
  /\ defAction' = "none"
  /\ IF deleted
     THEN Destroyed /\ UNCHANGED defReloadDue
     ELSE defReloadDue' = TRUE /\ UNCHANGED <<version, detailVars, diagramVars>>
  /\ UNCHANGED events

DefinitionRefused ==
  /\ defAction = "sent"
  /\ defAction' = "none"
  /\ UNCHANGED <<version, detailVars, diagramVars, defReloadDue, events>>

DefinitionPermissions ==
  /\ PermissionsAnswered
  /\ UNCHANGED <<version, detailLoads, details, kept, itemFound, detailStray, diagramVars, defAction,
                 defReloadDue, events>>

DefinitionNext ==
  \/ \E id \in Ids : VisitVersion(id)
  \/ LeaveDefinition
  \/ \E l \in detailLoads :
       \/ \E found \in BOOLEAN, state \in DefinitionStates :
            DetailsLoaded(l, found, state) /\ UNCHANGED events
       \/ DetailsFailed(l)
  \/ ReloadDefinition
  \/ XmlAnswered \/ XmlFailed \/ DiagramRendered
  \/ ToggleStatistics
  \/ ClickDefinition
  \/ \E confirmed \in BOOLEAN : AnswerDialog(confirmed)
  \/ \E deleted \in BOOLEAN : DefinitionActed(deleted)
  \/ DefinitionRefused
  \/ DefinitionPermissions

-----------------------------------------------------------------------------
DefinitionAtRest ==
  /\ version # Absent /\ detailLoads = {} /\ itemFound
  /\ drawing = Absent /\ importing = Absent
  /\ BarAtRest

\* A page at rest shows the details of the version in its URL, a toolbar that
\* fits them, and on its diagram the tokens of this version alone, or none if
\* they are switched off, unless its last load was of another version or
\* found none, a permission check was overtaken, or rendering drew tokens
\* that were switched off (process-definition-detail-page.component.ts:318,
\* diagram.mixin.ts:105).
DefinitionAtRestShowsItsVersion ==
  DefinitionAtRest /\ ~detailStray =>
    /\ kept = version
    /\ details.id = version
    /\ ~bar.overtaken => Fits(details.state)
    /\ rendered /\ ~drawnHidden => tokens = IF statsShown THEN {version} ELSE {}
=============================================================================
