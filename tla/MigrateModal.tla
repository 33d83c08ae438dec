---------------------------- MODULE MigrateModal ----------------------------
(***************************************************************************)
(* The dialog that migrates the instances of one version of a process      *)
(* definition to another: it reads the versions, may show the diagrams of  *)
(* both with their differences marked, and asks the engine for a batch.    *)
(* A dialog that is closed leaves its request under way.  The selected     *)
(* instances and the options of the request are left out.                  *)
(***************************************************************************)
EXTENDS Parts

CONSTANTS VersionElements, \* the elements of each version, numbered in the order of the file
          OldVersion,      \* the version whose instances are migrated
          MaxDialogs,      \* bound of the times the dialog is opened
          MaxModalInputs   \* bound of what the user and the network do

ASSUME MigrateAssumption ==
  /\ VersionElements \in Seq(SUBSET Nat) /\ Len(VersionElements) > 1
  /\ OldVersion \in DOMAIN VersionElements
  /\ MaxDialogs \in Nat \ {0} /\ MaxModalInputs \in Nat
  /\ Absent \notin Nat

AllVersions == DOMAIN VersionElements
Sides == {"source", "target"}
Empty == 0 \* what a viewer shows that has not imported its diagram

VARIABLES
  dialog,     \* which dialog is open or was last
  isShown,    \* whether it is open
  versions,   \* "loading", "loaded" or "failed"
  newVersionNumber, \* of each dialog, Absent before the versions are read
  targetDefinitionId,
  isDiagramOpen,
  isMigrating,
  diff,       \* the additions and deletions of the last showDiff
  viewer,     \* the two diagrams
  sourceLate, \* whether the source was not drawn when the target was
  migrations, \* the requests under way
  migrated,   \* the success toasts: what was asked for, the version they name
  tries       \* for each dialog: batches the engine made, error toasts

migrateVars == <<dialog, isShown, versions, newVersionNumber, targetDefinitionId, isDiagramOpen,
  isMigrating, diff, viewer, sourceLate, migrations, migrated, tries>>

\* A viewer before its first diagram: the version it is for, the one it fetches,
\* those it imports, the one it shows, the marks on it, whether the fetch failed
NoViewer == [id |-> Absent, fetched |-> Absent, imports |-> <<>>, shown |-> Absent,
             marks |-> {}, failed |-> FALSE]
ElementsOf(version) == IF version = Empty THEN {} ELSE VersionElements[version]
NoDiff == [additions |-> {}, deletions |-> {}]
NearestVersion == IF OldVersion + 1 \in AllVersions THEN OldVersion + 1 ELSE OldVersion - 1

\* The setter of id: a viewer fetches a diagram that is not the one it has
Aimed(v, version) ==
  IF version \in {Absent, v.id} THEN v
  ELSE [v EXCEPT !.id = version, !.fetched = version, !.failed = FALSE]
\* loadDiagrams
LoadDiagrams(target) ==
  viewer' = IF isDiagramOpen
            THEN [source |-> Aimed(viewer.source, OldVersion), target |-> Aimed(viewer.target, target)]
            ELSE viewer

\* showDiff, with the viewers as they are: clearDiff throws at a deletion the source
\* lacks, addMarker at the first addition the target lacks; with no viewer on one side the
\* lists stay as they were
Differing(views) ==
  LET source == views.source.shown
      target == views.target.shown
      found == IF Absent \in {source, target} THEN diff
               ELSE [additions |-> ElementsOf(target) \ ElementsOf(source),
                     deletions |-> ElementsOf(source) \ ElementsOf(target)]
      placed == {e \in found.additions : target # Absent /\ \A f \in found.additions :
                   f <= e => f \in ElementsOf(target)}
      deleted == IF source # Absent /\ (target # Absent => placed = found.additions)
                 THEN found.deletions ELSE {}
      clears == source # Absent => diff.deletions \subseteq ElementsOf(source)
  IN IF clears
     THEN [diff |-> found,
           viewer |-> [views EXCEPT !.target.marks = @ \union placed,
                                    !.source.marks = (@ \ diff.deletions) \union deleted]]
     ELSE [diff |-> diff, viewer |-> views]
-----------------------------------------------------------------------------
\* What a dialog starts from
Fresh(d) ==
  /\ dialog' = d /\ isShown' = TRUE /\ versions' = "loading"
  /\ newVersionNumber' = [newVersionNumber EXCEPT ![d] = Absent]
  /\ targetDefinitionId' = Absent /\ isDiagramOpen' = FALSE /\ isMigrating' = FALSE
  /\ diff' = NoDiff /\ viewer' = [s \in Sides |-> NoViewer] /\ sourceLate' = FALSE

MigrateInit ==
  /\ dialog = 1 /\ isShown = TRUE /\ versions = "loading"
  /\ newVersionNumber = [d \in 1 .. MaxDialogs |-> Absent]
  /\ targetDefinitionId = Absent /\ isDiagramOpen = FALSE /\ isMigrating = FALSE
  /\ diff = NoDiff /\ viewer = [s \in Sides |-> NoViewer] /\ sourceLate = FALSE
  /\ migrations = {} /\ migrated = {}
  /\ tries = [d \in 1 .. MaxDialogs |-> [batches |-> 0, errors |-> 0]]

\* openModal of the instances tab
OpenModal ==
  /\ ~isShown /\ dialog < MaxDialogs
  /\ Fresh(dialog + 1) /\ UNCHANGED <<events, migrations, migrated, tries>>

\* onDataLoaded, setVersions
VersionsLoaded ==
  /\ isShown /\ versions = "loading" /\ versions' = "loaded"
  /\ newVersionNumber' = [newVersionNumber EXCEPT ![dialog] = NearestVersion]
  /\ targetDefinitionId' = NearestVersion /\ LoadDiagrams(NearestVersion)
  /\ UNCHANGED <<events, dialog, isShown, isDiagramOpen, isMigrating, diff, sourceLate, migrations,
                 migrated, tries>>

VersionsFailed ==
  /\ isShown /\ versions = "loading" /\ Event(MaxModalInputs) /\ versions' = "failed"
  /\ UNCHANGED <<dialog, isShown, newVersionNumber, targetDefinitionId, isDiagramOpen, isMigrating,
                 diff, viewer, sourceLate, migrations, migrated, tries>>

\* The user picks another target, updateTargetVersion; the list offers it while a request is
\* under way too
UpdateTargetVersion ==
  /\ isShown /\ versions = "loaded" /\ Event(MaxModalInputs)
  /\ \E v \in AllVersions \ {OldVersion, newVersionNumber[dialog]} :
       /\ newVersionNumber' = [newVersionNumber EXCEPT ![dialog] = v]
       /\ targetDefinitionId' = v /\ LoadDiagrams(v)
  /\ migrations' = {IF m.dialog = dialog THEN [m EXCEPT !.retargeted = TRUE] ELSE m : m \in migrations}
  /\ UNCHANGED <<dialog, isShown, versions, isDiagramOpen, isMigrating, diff, sourceLate, migrated,
                 tries>>

\* "Show Models", "Hide Models": the viewers come and go with them, the lists of the
\* differences stay
ToggleModels ==
  /\ isShown /\ Event(MaxModalInputs) /\ isDiagramOpen' = ~isDiagramOpen
  /\ viewer' = [s \in Sides |-> NoViewer]
  /\ UNCHANGED <<dialog, isShown, versions, newVersionNumber, targetDefinitionId, isMigrating, diff,
                 sourceLate, migrations, migrated, tries>>

\* animationListener: the dialog has its new width
TransitionEnd ==
  /\ isShown /\ isDiagramOpen /\ LoadDiagrams(targetDefinitionId) /\ viewer' # viewer
  /\ UNCHANGED <<events, dialog, isShown, versions, newVersionNumber, targetDefinitionId,
                 isDiagramOpen, isMigrating, diff, sourceLate, migrations, migrated, tries>>

\* renderDiagram: a new viewer imports what was fetched
Importing(v) ==
  [v EXCEPT !.imports = Append(@, v.fetched), !.fetched = Absent, !.shown = Empty, !.marks = {}]

\* onDiagramXmlRetrieved, renderDiagram: diagramRendered(false) of the target runs showDiff
\* with the viewer there was, and a new one begins to import
DiagramXmlRetrieved(side) ==
  /\ isShown /\ viewer[side].fetched # Absent
  /\ LET before == IF side = "target" THEN Differing(viewer) ELSE [diff |-> diff, viewer |-> viewer] IN
     /\ diff' = before.diff
     /\ viewer' = [before.viewer EXCEPT ![side] = Importing(before.viewer[side])]
  /\ UNCHANGED <<events, dialog, isShown, versions, newVersionNumber, targetDefinitionId,
                 isDiagramOpen, isMigrating, sourceLate, migrations, migrated, tries>>

\* An import ends, of the newest viewer or of one that was destroyed meanwhile;
\* diagramRendered(true) of the target runs showDiff
DiagramRendered(side) ==
  /\ isShown
  /\ \E i \in DOMAIN viewer[side].imports :
       LET newest == viewer[side].shown = Empty /\ i = Len(viewer[side].imports)
           drawn == [viewer EXCEPT ![side].imports = RemoveAt(@, i),
                       ![side].shown = IF newest THEN viewer[side].imports[i] ELSE @]
           after == IF side = "target" THEN Differing(drawn) ELSE [diff |-> diff, viewer |-> drawn]
       IN /\ diff' = after.diff /\ viewer' = after.viewer
          /\ sourceLate' = IF side = "target" /\ newest
                           THEN viewer.source.shown \in {Absent, Empty} ELSE sourceLate
  /\ UNCHANGED <<events, dialog, isShown, versions, newVersionNumber, targetDefinitionId,
                 isDiagramOpen, isMigrating, migrations, migrated, tries>>

\* onDiagramXmlRetrieveError: the diagram there was stays, with a message over it
DiagramXmlFailed(side) ==
  /\ isShown /\ viewer[side].fetched # Absent /\ Event(MaxModalInputs)
  /\ LET views == [viewer EXCEPT ![side].fetched = Absent, ![side].failed = TRUE]
         after == IF side = "target" THEN Differing(views) ELSE [diff |-> diff, viewer |-> views]
     IN diff' = after.diff /\ viewer' = after.viewer
  /\ UNCHANGED <<dialog, isShown, versions, newVersionNumber, targetDefinitionId, isDiagramOpen,
                 isMigrating, sourceLate, migrations, migrated, tries>>

\* executeMigration; isLoading of the code is never set
ExecuteMigration ==
  /\ isShown /\ ~isMigrating /\ Event(MaxModalInputs)
  /\ newVersionNumber[dialog] \notin {Absent, OldVersion} /\ targetDefinitionId # Absent
  /\ isMigrating' = TRUE
  /\ migrations' = migrations \union
       {[dialog |-> dialog, target |-> targetDefinitionId, retargeted |-> FALSE]}
  /\ UNCHANGED <<dialog, isShown, versions, newVersionNumber, targetDefinitionId, isDiagramOpen, diff,
                 viewer, sourceLate, migrated, tries>>

\* The dialog is gone and its viewers with it
Gone == isShown' = FALSE /\ viewer' = [s \in Sides |-> NoViewer] /\ diff' = NoDiff
\* The same, had the dialogs one flag
RequestEndedForAll(m) == migrations' = migrations \ {m} /\ isMigrating' = FALSE
RequestEnded(m) == migrations' = migrations \ {m} /\ isMigrating' = (isMigrating /\ m.dialog # dialog)

\* The engine made a batch and said so: the toast names the version its dialog has by now
MigrationAnswered(m) ==
  /\ RequestEnded(m)
  /\ migrated' = migrated \union {[request |-> m, version |-> newVersionNumber[m.dialog]]}
  /\ tries' = [tries EXCEPT ![m.dialog].batches = @ + 1]
  /\ IF m.dialog = dialog /\ isShown THEN Gone ELSE UNCHANGED <<isShown, viewer, diff>>
  /\ UNCHANGED <<events, dialog, versions, newVersionNumber, targetDefinitionId, isDiagramOpen,
                 sourceLate>>

\* The request or its answer was lost
MigrationFailed(m) ==
  /\ Event(MaxModalInputs) /\ RequestEnded(m)
  /\ \E made \in 0 .. 1 : tries' = [tries EXCEPT ![m.dialog].batches = @ + made,
                                                 ![m.dialog].errors = @ + 1]
  /\ UNCHANGED <<dialog, isShown, versions, newVersionNumber, targetDefinitionId, isDiagramOpen, diff,
                 viewer, sourceLate, migrated>>

\* The cross closes the dialog, its request goes on
Dismiss ==
  /\ isShown /\ Event(MaxModalInputs) /\ Gone
  /\ UNCHANGED <<dialog, versions, newVersionNumber, targetDefinitionId, isDiagramOpen, isMigrating,
                 sourceLate, migrations, migrated, tries>>

MigrateNext ==
  \/ OpenModal
  \/ VersionsLoaded
  \/ VersionsFailed
  \/ UpdateTargetVersion
  \/ ToggleModels
  \/ TransitionEnd
  \/ \E side \in Sides : DiagramXmlRetrieved(side)
  \/ \E side \in Sides : DiagramRendered(side)
  \/ \E side \in Sides : DiagramXmlFailed(side)
  \/ ExecuteMigration
  \/ \E m \in migrations : MigrationAnswered(m)
  \/ \E m \in migrations : MigrationFailed(m)
  \/ Dismiss
-----------------------------------------------------------------------------
\* Every batch a dialog tells of was asked of it, with the target its toast names unless the
\* user chose another one meanwhile, and a dialog makes one batch and one more for every
\* answer that was lost: the dialog stays usable while its request is under way
MigrationToldAsSent ==
  /\ \A t \in migrated : t.version = t.request.target \/ t.request.retargeted
  /\ \A d \in 1 .. MaxDialogs : tries[d].batches <= 1 + tries[d].errors

AtRest(v) == v.fetched = Absent /\ v.imports = <<>> /\ v.shown # Absent /\ ~v.failed

\* Diagrams at rest are those of the two versions, and the marks on them their differences,
\* unless the source came after the target: only the target's rendering runs showDiff
DiffIsOfTheDiagrams ==
  (isShown /\ AtRest(viewer.source) /\ AtRest(viewer.target)) =>
    /\ viewer.target.shown = newVersionNumber[dialog] /\ viewer.source.shown = OldVersion
    /\ ~sourceLate =>
         /\ viewer.target.marks = ElementsOf(viewer.target.shown) \ ElementsOf(OldVersion)
         /\ viewer.source.marks = ElementsOf(OldVersion) \ ElementsOf(viewer.target.shown)

MigrateDialogIsTrue == MigrationToldAsSent /\ DiffIsOfTheDiagrams
=============================================================================
