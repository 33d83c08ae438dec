----------------------------- MODULE DeploymentPage -----------------------------
(***************************************************************************)
(* The deployment page: the list of a deployment's files (the info         *)
(* section), the one that is shown (the file view), its tab of definitions *)
(* and the URL.  The selected file passes through a subject of a service   *)
(* that outlives the page: a page that opens is first told the file that   *)
(* was selected on an earlier one.  The page hears of it a turn later, the *)
(* tab of BPMN definitions at once, and the tabs of DMN definitions when   *)
(* the URL names it.                                                       *)
(*                                                                         *)
(* Page and info section take the details from one memo.  A file is a      *)
(* deployment and a name; deployments have files of the same names.        *)
(* Deleting is as on the batch page and left out, and so is the work of    *)
(* BPMN tabs that are gone: their subscription to the subject is never     *)
(* ended, and they go on loading what nobody sees.                         *)
(***************************************************************************)
EXTENDS DetailPages

CONSTANT FileKinds \* of the files of a deployment: "bpmn", "dmn", "text" or "other"

\* Names of files, of a URL without one, and the tabs of definitions
AllFiles == [of : Ids, name : DOMAIN FileKinds]
Undefined == 0
Names == {Undefined} \union DOMAIN FileKinds
DefinitionTabs == [kind : {"bpmn", "dmn", "drd"}, asks : Names,
                   rows : {Absent, <<>>} \union {<<name>> : name \in Names}]

ASSUME FileKindsAssumption ==
  /\ FileKinds \in Seq({"bpmn", "dmn", "text", "other"}) /\ FileKinds # <<>>
  /\ Absent \notin AllFiles \union DefinitionTabs

VARIABLES
  deployment,   \* whose page is open, Absent if none is
  depView,      \* "loading", "found" or "missing"
  detailsMemo,  \* of each deployment: "none", "pending" or "answered"
  detailsOld,   \* the memo's life is over
  info,         \* the info section: "none", "waiting", "shown" or "failed"
  selectedResource, \* the last value of the service's subject
  delayed,      \* its values on their way to the page
  pageResource, \* selectedResource of the page
  fileShown,    \* resource of the file view
  depEnabled,   \* the toolbar's buttons are enabled
  urlName,      \* resourceName in the URL
  navigation,   \* the navigation under way: none or one name
  defTab,       \* the tab that is shown, Absent if none is
  panel,        \* the tabs' panel: visible, and (auxiliary) whether the user
                \* moved it since the view changed
  viewChanged,  \* onFileViewChanged waits for its timer
  versions,     \* the kinds of definitions whose versions are known
  versionsAsked, versionGaps, \* requests under way; auxiliary: answers lost
  nameless      \* auxiliary: a tab has taken the name out of the URL

detailsVars == <<detailsMemo, detailsOld>>
pageOnly == <<pageResource, fileShown, depEnabled>>
versionVars == <<versions, versionsAsked, versionGaps>>
deploymentVars == <<deployment, depView, detailsVars, info, selectedResource, delayed, pageOnly,
                    urlName, navigation, defTab, panel, viewChanged, versionVars, nameless>>

Files(d) == [of : {d}, name : DOMAIN FileKinds]
First(d) == [of |-> d, name |-> 1]
NameOf(file) == IF file = Absent THEN Undefined ELSE file.name
KindOf(file) == IF file = Absent THEN "other" ELSE FileKinds[file.name]
Diagrams == {"bpmn", "dmn"}
FirstPanel == [visible |-> TRUE, moved |-> FALSE]

DeploymentInit ==
  /\ deployment = Absent /\ depView = "loading"
  /\ detailsMemo = [d \in Ids |-> "none"] /\ detailsOld = FALSE
  /\ info = "none" /\ selectedResource = Absent /\ delayed = <<>>
  /\ pageResource = Absent /\ fileShown = Absent /\ depEnabled = FALSE
  /\ urlName = Undefined /\ navigation = <<>> /\ defTab = Absent
  /\ panel = FirstPanel /\ viewChanged = FALSE
  /\ versions = {} /\ versionsAsked = {} /\ versionGaps = {} /\ nameless = FALSE

-----------------------------------------------------------------------------
\* A tab that loads the definitions of a file
Asking(kind, name) == [kind |-> kind, asks |-> name, rows |-> Absent]
Asks(tab, name) == [tab EXCEPT !.asks = name, !.rows = Absent]

\* Mutant: a tab stays as it was when another kind of file is shown.
AnyTabStays(kind, selected, url) ==
  IF kind \notin Diagrams THEN Absent
  ELSE IF defTab # Absent THEN defTab
  ELSE Asking(kind, IF kind = "bpmn" THEN NameOf(selected) ELSE url)

\* The first tab of a file of this kind: kept, or created with its first
\* load, by the subject or by the URL.
TabFor(kind, selected, url) ==
  IF kind \notin Diagrams THEN Absent
  ELSE IF defTab # Absent /\ defTab.kind = kind THEN defTab
  ELSE Asking(kind, IF kind = "bpmn" THEN NameOf(selected) ELSE url)

\* setSelectedResource: the page will hear, the BPMN tab hears now.
Selected(file) ==
  /\ selectedResource' = file
  /\ delayed' = Append(delayed, file)

\* memoize, for the details
CurrentDetails == IF detailsOld THEN [d \in Ids |-> "none"] ELSE detailsMemo
GetDetails(d) ==
  /\ detailsMemo' = [CurrentDetails EXCEPT ![d] = IF @ = "none" THEN "pending" ELSE @]
  /\ detailsOld' = FALSE

\* The details are there: the page is drawn, the info section takes the
\* details again and selects the first file, and a tab is created for the
\* file the page has heard of.
Drawn(d, told) ==
  LET now == IF info' = "shown" THEN First(d) ELSE selectedResource
  IN /\ depView' = "found"
     /\ info' = IF detailsMemo'[d] = "answered" THEN "shown" ELSE "waiting"
     /\ selectedResource' = now
     /\ delayed' = IF info' = "shown" THEN Append(told, First(d)) ELSE told
     /\ defTab' = TabFor(KindOf(pageResource), now, urlName)
     /\ navigation' = <<NameOf(pageResource)>>
     /\ versionsAsked' = Diagrams
     /\ viewChanged' = TRUE

\* ngOnInit: the subject's value is on its way; details that the memo has come at once.
OpenDeployment(d) ==
  /\ Event /\ deployment = Absent
  /\ deployment' = d
  /\ GetDetails(d)
  /\ IF detailsMemo'[d] = "answered"
     THEN Drawn(d, <<selectedResource>>)
     ELSE /\ depView' = "loading" /\ delayed' = <<selectedResource>>
          /\ UNCHANGED <<info, selectedResource, defTab, navigation, versionsAsked, viewChanged>>
  /\ UNCHANGED <<pageOnly, urlName, panel, versions, versionGaps, nameless>>

\* ngOnDestroy; the subject and the memo stay.
LeaveDeployment ==
  /\ Event /\ deployment # Absent
  /\ deployment' = Absent /\ depView' = "loading" /\ info' = "none" /\ delayed' = <<>>
  /\ pageResource' = Absent /\ fileShown' = Absent /\ depEnabled' = FALSE
  /\ urlName' = Undefined /\ navigation' = <<>> /\ defTab' = Absent
  /\ panel' = FirstPanel /\ viewChanged' = FALSE
  /\ versions' = {} /\ versionsAsked' = {} /\ versionGaps' = {} /\ nameless' = FALSE
  /\ UNCHANGED <<detailsVars, selectedResource>>

FilesAnswered(d) ==
  /\ detailsMemo[d] = "pending"
  /\ \/ /\ deployment = d /\ depView = "loading"
        /\ IF detailsOld
           THEN detailsMemo' = [e \in Ids |-> IF e = d THEN "pending" ELSE "none"]
           ELSE detailsMemo' = [detailsMemo EXCEPT ![d] = "answered"]
        /\ detailsOld' = FALSE
        /\ Drawn(d, delayed)
     \/ /\ deployment = d /\ info = "waiting"
        /\ detailsMemo' = [detailsMemo EXCEPT ![d] = "answered"]
        /\ info' = "shown"
        /\ Selected(First(d))
        /\ defTab' = IF defTab # Absent /\ defTab.kind = "bpmn" THEN Asks(defTab, 1) ELSE defTab
        /\ UNCHANGED <<detailsOld, depView, navigation, versionsAsked, viewChanged>>
     \/ /\ deployment # d \/ (depView # "loading" /\ info # "waiting")
        /\ detailsMemo' = [detailsMemo EXCEPT ![d] = "answered"]
        /\ UNCHANGED <<detailsOld, depView, info, selectedResource, delayed, defTab, navigation,
                       versionsAsked, viewChanged>>
  /\ UNCHANGED <<deployment, pageOnly, urlName, panel, versions, versionGaps, nameless, events>>

\* An error is not replayed.  One file that cannot be read is an error of them all.
FilesFailed(d) ==
  /\ Event /\ detailsMemo[d] = "pending"
  /\ detailsMemo' = [detailsMemo EXCEPT ![d] = "none"]
  /\ depView' = IF deployment = d /\ depView = "loading" THEN "missing" ELSE depView
  /\ info' = IF deployment = d /\ info = "waiting" THEN "failed" ELSE info
  /\ UNCHANGED <<deployment, detailsOld, selectedResource, delayed, pageOnly, urlName, navigation,
                 defTab, panel, viewChanged, versionVars, nameless>>

MemoAges ==
  /\ Event /\ ~detailsOld /\ detailsOld' = TRUE
  /\ UNCHANGED <<deployment, depView, detailsMemo, info, selectedResource, delayed, pageOnly,
                 urlName, navigation, defTab, panel, viewChanged, versionVars, nameless>>

-----------------------------------------------------------------------------
\* handleResourceClick
ClickFile(file) ==
  /\ Event /\ info = "shown" /\ file.of = deployment
  /\ Selected(file)
  /\ defTab' = IF defTab # Absent /\ defTab.kind = "bpmn" THEN Asks(defTab, file.name) ELSE defTab
  /\ UNCHANGED <<deployment, depView, detailsVars, info, pageOnly, urlName, navigation, panel,
                 viewChanged, versionVars, nameless>>

\* The page hears of the file.  It has a toolbar and a file view once it is drawn.
SelectionHeard ==
  /\ delayed # <<>>
  /\ LET file == Head(delayed)
         drawn == depView = "found"
     IN /\ pageResource' = file
        /\ depEnabled' = (depEnabled \/ drawn)
        /\ fileShown' = IF drawn THEN file ELSE fileShown
        /\ viewChanged' = (viewChanged \/ (drawn /\ file # fileShown))
        /\ defTab' = IF drawn THEN TabFor(KindOf(file), selectedResource, urlName) ELSE defTab
        /\ navigation' = <<NameOf(file)>>
  /\ delayed' = Tail(delayed) /\ nameless' = FALSE
  /\ UNCHANGED <<deployment, depView, detailsVars, info, selectedResource, urlName, panel,
                 versionVars, events>>

\* activeTabsChanged: DMN files have a second tab, of requirements.
ChooseTab(kind) ==
  /\ Event /\ KindOf(pageResource) = "dmn" /\ defTab # Absent /\ defTab.kind # kind
  /\ defTab' = Asking(kind, urlName)
  /\ navigation' = <<NameOf(pageResource)>> /\ nameless' = FALSE
  /\ UNCHANGED <<deployment, depView, detailsVars, info, selectedResource, delayed, pageOnly,
                 urlName, panel, viewChanged, versionVars>>

\* onRowClick and resetUrl replace the parameters of the URL by their own.
TabReplacesUrl ==
  /\ Event /\ defTab # Absent
  /\ navigation' = <<Undefined>> /\ nameless' = TRUE
  /\ UNCHANGED <<deployment, depView, detailsVars, info, selectedResource, delayed, pageOnly,
                 urlName, defTab, panel, viewChanged, versionVars>>

\* A later navigation replaces an earlier one.  The DMN tabs load by the new URL.
Navigated ==
  /\ navigation # <<>> /\ navigation' = <<>>
  /\ urlName' = Head(navigation)
  /\ defTab' = IF defTab # Absent /\ defTab.kind # "bpmn" /\ urlName' # urlName
               THEN Asks(defTab, urlName') ELSE defTab
  /\ UNCHANGED <<deployment, depView, detailsVars, info, selectedResource, delayed, pageOnly,
                 panel, viewChanged, versionVars, nameless, events>>

TabLoaded ==
  /\ defTab # Absent /\ defTab.rows = Absent
  /\ \E rows \in {<<>>, <<defTab.asks>>} : \* after a failure none
       defTab' = [defTab EXCEPT !.rows = rows]
  /\ UNCHANGED <<deployment, depView, detailsVars, info, selectedResource, delayed, pageOnly,
                 urlName, navigation, panel, viewChanged, versionVars, nameless, events>>

-----------------------------------------------------------------------------
\* onFileViewChanged
ViewTimer ==
  /\ viewChanged /\ viewChanged' = FALSE
  /\ panel' = [visible |-> KindOf(fileShown) \in Diagrams, moved |-> FALSE]
  /\ UNCHANGED <<deployment, depView, detailsVars, info, selectedResource, delayed, pageOnly,
                 urlName, navigation, defTab, versionVars, nameless, events>>

\* The DMN viewer opened another of its views.
ViewsChanged ==
  /\ Event /\ KindOf(fileShown) = "dmn" /\ viewChanged' = TRUE
  /\ UNCHANGED <<deployment, depView, detailsVars, info, selectedResource, delayed, pageOnly,
                 urlName, navigation, defTab, panel, versionVars, nameless>>

\* expandOrCollapsePanel
TogglePanel ==
  /\ Event /\ depView = "found"
  /\ panel' = [panel EXCEPT !.visible = ~@, !.moved = TRUE]
  /\ UNCHANGED <<deployment, depView, detailsVars, info, selectedResource, delayed, pageOnly,
                 urlName, navigation, defTab, viewChanged, versionVars, nameless>>

\* The processes replace the list of versions, the decisions are added to it.
VersionsAnswered(kind) ==
  /\ kind \in versionsAsked /\ versionsAsked' = versionsAsked \ {kind}
  /\ versions' = IF kind = "bpmn" THEN {"bpmn"} ELSE versions \union {"dmn"}
  /\ versionGaps' = versionGaps \union (versions \ versions')
  /\ UNCHANGED <<deployment, depView, detailsVars, info, selectedResource, delayed, pageOnly,
                 urlName, navigation, defTab, panel, viewChanged, nameless, events>>

VersionsFailed(kind) ==
  /\ Event /\ kind \in versionsAsked /\ versionsAsked' = versionsAsked \ {kind}
  /\ versionGaps' = versionGaps \union {kind}
  /\ UNCHANGED <<deployment, depView, detailsVars, info, selectedResource, delayed, pageOnly,
                 urlName, navigation, defTab, panel, viewChanged, versions, nameless>>

DeploymentNext ==
  \/ \E d \in Ids : \/ OpenDeployment(d) \/ FilesAnswered(d) \/ FilesFailed(d)
                    \/ \E file \in Files(d) : ClickFile(file)
  \/ LeaveDeployment \/ MemoAges \/ SelectionHeard \/ TabReplacesUrl \/ Navigated
  \/ \E kind \in {"dmn", "drd"} : ChooseTab(kind)
  \/ TabLoaded \/ ViewTimer \/ ViewsChanged \/ TogglePanel
  \/ \E kind \in Diagrams : VersionsAnswered(kind) \/ VersionsFailed(kind)

-----------------------------------------------------------------------------
DeploymentAtRest ==
  depView = "found" /\ info = "shown" /\ delayed = <<>> /\ navigation = <<>> /\ ~viewChanged

\* A page at rest shows the file its info section marks: in the file view,
\* the toolbar, the URL, the tab and its rows, with its panel open for
\* diagrams only, and it is one of this deployment, whatever was selected
\* before.  Apart from it go a URL that a tab has replaced, a panel that the
\* user moved, and versions whose answer failed or was overwritten
\* (deployment-detail-page.component.ts:87, deployment-info-section.component.ts:52).
DeploymentAtRestShowsItsFile ==
  LET kind == KindOf(selectedResource) IN
  DeploymentAtRest =>
    /\ selectedResource.of = deployment
    /\ pageResource = selectedResource /\ fileShown = selectedResource /\ depEnabled
    /\ nameless \/ urlName = selectedResource.name
    /\ panel.moved \/ (panel.visible <=> kind \in Diagrams)
    /\ IF kind \notin Diagrams THEN defTab = Absent
       ELSE /\ defTab # Absent /\ (defTab.kind = "bpmn" <=> kind = "bpmn")
            /\ \/ defTab.rows \in {Absent, <<>>, <<selectedResource.name>>}
               \/ nameless /\ kind = "dmn"
            /\ kind \in versions \union versionsAsked \union versionGaps
=============================================================================
