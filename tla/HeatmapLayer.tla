----------------------------- MODULE HeatmapLayer -----------------------------
(***************************************************************************)
(* The heatmap over the diagram of a process definition: the switch of the *)
(* diagram's toolbar and its settings (HeatmapSettingsModalComponent), the *)
(* parameters on the event bus, the page that asks for the history of the  *)
(* version it shows, and WithHeatmap, which draws it on a canvas that is   *)
(* made anew for every diagram.                                            *)
(*                                                                         *)
(* The parameters pass through delay(0) and the data through timer(0), so  *)
(* both come in the order in which they were sent.  A canvas that is       *)
(* resized is drawn again 100 ms later.  bpmn-js imports a diagram before  *)
(* the next timer; it may fail.                                            *)
(***************************************************************************)
EXTENDS DetailPages

CONSTANTS Timelines, \* of the settings
          MaxTicks   \* bound

\* What may be asked for and shown; a resize may draw what has no version.
Histories == [id : Ids, timeline : Timelines]
HeatData == [id : Ids \union {Absent}, timeline : Timelines \union {Absent}, empty : BOOLEAN]

ASSUME HeatmapAssumption == Absent \notin Timelines \union Histories \union HeatData /\ MaxTicks \in Nat

VARIABLES
  heatHere,     \* version in the URL, Absent on any other page
  heatParams,   \* heatmapParams$: active and timeline
  heatSwitch,   \* the switch is on
  heatSettings, \* the settings are open, or their closing is animated
  heatTicks,    \* timers of 0 ms: parameters for the page, data to keep, or
                \* parameters that nobody hears any more
  heatAsked,    \* history that is asked for: version and timeline
  heatXml,      \* the diagram's XML is asked for
  heatCanvas,   \* heatmapInstance
  heatDrawn,    \* initialViewbox is set
  heatPainted,  \* something is drawn on the canvas
  heatShown,    \* activeHeatmapData: version, timeline and whether it is empty
  heatResize,   \* a resized canvas is drawn again in 100 ms
  heatMissed,   \* auxiliary: data came or went without a canvas, the history
                \* failed, or a resize drew what was not there
  heatOverruled \* auxiliary: switched on again while the page's own switching
                \* off was animated

heatVars == <<heatHere, heatParams, heatSwitch, heatSettings, heatTicks, heatAsked, heatXml,
              heatCanvas, heatDrawn, heatPainted, heatShown, heatResize, heatMissed, heatOverruled>>

Inactive(timeline) == [active |-> FALSE, timeline |-> timeline]
Data(id, timeline, empty) == [id |-> id, timeline |-> timeline, empty |-> empty]
NoData == Data(Absent, Absent, TRUE)

HeatmapInit ==
  /\ heatHere = Absent /\ heatParams = Inactive(Absent)
  /\ heatSwitch = FALSE /\ heatSettings = FALSE
  /\ heatTicks = <<>> /\ heatAsked = Absent /\ heatXml = FALSE
  /\ heatCanvas = FALSE /\ heatDrawn = FALSE /\ heatPainted = FALSE /\ heatShown = Absent /\ heatResize = FALSE
  /\ heatMissed = FALSE /\ heatOverruled = FALSE

ParamsTick(p) == [kind |-> "params", value |-> p]
DataTick(d) == [kind |-> "data", value |-> d]
Unheard == [kind |-> "none", value |-> Absent]

-----------------------------------------------------------------------------
\* eventBus.heatmapParams, heard by the page and by the toolbar's switch
Send(p) ==
  /\ Len(heatTicks) < MaxTicks
  /\ heatParams' = p
  /\ heatTicks' = Append(heatTicks, ParamsTick(p))
  /\ heatSwitch' = p.active

\* createHeatmap and destroyHeatmap do nothing without a canvas.
Create(data, ticks) ==
  /\ heatDrawn' = (heatDrawn \/ heatCanvas) /\ heatPainted' = (heatPainted \/ heatCanvas)
  /\ heatTicks' = IF heatCanvas THEN Append(ticks, DataTick(data)) ELSE ticks
  /\ Len(heatTicks') <= MaxTicks

Destroy(ticks) ==
  /\ heatDrawn' = (heatDrawn /\ ~heatCanvas)
  /\ heatTicks' = IF heatCanvas THEN Append(ticks, DataTick(Absent)) ELSE ticks
  /\ Len(heatTicks') <= MaxTicks

\* The page's subscription to the parameters ends.
Unsubscribed(ticks) ==
  [i \in DOMAIN ticks |-> IF ticks[i].kind = "params" THEN Unheard ELSE ticks[i]]

\* Another version keeps the page: subscriptions end, with the ticks of
\* parameters and the request, and the last parameters are heard again.
OpenHeatmapOf(id) ==
  /\ Event /\ heatHere # id
  /\ Len(heatTicks) < MaxTicks
  /\ heatHere' = id
  /\ heatTicks' = Append(Unsubscribed(heatTicks), ParamsTick(heatParams))
  /\ heatAsked' = Absent /\ heatXml' = TRUE
  /\ UNCHANGED <<heatParams, heatSwitch, heatSettings, heatCanvas, heatDrawn, heatPainted, heatShown,
                 heatResize, heatMissed, heatOverruled>>

\* ngOnDestroy and the reset of the event bus
LeaveHeatmap ==
  /\ Event /\ heatHere # Absent
  /\ heatHere' = Absent /\ heatParams' = Inactive(Absent)
  /\ heatSwitch' = FALSE /\ heatSettings' = FALSE
  /\ heatTicks' = <<>> /\ heatAsked' = Absent /\ heatXml' = FALSE
  /\ heatCanvas' = FALSE /\ heatDrawn' = FALSE /\ heatPainted' = FALSE /\ heatShown' = Absent /\ heatResize' = FALSE
  /\ heatMissed' = FALSE /\ heatOverruled' = FALSE

\* Mutant: a new diagram gets a canvas and the heatmap stays active.
DrawnAndStillActive(imported) ==
  /\ heatXml
  /\ heatXml' = FALSE
  /\ heatCanvas' = imported /\ heatPainted' = FALSE
  /\ UNCHANGED <<heatHere, heatParams, heatSwitch, heatSettings, heatTicks, heatAsked, heatDrawn,
                 heatShown, heatResize, heatMissed, heatOverruled, events>>

\* diagramRendered$: false switches the heatmap off and deletes its canvas,
\* true makes a new one.
DiagramDrawn(imported) ==
  /\ heatXml
  /\ heatXml' = FALSE
  /\ heatCanvas' = imported /\ heatPainted' = FALSE
  /\ IF heatCanvas
     THEN Send(Inactive(Absent))
     ELSE UNCHANGED <<heatParams, heatTicks, heatSwitch>>
  /\ UNCHANGED <<heatHere, heatSettings, heatAsked, heatDrawn, heatShown, heatResize, heatMissed,
                 heatOverruled, events>>

-----------------------------------------------------------------------------
\* onToggleHeatmap.  Settings that open send their parameters; settings whose
\* closing is animated stay as they are.
SwitchOn(timeline) ==
  /\ Event /\ heatHere # Absent /\ ~heatSwitch
  /\ heatSettings' = TRUE
  /\ IF heatSettings
     THEN /\ heatSwitch' = TRUE
          /\ heatOverruled' = (heatOverruled \/ ~heatParams.active)
          /\ UNCHANGED <<heatParams, heatTicks>>
     ELSE /\ heatParams.timeline # Absent => timeline = heatParams.timeline
          /\ Send([active |-> TRUE, timeline |-> timeline])
          /\ UNCHANGED heatOverruled
  /\ UNCHANGED <<heatHere, heatAsked, heatXml, heatCanvas, heatDrawn, heatPainted, heatShown, heatResize,
                 heatMissed>>

SwitchOff ==
  /\ Event /\ heatSwitch
  /\ heatSwitch' = FALSE
  /\ UNCHANGED <<heatHere, heatParams, heatSettings, heatTicks, heatAsked, heatXml, heatCanvas,
                 heatDrawn, heatPainted, heatShown, heatResize, heatMissed, heatOverruled>>

\* The animation ends, and the settings' ngOnDestroy switches the heatmap
\* off, with the timeline that was chosen.
SettingsClosed ==
  /\ heatSettings /\ ~heatSwitch
  /\ heatSettings' = FALSE
  /\ \E t \in IF heatParams.timeline = Absent THEN Timelines ELSE {heatParams.timeline} :
       Send(Inactive(t))
  /\ heatOverruled' = FALSE
  /\ UNCHANGED <<heatHere, heatAsked, heatXml, heatCanvas, heatDrawn, heatPainted, heatShown, heatResize,
                 heatMissed, events>>

\* onUpdateHeatmap
UpdateHeatmap(timeline) ==
  /\ Event /\ heatSettings
  /\ Send([active |-> TRUE, timeline |-> timeline])
  /\ heatOverruled' = FALSE
  /\ UNCHANGED <<heatHere, heatSettings, heatAsked, heatXml, heatCanvas, heatDrawn, heatPainted, heatShown,
                 heatResize, heatMissed>>

\* onDiagramSectionClick
ClickDiagram ==
  /\ Event /\ heatCanvas /\ heatShown # Absent /\ heatShown.empty
  /\ Send(Inactive(Absent))
  /\ UNCHANGED <<heatHere, heatSettings, heatAsked, heatXml, heatCanvas, heatDrawn, heatPainted, heatShown,
                 heatResize, heatMissed, heatOverruled>>

-----------------------------------------------------------------------------
\* The page hears parameters: switchMap drops the request of the ones before.
HearParams(p) ==
  /\ heatAsked' = IF p.active THEN [id |-> heatHere, timeline |-> p.timeline] ELSE Absent
  /\ IF p.active
     THEN heatTicks' = Tail(heatTicks) /\ UNCHANGED <<heatDrawn, heatMissed>>
     ELSE /\ Destroy(Tail(heatTicks))
          /\ heatMissed' = IF heatCanvas THEN FALSE ELSE heatMissed \/ heatShown # Absent \/ heatDrawn
  /\ UNCHANGED <<heatShown, heatPainted>>

HeatmapTick ==
  /\ heatTicks # <<>>
  /\ LET t == Head(heatTicks)
     IN \/ t.kind = "params" /\ HearParams(t.value)
        \/ /\ t.kind # "params" /\ heatTicks' = Tail(heatTicks)
           /\ heatShown' = IF t.kind = "data" THEN t.value ELSE heatShown
           /\ UNCHANGED <<heatAsked, heatDrawn, heatPainted, heatMissed>>
  /\ UNCHANGED <<heatHere, heatParams, heatSwitch, heatSettings, heatXml, heatCanvas, heatResize,
                 heatOverruled, events>>

HistoryRead(empty) ==
  /\ heatAsked # Absent
  /\ Create(Data(heatAsked.id, heatAsked.timeline, empty), heatTicks)
  /\ heatMissed' = ~heatCanvas
  /\ heatAsked' = Absent
  /\ UNCHANGED <<heatHere, heatParams, heatSwitch, heatSettings, heatXml, heatCanvas, heatShown,
                 heatResize, heatOverruled, events>>

HistoryFailed ==
  /\ Event /\ heatAsked # Absent
  /\ heatAsked' = Absent /\ heatMissed' = TRUE
  /\ UNCHANGED <<heatHere, heatParams, heatSwitch, heatSettings, heatTicks, heatXml, heatCanvas,
                 heatDrawn, heatPainted, heatShown, heatResize, heatOverruled>>

ResizeCanvas ==
  /\ Event /\ heatCanvas /\ heatDrawn
  /\ heatResize' = TRUE
  /\ UNCHANGED <<heatHere, heatParams, heatSwitch, heatSettings, heatTicks, heatAsked, heatXml,
                 heatCanvas, heatDrawn, heatPainted, heatShown, heatMissed, heatOverruled>>

\* What a resized canvas draws again, if need be nothing at all
Redrawn ==
  /\ heatResize
  /\ heatResize' = FALSE
  /\ Create(IF heatShown = Absent THEN NoData ELSE heatShown, heatTicks)
  /\ heatMissed' = (heatMissed \/ heatShown = Absent \/ heatTicks # <<>>)
  /\ UNCHANGED <<heatHere, heatParams, heatSwitch, heatSettings, heatAsked, heatXml, heatCanvas,
                 heatShown, heatOverruled, events>>

HeatmapNext ==
  \/ \E id \in Ids : OpenHeatmapOf(id)
  \/ LeaveHeatmap
  \/ \E imported \in BOOLEAN : DiagramDrawn(imported)
  \/ \E t \in Timelines : SwitchOn(t) \/ UpdateHeatmap(t)
  \/ SwitchOff \/ SettingsClosed \/ ClickDiagram
  \/ HeatmapTick
  \/ \E empty \in BOOLEAN : HistoryRead(empty)
  \/ HistoryFailed
  \/ ResizeCanvas \/ Redrawn

-----------------------------------------------------------------------------
HeatmapAtRest ==
  /\ heatHere # Absent
  /\ heatTicks = <<>> /\ heatAsked = Absent /\ ~heatXml /\ ~heatResize
  /\ heatSettings = heatSwitch

\* At rest the switch is on exactly if the heatmap is active, and an active
\* heatmap shows the history of the version in the URL over the timeline that
\* was chosen last, on the canvas of this diagram, an inactive one nothing; unless it was switched on while
\* the page was switching it off, there was no canvas or no history, or a
\* resize drew what was about to change
\* (process-definition-detail-page.component.ts:103, diagram.mixin.ts:411).
HeatmapAtRestIsRight ==
  HeatmapAtRest =>
    /\ heatOverruled \/ heatSwitch = heatParams.active
    /\ heatMissed \/ (heatShown = Absent <=> ~heatParams.active)
    /\ heatParams.active /\ ~heatMissed =>
         /\ heatShown.id = heatHere /\ heatShown.timeline = heatParams.timeline
         /\ heatPainted
=============================================================================
