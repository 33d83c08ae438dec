---------------------------- MODULE DiagramMarks ----------------------------
(***************************************************************************)
(* What the page of an instance and the page of a definition draw on their *)
(* diagram: tokens, incidents, suspensions and pending commands as         *)
(* overlays, states and incidents as markers, tooltips beside an overlay   *)
(* under the mouse, and the activity that is filtered.  Nothing holds what *)
(* was drawn but the diagram: each drawing first removes what the page     *)
(* thinks it drew before.  Positions, colours and the selection are left   *)
(* out; each activity is an element of the diagram.                        *)
(***************************************************************************)
EXTENDS Parts

CONSTANTS MarkedActivities, \* elements of the diagram
          MaxMarkInputs     \* bound of what the engine and the user do

Kinds == {"terminated", "completed", "active", "incident", "suspended", "command", "tooltip", "stray"}
Tips == {"tooltip", "stray"}
\* What there is of an activity
ActivityStates ==
  [trail : Seq({"open", "completed", "canceled"}), waiting : 0..1, incidents : 0..1,
   suspended : BOOLEAN]

ASSUME MarkAssumption ==
  /\ MaxMarkInputs \in Nat
  /\ Absent \notin [MarkedActivities -> ActivityStates]
  /\ Absent \notin [activity : MarkedActivities, kind : Kinds, tip : {"due", "shown"}]

VARIABLES
  drawnFor,   \* "instance" or "definition"
  engine,     \* what there is of each activity
  answers,    \* loads under way, each with what it will answer
  known,      \* what the page keeps of the last answer, Absent
  isDrawn,    \* diagramRendered
  areShown,   \* diagramFlowHighlighted or showInstanceStatistics
  overlay,    \* of each activity and kind their counts, in the order they came
  marker,     \* of each activity
  command,    \* the activities with a pending command
  under,      \* the overlay under the mouse, Absent
  timers,     \* activities with a timer of an overlay that is gone
  faded,      \* the activities that are dimmed
  filteredBy, \* the activity of the URL, Absent
  pulled,     \* auxiliary: an overlay was removed under the mouse
  onceToldOf, \* auxiliary: activities that any answer told of without a history
  wiped       \* auxiliary: activities whose history was drawn since their last command

markVars == <<drawnFor, engine, answers, known, isDrawn, areShown, overlay, marker, command, under,
              timers, faded, filteredBy, pulled, onceToldOf, wiped>>

Nothing == [trail |-> <<>>, waiting |-> 0, incidents |-> 0, suspended |-> FALSE]
CountOf(state, trail) == Cardinality({i \in DOMAIN trail : trail[i] = state})
\* Of one activity's history the definition's page is told what is open
Told(a) == IF drawnFor = "instance" THEN a
           ELSE [a EXCEPT !.trail = [i \in 1..CountOf("open", a.trail) |-> "open"]]
InHistory(a) == a.trail # <<>>
-----------------------------------------------------------------------------
NoOverlays == [kind \in Kinds |-> <<>>]
WithOf(list, kind, counts) == [list EXCEPT ![kind] = counts]
WithOneOf(list, kind) == WithOf(list, kind, Append(list[kind], 1))
\* The overlay that tells of n, if there are any
Mark(n) == IF n = 0 THEN <<>> ELSE <<n>>
EndedMarked(a) == [NoOverlays EXCEPT !.terminated = Mark(CountOf("canceled", a.trail)),
                               !.completed = Mark(CountOf("completed", a.trail))]

\* addTokensToDiagram, addActiveTokensToDiagram, showIncidentTokensOnDiagram: what there was
\* goes where there is a history
Marked(list, a) ==
  LET kept == IF InHistory(a) THEN EndedMarked(a) ELSE list
  IN [kept EXCEPT !.active = kept.active \o Mark(CountOf("open", a.trail) + a.waiting),
                  !.incident = kept.incident \o Mark(a.incidents)]
\* The same, with the incidents drawn before the tokens
MarkedIncidentsFirst(list, a) ==
  LET kept == IF InHistory(a) THEN EndedMarked(a)
              ELSE [list EXCEPT !.incident = list.incident \o Mark(a.incidents)]
  IN [kept EXCEPT !.active = kept.active \o Mark(CountOf("open", a.trail) + a.waiting)]
InstanceMarked(list, a) == Marked(list, a)

\* updateJobDefinitionsOverlayOnDiagram
SuspensionMarked(list, a) ==
  [list EXCEPT !.suspended = IF a.suspended THEN Append(list.suspended, 1) ELSE <<>>]
\* markupDiagram of the definition's page: all that is there stays
DefinitionMarked(list, a) ==
  SuspensionMarked([list EXCEPT !.incident = list.incident \o Mark(a.incidents),
                                !.active = list.active \o Mark(CountOf("open", a.trail))], a)
\* clearTokens
DefinitionCleared(list, a) == IF InHistory(a) \/ a.incidents > 0 THEN NoOverlays ELSE list
\* updateDiagram
DefinitionUpdated(list, a, shown) ==
  SuspensionMarked(IF shown THEN DefinitionMarked(list, a) ELSE list, a)

\* getMarkerType of the first entry
MarkerOf(a) == CASE Head(a.trail) = "open" -> "inProgress"
                 [] Head(a.trail) = "completed" -> "completedSuccess"
                 [] OTHER -> "canceled"
\* colorShapes
Coloured(marks, a, shown) ==
  IF a.incidents > 0 THEN (IF shown THEN {"incident"} ELSE {})
  ELSE IF InHistory(a) THEN (IF shown THEN {MarkerOf(a)} ELSE {}) ELSE marks
-----------------------------------------------------------------------------
\* A tooltip that is left behind when its overlay goes
Strayed(list) == [list EXCEPT !.tooltip = <<>>, !.stray = list.stray \o list.tooltip]
\* The overlays become lists, and the mouse is over nothing if its overlay is gone
Redrawn(lists) ==
  LET gone == under # Absent /\ Len(lists[under.activity][under.kind])
                                < Len(overlay[under.activity][under.kind])
  IN /\ under' = IF gone THEN Absent ELSE under
     /\ timers' = IF gone /\ under.tip = "due" THEN timers \union {under.activity} ELSE timers
     /\ pulled' = (pulled \/ gone)
     /\ overlay' = IF gone THEN [lists EXCEPT ![under.activity] = Strayed(lists[under.activity])]
                   ELSE lists
Everywhere(f(_, _), lists) == [e \in MarkedActivities |-> f(lists[e], known'[e])]

\* markupDiagram, of an instance
DrawInstance(lists, marks) ==
  /\ Redrawn(Everywhere(InstanceMarked, lists))
  /\ marker' = [e \in MarkedActivities |-> Coloured(marks[e], known'[e], areShown')]
  /\ onceToldOf' = onceToldOf \union
       {e \in MarkedActivities : ~InHistory(known'[e]) /\ known'[e].waiting + known'[e].incidents > 0}
  /\ wiped' = wiped \union {e \in MarkedActivities : InHistory(known'[e])}
\* highlightIncidents
IncidentsHighlighted(marks, a) == IF a.incidents > 0 THEN marks \union {"incident"} ELSE marks

MarksInit ==
  /\ drawnFor \in {"instance", "definition"}
  /\ engine = [e \in MarkedActivities |-> Nothing] /\ answers = <<>> /\ known = Absent
  /\ isDrawn = FALSE /\ areShown = (drawnFor = "definition")
  /\ overlay = [e \in MarkedActivities |-> NoOverlays] /\ marker = [e \in MarkedActivities |-> {}]
  /\ command = {} /\ under = Absent /\ timers = {} /\ faded = {} /\ filteredBy = Absent
  /\ pulled = FALSE /\ onceToldOf = {} /\ wiped = {}

pageVars == <<answers, known, isDrawn, areShown, overlay, marker, command, under, timers, faded,
              filteredBy, pulled, onceToldOf, wiped>>

\* The engine: a token waits, begins, ends or is taken away, a job fails or is tried again,
\* a job definition is suspended or activated by others
OpenOf(a) == {i \in DOMAIN a.trail : a.trail[i] = "open"}
EndedAs(a, i, how) == [a EXCEPT !.trail = [a.trail EXCEPT ![i] = how], !.incidents = 0]
Worked(a) ==
  (IF a.waiting = 0 THEN {[a EXCEPT !.waiting = 1]}
   ELSE {[a EXCEPT !.waiting = 0, !.incidents = 0],
         [a EXCEPT !.waiting = 0, !.incidents = 0, !.trail = Append(a.trail, "open")]})
  \union {EndedAs(a, i, how) : i \in OpenOf(a), how \in {"completed", "canceled"}}
  \union (IF a.waiting + CountOf("open", a.trail) > 0
          THEN {[a EXCEPT !.incidents = 1 - a.incidents]} ELSE {})
  \union (IF drawnFor = "definition" THEN {[a EXCEPT !.suspended = ~a.suspended]} ELSE {})
EngineActs ==
  /\ Event(MaxMarkInputs)
  /\ \E e \in MarkedActivities : \E a \in Worked(engine[e]) : engine' = [engine EXCEPT ![e] = a]
  /\ UNCHANGED <<drawnFor, pageVars>>

\* loadProcessInstanceDetailData ends the load before; loadProcessDefinitionDetailData does not
LoadMarks ==
  /\ Event(MaxMarkInputs)
  /\ LET answer == [e \in MarkedActivities |-> Told(engine[e])] IN
     answers' = IF drawnFor = "instance" THEN <<answer>> ELSE Append(answers, answer)
  /\ UNCHANGED <<drawnFor, engine, known, isDrawn, areShown, overlay, marker, command, under, timers,
                 faded, filteredBy, pulled, onceToldOf, wiped>>

\* The activity instances of an instance
InstanceLoaded(i) ==
  /\ drawnFor = "instance" /\ answers' = RemoveAt(answers, i) /\ known' = answers[i]
  /\ UNCHANGED areShown
  /\ IF isDrawn THEN DrawInstance(overlay, marker)
     ELSE UNCHANGED <<overlay, marker, under, timers, pulled, onceToldOf, wiped>>
  /\ UNCHANGED <<events, drawnFor, engine, isDrawn, command, faded, filteredBy>>

\* clearDiagram goes by what was known
Cleaned == IF known = Absent THEN overlay
           ELSE [e \in MarkedActivities |-> DefinitionCleared(overlay[e], known[e])]
Unhighlighted == IF known = Absent THEN marker
                 ELSE [e \in MarkedActivities |-> IF known[e].incidents > 0
                                                  THEN marker[e] \ {"incident"} ELSE marker[e]]
\* updateDiagram
UpdateDiagram ==
  IF isDrawn /\ known' # Absent
  THEN /\ Redrawn([e \in MarkedActivities |-> DefinitionUpdated(Cleaned[e], known'[e], areShown')])
       /\ marker' = IF areShown' THEN Everywhere(IncidentsHighlighted, Unhighlighted) ELSE Unhighlighted
  ELSE Redrawn(Cleaned) /\ marker' = Unhighlighted

\* onDetailsLoaded
DefinitionLoaded(i) ==
  /\ drawnFor = "definition" /\ answers' = RemoveAt(answers, i) /\ known' = answers[i]
  /\ UNCHANGED areShown /\ UpdateDiagram
  /\ UNCHANGED <<events, drawnFor, engine, isDrawn, command, faded, filteredBy, onceToldOf, wiped>>

\* onDiagramRendered; the definition's page marks it whether tokens are shown or not
Render ==
  /\ ~isDrawn /\ isDrawn' = TRUE
  /\ faded' = IF filteredBy = Absent THEN {} ELSE MarkedActivities \ {filteredBy}
  /\ UNCHANGED <<events, drawnFor, engine, answers, known, areShown, command, filteredBy>>
  /\ CASE known = Absent -> UNCHANGED <<overlay, marker, under, timers, pulled, onceToldOf, wiped>>
       [] known # Absent /\ drawnFor = "instance" -> DrawInstance(overlay, marker)
       [] OTHER -> /\ Redrawn(Everywhere(DefinitionMarked, overlay))
                   /\ marker' = Everywhere(IncidentsHighlighted, marker)
                   /\ UNCHANGED <<onceToldOf, wiped>>

\* The button of the diagram: diagramFlowHighlighted$, instanceStatisticsShown$
ToggleShown ==
  /\ Event(MaxMarkInputs) /\ areShown' = ~areShown /\ UNCHANGED <<known, onceToldOf, wiped>>
  /\ IF drawnFor = "definition" THEN UpdateDiagram
     ELSE /\ marker' = IF isDrawn /\ known # Absent
                       THEN [e \in MarkedActivities |-> Coloured(marker[e], known[e], areShown')]
                       ELSE marker
          /\ UNCHANGED <<overlay, under, timers, pulled>>
  /\ UNCHANGED <<drawnFor, engine, answers, isDrawn, command, faded, filteredBy>>

\* onJobDefSuspensionChanged, after the job definitions' tab asked the engine for it
SuspensionChanged ==
  /\ drawnFor = "definition" /\ isDrawn /\ known # Absent /\ Event(MaxMarkInputs)
  /\ \E e \in MarkedActivities, suspended \in BOOLEAN :
       /\ engine' = [engine EXCEPT ![e] = [engine[e] EXCEPT !.suspended = suspended]]
       /\ known' = [known EXCEPT ![e] = [known[e] EXCEPT !.suspended = suspended]]
       /\ Redrawn([overlay EXCEPT ![e] = SuspensionMarked(overlay[e], known'[e])])
  /\ UNCHANGED <<drawnFor, answers, isDrawn, areShown, marker, command, faded, filteredBy, onceToldOf,
                 wiped>>

\* overlayTokenOnShape, removeAllTokenOverlays of one command
Command ==
  /\ drawnFor = "instance" /\ isDrawn /\ Event(MaxMarkInputs)
  /\ \E e \in MarkedActivities :
       IF e \in command
       THEN /\ command' = command \ {e} /\ UNCHANGED wiped
            /\ Redrawn([overlay EXCEPT ![e] = WithOf(overlay[e], "command", <<>>)])
       ELSE /\ command' = command \union {e} /\ wiped' = wiped \ {e}
            /\ Redrawn([overlay EXCEPT ![e] = WithOneOf(overlay[e], "command")])
  /\ UNCHANGED <<drawnFor, engine, answers, known, isDrawn, areShown, marker, faded, filteredBy, onceToldOf>>

\* mouseenter starts a timer, and the tooltip comes when it ends
MouseEnter ==
  /\ under = Absent /\ Event(MaxMarkInputs)
  /\ \E e \in MarkedActivities : \E kind \in Kinds \ Tips :
       overlay[e][kind] # <<>> /\ under' = [activity |-> e, kind |-> kind, tip |-> "due"]
  /\ UNCHANGED <<drawnFor, engine, answers, known, isDrawn, areShown, overlay, marker, command, timers,
                 faded, filteredBy, pulled, onceToldOf, wiped>>

TooltipDue ==
  /\ \/ /\ under # Absent /\ under.tip = "due" /\ under' = [under EXCEPT !.tip = "shown"]
        /\ overlay' = [overlay EXCEPT ![under.activity] = WithOneOf(overlay[under.activity], "tooltip")]
        /\ UNCHANGED timers
     \/ \E e \in timers : /\ timers' = timers \ {e} /\ UNCHANGED under
                          /\ overlay' = [overlay EXCEPT ![e] = WithOneOf(overlay[e], "stray")]
  /\ UNCHANGED <<events, drawnFor, engine, answers, known, isDrawn, areShown, marker, command, faded,
                 filteredBy, pulled, onceToldOf, wiped>>

MouseLeave ==
  /\ under # Absent /\ under' = Absent
  /\ overlay' = [overlay EXCEPT ![under.activity] = WithOf(overlay[under.activity], "tooltip", <<>>)]
  /\ UNCHANGED <<events, drawnFor, engine, answers, known, isDrawn, areShown, marker, command, timers,
                 faded, filteredBy, pulled, onceToldOf, wiped>>

\* The query parameters change: updateDiagramOpacity, once there is a diagram
FilterActivity ==
  /\ Event(MaxMarkInputs) /\ filteredBy' \in (MarkedActivities \union {Absent}) \ {filteredBy}
  /\ faded' = IF ~isDrawn \/ filteredBy' = Absent THEN {} ELSE MarkedActivities \ {filteredBy'}
  /\ UNCHANGED <<drawnFor, engine, answers, known, isDrawn, areShown, overlay, marker, command, under,
                 timers, pulled, onceToldOf, wiped>>

MarksNext ==
  \/ EngineActs \/ LoadMarks
  \/ \E i \in DOMAIN answers : InstanceLoaded(i)
  \/ \E i \in DOMAIN answers : DefinitionLoaded(i)
  \/ Render \/ ToggleShown \/ SuspensionChanged \/ Command
  \/ MouseEnter \/ TooltipDue \/ MouseLeave \/ FilterActivity
-----------------------------------------------------------------------------
States == {"terminated", "completed", "active", "incident"}
\* The counts an answer calls for
Wanted(a) ==
  [terminated |-> CountOf("canceled", a.trail), completed |-> CountOf("completed", a.trail),
   active |-> CountOf("open", a.trail) + (IF drawnFor = "instance" THEN a.waiting ELSE 0),
   incident |-> a.incidents]

\* What is drawn on an activity is what the page knows of it, no token twice and none of an
\* earlier answer; of an instance this holds where there is a history: on an activity that
\* only waits, tokens are drawn again and never removed
TokensAreKnown ==
  (isDrawn /\ known # Absent) => \A e \in MarkedActivities :
    LET hidden == drawnFor = "definition" /\ ~areShown /\ \A kind \in States : overlay[e][kind] = <<>>
        wanted(kind) == IF hidden THEN <<>> ELSE Mark(Wanted(known[e])[kind])
    IN \A kind \in States :
         /\ ToSet(wanted(kind)) \subseteq ToSet(overlay[e][kind])
         /\ e \notin onceToldOf \/ InHistory(known[e]) => overlay[e][kind] = wanted(kind)

\* A mark of suspension is there exactly if the activity's job definition is suspended
SuspensionsAreKnown ==
  (drawnFor = "definition" /\ isDrawn /\ known # Absent) => \A e \in MarkedActivities :
    overlay[e].suspended # <<>> <=> known[e].suspended

\* The colours of the flow and of incidents are those of the last answer, and go with the switch
MarkersAreKnown ==
  (isDrawn /\ known # Absent) => \A e \in MarkedActivities :
    LET a == known[e] IN
    IF drawnFor = "instance"
    THEN IF InHistory(a) \/ a.incidents > 0
         THEN marker[e] = IF ~areShown THEN {} ELSE IF a.incidents > 0 THEN {"incident"} ELSE {MarkerOf(a)}
         ELSE e \in onceToldOf \/ marker[e] = {}
    ELSE IF areShown THEN marker[e] = {"incident"} <=> a.incidents > 0
         ELSE marker[e] = {} \/ a.incidents > 0

\* The overlays of commands are those that are pending, unless the history was drawn since;
\* and a tooltip is there only while the mouse is over its overlay, unless that was removed
OverlaysAreOwned ==
  /\ \A e \in MarkedActivities :
       /\ overlay[e].command # <<>> => e \in command
       /\ e \in command \ wiped => overlay[e].command # <<>>
       /\ (\E kind \in Tips : overlay[e][kind] # <<>>) =>
            pulled \/ (under # Absent /\ under.activity = e /\ under.tip = "shown")
  /\ isDrawn => faded = IF filteredBy = Absent THEN {} ELSE MarkedActivities \ {filteredBy}

DiagramShowsWhatIsKnown ==
  TokensAreKnown /\ SuspensionsAreKnown /\ MarkersAreKnown /\ OverlaysAreOwned
=============================================================================
