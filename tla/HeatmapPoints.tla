---------------------------- MODULE HeatmapPoints ----------------------------
(***************************************************************************)
(* What HeatmapUtil draws for a history: which elements of the diagram get *)
(* points, how many, how hot, and the tooltip of the element under the     *)
(* mouse.  When it draws is HeatmapLayer.  A value is a fraction           *)
(* <<num, den>>; of a point its distance from the centre is kept, squared  *)
(* and relative to the shape; averages are rounded down to the units in    *)
(* which a second, a minute and an hour are given; no two bends of a flow  *)
(* are in one place.                                                       *)
(***************************************************************************)
EXTENDS Parts

CONSTANTS HeatNodes,  \* nodes of the diagram
          HeatTypes,  \* the type of each: "Task", "Event", "Gateway" or one that is excluded
          HeatFlows,  \* its sequence flows, pairs of nodes
          HeatSecond, HeatMinute, HeatHour,
          HeatRuns,   \* what may be added to a node's history: how often it ran and how long
          HeatSpacings, HeatBends, \* how wide a shape and how bent a flow may be drawn
          MaxHeatings \* bound of what the user and the engine do

ASSUME HeatPointsAssumption ==
  /\ IsFiniteSet(HeatNodes) /\ HeatFlows \subseteq HeatNodes \X HeatNodes
  /\ HeatNodes \intersect HeatFlows = {} /\ Absent \notin HeatNodes \union HeatFlows
  /\ HeatSecond \in Nat \ {0} /\ HeatMinute > HeatSecond /\ HeatHour > HeatMinute
  /\ HeatMinute \in Nat /\ HeatHour \in Nat
  /\ HeatRuns \subseteq [count : Nat, duration : Nat]
  /\ HeatSpacings \subseteq Nat
  \* a flow leads somewhere, and between any two bends
  /\ HeatBends \subseteq Seq(Nat \ {0}) \ {<<>>}
  /\ Absent \notin [data : [HeatNodes -> [count : Nat, duration : Nat]],
                    viewBy : {"count", "timeSpent"}]

VARIABLES
  ran,      \* of each node, how often and how long in all
  heat,     \* the data and the view last rendered, Absent
  spacings, \* how many spacings a shape is wide
  bends,    \* how many points there are on each segment of a flow
  listens,  \* the text of each element's listeners, Absent
  over,     \* the element under the mouse, Absent
  tip,      \* the tooltip's text, Absent if it is not shown
  follows   \* what places the tooltip when the view moves, in the order they came

heatPointVars == <<ran, heat, spacings, bends, listens, over, tip, follows>>

HeatElements == HeatNodes \union HeatFlows
Abs(n) == IF n < 0 THEN -n ELSE n
Lte(x, y) == x[1] * y[2] <= y[1] * x[2]
\* start to end of a range, as value goes from low to high
Within(start, end, value, low, high) ==
  <<start * (high - low) + (end - start) * (value - low), high - low>>

\* getStructuredHeatmapData: a node that never ran is not in the data
HeatValue(data, viewBy, e) ==
  IF e \notin HeatNodes \/ data[e].count = 0 THEN 0
  ELSE IF viewBy = "count" THEN data[e].count ELSE data[e].duration \div data[e].count

HighestValue(data, viewBy) == Max({HeatValue(data, viewBy, e) : e \in HeatNodes} \union {100})

ScaleDurationValue(ms, maxMs) ==
  CASE ms = 0 -> <<0, 1>>
    [] ms >= maxMs -> <<100, 1>>
    [] ms > 0 /\ ms < HeatSecond -> Within(0, 10, ms, 0, HeatSecond)
    [] ms \in HeatSecond..(HeatMinute - 1) -> Within(10, 20, ms, HeatSecond, HeatMinute)
    [] ms \in HeatMinute..(HeatHour - 1) -> Within(20, 30, ms, HeatMinute, HeatHour)
    [] ms \in HeatHour..(maxMs - 1) -> Within(30, 100, ms, HeatHour, maxMs)

ScaleCountValue(count, maxCount) ==
  LET low == maxCount \div 4  medium == maxCount \div 2  high == (3 * maxCount) \div 4
  IN CASE count = 0 -> <<0, 1>>
       [] count > 0 /\ count >= maxCount -> <<100, 1>>
       [] count \in 1..(low - 1) -> Within(0, 10, count, 0, low)
       [] count \in low..(medium - 1) -> Within(10, 20, count, low, medium)
       [] count \in medium..(high - 1) -> Within(20, 30, count, medium, high)
       [] count \in high..(maxCount - 1) -> Within(30, 100, count, high, maxCount)

Normalized(data, viewBy, e) ==
  LET value == HeatValue(data, viewBy, e)  highest == HighestValue(data, viewBy)
  IN IF viewBy = "count" THEN ScaleCountValue(value, highest)
     ELSE ScaleDurationValue(value, Max({100 * HeatHour, highest}))

\* The elements that are heated: of a flow both ends have run
Heated(data) ==
  {e \in HeatNodes : data[e].count > 0 /\ HeatTypes[e] \in {"Task", "Event", "Gateway"}}
    \union {f \in HeatFlows : data[f[1]].count > 0 /\ data[f[2]].count > 0}
-----------------------------------------------------------------------------
\* A grid of n by n points over a shape, each at its distance from the centre in parts of it
GridSize(n) == Max({3, n})
Grid(n) == {<<2 * i - (n - 1), 2 * j - (n - 1)>> : i \in 0..(n - 1), j \in 0..(n - 1)}
Inside(type, p, half) ==
  CASE type = "Task" -> TRUE
    [] type = "Event" -> p[1] * p[1] + p[2] * p[2] <= half * half
    [] type = "Gateway" -> Abs(p[1]) + Abs(p[2]) <= half
\* generateTaskPoints, generateEventPoints, generateGatewayPoints and calculatePointValue: a
\* point's value goes from the peak at the centre to the floor at a corner
ShapePoints(e, n) ==
  LET size == GridSize(n)
  IN {[at |-> p, cold |-> <<p[1] * p[1] + p[2] * p[2], 2 * (size - 1) * (size - 1)>>] :
        p \in {p \in Grid(size) : Inside(HeatTypes[e], p, size - 1)}}
Floor(e) == IF HeatTypes[e] = "Task" THEN <<0, 1>> ELSE <<2, 1>>
Peak(v) == <<2 * v[1] + 10 * v[2], v[2]>>

\* generateSequenceFlowPoints: at each point, how far it is from the source along the flow, whose
\* segments are given by the number of points on them; its value is the mean of the ends' by that
FlowEnd(v) == IF Lte(v, <<5, 1>>) THEN <<5, 1>> ELSE v
CumulativeDistances(segments) ==
  LET upTo[i \in 0..Len(segments)] == IF i = 0 THEN 0 ELSE upTo[i - 1] + segments[i] IN upTo
LengthOf(segments) == CumulativeDistances(segments)[Len(segments)]
FlowPoints(segments) ==
  FlattenSeq([i \in DOMAIN segments |->
    [j \in 1..(segments[i] + 1) |-> CumulativeDistances(segments)[i - 1] + j - 1]])
-----------------------------------------------------------------------------
HeatInit ==
  /\ ran = [e \in HeatNodes |-> [count |-> 0, duration |-> 0]] /\ heat = Absent
  /\ spacings \in HeatSpacings /\ bends \in HeatBends
  /\ listens = [e \in HeatElements |-> Absent] /\ over = Absent /\ tip = Absent /\ follows = <<>>

\* cleanupHeatmapTooltip hides the tooltip; what places it stays
Cleanup == /\ tip' = Absent /\ UNCHANGED <<over, follows>>

\* Listeners that a later rendering does not replace
ListeningStill(data, viewBy) ==
  [e \in HeatElements |-> IF e \in Heated(data) THEN HeatValue(data, viewBy, e) ELSE listens[e]]
\* setupHeatmapTooltip, after the listeners of the last rendering were removed
SetupHeatmapTooltip(data, viewBy) ==
  [e \in HeatElements |-> IF e \in Heated(data) THEN HeatValue(data, viewBy, e) ELSE Absent]

\* createHeatmap with what ran in the chosen time, by the chosen view, or again after a resize
CreateHeatmap ==
  /\ Event(MaxHeatings) /\ Cleanup
  /\ \E viewBy \in {"count", "timeSpent"} :
       /\ heat' = [data |-> ran, viewBy |-> viewBy] /\ listens' = SetupHeatmapTooltip(ran, viewBy)
  /\ UNCHANGED <<ran, spacings, bends>>

DestroyHeatmap ==
  /\ heat # Absent /\ Event(MaxHeatings) /\ Cleanup
  /\ heat' = Absent /\ listens' = [e \in HeatElements |-> Absent]
  /\ UNCHANGED <<ran, spacings, bends>>

\* Instances run, or the time is chosen in which none of a node's did
HistoryChanges ==
  /\ Event(MaxHeatings)
  /\ \E e \in HeatNodes :
       \/ \E r \in HeatRuns : ran' = [ran EXCEPT ![e] = [count |-> @.count + r.count,
                                                         duration |-> @.duration + r.duration]]
       \/ /\ ran[e].count > 0 /\ ran' = [ran EXCEPT ![e] = [count |-> 0, duration |-> 0]]
  /\ UNCHANGED <<heat, spacings, bends, listens, over, tip, follows>>

EnterElement ==
  /\ over = Absent /\ Event(MaxHeatings) /\ \E e \in HeatElements :
       /\ over' = e
       /\ IF listens[e] = Absent THEN UNCHANGED <<tip, follows>>
          ELSE tip' = listens[e] /\ follows' = Append(follows, e)
  /\ UNCHANGED <<ran, heat, spacings, bends, listens>>

\* The listener that is there now removes what it placed, and not what an earlier one did
LeaveElement ==
  /\ over # Absent /\ over' = Absent
  /\ tip' = IF listens[over] = Absent THEN tip ELSE Absent
  /\ follows' = IF tip # Absent /\ listens[over] # Absent THEN Front(follows) ELSE follows
  /\ UNCHANGED <<events, ran, heat, spacings, bends, listens>>

HeatNext ==
  CreateHeatmap \/ DestroyHeatmap \/ HistoryChanges \/ EnterElement \/ LeaveElement
-----------------------------------------------------------------------------
\* What ran more or longer is as hot or hotter, from 0 to 100
HeatIsInOrder ==
  heat # Absent => \A a, b \in HeatNodes :
    LET x == Normalized(heat.data, heat.viewBy, a)  y == Normalized(heat.data, heat.viewBy, b)
    IN /\ Lte(<<0, 1>>, x) /\ Lte(x, <<100, 1>>)
       /\ HeatValue(heat.data, heat.viewBy, a) <= HeatValue(heat.data, heat.viewBy, b) => Lte(x, y)
       /\ Lte(Floor(a), Peak(x))

\* The points of a heated flow lead from one end to the other without a gap, and no end of it is
\* hotter than the centre of its node
FlowsLeadFromEndToEnd ==
  heat # Absent => \A f \in HeatFlows \intersect Heated(heat.data) :
    LET points == FlowPoints(bends)
    IN /\ Head(points) = 0 /\ Last(points) = LengthOf(bends)
       /\ \A k \in 1..(Len(points) - 1) : points[k + 1] - points[k] \in {0, 1}
       /\ \A end \in {f[1], f[2]} : LET v == Normalized(heat.data, heat.viewBy, end)
                                    IN Lte(FlowEnd(v), Peak(v))

\* Every heated shape has points, however small it is, evenly about its centre
ShapesHavePoints ==
  heat # Absent => \A e \in HeatNodes \intersect Heated(heat.data) :
    LET points == ShapePoints(e, spacings)
    IN /\ \E p \in points : Lte(p.cold, <<1, 4>>)
       /\ \A p \in points : Lte(p.cold, <<1, 1>>) /\ \E q \in points : q.at = <<-p.at[1], -p.at[2]>>

\* The tooltip is that of the heated element under the mouse, tells its value and moves with it
TooltipIsOfElement ==
  tip # Absent =>
    /\ heat # Absent /\ over \in Heated(heat.data)
    /\ tip = HeatValue(heat.data, heat.viewBy, over) /\ Last(follows) = over

HeatTellsTheHistory ==
  HeatIsInOrder /\ FlowsLeadFromEndToEnd /\ ShapesHavePoints /\ TooltipIsOfElement
=============================================================================
