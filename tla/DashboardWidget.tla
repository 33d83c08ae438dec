-------------------------- MODULE DashboardWidget --------------------------
(***************************************************************************)
(* A doughnut of the dashboard: how many items there are of every process  *)
(* definition key in a time frame, and, drilled down, of every version of  *)
(* one key.  The slices of the code are arrays with one order and one      *)
(* index; here they are functions of their labels, so the two sorts are    *)
(* left out, and the colours and the hovering with them.  A time frame is  *)
(* a question of its own: any answer may come, and late.                   *)
(***************************************************************************)
EXTENDS Parts

CONSTANTS KeyOf,       \* the key of each definition
          MaxItems,    \* bound of the items a definition has in an answer
          MaxLoads,    \* bound of the loads under way
          MaxGestures  \* bound of what the user and the network do

ASSUME DashboardAssumption ==
  /\ {Absent, "link"} \cap Range(KeyOf) = {} /\ DOMAIN KeyOf \cap Range(KeyOf) = {}
  /\ MaxItems \in Nat /\ MaxLoads \in Nat /\ MaxGestures \in Nat

VARIABLES
  loadsUnderWay,         \* how many loads are not answered
  dataLoading,           \* the spinner is shown instead of the chart
  drilldown,
  selectedDefinitionKey, \* Absent: the link leads to the items of every key
  drillData,             \* the slices of each key that was ever loaded
  mainSeries,            \* the slices of the keys
  currentSeries,         \* the slices the legend is about
  sliceVisibility,       \* which of them are not hidden
  mainVisibilityStore,   \* which keys are not hidden, kept over loads
  chartData,             \* the slices of the chart, the hidden ones 0
  totalItems,            \* the count in the middle
  carried                \* what outlived a load: "link", a filtered link; keys that were hidden

dashboardVars == <<loadsUnderWay, dataLoading, drilldown,
  selectedDefinitionKey, drillData, mainSeries, currentSeries, sliceVisibility,
  mainVisibilityStore, chartData, totalItems, carried>>

NoSlices == [label \in {} |-> 0]
Total(series) == SumFunction(series)
Masked(series, visibility) == [l \in DOMAIN series |-> IF visibility[l] THEN series[l] ELSE 0]
AllVisible(series) == [label \in DOMAIN series |-> TRUE]

\* The entries of one map, and those of another under other keys
Joined(map, other) ==
  [k \in DOMAIN map \union DOMAIN other |-> IF k \in DOMAIN map THEN map[k] ELSE other[k]]

\* An answer: how many items of each definition
Answers == [DOMAIN KeyOf -> 0 .. MaxItems]
Versions(items, key) == {d \in DOMAIN KeyOf : KeyOf[d] = key /\ items[d] > 0}
KeysIn(items) == {KeyOf[d] : d \in {v \in DOMAIN KeyOf : items[v] > 0}}
\* transformDataToSeriesData
DrillSeries(items, key) == Restrict(items, Versions(items, key))
MainSeries(items) == [k \in KeysIn(items) |-> Total(DrillSeries(items, k))]

\* setChartData
SetChartData(series, isDrilldown) ==
  /\ drilldown' = isDrilldown /\ chartData' = series /\ totalItems' = Total(series)
\* onDrillup: the slices that the user has not hidden in the main view
Restored(series) ==
  [k \in DOMAIN series |-> k \in DOMAIN mainVisibilityStore => mainVisibilityStore[k]]

ChartShown == ~dataLoading /\ chartData # NoSlices
-----------------------------------------------------------------------------
DashboardInit ==
  /\ loadsUnderWay = 1 /\ dataLoading = TRUE
  /\ drilldown = FALSE /\ selectedDefinitionKey = Absent /\ drillData = NoSlices
  /\ mainSeries = NoSlices /\ currentSeries = NoSlices /\ sliceVisibility = NoSlices
  /\ mainVisibilityStore = NoSlices /\ chartData = NoSlices /\ totalItems = 0
  /\ carried = {}

\* onTimeFrameSelected, loadData: the load before is not cancelled
SelectTimeFrame ==
  /\ Event(MaxGestures) /\ loadsUnderWay < MaxLoads
  /\ loadsUnderWay' = loadsUnderWay + 1
  /\ dataLoading' = TRUE /\ chartData' = NoSlices
  /\ UNCHANGED <<drilldown, selectedDefinitionKey, drillData, mainSeries, currentSeries,
                 sliceVisibility, mainVisibilityStore, totalItems, carried>>

\* onDataLoaded; the finalize of any load ends the spinner of all
DataLoaded(items) ==
  /\ loadsUnderWay > 0 /\ loadsUnderWay' = loadsUnderWay - 1
  /\ dataLoading' = FALSE
  /\ mainSeries' = MainSeries(items) /\ currentSeries' = MainSeries(items)
  /\ SetChartData(MainSeries(items), FALSE)
  /\ drillData' = Joined([k \in KeysIn(items) |-> DrillSeries(items, k)], drillData)
  /\ sliceVisibility' = AllVisible(MainSeries(items))
  /\ mainVisibilityStore' = Joined(mainVisibilityStore, AllVisible(MainSeries(items)))
  /\ carried' = {k \in DOMAIN mainVisibilityStore : ~mainVisibilityStore[k]}
                  \union (IF selectedDefinitionKey = Absent THEN {} ELSE {"link"})
  /\ UNCHANGED <<selectedDefinitionKey, events>>

\* A load fails: nothing but the spinner changes
DataLoadFailed ==
  /\ Event(MaxGestures)
  /\ loadsUnderWay > 0 /\ loadsUnderWay' = loadsUnderWay - 1
  /\ dataLoading' = FALSE
  /\ UNCHANGED <<drilldown, selectedDefinitionKey, drillData, mainSeries, currentSeries,
                 sliceVisibility, mainVisibilityStore, chartData, totalItems, carried>>

\* onChartClick, onDrilldown: a slice of the main view; one of a version opens
\* a page of its own, which changes nothing here
Drilldown(key) ==
  /\ Event(MaxGestures) /\ ChartShown /\ chartData[key] > 0 /\ key \in DOMAIN drillData
  /\ selectedDefinitionKey' = key
  /\ currentSeries' = drillData[key] /\ sliceVisibility' = AllVisible(drillData[key])
  /\ SetChartData(drillData[key], TRUE)
  /\ carried' = carried \ {"link"}
  /\ UNCHANGED <<loadsUnderWay, dataLoading, drillData, mainSeries,
                 mainVisibilityStore>>

\* onDrillup
Drillup ==
  /\ Event(MaxGestures) /\ ~dataLoading /\ drilldown
  /\ currentSeries' = mainSeries /\ sliceVisibility' = Restored(mainSeries)
  /\ SetChartData(Masked(mainSeries, sliceVisibility'), FALSE)
  /\ selectedDefinitionKey' = Absent
  /\ carried' = {}
  /\ UNCHANGED <<loadsUnderWay, dataLoading, drillData, mainSeries,
                 mainVisibilityStore>>

\* onLegendItemClick
LegendItemClick(label) ==
  /\ Event(MaxGestures) /\ ChartShown
  /\ sliceVisibility' = [sliceVisibility EXCEPT ![label] = ~@]
  /\ mainVisibilityStore' =
       IF drilldown THEN mainVisibilityStore
       ELSE [mainVisibilityStore EXCEPT ![label] = sliceVisibility'[label]]
  /\ SetChartData(Masked(currentSeries, sliceVisibility'), drilldown)
  /\ carried' = carried \ {label}
  /\ UNCHANGED <<loadsUnderWay, dataLoading, selectedDefinitionKey,
                 drillData, mainSeries, currentSeries>>

DashboardNext ==
  \/ SelectTimeFrame \/ DataLoadFailed \/ Drillup
  \/ \E items \in Answers : DataLoaded(items)
  \/ \E label \in DOMAIN chartData : Drilldown(label) \/ LegendItemClick(label)
-----------------------------------------------------------------------------
\* What the chart, the count, the legend and the link say is about the same
\* items, as long as there is a chart: a slice is as large as its items are
\* many or hidden, the count is what is not hidden, the versions are those of
\* the key the link leads to, and a slice hidden in the main view is the one
\* that will be hidden there after a drill down.  What a load leaves of the
\* view before is what is named in carried, and nothing else (widget-base.ts).
DashboardTellsOneStory ==
  ChartShown =>
    /\ chartData = Masked(currentSeries, sliceVisibility)
    /\ totalItems = Total(chartData)
    /\ drilldown => /\ selectedDefinitionKey \in DOMAIN mainSeries
                    /\ currentSeries = drillData[selectedDefinitionKey]
                    /\ Total(currentSeries) = mainSeries[selectedDefinitionKey]
    /\ ~drilldown => /\ currentSeries = mainSeries
                     /\ selectedDefinitionKey # Absent => "link" \in carried
                     /\ \A k \in DOMAIN mainSeries \ carried :
                          mainVisibilityStore[k] = sliceVisibility[k]
=============================================================================
