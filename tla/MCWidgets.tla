----------------------------- MODULE MCWidgets -----------------------------
(***************************************************************************)
(* The widgets, checked in one run: every behaviour is about one of them.  *)
(***************************************************************************)
EXTENDS DashboardWidget, SequenceFlows, ColumnState, DateRange, MigrateModal, SubmitForm,
        VariableDialog, DiagramMarks, HeatmapPoints, TabRows, ListQuery

CONSTANTS
  orders, bills, orders1, orders2, bills1, \* keys and their versions
  start, ready, review, again, done,       \* activities, ready and again the gateways
  id, name, started, state,                   \* columns
  nothing, good, odd, broken                  \* texts of a form

MCKeyOf == (orders1 :> orders) @@ (orders2 :> orders) @@ (bills1 :> bills)

\* A loop in a loop, and a target of one gateway that leads to another target of it
MCSequenceFlowList ==
  <<<<start, ready>>, <<ready, again>>, <<ready, review>>, <<review, again>>,
    <<again, ready>>, <<again, done>>>>

\* The second release has a new column between the others, and one less
MCReleases == <<<<id, name, started>>, <<id, state, name>>>>

\* Three versions, each with an element the one before lacks or without one it has
MCVersionElements == <<{1, 2}, {1, 3}, {2, 3}>>

\* A start, a gateway and a process inside
MCHeatTypes == (start :> "Event") @@ (again :> "Gateway") @@ (review :> "SubProcess")
MCHeatFlows == {<<start, again>>, <<again, review>>}
MCHeatBends == {<<3>>, <<1, 1, 2>>}
MCHeatRuns == {[count |-> 1, duration |-> 3], [count |-> 26, duration |-> 26 * 7],
               [count |-> 51, duration |-> 51 * 650]}

\* A modification of variables, one with two properties that completes a task, and the task
MCLogEntries == {Operation("ModifyVariable", 1, 1, Absent), Operation("Other", 2, 1, review),
                 Entry("activityInstance", review), Entry("detail", Absent)}
MCTypeChoices == {{}, {"userOperation", "activityInstance"}}

MCWidth == [Short |-> 2, Integer |-> 3, Long |-> 4]

WidgetsInit ==
  /\ part \in {"dashboard", "flows", "columns", "range", "migrate", "form", "variable", "marks",
                 "heat", "history", "called", "list"}
  /\ events = 0
  /\ DashboardInit /\ FlowsInit /\ ColumnInit /\ RangeInit /\ MigrateInit /\ FormInit
  /\ VariableDialogInit /\ MarksInit /\ HeatInit /\ HistoryInit /\ CalledInit /\ ListQueryInit
  /\ part # "range" => filterTypeRange
  /\ part # "form" => purpose = "start"
  /\ part # "variable" => modalType = "Add"
  /\ part # "marks" => drawnFor = "instance"
  /\ part # "list" => list = "job"
  /\ part # "heat" => /\ spacings = CHOOSE n \in HeatSpacings : TRUE
                      /\ bends = CHOOSE b \in HeatBends : TRUE

WidgetsNext ==
  /\ UNCHANGED part
  /\ \/ /\ part = "dashboard" /\ DashboardNext
        /\ UNCHANGED <<flowVars, columnVars, rangeVars, migrateVars, formVars, dialogVars,
                       markVars, heatPointVars, historyVars, calledVars, listQueryVars>>
     \/ /\ part = "flows" /\ FlowsNext
        /\ UNCHANGED <<dashboardVars, columnVars, rangeVars, migrateVars, formVars, dialogVars,
                       markVars, heatPointVars, historyVars, calledVars, listQueryVars>>
     \/ /\ part = "columns" /\ ColumnNext
        /\ UNCHANGED <<dashboardVars, flowVars, rangeVars, migrateVars, formVars, dialogVars,
                       markVars, heatPointVars, historyVars, calledVars, listQueryVars>>
     \/ /\ part = "range" /\ RangeNext
        /\ UNCHANGED <<dashboardVars, flowVars, columnVars, migrateVars, formVars, dialogVars,
                       markVars, heatPointVars, historyVars, calledVars, listQueryVars>>
     \/ /\ part = "migrate" /\ MigrateNext
        /\ UNCHANGED <<dashboardVars, flowVars, columnVars, rangeVars, formVars, dialogVars,
                       markVars, heatPointVars, historyVars, calledVars, listQueryVars>>
     \/ /\ part = "form" /\ FormNext
        /\ UNCHANGED <<dashboardVars, flowVars, columnVars, rangeVars, migrateVars, dialogVars,
                       markVars, heatPointVars, historyVars, calledVars, listQueryVars>>
     \/ /\ part = "variable" /\ VariableDialogNext
        /\ UNCHANGED <<dashboardVars, flowVars, columnVars, rangeVars, migrateVars, formVars,
                       markVars, heatPointVars, historyVars, calledVars, listQueryVars>>
     \/ /\ part = "marks" /\ MarksNext
        /\ UNCHANGED <<dashboardVars, flowVars, columnVars, rangeVars, migrateVars, formVars,
                       dialogVars, heatPointVars, historyVars, calledVars, listQueryVars>>
     \/ /\ part = "heat" /\ HeatNext
        /\ UNCHANGED <<dashboardVars, flowVars, columnVars, rangeVars, migrateVars, formVars,
                       dialogVars, markVars, historyVars, calledVars, listQueryVars>>
     \/ /\ part = "history" /\ HistoryNext
        /\ UNCHANGED <<dashboardVars, flowVars, columnVars, rangeVars, migrateVars, formVars,
                       dialogVars, markVars, heatPointVars, calledVars, listQueryVars>>
     \/ /\ part = "called" /\ CalledNext
        /\ UNCHANGED <<dashboardVars, flowVars, columnVars, rangeVars, migrateVars, formVars,
                       dialogVars, markVars, heatPointVars, historyVars, listQueryVars>>
     \/ /\ part = "list" /\ ListQueryNext
        /\ UNCHANGED <<dashboardVars, flowVars, columnVars, rangeVars, migrateVars, formVars,
                       dialogVars, markVars, heatPointVars, historyVars, calledVars>>

Spec == WidgetsInit /\ [][WidgetsNext]_<<part, events, dashboardVars, flowVars, columnVars,
                                         rangeVars, migrateVars, formVars, dialogVars, markVars,
                                         heatPointVars, historyVars, calledVars, listQueryVars>>
=============================================================================
