------------------------------- MODULE TabRows -------------------------------
(***************************************************************************)
(* Two tabs of a process instance whose rows are made of several answers.  *)
(*                                                                         *)
(* History: the types of history chosen, a memo of two seconds, the        *)
(* server's four reads that run side by side, and HistoryTabService, which *)
(* makes rows of what they found.  The client always sends getAllResults,  *)
(* whose "false" the server takes for true, so no read is cut off at 500.  *)
(* The engine's log only grows: what changes in an entry, the order of the *)
(* rows and their texts are left out.                                      *)
(*                                                                         *)
(* The instances that an instance called: which of its activities called   *)
(* one is read first, then at once the called instances that fit the       *)
(* filters and those that have an incident; the badge counts on its own,   *)
(* and in another way if an activity is filtered.  Rows are remembered for *)
(* ten seconds and come when the diagram is drawn.  Sorting and paging are *)
(* left out.                                                               *)
(***************************************************************************)
EXTENDS Parts

CONSTANTS TypeChoices,    \* the sets of types that users choose, {} for all
          LogEntries,     \* what the engine may log in one transaction
          MaxLog, MaxTabInputs, MaxHistoryRequests \* bounds

HistoryTypes == {"userOperation", "detail", "activityInstance", "incident"}

ASSUME HistoryAssumption ==
  /\ Absent \notin Nat
  /\ {} \in TypeChoices /\ \A c \in TypeChoices : c \subseteq HistoryTypes
  /\ \A e \in LogEntries :
       /\ e.kind \in HistoryTypes
       /\ e.kind = "userOperation" => e.entries \in Nat \ {0} /\ e.details \in Nat
  /\ {MaxLog, MaxTabInputs, MaxHistoryRequests} \subseteq Nat

VARIABLES
  log,        \* of the instance, in the engine
  types,      \* typeFilters
  histories,  \* requests: the types, how much of the log there was when it began, the rows made of
              \* the answer, Absent before it, and whether a read failed
  memo,       \* of each choice, the request that getFullHistory remembers
  awaited,    \* the request the tab waits for, Absent
  shown,      \* the request whose rows are shown, Absent
  isEmptied   \* the last load failed

historyVars == <<log, types, histories, memo, awaited, shown, isEmptied>>

\* Entries of the log: an operation has one entry for each property it changed and details for
\* the variables it set; a task's operation and its activity instance bear the task
Operation(of, entries, details, task) ==
  [kind |-> "userOperation", of |-> of, entries |-> entries, details |-> details, task |-> task]
Entry(kind, task) == [kind |-> kind, of |-> "Other", entries |-> 0, details |-> 0, task |-> task]

\* A type is read if it is among those chosen, or none is
Wants(chosen, type) == chosen = {} \/ type \in chosen
\* The requests under way
Unread == {i \in DOMAIN histories : histories[i].rows = Absent /\ ~histories[i].failed}
\* What a read has found, of a type that was asked for
Seen(r, type) == IF Wants(r.types, type) THEN {k \in DOMAIN log : k <= r.reads[type]} ELSE {}
-----------------------------------------------------------------------------
\* addActivityInformation: the name of the task's activity, if that was read
IsNamed(r, k) ==
  log[k].task # Absent /\
  \E a \in Seen(r, "activityInstance") : log[a].kind = "activityInstance" /\ log[a].task = log[k].task
Row(k, entry, detail, named) == [entry |-> k, property |-> entry, detail |-> detail, isNamed |-> named]

\* The row of an operation unless a detail's row takes its place
OperationsOrDetails(r, k) ==
  IF k \in Seen(r, "detail") /\ log[k].details > 0 THEN 1..log[k].details
  ELSE IF log[k].of = "ModifyVariable" THEN {} ELSE {0}
\* The row of an operation, unless it modified variables, and a row for each of its details
RowsOfEntry(r, k) ==
  (IF log[k].of = "ModifyVariable" THEN {} ELSE {0})
    \union (IF k \in Seen(r, "detail") THEN 1..log[k].details ELSE {})

\* transformUserOperationObjects
OperationRows(r) ==
  UNION {{Row(k, p, d, IsNamed(r, k)) : p \in 1..log[k].entries, d \in RowsOfEntry(r, k)} :
           k \in {k \in Seen(r, "userOperation") : log[k].kind = "userOperation"}}
\* combineAndOrderHistoryData; a detail without an operation is the creation of a variable
Rows(r) ==
  OperationRows(r)
    \union {Row(k, 0, 0, FALSE) : k \in {k \in 1..Len(log) :
               \E t \in HistoryTypes \ {"userOperation"} : log[k].kind = t /\ k \in Seen(r, t)}}
-----------------------------------------------------------------------------
HistoryInit ==
  /\ log = <<>> /\ types = {} /\ histories = <<>> /\ memo = [c \in TypeChoices |-> Absent]
  /\ awaited = Absent /\ shown = Absent /\ isEmptied = FALSE

\* The engine commits a transaction
Commit ==
  /\ Len(log) < MaxLog /\ \E e \in LogEntries : log' = Append(log, e)
  /\ UNCHANGED <<events, types, histories, memo, awaited, shown, isEmptied>>

\* loadData ends the subscription before; getFullHistory answers by the memo if it can, even
\* with a request that failed
LoadHistory(chosen) ==
  /\ awaited' = IF memo[chosen] = Absent THEN Len(histories) + 1 ELSE memo[chosen]
  /\ IF memo[chosen] = Absent
     THEN /\ Len(histories) < MaxHistoryRequests
          /\ histories' = Append(histories, [types |-> chosen, begun |-> Len(log), failed |-> FALSE,
                                             rows |-> Absent])
          /\ memo' = [memo EXCEPT ![chosen] = Len(histories) + 1]
     ELSE UNCHANGED <<histories, memo>>

\* The tab opens, or the page is reloaded
ReloadHistory ==
  /\ Event(MaxTabInputs) /\ LoadHistory(types) /\ UNCHANGED <<log, types, shown, isEmptied>>
\* onApiTypeChange
ChooseTypes ==
  /\ Event(MaxTabInputs) /\ types' \in TypeChoices \ {types} /\ LoadHistory(types')
  /\ UNCHANGED <<log, shown, isEmptied>>
\* Two seconds are over
MemoOver ==
  /\ \E c \in TypeChoices : memo[c] # Absent
  /\ memo' = [c \in TypeChoices |-> Absent]
  /\ UNCHANGED <<events, log, types, histories, awaited, shown, isEmptied>>

\* getProcessInstanceHistory: the reads run side by side, each at its own time since the request
\* began; Promise.all ends when all did, or with the first that fails
HistoryRead ==
  /\ \E i \in Unread : \E reads \in [HistoryTypes -> histories[i].begun..Len(log)] :
       histories' = [histories EXCEPT ![i].rows = Rows([types |-> histories[i].types, reads |-> reads])]
  /\ UNCHANGED <<events, log, types, memo, awaited, shown, isEmptied>>
HistoryReadFails ==
  /\ Event(MaxTabInputs) /\ \E i \in Unread : histories' = [histories EXCEPT ![i].failed = TRUE]
  /\ UNCHANGED <<log, types, memo, awaited, shown, isEmptied>>

\* dataService: rows are made, or after an error a toast and no rows
HistoryArrives ==
  /\ awaited # Absent /\ awaited' = Absent
  /\ \/ /\ histories[awaited].failed
        /\ shown' = Absent /\ isEmptied' = TRUE
     \/ /\ histories[awaited].rows # Absent
        /\ shown' = awaited /\ isEmptied' = FALSE
  /\ UNCHANGED <<events, log, types, histories, memo>>

HistoryNext ==
  \/ Commit \/ ReloadHistory \/ ChooseTypes \/ MemoOver \/ HistoryRead \/ HistoryReadFails
  \/ HistoryArrives
-----------------------------------------------------------------------------
\* What was logged before the request began is in the rows, each once and nothing half: of an
\* operation there is a row, and one for each detail if those were chosen too; only variables
\* that an operation modified are not shown without them.  The task's name is there if its
\* activity was asked for
IsWhole(r, entries) ==
  LET rowsOf(k) == {row \in r.rows : row.entry = k}
  IN \A k \in 1..r.begun : LET e == entries[k] IN
       IF ~Wants(r.types, e.kind) THEN rowsOf(k) = {}
       ELSE IF e.kind # "userOperation" THEN Cardinality(rowsOf(k)) = 1
       ELSE /\ {row.property : row \in {row \in rowsOf(k) : row.detail = 0}} =
                 IF e.of = "ModifyVariable" THEN {} ELSE 1..e.entries
            /\ {row.detail : row \in rowsOf(k)} \ {0} = IF Wants(r.types, "detail") THEN 1..e.details ELSE {}
            /\ e.task # Absent /\ Wants(r.types, "activityInstance") /\
               (\E a \in 1..r.begun : entries[a].kind = "activityInstance" /\ entries[a].task = e.task)
               => \A row \in rowsOf(k) : row.isNamed
RowsAreWhole == shown # Absent => IsWhole(histories[shown], log)

\* When the tab waits for nothing its rows are of the types chosen, and none are there only
\* before the first load or after a failure
RowsAreOfTheChoice ==
  awaited = Absent =>
    IF shown = Absent THEN isEmptied \/ histories = <<>>
    ELSE histories[shown].types = types

HistoryRowsAreWhole == RowsAreWhole /\ RowsAreOfTheChoice

-----------------------------------------------------------------------------
(* Called instances *)
CONSTANTS Callers,    \* activities
          Keys,       \* business keys
          FilterKeys, \* those users filter by
          MaxCalls, MaxCalledInputs, MaxLists \* bounds

ASSUME CalledAssumption ==
  Absent \notin Callers \union Keys /\ FilterKeys \subseteq Keys /\ {MaxCalls, MaxCalledInputs, MaxLists} \subseteq Nat

VARIABLES
  calls,       \* activity instances: of which activity, the key of the instance called, Absent if
               \* none was, and whether that runs and has an incident
  asking,      \* the filters: activity and key, each may be Absent
  lists,       \* requests for rows
  remembered,  \* of each filters, the request that is remembered
  expected,    \* the request the tab waits for, Absent
  listed,      \* the request whose rows are shown, Absent
  diagramHere, \* diagramRendered
  counting,    \* counts under way, by their filters
  badge        \* the count shown, its filters and (auxiliary) how many calls there were, Absent

calledVars == <<calls, asking, lists, remembered, expected, listed, diagramHere, counting, badge>>

Filters == [activity : Callers \union {Absent}, key : FilterKeys \union {Absent}]
Matches(value, filter) == filter \in {Absent, value}
\* Activity instances that called one, of the activity that is filtered
Calling(activity) ==
  {k \in DOMAIN calls : calls[k].key # Absent /\ Matches(calls[k].activity, activity)}
AnyOf(activity) == {k \in DOMAIN calls : Matches(calls[k].activity, activity)}
WithIncident == {k \in DOMAIN calls : calls[k].runs /\ calls[k].incident}
\* getCalledProcessInstanceCount: the key counts only if no activity does
CalledIn(activity) == Calling(activity)
CountOfCalls(f) ==
  Cardinality(IF f.activity # Absent THEN CalledIn(f.activity)
              ELSE {k \in Calling(Absent) : Matches(calls[k].key, f.key)})

Forgotten == [f \in Filters |-> Absent]
CalledInit ==
  /\ calls = <<>> /\ asking = [activity |-> Absent, key |-> Absent] /\ lists = <<>>
  /\ remembered = Forgotten /\ expected = Absent /\ listed = Absent
  /\ diagramHere = FALSE /\ counting = {} /\ badge = Absent
tabVars == <<asking, remembered, expected, listed, diagramHere, counting, badge>>

\* An activity begins and may call an instance
BeginCall ==
  /\ Len(calls) < MaxCalls /\ \E a \in Callers, key \in Keys \union {Absent} :
       calls' = Append(calls, [activity |-> a, key |-> key, runs |-> TRUE, incident |-> FALSE])
  /\ UNCHANGED <<events, lists, tabVars>>
\* A request that is under way, and what is found in the end
Underway(l) == ~l.failed /\ l.incidents = Absent
Found(l) == {k \in l.calling : Matches(calls[k].key, l.filters.key)}
\* A request under way may or may not see how a call changes
Hears(l, k) == IF Underway(l) THEN [l EXCEPT !.unsteady = l.unsteady \union {k}] ELSE l
\* A called instance gets an incident, loses it or ends
CallChanges ==
  /\ Event(MaxCalledInputs)
  /\ \E k \in DOMAIN calls :
       /\ calls[k].key # Absent /\ calls[k].runs
       /\ \E incident, runs \in BOOLEAN :
            /\ (runs => incident # calls[k].incident) /\ (~runs => ~incident)
            /\ calls' = [calls EXCEPT ![k].incident = incident, ![k].runs = runs]
       /\ lists' = [i \in DOMAIN lists |-> Hears(lists[i], k)]
  /\ UNCHANGED tabVars

\* loadData, by the memo if the ten seconds are not over
LoadCalled(f) ==
  \E kept \in {remembered, Forgotten} :
    IF kept[f] # Absent
    THEN expected' = kept[f] /\ remembered' = kept /\ UNCHANGED lists
    ELSE /\ Len(lists) < MaxLists
         /\ lists' = Append(lists, [filters |-> f, begun |-> Len(calls), before |-> WithIncident,
                                    unsteady |-> {}, calling |-> Absent, upTo |-> 0,
                                    incidents |-> Absent, failed |-> FALSE])
         /\ expected' = Len(lists) + 1 /\ remembered' = [kept EXCEPT ![f] = Len(lists) + 1]
\* A filter of the tab, the page's filtered activity, or the tab opens: rows and count
FilterCalled ==
  /\ Event(MaxCalledInputs) /\ asking' \in Filters
  /\ LoadCalled(asking') /\ counting' = counting \union {asking'}
  /\ UNCHANGED <<calls, listed, diagramHere, badge>>
\* getActivityInstances: if none called an instance there is nothing more to read
ActivitiesRead ==
  /\ \E i \in DOMAIN lists : LET l == lists[i]  calling == Calling(l.filters.activity) IN
       /\ l.calling = Absent /\ ~l.failed
       /\ lists' = [lists EXCEPT ![i] = [l EXCEPT !.calling = calling, !.upTo = Len(calls),
                                                  !.incidents = IF calling = {} THEN {} ELSE Absent]]
  /\ UNCHANGED <<events, calls, tabVars>>
\* getProcessInstanceWithFilterBody: the called instances by their ids and the filters, which do
\* not change, and side by side those that have an incident
InstancesRead ==
  /\ \E i \in DOMAIN lists : LET l == lists[i] IN
       /\ l.calling # Absent /\ l.incidents = Absent /\ ~l.failed
       /\ lists' = [lists EXCEPT ![i].incidents = WithIncident \intersect l.calling]
  /\ UNCHANGED <<events, calls, tabVars>>
ListFails ==
  /\ Event(MaxCalledInputs)
  /\ \E i \in DOMAIN lists : Underway(lists[i]) /\ lists' = [lists EXCEPT ![i].failed = TRUE]
  /\ UNCHANGED <<calls, tabVars>>

\* The rows come with the diagram; after an error there are none
CalledArrive ==
  /\ expected # Absent /\ ~Underway(lists[expected]) /\ expected' = Absent
  /\ lists[expected].failed \/ diagramHere
  /\ listed' = IF lists[expected].failed THEN Absent ELSE expected
  /\ UNCHANGED <<events, calls, asking, lists, remembered, diagramHere, counting, badge>>
DrawDiagram ==
  /\ ~diagramHere /\ diagramHere' = TRUE
  /\ UNCHANGED <<events, calls, asking, lists, remembered, expected, listed, counting, badge>>
\* updateCountForTab: counts come in any order
CalledCounted ==
  /\ \E f \in counting :
       /\ counting' = counting \ {f}
       /\ badge' = [filters |-> f, count |-> CountOfCalls(f), upTo |-> Len(calls)]
  /\ UNCHANGED <<events, calls, asking, lists, remembered, expected, listed, diagramHere>>

CalledNext ==
  \/ BeginCall \/ CallChanges \/ FilterCalled
  \/ ActivitiesRead \/ InstancesRead \/ ListFails
  \/ CalledArrive \/ DrawDiagram \/ CalledCounted
-----------------------------------------------------------------------------
\* The rows are the instances called that fit both filters, all that were called before the
\* request began; one is marked if it had an incident when the request began, unless that changed
\* meanwhile.  The badge counts the rows, of the same filters and the same calls, unless both an
\* activity and a key are filtered: then it counts without the key
CalledRowsAreCounted ==
  listed # Absent =>
    LET l == lists[listed]  f == l.filters
        fitting == {k \in DOMAIN calls : calls[k].key # Absent /\ Matches(calls[k].activity, f.activity)
                                                             /\ Matches(calls[k].key, f.key)}
    IN /\ Found(l) \subseteq fitting /\ fitting \intersect (1..l.begun) \subseteq Found(l)
       /\ \A k \in Found(l) \ l.unsteady : k <= l.begun => (k \in l.incidents <=> k \in l.before)
       /\ badge # Absent /\ badge.filters = f /\ badge.upTo = l.upTo
            => badge.count = Cardinality(Found(l))
               \/ (f.activity # Absent /\ f.key # Absent /\ badge.count > Cardinality(Found(l)))
       /\ expected = Absent => f = asking
=============================================================================
