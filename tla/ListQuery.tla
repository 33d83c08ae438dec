------------------------------ MODULE ListQuery ------------------------------
(***************************************************************************)
(* What a list page asks the engine for.  The filters of the grid's        *)
(* columns, the toggles and the sorted column are in the URL; each change  *)
(* of the URL becomes a request, by the tables of the columns.  A text     *)
(* waits for 800 ms before it becomes a filter.  Texts are "text" or none, *)
(* several values are "a,b", a range has the ends dateFrom and dateTo.     *)
(* Only the first column of a sorting is here, and no direction.           *)
(***************************************************************************)
EXTENDS Parts

CONSTANT MaxListInputs \* bound
ASSUME ListQueryAssumption == MaxListInputs \in Nat

VARIABLES
  list,      \* itemType
  completed, \* showCompletedBatches
  chosen,    \* filters: of each filtered column its comparator and value
  toggled,   \* the toggle filters that are on
  sortedBy,  \* the column of sorting[0], Absent
  radio,     \* of each column, the comparator its floating filter is set to
  unsettled, \* texts typed that are not filters yet
  switching, \* the batches were switched and the URL has not followed
  asked,     \* the request made last, Absent
  restored,  \* auxiliary: columns whose filter came with the URL when the page opened
  slipped    \* auxiliary: a text became a filter while its column was disabled

listQueryVars ==
  <<list, completed, chosen, toggled, sortedBy, radio, unsettled, switching, asked, restored, slipped>>

-----------------------------------------------------------------------------
Blank == ""
\* The entries of both tables, of f before those of g
f ++ g == [x \in DOMAIN f \union DOMAIN g |-> IF x \in DOMAIN f THEN f[x] ELSE g[x]]

\* Kinds of columns: what the floating filter offers, the request's parameter of each comparator
\* (the column's name if there is none), and what disables the filter
Column(kind) ==
  [kind |-> kind, offers |-> <<>>, keys |-> <<>>, format |-> "text", options |-> {},
   booleans |-> <<>>, sort |-> Absent, disabledBy |-> {}, disabledByToggles |-> {}]
Bare == Column("none")
Text(offers, keys) == [Column("text") EXCEPT !.offers = offers, !.keys = keys]
Exact == Text(<<"equals">>, <<>>)
ExactAs(key) == Text(<<"equals">>, [equals |-> key])
LikeOrExact(like, key) == Text(<<"contains", "equals">>, [contains |-> like, equals |-> key])
Several(format, key) ==
  [Column("multi") EXCEPT !.offers = <<"multi">>, !.keys = [multi |-> key], !.format = format]
Choice(options, booleans) ==
  [Column("select") EXCEPT !.offers = <<"equals">>, !.options = options, !.booleans = booleans]
Ends(before, after) ==
  [inRange |-> {<<before, "dateTo">>, <<after, "dateFrom">>},
   before |-> {<<before, "dateFrom">>}, after |-> {<<after, "dateFrom">>}]
DateColumn(before, after) ==
  [Column("date") EXCEPT !.offers = <<"inRange", "before", "after">>, !.keys = Ends(before, after)]
DateArray(key) == [DateColumn("lt", "gt") EXCEPT !.format = key]
Sortable(key, column) == [column EXCEPT !.sort = key]
ByFilters(others, column) == [column EXCEPT !.disabledBy = others]
ByToggle(toggle, column) == [column EXCEPT !.disabledByToggles = {toggle}]

IncidentColumns == [
  id |-> Sortable("incidentId", ExactAs("incidentId")),
  processDefinitionKey |-> Sortable("processDefinitionKey",
                             Several("commaSeparatedList", "processDefinitionKeyIn")),
  processDefinitionId |-> Sortable("processDefinitionId", Exact),
  processInstanceId |-> Sortable("processInstanceId", Exact),
  createTime |-> Sortable("createTime", DateColumn("createTimeBefore", "createTimeAfter")),
  endTime |-> Sortable("endTime", DateColumn("endTimeBefore", "endTimeAfter")),
  incidentType |-> Sortable("incidentType", Choice({"failedJob", "failedExternalTask"}, <<>>))]
OtherIncidentColumns == [
  activityId |-> Sortable("activityId", Exact),
  failedActivityId |-> Exact,
  causeIncidentId |-> Sortable("causeIncidentId", Exact),
  rootCauseIncidentId |-> Sortable("rootCauseIncidentId", Exact),
  incidentMessage |-> Sortable("incidentMessage", LikeOrExact("incidentMessageLike", "incidentMessage")),
  jobDefinitionId |-> Several("commaSeparatedList", "jobDefinitionIdIn"),
  status |-> Sortable("incidentState",
               Choice({"open", "deleted", "resolved"}, <<"open", "deleted", "resolved">>))]
JobColumns == [
  id |-> Sortable("jobId", ByFilters({"jobDefinitionId"}, Several("textArray", "jobIds"))),
  jobDefinitionId |-> ByFilters({"id"}, Exact),
  processDefinitionKey |-> Sortable("processDefinitionKey", Exact),
  exceptionMessage |-> Exact,
  failedActivityId |-> Exact,
  processDefinitionId |-> Sortable("processDefinitionId", Exact)]
OtherJobColumns == [
  retries |-> Sortable("jobRetries", ByToggle("withRetriesLeft",
    Choice({"withRetriesLeft", "noRetriesLeft"}, <<"withRetriesLeft", "noRetriesLeft">>))),
  suspended |-> Choice({"active", "suspended"}, <<"active", "suspended">>),
  dueDate |-> Sortable("jobDueDate", DateArray("dueDates")),
  createTime |-> DateArray("createTimes"),
  priority |-> Sortable("jobPriority", Text(<<"lessThanOrEqual", "greaterThanOrEqual">>,
    [lessThan |-> "priorityLowerThanOrEquals", greaterThan |-> "priorityHigherThanOrEquals"]))]
InstanceStates ==
  {"active", "completed", "suspended", "externallyTerminated", "internallyTerminated", "finished",
   "unfinished"}
InstanceColumns == [
  id |-> Sortable("instanceId", Several("textArray", "processInstanceIds")),
  processDefinitionName |-> LikeOrExact("processDefinitionNameLike", "processDefinitionName"),
  processDefinitionVersion |-> Sortable("definitionVersion", Bare),
  state |-> Choice(InstanceStates, SetToSeq(InstanceStates)),
  startUserId |-> ExactAs("startedBy"),
  startTime |-> Sortable("startTime", DateColumn("startedBefore", "startedAfter"))]
OtherInstanceColumns == [
  endTime |-> Sortable("endTime", DateColumn("finishedBefore", "finishedAfter")),
  businessKey |-> Sortable("businessKey",
                    LikeOrExact("processInstanceBusinessKeyLike", "processInstanceBusinessKey")),
  processDefinitionKey |-> Sortable("definitionKey", Several("textArray", "processDefinitionKeyIn")),
  processDefinitionId |-> Sortable("definitionId", Exact),
  superProcessInstanceId |-> Exact,
  duration |-> Sortable("duration", Bare)]
DefinitionColumns == [
  id |-> Sortable("id", Several("textArray", "processDefinitionIdIn")),
  name |-> Sortable("name", LikeOrExact("nameLike", "name")),
  version |-> Sortable("version", ByToggle("latestVersion", Exact)),
  deploymentId |-> Sortable("deploymentId", ByToggle("latestVersion", Exact)),
  versionTag |-> Sortable("versionTag", LikeOrExact("versionTagLike", "versionTag")),
  key |-> Sortable("key", [Several("textArray", "keysIn") EXCEPT
                             !.offers = <<"contains", "multi">>,
                             !.keys = [multi |-> "keysIn", contains |-> "keyLike"]]),
  suspended |-> Choice({"active", "suspended"}, <<"active", "suspended">>)]
DecisionColumns == [
  id |-> Sortable("id", Bare),
  name |-> Sortable("name", ByToggle("latestVersion", Text(<<"contains">>, [contains |-> "nameLike"]))),
  version |-> Sortable("version", ByToggle("latestVersion", Exact)),
  key |-> Sortable("key", Text(<<"contains">>, [contains |-> "keyLike"])),
  deploymentId |-> Sortable("deploymentId", ByToggle("latestVersion", Exact))]
DeploymentColumns == [
  id |-> Sortable("id", Exact),
  deploymentTime |-> Sortable("deploymentTime", DateColumn("before", "after")),
  source |-> Exact,
  name |-> Sortable("name", Text(<<"contains">>, [contains |-> "nameLike"]))]
BatchColumns == [
  batchId |-> Sortable("batchId", Exact),
  suspended |-> Choice({"active", "suspended"}, <<"suspended">>),
  startTime |-> Sortable("startTime", DateColumn("startedBefore", "startedAfter")),
  type |-> Exact,
  createUserId |-> ExactAs("createdBy"),
  endTime |-> Sortable("endTime", Bare)]

Lists ==
  {"incident", "job", "processInstance", "processDefinition", "decisionDefinition", "deployment", "batch"}
ColumnsOf(l) ==
  CASE l = "incident"           -> IncidentColumns ++ OtherIncidentColumns
    [] l = "job"                -> JobColumns ++ OtherJobColumns
    [] l = "processInstance"    -> InstanceColumns ++ OtherInstanceColumns
    [] l = "processDefinition"  -> DefinitionColumns
    [] l = "decisionDefinition" -> DecisionColumns
    [] l = "deployment"         -> DeploymentColumns
    [] l = "batch"              -> BatchColumns
Col(c) == ColumnsOf(list)[c]
\* Which columns there are, and which of them have a floating filter
ColumnNames ==
  IF list # "batch" THEN DOMAIN ColumnsOf(list)
  ELSE IF completed THEN {"batchId", "startTime", "endTime", "type"}
  ELSE DOMAIN BatchColumns \ {"endTime"}
FilterNames == IF completed THEN {"batchId", "type"} ELSE ColumnNames

\* The toggles of a list, each with the columns whose filters disable it
TogglesOf(l) ==
  CASE l = "job"                -> [executable |-> {}, withException |-> {}, withRetriesLeft |-> {"retries"}]
    [] l = "processDefinition"  -> [latestVersion |-> {"version", "deploymentId"}]
    [] l = "decisionDefinition" -> [latestVersion |-> {"version", "name", "deploymentId"}]
    [] l = "processInstance"    -> [withIncidents |-> {}]
    [] OTHER                    -> <<>>
Equal(value) == [type |-> "equals", value |-> value]
DefaultFiltersOf(l) ==
  CASE l = "incident"          -> [status |-> Equal("open")]
    [] l = "processInstance"   -> [state |-> Equal("active")]
    [] l = "processDefinition" -> [suspended |-> Equal("active")]
    [] OTHER                   -> <<>>
DefaultTogglesOf(l) ==
  CASE l = "job"                                         -> {"withRetriesLeft"}
    [] l \in {"processDefinition", "decisionDefinition"} -> {"latestVersion"}
    [] OTHER                                             -> {}
DefaultSortingOf(l) ==
  CASE l = "incident" -> "createTime" [] l = "job" -> "dueDate" [] l = "processDefinition" -> "name"
    [] l = "decisionDefinition" -> "key" [] l = "deployment" -> "deploymentTime"
    [] OTHER -> "startTime"
-----------------------------------------------------------------------------
\* transformFilter: a filter as parameters of the request, each with its form and its value
FilterValue(type, format) ==
  IF type = "contains" THEN "%" ELSE IF type = "multi" /\ format = "textArray" THEN "array" ELSE Blank
ParameterOf(col, c, type) == IF type \in DOMAIN col.keys THEN col.keys[type] ELSE c
BooleanFilter(col, value) ==
  IF value \in ToSet(col.booleans) THEN <<value, Blank, "true">>
  ELSE <<Head(col.booleans), Blank, "false">>
DateArrayFilter(col, type) == {<<col.format, end[1], end[2]>> : end \in col.keys[type]}
DateFilterByComparator(col, type) == {<<end[1], Blank, end[2]>> : end \in col.keys[type]}
TransformFilter(col, c, filter) ==
  IF col.kind = "date"
  THEN IF col.format # "text" THEN DateArrayFilter(col, filter.type)
       ELSE DateFilterByComparator(col, filter.type)
  ELSE IF col.booleans # <<>> THEN {BooleanFilter(col, filter.value)}
  ELSE {<<ParameterOf(col, c, filter.type), FilterValue(filter.type, col.format), filter.value>>}
ToggleParameter(toggle) == <<toggle, Blank, "true">>
\* The server joins the arrays of jobs and definitions, the dates with their operator
JoinArrays(l, p) ==
  IF l \in {"job", "processDefinition"} /\ p[2] = "array" THEN <<p[1], Blank, p[3]>> ELSE p
\* mapQueryParamsOptions, loadData and the server
RequestFor(l, filters, toggles, sort) ==
  LET parameters == (UNION {TransformFilter(ColumnsOf(l)[c], c, filters[c]) : c \in DOMAIN filters})
                      \union {ToggleParameter(t) : t \in toggles \intersect DOMAIN TogglesOf(l)}
      key == ColumnsOf(l)[sort].sort
  IN [parameters |-> {JoinArrays(l, p) : p \in parameters},
      sort |-> IF sort = Absent THEN Absent ELSE IF key = Absent THEN sort ELSE key]

\* What the engine makes of a parameter: the field, the comparison and the form it reads
Reads(p, field, comparator, form) == [q \in {p} |-> <<field, comparator, form>>]
Equals(names) == [p \in names |-> <<p, "equals", Blank>>]
Like(p, field) == Reads(p, field, "contains", "%")
Listed(p, field) == Reads(p, field, "multi", Blank)
Period(before, after, field) == Reads(before, field, "before", Blank) ++ Reads(after, field, "after", Blank)
IncidentFields ==
  Equals({"processInstanceId", "incidentMessage", "incidentType", "failedActivityId",
          "activityId", "processDefinitionId", "causeIncidentId", "rootCauseIncidentId"})
  ++ Reads("incidentId", "id", "equals", Blank) ++ Like("incidentMessageLike", "incidentMessage")
  ++ Period("createTimeBefore", "createTimeAfter", "createTime")
  ++ Period("endTimeBefore", "endTimeAfter", "endTime")
  ++ Listed("processDefinitionKeyIn", "processDefinitionKey")
  ++ Listed("jobDefinitionIdIn", "jobDefinitionId")
JobFields ==
  Equals({"jobDefinitionId", "processDefinitionKey", "exceptionMessage", "failedActivityId",
          "processDefinitionId"})
  ++ Listed("jobIds", "id")
  ++ Reads("priorityLowerThanOrEquals", "priority", "lessThanOrEqual", Blank)
  ++ Reads("priorityHigherThanOrEquals", "priority", "greaterThanOrEqual", Blank)
InstanceFields ==
  Equals({"processDefinitionName", "processDefinitionId", "superProcessInstanceId"})
  ++ Reads("processInstanceIds", "id", "multi", "array")
  ++ Reads("processDefinitionKeyIn", "processDefinitionKey", "multi", "array")
  ++ Reads("startedBy", "startUserId", "equals", Blank)
  ++ Reads("processInstanceBusinessKey", "businessKey", "equals", Blank)
  ++ Like("processInstanceBusinessKeyLike", "businessKey")
  ++ Like("processDefinitionNameLike", "processDefinitionName")
  ++ Period("startedBefore", "startedAfter", "startTime")
  ++ Period("finishedBefore", "finishedAfter", "endTime")
DefinitionFields ==
  Equals({"name", "version", "deploymentId", "versionTag"})
  ++ Listed("processDefinitionIdIn", "id") ++ Listed("keysIn", "key")
  ++ Like("nameLike", "name") ++ Like("versionTagLike", "versionTag") ++ Like("keyLike", "key")
DecisionFields ==
  Equals({"version", "deploymentId"}) ++ Like("nameLike", "name") ++ Like("keyLike", "key")
DeploymentFields ==
  Equals({"id", "source"}) ++ Like("nameLike", "name")
  ++ Period("before", "after", "deploymentTime")
BatchFields(ended) ==
  Equals({"batchId", "type"})
  ++ (IF ended THEN <<>>
      ELSE Reads("createdBy", "createUserId", "equals", Blank)
           ++ Period("startedBefore", "startedAfter", "startTime"))
EngineFields(l, ended) ==
  CASE l = "incident" -> IncidentFields [] l = "job" -> JobFields [] l = "processInstance" -> InstanceFields
    [] l = "processDefinition" -> DefinitionFields [] l = "decisionDefinition" -> DecisionFields
    [] l = "deployment" -> DeploymentFields [] l = "batch" -> BatchFields(ended)
EngineFlags(l, ended) ==
  CASE l = "incident"           -> {"open", "deleted", "resolved"}
    [] l = "job"                -> {"withRetriesLeft", "noRetriesLeft", "active", "suspended", "executable",
                                    "withException"}
    [] l = "processInstance"    -> InstanceStates \union {"withIncidents"}
    [] l = "processDefinition"  -> {"active", "suspended", "latestVersion"}
    [] l = "decisionDefinition" -> {"latestVersion"}
    [] l = "batch" /\ ~ended    -> {"suspended"}
    [] OTHER                    -> {}
\* The column by which each key sorts: its own name, but for these
EngineSorts(l, ended) ==
  CASE l = "incident"          -> [incidentId |-> "id", incidentState |-> "status"]
    [] l = "job"               -> [jobId |-> "id", jobPriority |-> "priority", jobRetries |-> "retries",
                                   jobDueDate |-> "dueDate"]
    [] l = "processInstance"   -> [instanceId |-> "id", definitionVersion |-> "processDefinitionVersion",
                                   definitionKey |-> "processDefinitionKey",
                                   definitionId |-> "processDefinitionId"]
    [] OTHER                   -> <<>>
SortsOnItsOwnName(l, ended) ==
  CASE l = "incident"           -> {"processInstanceId", "incidentMessage", "createTime", "incidentType",
                                    "activityId", "endTime", "processDefinitionId",
                                    "processDefinitionKey", "causeIncidentId", "rootCauseIncidentId"}
    [] l = "job"                -> {"processDefinitionKey", "processDefinitionId"}
    [] l = "processInstance"    -> {"startTime", "endTime", "businessKey", "duration"}
    [] l = "processDefinition"  -> {"id", "name", "version", "deploymentId", "versionTag", "key"}
    [] l = "decisionDefinition" -> {"id", "name", "version", "deploymentId", "key"}
    [] l = "deployment"         -> {"id", "name", "deploymentTime"}
    [] l = "batch"              -> {"batchId", "startTime"} \union (IF ended THEN {"endTime"} ELSE {})
ASSUME AbsentIsNoKey ==
  \A l \in Lists, ended \in BOOLEAN :
    Absent \notin DOMAIN EngineSorts(l, ended) \union SortsOnItsOwnName(l, ended)
\* Conditions the engine does not take together
EngineClash(l, fields) ==
  \/ "latestVersion" \in fields /\ fields \intersect {"version", "deploymentId"} # {}
  \/ l = "decisionDefinition" /\ {"latestVersion", "name"} \subseteq fields
  \/ l = "job" /\ \/ {"id", "jobDefinitionId"} \subseteq fields
                  \/ {"withRetriesLeft", "noRetriesLeft"} \subseteq fields
-----------------------------------------------------------------------------
FirstComparators(l) ==
  LET columns == ColumnsOf(l)
  IN [c \in {d \in DOMAIN columns : Len(columns[d].offers) > 1 /\ columns[d].kind # "date"} |->
       Head(columns[c].offers)]
ListQueryInit ==
  /\ list \in Lists /\ completed = FALSE /\ unsettled = <<>> /\ switching = FALSE
  /\ chosen = DefaultFiltersOf(list) /\ toggled = DefaultTogglesOf(list)
  /\ sortedBy = DefaultSortingOf(list) /\ radio = FirstComparators(list)
  /\ asked = Absent /\ restored = DOMAIN chosen /\ slipped = FALSE

\* The URL changes and the list loads
Ask(filters, toggles, sort) ==
  /\ chosen' = filters /\ toggled' = toggles /\ sortedBy' = sort
  /\ asked' = RequestFor(list, filters, toggles, sort)
WithFilter(c, type, value) == [d \in {c} |-> [type |-> type, value |-> value]] ++ chosen
WithoutFilter(c) == Restrict(chosen, DOMAIN chosen \ {c})
FilterBy(c, type, value) ==
  /\ Ask(IF value = Blank THEN WithoutFilter(c) ELSE WithFilter(c, type, value), toggled, sortedBy)
  /\ restored' = restored \ {c}
Drop(c) == Restrict(unsettled, DOMAIN unsettled \ {c})
\* The comparator and the text that a floating filter is set to
Setting(c) == IF c \in DOMAIN radio THEN radio[c] ELSE Head(Col(c).offers)
TextShown(c) ==
  IF c \in DOMAIN unsettled THEN unsettled[c] ELSE IF c \in DOMAIN chosen THEN chosen[c].value ELSE Blank
\* Without onOtherFilterChanged
IsDisabledByToggles(c) == Col(c).disabledByToggles \intersect toggled # {}
\* onQueryParamsNext, onOtherFilterChanged: a toggle or another filter disables this one
IsDisabled(c) ==
  Col(c).disabledBy \intersect DOMAIN chosen # {} \/ Col(c).disabledByToggles \intersect toggled # {}
UserActs == Event(MaxListInputs) /\ ~switching /\ asked # Absent

\* The URL has the defaults
LoadList ==
  /\ asked = Absent /\ asked' = RequestFor(list, chosen, toggled, sortedBy)
  /\ UNCHANGED <<events, list, completed, chosen, toggled, sortedBy, radio, unsettled, switching, restored,
                 slipped>>

\* A text is typed, and 800 ms later it is a filter, whatever happened meanwhile
TypeText ==
  /\ UserActs
  /\ \E c \in FilterNames, text \in {"text", Blank} :
       /\ Col(c).kind = "text" /\ ~IsDisabled(c) /\ text # TextShown(c)
       /\ unsettled' = [d \in {c} |-> text] ++ unsettled
  /\ UNCHANGED <<list, completed, chosen, toggled, sortedBy, radio, switching, asked, restored, slipped>>
TextSettles ==
  /\ \E c \in DOMAIN unsettled :
       /\ FilterBy(c, Setting(c), unsettled[c]) /\ unsettled' = Drop(c)
       /\ slipped' = (slipped \/ (IsDisabled(c) /\ unsettled[c] # Blank))
  /\ UNCHANGED <<events, list, completed, radio, switching>>
ClearText ==
  /\ UserActs
  /\ \E c \in FilterNames :
       Col(c).kind = "text" /\ TextShown(c) # Blank /\ FilterBy(c, Setting(c), Blank) /\ unsettled' = Drop(c)
  /\ UNCHANGED <<list, completed, radio, switching, slipped>>
\* Another comparator: of several values the first is kept if one can be compared only
ChooseComparator ==
  /\ UserActs
  /\ \E c \in DOMAIN radio : \E type \in ToSet(Col(c).offers) \ {radio[c]} :
       /\ ~IsDisabled(c) /\ radio' = [radio EXCEPT ![c] = type]
       /\ IF TextShown(c) = Blank THEN UNCHANGED <<chosen, toggled, sortedBy, asked, restored, unsettled>>
          ELSE /\ unsettled' = Drop(c)
               /\ FilterBy(c, type, IF Col(c).kind = "multi" /\ type # "multi" THEN "a" ELSE TextShown(c))
  /\ UNCHANGED <<list, completed, switching, slipped>>
\* Values are added or removed; several that are pasted choose the comparator
PickItems ==
  /\ UserActs
  /\ \E c \in FilterNames, items \in {"a", "a,b", Blank} :
       /\ Col(c).kind = "multi" /\ ~IsDisabled(c) /\ items # TextShown(c)
       /\ LET type == IF items = "a,b" THEN "multi" ELSE Setting(c) IN
            /\ FilterBy(c, type, items)
            /\ radio' = [d \in DOMAIN radio |-> IF d = c THEN type ELSE radio[d]]
  /\ UNCHANGED <<list, completed, unsettled, switching, slipped>>
PickOption ==
  /\ UserActs
  /\ \E c \in FilterNames : \E option \in Col(c).options \union {Blank} :
       /\ Col(c).kind = "select" /\ ~IsDisabled(c) /\ option # TextShown(c)
       /\ FilterBy(c, "equals", option)
  /\ UNCHANGED <<list, completed, radio, unsettled, switching, slipped>>
PickDates ==
  /\ UserActs
  /\ \E c \in FilterNames : \E type \in ToSet(Col(c).offers), date \in {"date", Blank} :
       Col(c).kind = "date" /\ FilterBy(c, type, date)
  /\ UNCHANGED <<list, completed, radio, unsettled, switching, slipped>>
SelectToggleFilter ==
  /\ UserActs
  /\ \E t \in DOMAIN TogglesOf(list) :
       /\ TogglesOf(list)[t] \intersect DOMAIN chosen = {}
       /\ Ask(chosen, (toggled \union {t}) \ (toggled \intersect {t}), sortedBy)
  /\ UNCHANGED <<list, completed, radio, unsettled, switching, restored, slipped>>
SelectHeaderSort ==
  /\ UserActs
  /\ \E c \in {d \in ColumnNames : Col(d).sort # Absent} \union {Absent} :
       c # sortedBy /\ Ask(chosen, toggled, c)
  /\ UNCHANGED <<list, completed, radio, unsettled, switching, restored, slipped>>
\* reload: the other batches are read at once by the old filters, and again when the URL is new
SwitchBatches ==
  /\ UserActs /\ list = "batch" /\ completed' = ~completed /\ switching' = TRUE
  /\ asked' = RequestFor(list, chosen, toggled, sortedBy)
  /\ radio' = FirstComparators(list) /\ unsettled' = <<>>
  /\ UNCHANGED <<list, chosen, toggled, sortedBy, restored, slipped>>
BatchesSwitched ==
  /\ switching /\ switching' = FALSE /\ restored' = {}
  /\ Ask(<<>>, toggled, IF sortedBy = "endTime" THEN Absent ELSE sortedBy)
  /\ UNCHANGED <<events, list, completed, radio, unsettled, slipped>>
\* resetColumns: the defaults; a text typed in a filter that is taken away is gone
ResetList ==
  /\ UserActs
  /\ Ask(DefaultFiltersOf(list), DefaultTogglesOf(list), DefaultSortingOf(list))
  /\ unsettled' = Restrict(unsettled, DOMAIN unsettled \ DOMAIN chosen)
  /\ restored' = DOMAIN DefaultFiltersOf(list)
  /\ UNCHANGED <<list, completed, radio, switching, slipped>>
\* The page is opened again and asks what the browser kept; the floating filters are new.  Without
\* anything kept it is as in ListPage
OpenListAgain ==
  /\ UserActs /\ (chosen # <<>> \/ toggled # {} \/ sortedBy # Absent)
  /\ completed' = FALSE /\ unsettled' = <<>> /\ restored' = DOMAIN chosen
  /\ radio' = FirstComparators(list) /\ asked' = RequestFor(list, chosen, toggled, sortedBy)
  /\ UNCHANGED <<list, chosen, toggled, sortedBy, switching, slipped>>

ListQueryNext ==
  \/ LoadList \/ TypeText \/ TextSettles \/ ClearText \/ ChooseComparator \/ PickItems
  \/ PickOption \/ PickDates \/ SelectToggleFilter \/ SelectHeaderSort
  \/ SwitchBatches \/ BatchesSwitched \/ ResetList \/ OpenListAgain
-----------------------------------------------------------------------------
\* What the engine hears: conditions on fields, flags as conditions of their own
HeardAs(l, ended, p) ==
  LET fields == EngineFields(l, ended)  flags == EngineFlags(l, ended) IN
  IF p[1] \in flags THEN {<<IF p[3] = "true" THEN p[1] ELSE "active", "is", "true">>}
  ELSE IF p[1] \in {"dueDates", "createTimes"}
  THEN {<<IF p[1] = "dueDates" THEN "dueDate" ELSE "createTime",
         IF p[2] = "lt" THEN "before" ELSE "after", p[3]>>}
  ELSE IF p[1] \notin DOMAIN fields THEN {}
  ELSE {<<fields[p[1]][1], IF p[2] = fields[p[1]][3] THEN fields[p[1]][2] ELSE "misread", p[3]>>}
\* What a filter means, and what the filter of a column shows
Meaning(col, c, type, value) ==
  IF col.kind = "date"
  THEN IF type = "inRange" THEN {<<c, "after", "dateFrom">>, <<c, "before", "dateTo">>}
       ELSE {<<c, type, "dateFrom">>}
  ELSE IF col.booleans # <<>> THEN {<<value, "is", "true">>}
  ELSE {<<c, type, value>>}
ComparatorShown(c) ==
  IF Col(c).kind = "date" \/ c \in restored \union DOMAIN unsettled THEN chosen[c].type ELSE Setting(c)
MeantBy(c) == Meaning(Col(c), c, ComparatorShown(c), chosen[c].value)

\* The engine hears what the filters, the toggles and the header show: each condition with the
\* comparator its filter is set to (unless the filter came with the URL, or is being typed) and in
\* the form the engine reads, and the column that is sorted.  It ignores the priority of jobs.  It
\* refuses two kinds of requests: a text that was typed just before what disables its filter, and
\* active batches sorted by the end that was chosen for the completed ones
ListAsksWhatItShows ==
  asked # Absent /\ ~switching =>
    LET heard == UNION {HeardAs(list, completed, p) : p \in asked.parameters}
        keys == EngineSorts(list, completed)
        known == DOMAIN keys \union SortsOnItsOwnName(list, completed)
    IN /\ heard = (UNION {MeantBy(c) : c \in DOMAIN chosen \ {"priority"}})
                    \union {<<t, "is", "true">> : t \in toggled}
       /\ asked.sort \in known =>
            sortedBy = IF asked.sort \in DOMAIN keys THEN keys[asked.sort] ELSE asked.sort
       /\ asked.sort \notin known \union {Absent} => list = "batch" /\ sortedBy = "endTime" /\ ~completed
       /\ asked.sort = Absent => sortedBy = Absent
       /\ EngineClash(list, {h[1] : h \in heard}) => slipped
=============================================================================
