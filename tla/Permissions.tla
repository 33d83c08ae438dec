---------------------------- MODULE Permissions ----------------------------
(***************************************************************************)
(* Permission checks in the browser: the walk over a specification, the    *)
(* answers kept for the session under user and tenant, the requests        *)
(* memoized for two seconds under the permission alone, and a tenant that  *)
(* the user changes meanwhile.  The user is one: another one comes with a  *)
(* new session storage or a reload of the application.                     *)
(***************************************************************************)
EXTENDS Parts

CONSTANTS Tenants,
          Checked,    \* the actions the directives of the pages ask for
          Toolbars,   \* the types of the items whose toolbars are shown
          ItemIds,    \* of those items
          MaxChecks,  \* bound of the checks under way at once
          MaxTurns    \* bound of checks, changes, reloads, days and failures

ASSUME PermissionsAssumption ==
  /\ MaxChecks \in Nat /\ MaxTurns \in Nat
  /\ Absent \notin BOOLEAN /\ Absent \notin [tenant : Tenants, answer : BOOLEAN \union {Absent}]

VARIABLES
  tenant,     \* userService.selectedTenantId
  granted,    \* what the engine grants, by tenant
  memo,       \* the requests by pair: [tenant, answer], shared while it lasts
  memoOld,    \* whether the memo is older than its timeout
  permissionCache, \* the session's answers, by tenant and pair
  walks,      \* the checks under way or just ended
  everGranted,  \* what was granted at some time of the day, by tenant
  neverRevoked, \* what was granted all day, by tenant
  borrowed      \* the pairs a tenant has another tenant's answer for

permissionVars == <<tenant, granted, memo, memoOld, permissionCache, walks, everGranted,
                    neverRevoked, borrowed>>

Unknown == Absent

\* A ResourcePermissionPair, of all resources of the type or of one
Pair(resource, name) == [resource |-> resource, name |-> name, id |-> Absent]
ALL(pair) == [pair EXCEPT !.name = "ALL"]

\* A PermissionSpecification: the elements are pairs or specifications
Specification(all, one) == [AllOf |-> all, OneOf |-> one]
AllOf(list) == Specification(list, Absent)
OneOf(list) == Specification(Absent, list)
IsLeaf(e) == "resource" \in DOMAIN e

\* The permissions each action takes
UpdateProcessDefinition == Pair("ProcessDefinition", "UPDATE")
SuspendProcessDefinition == Pair("ProcessDefinition", "SUSPEND")
UpdateInstancePermissions ==
  <<Pair("ProcessInstance", "UPDATE"), Pair("ProcessDefinition", "UPDATE_INSTANCE")>>
ActivateSuspendProcessInstancePermissions ==
  UpdateInstancePermissions \o <<Pair("ProcessInstance", "SUSPEND"),
                                 Pair("ProcessDefinition", "SUSPEND_INSTANCE")>>
TerminateProcessInstancePermissions ==
  <<Pair("ProcessInstance", "DELETE"), Pair("ProcessDefinition", "DELETE_INSTANCE")>>
MandatoryPermissionsForMigrateProcessInstance ==
  <<Pair("ProcessDefinition", "READ"), Pair("ProcessDefinition", "MIGRATE_INSTANCE")>>
EitherOrPermissionsForMigrateProcessInstance ==
  <<Pair("Batch", "CREATE"), Pair("Batch", "CREATE_BATCH_MIGRATE_PROCESS_INSTANCES")>>

ActionPermissionsSpec ==
  [ActivateProcessDefinition |-> OneOf(<<SuspendProcessDefinition, UpdateProcessDefinition>>),
   SuspendProcessDefinition  |-> OneOf(<<SuspendProcessDefinition, UpdateProcessDefinition>>),
   DeleteProcessDefinition   |-> AllOf(<<Pair("ProcessDefinition", "DELETE")>>),
   DownloadResource          |-> AllOf(<<Pair("ProcessDefinition", "READ")>>),
   StartProcessDefinition    |-> AllOf(<<Pair("ProcessDefinition", "CREATE_INSTANCE"),
                                         Pair("ProcessInstance", "CREATE")>>),
   MigrateProcessInstance    |->
     AllOf(Append(MandatoryPermissionsForMigrateProcessInstance,
                  OneOf(EitherOrPermissionsForMigrateProcessInstance))),
   SetJobRetryCount          |->
     OneOf(UpdateInstancePermissions \o <<Pair("ProcessInstance", "RETRY_JOB"),
                                          Pair("ProcessDefinition", "RETRY_JOB")>>),
   ActivateJobDefinition       |-> AllOf(<<UpdateProcessDefinition>>),
   SuspendJobDefinition        |-> AllOf(<<UpdateProcessDefinition>>),
   ChangeJobDefinitionPriority |-> AllOf(<<UpdateProcessDefinition>>),
   ActivateProcessInstance   |-> OneOf(ActivateSuspendProcessInstancePermissions),
   SuspendProcessInstance    |-> OneOf(ActivateSuspendProcessInstancePermissions),
   TerminateProcessInstance  |-> OneOf(TerminateProcessInstancePermissions),
   MoveTokens                |-> OneOf(UpdateInstancePermissions),
   ActivateJob               |-> OneOf(UpdateInstancePermissions),
   SuspendJob                |-> OneOf(UpdateInstancePermissions),
   ChangeJobDueDate          |-> OneOf(UpdateInstancePermissions),
   DeleteJob                 |-> OneOf(UpdateInstancePermissions),
   ModifyProcessInstanceVariables |->
     OneOf(UpdateInstancePermissions \o <<Pair("ProcessInstance", "UPDATE_VARIABLE"),
                                          Pair("ProcessDefinition", "UPDATE_INSTANCE_VARIABLE")>>),
   ActivateBatch             |-> AllOf(<<Pair("Batch", "UPDATE")>>),
   SuspendBatch              |-> AllOf(<<Pair("Batch", "UPDATE")>>),
   DeleteBatch               |-> AllOf(<<Pair("Batch", "DELETE")>>),
   DeleteDeployment          |-> AllOf(<<Pair("Deployment", "DELETE")>>),
   EvaluateDecisionDefinition |-> AllOf(<<Pair("DecisionDefinition", "CREATE_INSTANCE")>>)]

\* A specification about one item: the pairs of its type get its id
WithId(pair, type, id) == IF pair.resource = type THEN [pair EXCEPT !.id = id] ELSE pair
FlatSupplemented(spec, type, id) ==
  [of \in DOMAIN spec |-> IF spec[of] = Absent THEN Absent
                          ELSE [k \in DOMAIN spec[of] |-> WithId(spec[of][k], type, id)]]
SupplementWithResourceIds(spec, type, id) ==
  [of \in DOMAIN spec |->
     IF spec[of] = Absent THEN Absent
     ELSE [k \in DOMAIN spec[of] |->
             IF IsLeaf(spec[of][k]) THEN WithId(spec[of][k], type, id)
             ELSE FlatSupplemented(spec[of][k], type, id)]]

\* The actions behind the buttons of a toolbar (getRequiredActionPermissions);
\* any other button asks for the empty specification
ButtonAction ==
  [ProcessDefinition |-> [activate |-> "ActivateProcessDefinition", delete |-> "DeleteProcessDefinition",
                          suspend |-> "SuspendProcessDefinition", download_resource |-> "DownloadResource"],
   ProcessInstance   |-> [activate |-> "ActivateProcessInstance", suspend |-> "SuspendProcessInstance",
                          terminate |-> "TerminateProcessInstance", download_resource |-> "DownloadResource"],
   Batch             |-> [activate |-> "ActivateBatch", suspend |-> "SuspendBatch",
                          retry |-> "SetJobRetryCount", delete |-> "DeleteBatch"],
   Deployment        |-> [delete |-> "DeleteDeployment", download_resource |-> "DownloadResource"]]
ToolbarSpecifications ==
  (UNION {{SupplementWithResourceIds(ActionPermissionsSpec[ButtonAction[type][button]], type, id) :
             button \in DOMAIN ButtonAction[type], id \in ItemIds} : type \in Toolbars})
  \union {Specification(Absent, Absent)}

\* hasAnyPermission of the list of process definitions: one of its buttons
\* is enough
ListButtons ==
  <<"ActivateProcessDefinition", "SuspendProcessDefinition", "DeleteProcessDefinition">>
AnyOf(actions) == OneOf([k \in DOMAIN actions |-> ActionPermissionsSpec[actions[k]]])

Specifications == {ActionPermissionsSpec[a] : a \in Checked}
                  \union ToolbarSpecifications \union {AnyOf(ListButtons)}

\* The pairs that are asked for, each with the one that stands for all names
Elements(list) == IF list = Absent THEN {} ELSE Range(list)
ElementsOf(spec) == Elements(spec.AllOf) \union Elements(spec.OneOf)
LeavesUnder(spec) == {e \in ElementsOf(spec) : IsLeaf(e)}
                     \union UNION {ElementsOf(e) : e \in {e \in ElementsOf(spec) : ~IsLeaf(e)}}
Leaves == UNION {LeavesUnder(spec) : spec \in Specifications}
Pairs == Leaves \union {ALL(p) : p \in Leaves}

\* What is known of a leaf: its own name first, ALL when that is refused
LeafValue(pair, known) == IF known[pair] = FALSE THEN known[ALL(pair)] ELSE known[pair]
LeafAsk(pair, known) == IF known[pair] = Unknown THEN pair ELSE ALL(pair)

\* A loop over elements stops at the first whose value is stop; the loop has
\* no value before the elements up to it have theirs
LoopValue(values, stop) ==
  IF \A k \in DOMAIN values : values[k] = ~stop THEN ~stop
  ELSE IF \E k \in DOMAIN values : values[k] = stop /\ \A j \in 1..(k - 1) : values[j] = ~stop
  THEN stop ELSE Unknown
\* The element a loop waits for
LoopWaits(values) == CHOOSE k \in DOMAIN values :
                       values[k] = Unknown /\ \A j \in 1..(k - 1) : values[j] # Unknown

\* Both loops run, one after the other, whatever the first one says
Both(all, one) == IF all = Unknown \/ one = Unknown THEN Unknown ELSE all /\ one
LeavesOf(list, known) == [k \in DOMAIN list |-> LeafValue(list[k], known)]
FlatMeets(spec, known) ==
  IF spec.AllOf = Absent /\ spec.OneOf = Absent THEN FALSE
  ELSE Both(IF spec.AllOf = Absent THEN TRUE ELSE LoopValue(LeavesOf(spec.AllOf, known), FALSE),
            IF spec.OneOf = Absent THEN TRUE ELSE LoopValue(LeavesOf(spec.OneOf, known), TRUE))
ValuesOf(list, known) ==
  [k \in DOMAIN list |-> IF IsLeaf(list[k]) THEN LeafValue(list[k], known)
                         ELSE FlatMeets(list[k], known)]
AllOfValue(spec, known) ==
  IF spec.AllOf = Absent THEN TRUE ELSE LoopValue(ValuesOf(spec.AllOf, known), FALSE)
OneOfValue(spec, known) ==
  IF spec.OneOf = Absent THEN TRUE ELSE LoopValue(ValuesOf(spec.OneOf, known), TRUE)
MeetsPermissionSpecification(spec, known) ==
  IF spec.AllOf = Absent /\ spec.OneOf = Absent THEN FALSE
  ELSE Both(AllOfValue(spec, known), OneOfValue(spec, known))

\* The pair a walk asks for next, going down the lists it stands in
FlatAsk(spec, known) ==
  LET list == IF spec.AllOf # Absent /\ LoopValue(LeavesOf(spec.AllOf, known), FALSE) = Unknown
              THEN spec.AllOf ELSE spec.OneOf
  IN LeafAsk(list[LoopWaits(LeavesOf(list, known))], known)
AskOf(list, known) ==
  LET waits == list[LoopWaits(ValuesOf(list, known))] IN
  IF IsLeaf(waits) THEN LeafAsk(waits, known) ELSE FlatAsk(waits, known)
NextPair(walk) == IF AllOfValue(walk.spec, walk.known) = Unknown
                  THEN AskOf(walk.spec.AllOf, walk.known) ELSE AskOf(walk.spec.OneOf, walk.known)
Ended(walk) == MeetsPermissionSpecification(walk.spec, walk.known) # Unknown
-----------------------------------------------------------------------------
NoAnswers == [t \in Tenants |-> [p \in Pairs |-> Unknown]]
NoRequests == [p \in Pairs |-> Absent]
PermissionsInit ==
  /\ tenant \in Tenants /\ granted \in [Tenants -> {{}, Leaves}]
  /\ memo = NoRequests /\ memoOld = FALSE /\ permissionCache = NoAnswers /\ walks = <<>>
  /\ everGranted = granted /\ neverRevoked = granted /\ borrowed = [t \in Tenants |-> {}]

\* A directive or a toolbar asks whether a specification is met
StartWalk(spec) ==
  /\ Event(MaxTurns) /\ Len(walks) < MaxChecks
  /\ walks' = Append(walks, [spec |-> spec, known |-> [p \in Pairs |-> Unknown], tenants |-> {},
                             waits |-> Absent, failed |-> FALSE])
  /\ UNCHANGED <<tenant, granted, memo, memoOld, permissionCache, everGranted, neverRevoked,
                 borrowed>>

\* The requests by pair a call of the memo finds
Remembered == IF memoOld THEN NoRequests ELSE memo

\* Whoever waits for a request that the memo drops goes on waiting for it
AwaitsAnswer(walk) == walk.waits # Absent
WithDropped == [w \in DOMAIN walks |->
                  IF memoOld /\ AwaitsAnswer(walks[w]) THEN [walks[w] EXCEPT !.waits.late = TRUE]
                  ELSE walks[w]]

\* hasPermission of one pair, up to the await: the session's answer under
\* the key of this user and tenant, a request of the memo, or a new one
AskPermission(w) ==
  LET walk == walks[w]
      pair == NextPair(walk)
      cached == permissionCache[tenant][pair]
  IN /\ walk.waits = Absent /\ ~Ended(walk)
     /\ IF cached # Unknown
        THEN /\ walks' = [walks EXCEPT ![w].known[pair] = cached, ![w].tenants = @ \union {tenant}]
             /\ UNCHANGED <<memo, memoOld>>
        ELSE /\ memo' = IF Remembered[pair] # Absent THEN Remembered
                        ELSE [Remembered EXCEPT ![pair] = [tenant |-> tenant, answer |-> Unknown]]
             /\ memoOld' = FALSE
             /\ walks' = [WithDropped EXCEPT ![w].tenants = @ \union {tenant},
                            ![w].waits = [pair |-> pair, key |-> tenant,
                                          request |-> memo'[pair].tenant, late |-> FALSE]]
     /\ UNCHANGED <<tenant, granted, permissionCache, everGranted, neverRevoked, borrowed, events>>

\* The engine answers a request of the memo
EngineAnswers(p) ==
  /\ memo[p] # Absent /\ memo[p].answer = Unknown
  /\ memo' = [memo EXCEPT ![p].answer = p \in granted[memo[p].tenant]]
  /\ UNCHANGED <<tenant, granted, memoOld, permissionCache, walks, everGranted, neverRevoked,
                 borrowed, events>>

\* Mutant: the key is taken when the answer is there
CurrentKey(walk) == tenant
\* The key an answer is kept under was taken before the request
KeptUnder(walk) == walk.waits.key

\* What the request says that is waited for; one the memo has dropped is
\* answered now, to each who waits for it by itself
AnswerTo(waits) ==
  IF waits.late THEN waits.pair \in granted[waits.request]
  ELSE IF memo[waits.pair] = Absent THEN Unknown ELSE memo[waits.pair].answer

\* checkSync gets its answer and keeps it under the key taken before; the
\* storage may be full
Answered(w, keep) ==
  LET walk == walks[w]
      pair == walk.waits.pair
      said == AnswerTo(walk.waits)
  IN /\ AwaitsAnswer(walk) /\ said # Unknown
     /\ walks' = [walks EXCEPT ![w].known[pair] = said, ![w].waits = Absent]
     /\ permissionCache' = IF keep
                           THEN [permissionCache EXCEPT ![KeptUnder(walk)][pair] = said]
                           ELSE permissionCache
     /\ borrowed' = IF walk.waits.key # walk.waits.request
                    THEN [borrowed EXCEPT ![walk.waits.key] = @ \union {pair}] ELSE borrowed
     /\ UNCHANGED <<tenant, granted, memo, memoOld, everGranted, neverRevoked>>
AnsweredAndKept(w) == Answered(w, TRUE) /\ UNCHANGED events
AnsweredStorageFull(w) == Answered(w, FALSE) /\ Event(MaxTurns)

\* Whoever waits for a request that fails takes it as a refusal
Refused(walk) ==
  [walk EXCEPT !.known[walk.waits.pair] = FALSE, !.waits = Absent, !.failed = TRUE]

\* A request of the memo fails: it is not kept, and shareReplay asks again
\* the next time
RequestFails(p) ==
  /\ Event(MaxTurns) /\ memo[p] # Absent /\ memo[p].answer = Unknown
  /\ memo' = [memo EXCEPT ![p] = Absent]
  /\ walks' = [w \in DOMAIN walks |->
                 IF AwaitsAnswer(walks[w]) /\ ~walks[w].waits.late /\ walks[w].waits.pair = p
                 THEN Refused(walks[w]) ELSE walks[w]]
  /\ UNCHANGED <<tenant, granted, memoOld, permissionCache, everGranted, neverRevoked, borrowed>>

DroppedRequestFails(w) ==
  /\ Event(MaxTurns) /\ AwaitsAnswer(walks[w]) /\ walks[w].waits.late
  /\ walks' = [walks EXCEPT ![w] = Refused(walks[w])]
  /\ UNCHANGED <<tenant, granted, memo, memoOld, permissionCache, everGranted, neverRevoked,
                 borrowed>>

\* The caller has its answer
WalkOver(w) ==
  /\ Ended(walks[w])
  /\ walks' = RemoveAt(walks, w)
  /\ UNCHANGED <<tenant, granted, memo, memoOld, permissionCache, everGranted, neverRevoked,
                 borrowed, events>>
-----------------------------------------------------------------------------
\* Two seconds pass, whether or not the requests of the memo are answered
MemoAges ==
  /\ ~memoOld /\ memoOld' = TRUE
  /\ UNCHANGED <<tenant, granted, memo, permissionCache, walks, everGranted, neverRevoked, borrowed,
                 events>>

\* A day passes while nobody asks: the session's answers have expired
DayPasses ==
  /\ Event(MaxTurns) /\ walks = <<>>
  /\ memo' = NoRequests /\ memoOld' = TRUE /\ permissionCache' = NoAnswers
  /\ everGranted' = granted /\ neverRevoked' = granted /\ borrowed' = [t \in Tenants |-> {}]
  /\ UNCHANGED <<tenant, granted, walks>>

\* The administrator grants or revokes a pair
AdminChanges(t, p) ==
  /\ Event(MaxTurns)
  /\ granted' = [granted EXCEPT ![t] = IF p \in @ THEN @ \ {p} ELSE @ \union {p}]
  /\ everGranted' = [everGranted EXCEPT ![t] = @ \union granted'[t]]
  /\ neverRevoked' = [neverRevoked EXCEPT ![t] = @ \intersect granted'[t]]
  /\ UNCHANGED <<tenant, memo, memoOld, permissionCache, walks, borrowed>>

\* apply of the tenant selection; the application is reloaded later
SelectTenant(t) ==
  /\ Event(MaxTurns) /\ t # tenant
  /\ tenant' = t
  /\ UNCHANGED <<granted, memo, memoOld, permissionCache, walks, everGranted, neverRevoked, borrowed>>

\* The reload keeps the session storage only
ReloadApplication ==
  /\ Event(MaxTurns)
  /\ memo' = NoRequests /\ memoOld' = FALSE /\ walks' = <<>>
  /\ UNCHANGED <<tenant, granted, permissionCache, everGranted, neverRevoked, borrowed>>

PermissionsNext ==
  \/ \E spec \in Specifications : StartWalk(spec)
  \/ \E w \in DOMAIN walks :
       AskPermission(w) \/ AnsweredAndKept(w) \/ AnsweredStorageFull(w) \/ WalkOver(w)
       \/ DroppedRequestFails(w)
  \/ \E p \in Pairs : EngineAnswers(p) \/ RequestFails(p) \/ \E t \in Tenants : AdminChanges(t, p)
  \/ MemoAges \/ DayPasses \/ \E t \in Tenants : SelectTenant(t) \/ ReloadApplication
-----------------------------------------------------------------------------
\* The reference: what a set of granted pairs permits
Permits(set, pair) == pair \in set \/ ALL(pair) \in set
FlatPermits(spec, set) ==
  /\ spec.AllOf # Absent \/ spec.OneOf # Absent
  /\ spec.AllOf # Absent => \A k \in DOMAIN spec.AllOf : Permits(set, spec.AllOf[k])
  /\ spec.OneOf # Absent => \E k \in DOMAIN spec.OneOf : Permits(set, spec.OneOf[k])
ElementPermits(e, set) == IF IsLeaf(e) THEN Permits(set, e) ELSE FlatPermits(e, set)
SpecificationPermits(spec, set) ==
  /\ spec.AllOf # Absent \/ spec.OneOf # Absent
  /\ spec.AllOf # Absent => \A k \in DOMAIN spec.AllOf : ElementPermits(spec.AllOf[k], set)
  /\ spec.OneOf # Absent => \E k \in DOMAIN spec.OneOf : ElementPermits(spec.OneOf[k], set)

\* What a walk says, the day's grants account for: yes only when the pairs
\* granted at some time of the day, to the tenants it was walked under or to
\* the one an answer was borrowed from, permit it; no only when the pairs
\* granted all day do not, or a request failed.
\* Why: answers of different times and tenants meet in one walk, an answer
\* lives a day in the session and two seconds in a memo without a tenant.
PermissionsAccountedFor ==
  \A w \in DOMAIN walks : Ended(walks[w]) =>
    LET walk == walks[w]
        meets == MeetsPermissionSpecification(walk.spec, walk.known)
        strange == UNION {borrowed[t] : t \in walk.tenants}
        ever == UNION {everGranted[t] : t \in walk.tenants}
        always == {p \in Pairs : \A t \in walk.tenants : p \in neverRevoked[t]}
    IN /\ meets => SpecificationPermits(walk.spec, ever \union strange)
       /\ ~meets => walk.failed \/ ~SpecificationPermits(walk.spec, always \ strange)
=============================================================================
