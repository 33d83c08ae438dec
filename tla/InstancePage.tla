----------------------------- MODULE InstancePage -----------------------------
(***************************************************************************)
(* The process instance page (ProcessInstanceDetailPageComponent) as far   *)
(* as it shows the instance and acts on it: loading, the toolbar, the      *)
(* confirmed actions of the toolbar, the delayed reload of the event bus   *)
(* and the memo of ProcessInstanceService.getProcessInstance.  Editing the *)
(* instance is TokenEditing.                                               *)
(*                                                                         *)
(* The page loads an instance twice when it is opened: by a subscription   *)
(* that ends with its first answer and is never cancelled ("first"), and   *)
(* by one that the next reload replaces ("reload").  A link to another     *)
(* instance keeps the page and its toolbar; a first load that still waits  *)
(* then belongs to an earlier visit ("stray").  Both take their answer     *)
(* from the memo, whose entries of all instances have one creation date.   *)
(*                                                                         *)
(* One unit of time is the delay of a reload.  An answer carries the state *)
(* the instance has when it comes; every id is that of an instance.  The   *)
(* page stays where it is while a dialog is open.                          *)
(***************************************************************************)
EXTENDS Toolbar, FiniteSets

CONSTANTS MemoLife,    \* cacheTimeout of the memo
          MaxRequests  \* bound

ASSUME InstancePageAssumption == MemoLife \in Nat /\ MaxRequests \in Nat

VARIABLES
  here,       \* id of the instance in the URL, Absent on any other page
  engine,     \* state of each instance in the engine
  memo,       \* answer of each instance; "pending" when it was asked
  memoAge,
  requests,   \* under way: the instance, the loads that wait, and whether
              \* the request is still the memo's
  page,       \* instance: what is shown; canModify: enableModificationTools
  strayed,    \* auxiliary: the last answer was not the reload's, or a load
              \* has failed since
  dialog,     \* confirmation that is open: the instance and its new state
  acting,     \* confirmed actions under way
  reloadDue   \* reloadNeeded() was called: a reload in one unit of time

pageVars == <<page, strayed, bar>>
memoVars == <<memo, memoAge, requests>>
instanceVars == <<here, engine, dialog, acting, reloadDue, pageVars, memoVars, events>>

Load == {"first", "reload", "stray"}

EmptyPage == [instance |-> Absent, canModify |-> FALSE]

InstanceInit ==
  /\ here = Absent /\ engine = [i \in Ids |-> "active"]
  /\ memo = [i \in Ids |-> Absent] /\ memoAge = 0
  /\ requests = <<>>
  /\ page = EmptyPage /\ strayed = FALSE
  /\ dialog = Absent /\ acting = {} /\ reloadDue = FALSE
  /\ bar = EmptyBar

-----------------------------------------------------------------------------
\* enableModificationTools: isUnfinished at first, then only of an active one
CanModify(load, state) ==
  IF load = "reload" THEN state = "active" ELSE state # "ended"

\* A page that is opened has a toolbar only after its first loads subscribed.
CurrentBar == IF here = Absent THEN InitButtons ELSE bar

\* Each load updates the buttons; a third is no news to those that wait.
UpdatedByAll(loads, state) ==
  LET once == Updated(bar, "ProcessInstance", state)
  IN IF Len(loads) = 1 THEN once ELSE Updated(once, "ProcessInstance", state)

\* The subscriptions of the page, in the order in which they subscribed.
Delivered(loads, id, state) ==
  /\ page' = IF loads = <<>> THEN page
             ELSE [instance |-> [id |-> id, state |-> state],
                   canModify |-> CanModify(Last(loads), state)]
  /\ strayed' = IF loads = <<>> THEN strayed ELSE Last(loads) # "reload"
  /\ bar' = CASE loads = <<>> -> bar
              [] loads # <<>> /\ here = Absent -> [CurrentBar EXCEPT !.overtaken = TRUE]
              [] OTHER -> UpdatedByAll(loads, state)

\* What is left of the requests' loads: the reload, which subscribed last, is
\* unsubscribed, and the first loads of an earlier visit stay.
WithoutReload(rs) ==
  [r \in DOMAIN rs |-> [rs[r] EXCEPT !.loads =
     IF @ # <<>> /\ Last(@) = "reload" THEN Front(@) ELSE @]]

Stray(rs) ==
  [r \in DOMAIN rs |-> [rs[r] EXCEPT !.loads =
     [l \in DOMAIN @ |-> IF @[l] = "first" THEN "stray" ELSE @[l]]]]

\* memoize: an old memo is emptied by the call that finds it old.
CurrentMemo ==
  IF memoAge > MemoLife
  THEN [memo |-> [i \in Ids |-> Absent], age |-> 0, cached |-> FALSE]
  ELSE [memo |-> memo, age |-> memoAge, cached |-> TRUE]

\* getProcessInstance(id), subscribed by these loads; rs are the requests
\* after the unsubscriptions of the caller.
Get(id, loads, rs) ==
  LET m  == CurrentMemo
      qs == [r \in DOMAIN rs |-> [rs[r] EXCEPT !.cached = @ /\ m.cached]]
  IN /\ memoAge' = m.age
     /\ CASE m.memo[id] = Absent ->
               /\ Len(qs) < MaxRequests
               /\ requests' = Append(qs, [id |-> id, loads |-> loads, cached |-> TRUE])
               /\ memo' = [m.memo EXCEPT ![id] = "pending"]
               /\ bar' = CurrentBar
               /\ UNCHANGED <<page, strayed>>
          [] m.memo[id] = "pending" ->
               /\ requests' = [r \in DOMAIN qs |->
                    IF qs[r].id = id /\ qs[r].cached
                    THEN [qs[r] EXCEPT !.loads = @ \o loads] ELSE qs[r]]
               /\ memo' = m.memo
               /\ bar' = CurrentBar
               /\ UNCHANGED <<page, strayed>>
          [] OTHER ->
               /\ Delivered(loads, id, m.memo[id])
               /\ requests' = qs /\ memo' = m.memo

-----------------------------------------------------------------------------
\* A link from another page creates the page and its toolbar; one to another
\* instance (called instances, breadcrumbs) keeps them: itemId$.
Visit(id) ==
  /\ Event /\ here # id /\ dialog = Absent
  /\ here' = id
  /\ Get(id, <<"first", "reload">>, Stray(WithoutReload(requests)))
  /\ UNCHANGED <<engine, dialog, acting, reloadDue>>

\* ngOnDestroy.  What a load does to a page that is gone is not seen again.
LeaveInstance ==
  /\ Event /\ here # Absent /\ dialog = Absent
  /\ here' = Absent
  /\ page' = EmptyPage /\ strayed' = FALSE /\ bar' = [EmptyBar EXCEPT !.typeKnown = bar.typeKnown]
  /\ requests' = [r \in DOMAIN requests |-> [requests[r] EXCEPT !.loads = <<>>]]
  /\ UNCHANGED <<engine, memo, memoAge, dialog, acting, reloadDue>>

InstanceAnswered(r) ==
  LET q == requests[r]
  IN /\ Delivered(q.loads, q.id, engine[q.id])
     /\ memo' = IF q.cached THEN [memo EXCEPT ![q.id] = engine[q.id]] ELSE memo
     /\ requests' = RemoveAt(requests, r)
     /\ UNCHANGED <<here, engine, memoAge, dialog, acting, reloadDue, events>>

\* The loads have no handler; shareReplay asks again when next subscribed.
InstanceFailed(r) ==
  LET q == requests[r]
  IN /\ Event
     /\ memo' = IF q.cached THEN [memo EXCEPT ![q.id] = Absent] ELSE memo
     /\ requests' = RemoveAt(requests, r)
     /\ strayed' = (strayed \/ q.loads # <<>>)
     /\ UNCHANGED <<here, engine, memoAge, dialog, acting, reloadDue,
                    page, bar>>

InstancePermissions ==
  /\ PermissionsAnswered
  /\ UNCHANGED <<here, engine, dialog, acting, reloadDue, page, strayed, memoVars, events>>

\* eventBus.reloadNeeded$, 200 ms after reloadNeeded()
ReloadInstance ==
  /\ reloadDue
  /\ reloadDue' = FALSE
  /\ IF here = Absent
     THEN UNCHANGED <<pageVars, memoVars>>
     ELSE Get(here, <<"reload">>, WithoutReload(requests))
  /\ UNCHANGED <<here, engine, dialog, acting, events>>

\* The state each action asks the engine for
Effect(button) ==
  CASE button = "suspend" -> "suspended"
    [] button = "activate" -> "active"
    [] button = "terminate" -> "ended"

\* onToolbarButtonClick: the dialog of confirmActionService
ClickInstance(button) ==
  /\ Event /\ here # Absent /\ dialog = Absent
  /\ Usable(button)
  /\ dialog' = [id |-> here, to |-> Effect(button)]
  /\ UNCHANGED <<here, engine, acting, reloadDue, pageVars, memoVars>>

CancelInstance ==
  /\ dialog # Absent
  /\ dialog' = Absent
  /\ UNCHANGED <<here, engine, acting, reloadDue, pageVars, memoVars, events>>

ConfirmInstance ==
  /\ dialog # Absent
  /\ acting' = acting \union {dialog}
  /\ dialog' = Absent
  /\ UNCHANGED <<here, engine, reloadDue, pageVars, memoVars, events>>

\* suspendOrActivate and terminate turn an error into a result, so the page
\* is reloaded after success and after failure.
ActionAnswered(a, succeeds) ==
  /\ succeeds => engine[a.id] # "ended"
  /\ acting' = acting \ {a}
  /\ engine' = IF succeeds THEN [engine EXCEPT ![a.id] = a.to] ELSE engine
  /\ reloadDue' = TRUE
  /\ UNCHANGED <<here, dialog, pageVars, memoVars, events>>

\* Another user acts, or the instance ends.
EngineMoves(id) ==
  /\ Event /\ engine[id] # "ended"
  /\ \E s \in States \ {engine[id]} : engine' = [engine EXCEPT ![id] = s]
  /\ UNCHANGED <<here, dialog, acting, reloadDue, pageVars, memoVars>>

\* A reload that is due comes before more time passes.
InstanceTick ==
  /\ ~reloadDue
  /\ memoAge <= MemoLife
  /\ memoAge' = memoAge + 1
  /\ UNCHANGED <<here, engine, dialog, acting, reloadDue, pageVars, memo, requests, events>>

InstanceNext ==
  \/ \E id \in Ids : Visit(id) \/ EngineMoves(id)
  \/ LeaveInstance
  \/ \E r \in DOMAIN requests : InstanceAnswered(r) \/ InstanceFailed(r)
  \/ InstancePermissions
  \/ ReloadInstance
  \/ \E b \in {"suspend", "activate", "terminate"} : ClickInstance(b)
  \/ CancelInstance
  \/ ConfirmInstance
  \/ \E a \in acting, s \in BOOLEAN : ActionAnswered(a, s)
  \/ InstanceTick

-----------------------------------------------------------------------------
\* No load of the page waits, and no button waits for a permission.
InstanceAtRest ==
  /\ here # Absent /\ page.instance # Absent
  /\ \A r \in DOMAIN requests : requests[r].loads = <<>>
  /\ BarAtRest

\* A page at rest shows the instance of its URL, its toolbar fits the state
\* that is shown, and tokens can be moved exactly if that is active, unless a
\* first load was the last or one has failed since, a permission check was overtaken by
\* an update of the toolbar, or the toolbar came after the page had taken its
\* instance from the memo (process-instance-detail-page.component.ts:157,
\* toolbar.component.ts:145).
PageAtRestFitsItsInstance ==
  InstanceAtRest /\ ~strayed /\ ~bar.overtaken =>
    /\ page.instance.id = here
    /\ Fits(page.instance.state)
    /\ page.canModify = (page.instance.state = "active")
=============================================================================
