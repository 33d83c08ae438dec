----------------------------- MODULE DetailTab -----------------------------
(***************************************************************************)
(* A tab of a detail page (BaseTabComponent): a table of the jobs,         *)
(* incidents, variables... of one item, with filters, a sort order and     *)
(* pages.  The page gives the tab its item through the setter detailItem,  *)
(* which starts the asynchronous init(); init() waits for a permission     *)
(* check before it subscribes to events and loads.  The router may hand    *)
(* another item to the same component, and the component may be destroyed  *)
(* (the user opens another tab), while any of this is under way.           *)
(*                                                                         *)
(* loadData unsubscribes from the previous answer and subscribes to a new  *)
(* one.  Some tabs show an answer as soon as it is there; the incidents,   *)
(* job definitions and called process tabs combine it with the event that  *)
(* says that the diagram is rendered, and never end their subscription     *)
(* (joins).  JobsTabComponent joins too, and forgets to keep the           *)
(* subscription it makes (KeepsSubscription = FALSE).                      *)
(*                                                                         *)
(* An answer is named by the question it answers; what the user sees of it *)
(* is rows.  init() is called once per item and subscribes again each time *)
(* without ending the earlier subscriptions: the handlers then run one     *)
(* after the other in one turn, each load cancelling the one before, so    *)
(* that only the number of subscriptions is kept and one load is made.     *)
(* The sort order is part of what filters stand for, except that a change  *)
(* of it loads at once (LoadAgain).                                        *)
(***************************************************************************)
EXTENDS Naturals, Sequences

CONSTANTS Items,         \* what a page shows: process instances, definitions
          Filters,       \* filter models of the grid
          Default,       \* the tab's default filters
          Pages,         \* values of the pager
          Subscriptions, \* subscriptions to an answer, numbered by age
          KeepsSubscription, \* loadData assigns dataSubscription
          MaxItems,      \* bound: items given to one component
          MaxComparing,  \* bound: filter changes at a time
          None

Query == [item : Items, filters : Filters, page : Pages]

ASSUME DefaultAssumption == Default \in Filters
ASSUME PagesAssumption == 1 \in Pages
ASSUME NoneAssumption == None \notin Query \union Filters \union Pages \union Subscriptions
ASSUME SubscriptionsAssumption == Subscriptions \subseteq Nat
ASSUME KeepsAssumption == KeepsSubscription \in BOOLEAN
ASSUME MaxAssumption == MaxItems \in Nat \ {0} /\ MaxComparing \in Nat

VARIABLES
  joins,            \* answers wait for the diagram
  alive,            \* FALSE after ngOnDestroy
  item,             \* detailItemId
  inits,            \* init() calls that wait for the permission check
  listeners,        \* subscriptions to reloadNeeded$
  pagers,           \* init() has subscribed to the pager
  filters, page,    \* the user's filters, None in init(); firstResult
  clicked,          \* the page chosen less than 300 ms ago
  comparing,        \* oldFilters of the onFilterChanged calls at their await
  rendered,         \* the last value of diagramRendered$
  live,             \* subscriptions to answers
  dataSubscription, \* the one that loadData would end
  rows, loading,    \* data, isLoading
  asked             \* auxiliary: the question of the last loadData

userVars == <<joins, item, filters, page>>
initVars == <<inits, listeners, pagers>>
answerVars == <<live, dataSubscription, asked>>
vars == <<userVars, initVars, answerVars, alive, clicked, comparing, rendered,
          rows, loading>>

TypeOK ==
  /\ joins \in BOOLEAN /\ alive \in BOOLEAN /\ rendered \in BOOLEAN
  /\ pagers \in BOOLEAN /\ loading \in BOOLEAN
  /\ item \in Items
  /\ inits \in Nat /\ listeners \in Nat
  /\ filters \in Filters \union {None}
  /\ page \in Pages
  /\ clicked \in Pages \union {None}
  /\ comparing \in Seq(Filters \union {None})
  /\ live \subseteq [sub : Subscriptions, query : Query, here : BOOLEAN]
  /\ dataSubscription \in Subscriptions \union {None}
  /\ rows \in Query \union {None}
  /\ asked \in Query \union {None}

\* Mutant: undefined filters are sent as they are.
DataFilterUndefined(i, f, p) == [item |-> i, filters |-> f, page |-> p]

\* The question the tab's state asks (dataFilter): undefined filters ask for
\* what the default ones ask for.
DataFilter(i, f, p) ==
  [item |-> i, filters |-> IF f = None THEN Default ELSE f, page |-> p]

\* Mutant: the previous answer is still awaited.
NothingUnsubscribed == live

\* dataSubscription?.unsubscribe()
Unsubscribed == {s \in live : s.sub # dataSubscription}

LoadData(q) ==
  \E d \in Subscriptions :
    /\ \A s \in Unsubscribed : s.sub < d
    /\ live' = Unsubscribed \union {[sub |-> d, query |-> q, here |-> FALSE]}
    /\ dataSubscription' = IF KeepsSubscription THEN d ELSE dataSubscription
    /\ asked' = q
    /\ loading' = TRUE
    /\ UNCHANGED rows

OnDataLoad(q) == rows' = q /\ loading' = FALSE

\* Mutant: the spinner is forgotten when a request fails.
OnDataLoadFailedSilently == rows' = None /\ UNCHANGED loading

OnDataLoadFailed == rows' = None /\ loading' = FALSE

-----------------------------------------------------------------------------
Init ==
  /\ joins \in (IF KeepsSubscription THEN BOOLEAN ELSE {TRUE})
  /\ item \in Items
  /\ alive = TRUE
  /\ inits = 1 /\ listeners = 0 /\ pagers = FALSE
  /\ filters = None /\ page = 1
  /\ clicked = None /\ comparing = <<>>
  /\ rendered = FALSE
  /\ live = {} /\ dataSubscription = None /\ asked = None
  /\ rows = None /\ loading = TRUE

\* The router reuses the page for another item; init() starts again.
SetDetailItem(i) ==
  /\ alive /\ i # item
  /\ inits + listeners < MaxItems
  /\ item' = i
  /\ filters' = None
  /\ inits' = inits + 1
  /\ UNCHANGED <<joins, page, listeners, pagers, answerVars, alive, clicked,
                 comparing, rendered, rows, loading>>

\* init() goes on after its await, even if the tab is gone by then.
PermissionsAnswered ==
  /\ inits > 0
  /\ inits' = inits - 1
  /\ listeners' = listeners + 1
  /\ pagers' = TRUE
  /\ filters' = Default
  /\ LoadData(DataFilter(item, Default, page))
  /\ UNCHANGED <<joins, item, page, alive, clicked, comparing, rendered>>

\* The grid reports new filters; the handler waits for the router.
FilterChanged(f) ==
  /\ alive
  /\ Len(comparing) < MaxComparing
  /\ filters' = f
  /\ comparing' = Append(comparing, filters)
  /\ UNCHANGED <<joins, item, page, initVars, answerVars, alive, clicked,
                 rendered, rows, loading>>

\* Mutant: of several changes under way only the last one compares.
LastFilterCompared ==
  /\ comparing # <<>>
  /\ comparing' = Tail(comparing)
  /\ IF Head(comparing) # filters /\ Len(comparing) = 1
     THEN LoadData(DataFilter(item, filters, page))
     ELSE UNCHANGED <<answerVars, rows, loading>>
  /\ UNCHANGED <<userVars, initVars, alive, clicked, rendered>>

\* The handler goes on: it loads unless the filters are what they were.
FilterCompared ==
  /\ comparing # <<>>
  /\ comparing' = Tail(comparing)
  /\ IF Head(comparing) # filters
     THEN LoadData(DataFilter(item, filters, page))
     ELSE UNCHANGED <<answerVars, rows, loading>>
  /\ UNCHANGED <<userVars, initVars, alive, clicked, rendered>>

\* onSortChanged, and the callback of a bulk action.
LoadAgain ==
  /\ alive
  /\ LoadData(DataFilter(item, filters, page))
  /\ UNCHANGED <<userVars, initVars, alive, clicked, comparing, rendered>>

\* reloadNeeded$ reaches every subscription that was never ended.
HandleReload ==
  /\ listeners > 0
  /\ LoadData(DataFilter(item, filters, page))
  /\ UNCHANGED <<userVars, initVars, alive, clicked, comparing, rendered>>

ResetGridClicked ==
  /\ alive
  /\ filters' = Default
  /\ LoadData(DataFilter(item, Default, page))
  /\ UNCHANGED <<joins, item, page, initVars, alive, clicked, comparing, rendered>>

\* A page chosen before init() has subscribed is lost.
PageClicked(p) ==
  /\ alive
  /\ clicked' = IF pagers THEN p ELSE clicked
  /\ UNCHANGED <<userVars, initVars, answerVars, alive, comparing, rendered,
                 rows, loading>>

\* debounceTime(300); the subscription outlives the component.
PageSettled ==
  /\ clicked # None
  /\ page' = clicked
  /\ clicked' = None
  /\ LoadData(DataFilter(item, filters, clicked))
  /\ UNCHANGED <<joins, item, filters, initVars, alive, comparing, rendered>>

\* An answer comes.  It is shown at once, or when the diagram is there.
Answered(s) ==
  /\ ~s.here
  /\ live' = (live \ {s}) \union (IF joins THEN {[s EXCEPT !.here = TRUE]} ELSE {})
  /\ IF joins /\ ~rendered THEN UNCHANGED <<rows, loading>> ELSE OnDataLoad(s.query)
  /\ UNCHANGED <<userVars, initVars, dataSubscription, asked, alive, clicked,
                 comparing, rendered>>

Failed(s) ==
  /\ ~s.here
  /\ live' = live \ {s}
  /\ OnDataLoadFailed
  /\ UNCHANGED <<userVars, initVars, dataSubscription, asked, alive, clicked,
                 comparing, rendered>>

\* The diagram is drawn, or taken away to draw another.  The answers that are
\* there are shown, a second time if need be, in the order of their requests.
DiagramRendered(b) ==
  /\ rendered' = b
  /\ IF b /\ \E s \in live : s.here
     THEN \E s \in live :
            /\ s.here
            /\ \A t \in live : t.here => t.sub <= s.sub
            /\ OnDataLoad(s.query)
     ELSE UNCHANGED <<rows, loading>>
  /\ UNCHANGED <<userVars, initVars, answerVars, alive, clicked, comparing>>

\* ngOnDestroy ends the last subscription to each source, not the earlier ones.
Destroy ==
  /\ alive
  /\ alive' = FALSE
  /\ live' = Unsubscribed
  /\ listeners' = IF listeners > 0 THEN listeners - 1 ELSE 0
  /\ UNCHANGED <<userVars, inits, pagers, dataSubscription, asked, clicked,
                 comparing, rendered, rows, loading>>

Next ==
  \/ \E i \in Items : SetDetailItem(i)
  \/ PermissionsAnswered
  \/ \E f \in Filters : FilterChanged(f)
  \/ FilterCompared
  \/ LoadAgain
  \/ HandleReload
  \/ ResetGridClicked
  \/ \E p \in Pages : PageClicked(p)
  \/ PageSettled
  \/ \E s \in live : Answered(s) \/ Failed(s)
  \/ \E b \in BOOLEAN : DiagramRendered(b)
  \/ Destroy

Spec == Init /\ [][Next]_vars

\* The browser answers each request or fails it, the permission check never
\* rejects (PermissionService catches), and promises are settled.
Fairness ==
  /\ WF_vars(PermissionsAnswered)
  /\ WF_vars(FilterCompared)
  /\ WF_vars(\E s \in live : Answered(s) \/ Failed(s))

FairSpec == Spec /\ Fairness

-----------------------------------------------------------------------------
\* A tab without a spinner, whose handlers have all come to their end, shows
\* the rows its item, filters and page ask for, or none after a failure: no
\* answer is overtaken (base-tab-component.ts:327), and no path changes the
\* item or a filter without loading (onFilterChanged compares after an await,
\* init() resets filters before one and sets them after it).
SettledTabShowsItsState ==
  alive /\ ~loading /\ inits = 0 /\ comparing = <<>>
    => rows \in {DataFilter(item, filters, page), None}

\* Every step of the tab is a step of LatestLoad: whatever is shown, also
\* between two steps of a handler, answers the question asked last.
L == INSTANCE LatestLoad WITH Empty <- None
LastAnswerWins == L!Spec

\* The spinner of a tab ends, with rows or with an error, unless the tab is
\* left or waits for a diagram.
SpinnerEnds == alive /\ loading ~> ~loading \/ ~alive \/ (joins /\ ~rendered)
=============================================================================
