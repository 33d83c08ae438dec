----------------------------- MODULE ActivityFilter -----------------------------
(***************************************************************************)
(* The activity that a detail page filters by, and its five copies: in the *)
(* URL, in the page, in the tab, in the tab's grid and in the filters the  *)
(* tab loads by.  A click on the diagram changes the URL, which page and   *)
(* tab hear; a filter typed into the grid changes the URL from the other   *)
(* side; and the counts on the tabs' badges are asked by the page for the  *)
(* tabs that are not shown and by the shown tab for itself.                *)
(*                                                                         *)
(* A navigation within the page takes microtasks only, so it ends before   *)
(* the next gesture, answer or event of the grid: each action runs to the  *)
(* end of the navigations it starts.  The grid's filter event comes a turn *)
(* later.  Instance and definition pages differ in their tabs only.  The   *)
(* selected activity (activityId) is left out, and so are rows, which are  *)
(* those of DetailTab: here they are the activity they were asked by.      *)
(***************************************************************************)
EXTENDS DetailPages

CONSTANTS FilterTabs, PlainTabs, \* tabs with and without an activity column
          MaxCounts \* bound of the counts under way when the user goes on

ASSUME TabsAssumption ==
  /\ FilterTabs # {} /\ FilterTabs \intersect PlainTabs = {}
  /\ Absent \notin FilterTabs \union PlainTabs /\ MaxCounts \in Nat

VARIABLES
  activeTab,     \* the tab that is shown, Absent if no page is open
  urlActivity,   \* filteredActivityId in the URL
  pageActivity,  \* filteredActivityId of the page
  activityTab,   \* of the shown tab: its init has ended, its grid is ready,
                 \* its _filteredActivityId, the grid's filter, its filters,
                 \* the grid's filter events under way
  askedBy,       \* what the last load of the rows was asked by, and
                 \* (auxiliary) whether the URL alone said so
  tabCounts,     \* the activity each badge's count was asked by
  countRequests, \* counts under way, and (auxiliary) the tabs that have not
                 \* asked again since
  outrun         \* auxiliary: tabs whose badge is not the last one asked for

shownVars == <<activityTab, askedBy>>
countVars == <<tabCounts, countRequests, outrun>>
filterVars == <<activeTab, urlActivity, pageActivity, shownVars, countVars>>

AllTabs == FilterTabs \union PlainTabs
FreshTab == [initiated |-> FALSE, gridReady |-> FALSE, own |-> Absent, model |-> Absent,
             filters |-> Absent, changed |-> 0]
HasColumn == activeTab \in FilterTabs
Columns(t) == t.initiated /\ t.gridReady

FilterInit ==
  /\ activeTab = Absent /\ urlActivity = Absent /\ pageActivity = Absent
  /\ activityTab = FreshTab /\ askedBy = Absent
  /\ tabCounts = [t \in AllTabs |-> Absent] /\ countRequests = {} /\ outrun = {}

-----------------------------------------------------------------------------
Gesture == Event /\ Cardinality(countRequests) <= MaxCounts

\* One request for each of the tabs; those under way are not cancelled.
Asked(requests, tabs, activity) ==
  {[r EXCEPT !.last = @ \ tabs] : r \in requests}
    \union {[for |-> {t}, activity |-> activity, last |-> {t}] : t \in tabs}

\* updateTabCountsForFilteredActivity, when the URL's activity is new
CountsFor(requests, activity) ==
  IF activity = pageActivity THEN requests
  ELSE Asked(requests, FilterTabs \ {activeTab}, activity)

\* The tab's setter: without the column it forgets what it hears.
Filtered(t, activity) ==
  IF HasColumn /\ Columns(t)
  THEN [t EXCEPT !.own = activity, !.model = activity, !.changed = @ + 1]
  ELSE t

\* The URL changes: the page hears it, then the tab.
Navigate(activity, requests, t) ==
  /\ urlActivity' = activity /\ pageActivity' = activity
  /\ countRequests' = CountsFor(requests, activity)
  /\ activityTab' = IF activity # t.own THEN Filtered(t, activity) ELSE t

\* dataFilter: the grid's filter, else the URL's
DataActivity(t, activity) == IF t.filters # Absent THEN t.filters ELSE activity
LoadBy(t, activity) ==
  askedBy' = [activity |-> DataActivity(t, activity), urlOnly |-> t.filters = Absent]

\* ngOnInit hears the URL before there are tabs; setUpTabs asks for all counts at once.
OpenTabs(t, activity) ==
  /\ Event /\ activeTab = Absent
  /\ activeTab' = t /\ urlActivity' = activity /\ pageActivity' = activity
  /\ countRequests' =
       (IF activity = Absent THEN {}
        ELSE {[for |-> {f}, activity |-> activity, last |-> {}] : f \in FilterTabs})
       \union {[for |-> AllTabs, activity |-> activity, last |-> AllTabs]}
  /\ UNCHANGED <<shownVars, tabCounts, outrun>>

LeaveTabs ==
  /\ Event /\ activeTab # Absent
  /\ activeTab' = Absent /\ urlActivity' = Absent /\ pageActivity' = Absent
  /\ activityTab' = FreshTab /\ askedBy' = Absent
  /\ tabCounts' = [t \in AllTabs |-> Absent] /\ countRequests' = {} /\ outrun' = {}

\* init() goes on after its permission check, and loads.
TabInitiated ==
  /\ activeTab # Absent /\ ~activityTab.initiated
  /\ LET t == [activityTab EXCEPT !.initiated = TRUE]
     IN activityTab' = Filtered(t, urlActivity) /\ LoadBy(t, urlActivity)
  /\ UNCHANGED <<activeTab, urlActivity, pageActivity, countVars, events>>

\* onGridReady; a grid has its columns when init() has ended.
GridReady ==
  /\ activeTab # Absent /\ ~activityTab.gridReady
  /\ activityTab' = Filtered([activityTab EXCEPT !.gridReady = TRUE], urlActivity)
  /\ UNCHANGED <<activeTab, urlActivity, pageActivity, askedBy, countVars, events>>

\* Mutant: the tab that is left keeps its count.
CountOfShown(t) == Asked(countRequests, {}, pageActivity)

\* getInitialTabCount, for the tab that is left
CountOfLeft(t) == Asked(countRequests, {t}, pageActivity)

\* activeTabsChanged
SwitchTab(t) ==
  /\ Gesture /\ activeTab # Absent /\ t # activeTab
  /\ activeTab' = t /\ activityTab' = FreshTab /\ askedBy' = Absent
  /\ countRequests' = CountOfLeft(activeTab)
  /\ UNCHANGED <<urlActivity, pageActivity, tabCounts, outrun>>

-----------------------------------------------------------------------------
\* onElementClick: the root, a flow and the filtered activity end the filter.
ClickElement(activity) ==
  /\ Gesture /\ activeTab # Absent
  /\ Navigate(IF activity = urlActivity THEN Absent ELSE activity, countRequests, activityTab)
  /\ UNCHANGED <<activeTab, askedBy, tabCounts, outrun>>

\* A filter is typed into the grid: of the activity, or of another column.
TypeFilter(activity) ==
  /\ Gesture /\ activeTab # Absent /\ Columns(activityTab)
  /\ HasColumn \/ activity = Absent
  /\ activityTab' = [activityTab EXCEPT !.model = activity, !.changed = @ + 1]
  /\ UNCHANGED <<activeTab, urlActivity, pageActivity, askedBy, countVars>>

\* onFilterChanged: navigate to the grid's activity (which a tab without the
\* column has none of), load if the filters have changed, ask for the count.
\* alignActivityIds then finds the URL as it wants it.
FilterHeard ==
  /\ activityTab.changed > 0
  /\ LET t == [activityTab EXCEPT !.changed = @ - 1, !.filters = activityTab.model]
     IN /\ Navigate(t.filters, Asked(countRequests, {activeTab}, t.filters), t)
        /\ IF t.filters # activityTab.filters THEN LoadBy(t, t.filters) ELSE UNCHANGED askedBy
  /\ UNCHANGED <<activeTab, tabCounts, outrun, events>>

\* handleReload: load, ask for the count, and align the URL with what was loaded.
ReloadTab ==
  /\ Gesture /\ activityTab.initiated
  /\ LoadBy(activityTab, urlActivity)
  /\ LET activity == DataActivity(activityTab, urlActivity)
     IN Navigate(IF HasColumn THEN activity ELSE urlActivity,
                 Asked(countRequests, {activeTab}, activity), activityTab)
  /\ UNCHANGED <<activeTab, tabCounts, outrun>>

\* onResetGridClick: the filters end and the rows are loaded before the URL
\* has changed; the grid's event then finds the filters as they are.
ResetTab ==
  /\ Gesture /\ activeTab # Absent /\ Columns(activityTab)
  /\ LET t == [activityTab EXCEPT !.filters = Absent, !.model = Absent,
                                  !.changed = IF activityTab.model = Absent THEN @ ELSE @ + 1]
     IN LoadBy(t, urlActivity) /\ Navigate(Absent, countRequests, t)
  /\ UNCHANGED <<activeTab, tabCounts, outrun>>

CountAnswered(r) ==
  /\ r \in countRequests /\ countRequests' = countRequests \ {r}
  /\ tabCounts' = [t \in AllTabs |-> IF t \in r.for THEN r.activity ELSE tabCounts[t]]
  /\ outrun' = (outrun \ r.last) \union (r.for \ r.last)
  /\ UNCHANGED <<activeTab, urlActivity, pageActivity, shownVars, events>>

CountFailed(r) ==
  /\ Event /\ r \in countRequests /\ countRequests' = countRequests \ {r}
  /\ outrun' = outrun \union r.last
  /\ UNCHANGED <<activeTab, urlActivity, pageActivity, shownVars, tabCounts>>

FilterNext ==
  \/ \E t \in AllTabs, activity \in Ids \union {Absent} : OpenTabs(t, activity)
  \/ \E t \in AllTabs : SwitchTab(t)
  \/ \E activity \in Ids \union {Absent} : ClickElement(activity) \/ TypeFilter(activity)
  \/ LeaveTabs \/ TabInitiated \/ GridReady \/ FilterHeard \/ ReloadTab \/ ResetTab
  \/ \E r \in countRequests : CountAnswered(r) \/ CountFailed(r)

-----------------------------------------------------------------------------
\* When the grid has no more to say, URL, page, tab, grid and filters name one
\* activity; the rows were asked by it, unless the URL alone had named the
\* activity of their load (Reset grid); and each badge counts by it, whichever
\* of page and tab had to ask, unless a late or failed answer is in its place
\* (base-tab-component.ts:173 and 412, item-detail-page.component.ts:129).
FilterIsOneEverywhere ==
  activeTab # Absent /\ Columns(activityTab) /\ activityTab.changed = 0 =>
    /\ pageActivity = urlActivity
    /\ HasColumn =>
         /\ activityTab.own = urlActivity /\ activityTab.model = urlActivity
         /\ activityTab.filters = urlActivity
         /\ askedBy.activity = urlActivity \/ askedBy.urlOnly
    /\ \A t \in FilterTabs :
         (\A r \in countRequests : t \notin r.for) => tabCounts[t] = urlActivity \/ t \in outrun
=============================================================================
