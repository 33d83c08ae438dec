--------------------------- MODULE DetailPages_proofs ---------------------------
(***************************************************************************)
(* What is proved of the detail pages, for every value of the constants.   *)
(* A behaviour is about one of the machines and leaves the others alone,   *)
(* so an invariant of a machine is one of the whole specification.         *)
(***************************************************************************)
EXTENDS MCDetailPages, SequenceTheorems, TLAPS

\* A step is one of a machine, or leaves it alone.
LEMMA OnePageMoves ==
  [MCNext]_allVars => /\ [FilterNext]_filterVars /\ [VariablesNext]_variablesVars
                      /\ [BatchNext]_batchVars /\ [HeatmapNext]_heatVars
                      /\ [DeploymentNext]_deploymentVars
BY DEF MCNext, allVars

\* The machines start as they do alone.
LEMMA AllPagesStart ==
  MCInit => /\ InstanceInit /\ DefinitionInit /\ BatchInit /\ HeatmapInit
            /\ VariablesInit /\ DeploymentInit /\ FilterInit
BY DEF MCInit
-----------------------------------------------------------------------------
\* Removing an element of a sequence closes the gap (RemoveAt).
LEMMA RemoveAtFacts ==
  ASSUME NEW S, NEW s \in Seq(S), NEW i \in DOMAIN s
  PROVE  /\ RemoveAt(s, i) \in Seq(S) /\ Len(RemoveAt(s, i)) = Len(s) - 1
         /\ \A j \in DOMAIN RemoveAt(s, i) :
              RemoveAt(s, i)[j] = IF j < i THEN s[j] ELSE s[j + 1]
<1> DEFINE a == SubSeq(s, 1, i - 1)
           b == SubSeq(s, i + 1, Len(s))
<1>1. i \in 1 .. Len(s) /\ Len(s) \in Nat
  OBVIOUS
<1>2. a \in Seq(S) /\ Len(a) = i - 1 /\ \A j \in 1 .. i - 1 : a[j] = s[j]
  BY <1>1
<1>3. b \in Seq(S) /\ Len(b) = Len(s) - i /\ \A j \in 1 .. Len(s) - i : b[j] = s[i + j]
  BY <1>1
<1> HIDE DEF a, b
<1>a. /\ a \o b \in Seq(S) /\ Len(a \o b) = Len(a) + Len(b)
      /\ \A j \in 1 .. Len(a) + Len(b) :
           (a \o b)[j] = IF j <= Len(a) THEN a[j] ELSE b[j - Len(a)]
  BY <1>2, <1>3, ConcatProperties
<1>b. Len(a) + Len(b) = Len(s) - 1
  BY <1>1, <1>2, <1>3
<1>4. /\ a \o b \in Seq(S) /\ Len(a \o b) = Len(s) - 1
      /\ \A j \in 1 .. Len(a \o b) : (a \o b)[j] = IF j <= i - 1 THEN a[j] ELSE b[j - (i - 1)]
  <2> HIDE <1>1, <1>3
  <2> QED BY <1>2, <1>a, <1>b
<1>5. ASSUME NEW j \in 1 .. Len(a \o b)
      PROVE  (a \o b)[j] = IF j < i THEN s[j] ELSE s[j + 1]
  <2>1. CASE j < i
    BY <2>1, <1>1, <1>2, <1>4
  <2>2. CASE ~(j < i)
    <3>1. j - (i - 1) \in 1 .. Len(s) - i /\ i + (j - (i - 1)) = j + 1
      BY <2>2, <1>1, <1>4
    <3>2. (a \o b)[j] = b[j - (i - 1)]
      BY <2>2, <1>1, <1>4
    <3>3. b[j - (i - 1)] = s[i + (j - (i - 1))]
      BY <3>1, <1>3
    <3> QED BY <2>2, <3>1, <3>2, <3>3
  <2> QED BY <2>1, <2>2
<1>6. RemoveAt(s, i) = a \o b
  BY DEF RemoveAt, a, b
<1>7. DOMAIN (a \o b) = 1 .. Len(a \o b)
  BY <1>4
<1> QED BY <1>4, <1>5, <1>6, <1>7

-----------------------------------------------------------------------------
(***************************************************************************)
(* For any tabs and activities, and any number of counts, filter events    *)
(* and gestures: when the grid has no more to say, the copies of the       *)
(* filtered activity agree, and the badges count by it.                    *)
(*                                                                         *)
(* The invariant says why.  CopiesInv: a tab whose column is there always  *)
(* has the URL's activity as its own, since its setter is the only way the *)
(* two part, and whatever sets it makes the grid speak; so a silent grid   *)
(* has nothing left to change.  LoadedInv: every change of the filters     *)
(* loads.  CountsInv: a tab that is not about to ask for its count was     *)
(* last counted by the URL's activity: that request is under way, or its   *)
(* answer is shown, or something came over it.  Who asks is the point: the *)
(* page for the tabs that are not shown, the shown tab by its grid's       *)
(* event, and the page again for the tab that is left.                     *)
(***************************************************************************)

Activities == Ids \union {Absent}
Requests == [for : SUBSET AllTabs, activity : Activities, last : SUBSET AllTabs]
Tab == [initiated : BOOLEAN, gridReady : BOOLEAN, own : Activities, model : Activities,
        filters : Activities, changed : Nat]

FilterTypeOK ==
  /\ activeTab \in AllTabs \union {Absent}
  /\ urlActivity \in Activities /\ pageActivity \in Activities
  /\ activityTab \in Tab
  /\ tabCounts \in [AllTabs -> Activities]
  /\ countRequests \subseteq Requests
  /\ outrun \subseteq AllTabs

Rests == Columns(activityTab) /\ activityTab.changed = 0

CopiesInv ==
  /\ pageActivity = urlActivity
  /\ activityTab.changed > 0 => Columns(activityTab) /\ activeTab # Absent
  /\ activityTab.initiated => activeTab # Absent
  /\ HasColumn /\ Columns(activityTab) => activityTab.own = urlActivity
  /\ HasColumn /\ Rests => activityTab.model = urlActivity /\ activityTab.filters = urlActivity

LoadedInv ==
  activityTab.initiated =>
    askedBy.urlOnly \/ askedBy.activity = activityTab.filters

\* The last count of tab f was asked by that activity.
CountedBy(pending, counts, late, f, activity) ==
  /\ \A r \in pending : f \in r.last => r.activity = activity
  /\ \/ \E r \in pending : f \in r.last
     \/ counts[f] = activity
     \/ f \in late

CountsInv ==
  /\ \A r \in countRequests : r.last \subseteq r.for
  /\ activeTab # Absent =>
       \A f \in FilterTabs :
         (f = activeTab => Rests) => CountedBy(countRequests, tabCounts, outrun, f, urlActivity)

FilterInv == FilterTypeOK /\ CopiesInv /\ LoadedInv /\ CountsInv

-----------------------------------------------------------------------------
\* Requests stay requests when others are asked (Asked).
LEMMA AskedType ==
  ASSUME NEW pending \in SUBSET Requests, NEW tabs \in SUBSET AllTabs, NEW a \in Activities
  PROVE  Asked(pending, tabs, a) \subseteq Requests
<1>1. ASSUME NEW r \in pending PROVE [r EXCEPT !.last = @ \ tabs] \in Requests
  BY DEF Requests
<1>2. ASSUME NEW t \in tabs PROVE [for |-> {t}, activity |-> a, last |-> {t}] \in Requests
  BY DEF Requests
<1> QED BY <1>1, <1>2 DEF Asked

\* The tabs a request is the last of are among its tabs, before and after.
LEMMA AskedFor ==
  ASSUME NEW pending \in SUBSET Requests, NEW tabs, NEW a \in Activities,
         \A r \in pending : r.last \subseteq r.for
  PROVE  \A r \in Asked(pending, tabs, a) : r.last \subseteq r.for
<1> DEFINE Older(r) == [r EXCEPT !.last = @ \ tabs]
           Newer(t) == [for |-> {t}, activity |-> a, last |-> {t}]
<1>1. \A r \in pending : Older(r).last \subseteq Older(r).for
  BY DEF Requests
<1>2. \A t \in tabs : Newer(t).last \subseteq Newer(t).for
  OBVIOUS
<1>3. Asked(pending, tabs, a) = {Older(r) : r \in pending} \union {Newer(t) : t \in tabs}
  BY DEF Asked
<1> HIDE DEF Older, Newer
<1> QED BY <1>1, <1>2, <1>3

\* Who is asked for is counted by what it is asked by; the others as before.
LEMMA AskedCounts ==
  ASSUME NEW pending \in SUBSET Requests, NEW tabs, NEW a \in Activities,
         NEW counts, NEW late, NEW f
  PROVE  /\ f \in tabs => CountedBy(Asked(pending, tabs, a), counts, late, f, a)
         /\ \A b : f \notin tabs /\ CountedBy(pending, counts, late, f, b)
                     => CountedBy(Asked(pending, tabs, a), counts, late, f, b)
<1> DEFINE Older(r) == [r EXCEPT !.last = @ \ tabs]
           Newer(t) == [for |-> {t}, activity |-> a, last |-> {t}]
<1>1. \A r \in pending : Older(r).last = r.last \ tabs /\ Older(r).activity = r.activity
  BY DEF Requests
<1>2. \A t : Newer(t).last = {t} /\ Newer(t).activity = a
  OBVIOUS
<1>3. Asked(pending, tabs, a) = {Older(r) : r \in pending} \union {Newer(t) : t \in tabs}
  BY DEF Asked
<1> HIDE DEF Older, Newer
<1>4. f \in tabs => CountedBy(Asked(pending, tabs, a), counts, late, f, a)
  BY <1>1, <1>2, <1>3 DEF CountedBy
<1>5. ASSUME NEW b, f \notin tabs, CountedBy(pending, counts, late, f, b)
      PROVE  CountedBy(Asked(pending, tabs, a), counts, late, f, b)
  BY <1>1, <1>2, <1>3, <1>5 DEF CountedBy
<1> QED BY <1>4, <1>5

\* The page's counts after a change of the URL: those it asks for are counted
\* by the new activity, the shown tab's as before.
LEMMA CountsForKeeps ==
  ASSUME NEW pending \in SUBSET Requests, NEW a \in Activities, FilterTypeOK,
         \A r \in pending : r.last \subseteq r.for
  PROVE  /\ CountsFor(pending, a) \subseteq Requests
         /\ \A r \in CountsFor(pending, a) : r.last \subseteq r.for
         /\ \A f \in FilterTabs :
              /\ /\ f # activeTab
                 /\ CountedBy(pending, tabCounts, outrun, f, pageActivity)
                 => CountedBy(CountsFor(pending, a), tabCounts, outrun, f, a)
              /\ \A b : f = activeTab /\ CountedBy(pending, tabCounts, outrun, f, b)
                          => CountedBy(CountsFor(pending, a), tabCounts, outrun, f, b)
<1>1. CASE a = pageActivity
  BY <1>1 DEF CountsFor
<1>2. CASE a # pageActivity
  <2> DEFINE others == FilterTabs \ {activeTab}
  <2>1. CountsFor(pending, a) = Asked(pending, others, a)
    BY <1>2 DEF CountsFor
  <2>2. others \in SUBSET AllTabs
    BY DEF AllTabs
  <2> HIDE DEF others
  <2>3. /\ Asked(pending, others, a) \subseteq Requests
        /\ \A r \in Asked(pending, others, a) : r.last \subseteq r.for
    BY <2>2, AskedType, AskedFor
  <2>4. ASSUME NEW f \in FilterTabs, f # activeTab
        PROVE  CountedBy(Asked(pending, others, a), tabCounts, outrun, f, a)
    <3>1. f \in others
      BY <2>4 DEF others
    <3> QED BY <3>1, AskedCounts
  <2>5. ASSUME NEW f \in FilterTabs, NEW b, f = activeTab,
               CountedBy(pending, tabCounts, outrun, f, b)
        PROVE  CountedBy(Asked(pending, others, a), tabCounts, outrun, f, b)
    <3>1. f \notin others
      BY <2>5 DEF others
    <3> QED BY <2>5, <3>1, AskedCounts
  <2> QED BY <2>1, <2>3, <2>4, <2>5
<1> QED BY <1>1, <1>2

-----------------------------------------------------------------------------
\* What the setter does to a tab (Filtered).
LEMMA FilteredTab ==
  ASSUME NEW t \in Tab, NEW a \in Activities
  PROVE  /\ Filtered(t, a) \in Tab
         /\ Filtered(t, a).filters = t.filters
         /\ Filtered(t, a).initiated = t.initiated
         /\ Filtered(t, a).gridReady = t.gridReady
         /\ HasColumn /\ Columns(t) => Filtered(t, a).own = a /\ Filtered(t, a).changed > 0
         /\ ~(HasColumn /\ Columns(t)) => Filtered(t, a) = t
<1>1. CASE HasColumn /\ Columns(t)
  <2>1. Filtered(t, a) = [t EXCEPT !.own = a, !.model = a, !.changed = @ + 1]
    BY <1>1 DEF Filtered
  <2>2. t.changed + 1 \in Nat /\ t.changed + 1 > 0
    BY DEF Tab
  <2>3. \A c \in Nat : [t EXCEPT !.own = a, !.model = a, !.changed = c] \in Tab
    BY DEF Tab
  <2> QED BY <1>1, <2>1, <2>2, <2>3 DEF Tab
<1>2. CASE ~(HasColumn /\ Columns(t))
  BY <1>2 DEF Filtered
<1> QED BY <1>1, <1>2

\* A navigation restores the invariant, when the tab it starts with agrees
\* with the new URL or will hear of it, and the counts of the other tabs were
\* right for the old one.
LEMMA NavigateInv ==
  ASSUME FilterTypeOK, CopiesInv,
         NEW a \in Activities, NEW pending \in SUBSET Requests, NEW t \in Tab,
         Navigate(a, pending, t), UNCHANGED <<activeTab, tabCounts, outrun>>,
         \A r \in pending : r.last \subseteq r.for,
         t.changed > 0 => Columns(t) /\ activeTab # Absent,
         t.initiated => activeTab # Absent,
         HasColumn /\ Columns(t) /\ t.changed = 0 /\ t.own = a => t.model = a /\ t.filters = a,
         activeTab # Absent =>
           \A f \in FilterTabs :
             /\ f # activeTab => CountedBy(pending, tabCounts, outrun, f, urlActivity)
             /\ f = activeTab /\ Columns(t) /\ t.changed = 0 /\ t.own = a
                  => CountedBy(pending, tabCounts, outrun, f, a)
  PROVE  /\ FilterTypeOK' /\ CopiesInv' /\ CountsInv'
         /\ activityTab'.filters = t.filters /\ activityTab'.initiated = t.initiated
<1>1. /\ urlActivity' = a /\ pageActivity' = a
      /\ countRequests' = CountsFor(pending, a)
      /\ activityTab' = IF a # t.own THEN Filtered(t, a) ELSE t
  BY DEF Navigate
<1>2. /\ activityTab' \in Tab
      /\ activityTab'.filters = t.filters /\ activityTab'.initiated = t.initiated
      /\ activityTab'.gridReady = t.gridReady
  BY <1>1, FilteredTab
<1>3. /\ countRequests' \subseteq Requests
      /\ \A r \in countRequests' : r.last \subseteq r.for
  BY <1>1, CountsForKeeps
<1>4. FilterTypeOK'
  BY <1>1, <1>2, <1>3 DEF FilterTypeOK
<1>5. Columns(activityTab') = Columns(t)
  BY <1>2 DEF Columns
<1>6. HasColumn' = HasColumn
  BY DEF HasColumn
<1>7. HasColumn /\ Columns(t) =>
        /\ activityTab'.own = a
        /\ activityTab'.changed = 0 => t.own = a /\ activityTab' = t
  BY <1>1, FilteredTab DEF Tab
<1>8. ~(HasColumn /\ Columns(t)) => activityTab' = t
  BY <1>1, FilteredTab
<1>9. CopiesInv'
  BY <1>1, <1>2, <1>5, <1>6, <1>7, <1>8 DEF CopiesInv, Rests, Columns
<1>10. CountsInv'
  <2> SUFFICES ASSUME activeTab # Absent, NEW f \in FilterTabs, f = activeTab => Rests'
               PROVE  CountedBy(countRequests', tabCounts, outrun, f, a)
    BY <1>1, <1>3 DEF CountsInv
  <2>1. CASE f # activeTab
    <3>1. CountedBy(pending, tabCounts, outrun, f, pageActivity)
      BY <2>1 DEF CopiesInv
    <3> QED BY <2>1, <3>1, <1>1, CountsForKeeps
  <2>2. CASE f = activeTab
    <3>1. HasColumn /\ Columns(t) /\ activityTab'.changed = 0
      BY <2>2, <1>5 DEF HasColumn, Rests
    <3>2. t.own = a /\ t.changed = 0
      BY <3>1, <1>7
    <3>3. CountedBy(pending, tabCounts, outrun, f, a)
      BY <2>2, <3>1, <3>2
    <3> QED BY <2>2, <3>3, <1>1, CountsForKeeps
  <2> QED BY <2>1, <2>2
<1> QED BY <1>2, <1>4, <1>9, <1>10

\* So does a tab whose init ends or whose grid is ready.
LEMMA SetUpInv ==
  ASSUME FilterTypeOK, CopiesInv, CountsInv, activeTab # Absent,
         NEW t \in Tab, t.changed = 0, activityTab' = Filtered(t, urlActivity),
         UNCHANGED <<activeTab, urlActivity, pageActivity, tabCounts, countRequests, outrun>>
  PROVE  /\ FilterTypeOK' /\ CopiesInv' /\ CountsInv'
         /\ activityTab'.filters = t.filters /\ activityTab'.initiated = t.initiated
<1>1. /\ activityTab' \in Tab
      /\ activityTab'.filters = t.filters /\ activityTab'.initiated = t.initiated
      /\ activityTab'.gridReady = t.gridReady
  BY FilteredTab DEF FilterTypeOK
<1>2. /\ HasColumn /\ Columns(t) => activityTab'.own = urlActivity /\ activityTab'.changed > 0
      /\ ~(HasColumn /\ Columns(t)) => activityTab'.changed = 0
  BY FilteredTab DEF FilterTypeOK
<1>3. Columns(activityTab') = Columns(t) /\ HasColumn' = HasColumn
  BY <1>1 DEF Columns, HasColumn
<1>4. FilterTypeOK' /\ CopiesInv'
  BY <1>1, <1>2, <1>3 DEF FilterTypeOK, CopiesInv, Rests
<1>5. CountsInv'
  BY <1>2, <1>3 DEF CountsInv, Rests, HasColumn
<1> QED BY <1>1, <1>4, <1>5

-----------------------------------------------------------------------------
\* From the start and over every step of the tabs, whoever acts.
LEMMA FilterInvariant == MCSpec => []FilterInv
<1>1. FilterInit => FilterInv
  BY DEF FilterInit, FilterInv, FilterTypeOK, CopiesInv, LoadedInv, CountsInv, FreshTab, Tab,
         Activities, Columns, Rests, Requests
<1>2. FilterInv /\ [FilterNext]_filterVars => FilterInv'
  <2> SUFFICES ASSUME FilterInv, [FilterNext]_filterVars PROVE FilterInv'
    OBVIOUS
  <2> USE DEF FilterInv
  <2>0. /\ FreshTab \in Tab /\ FreshTab.changed = 0 /\ FreshTab.initiated = FALSE
        /\ ~Columns(FreshTab) /\ Absent \in Activities
    BY DEF FreshTab, Tab, Columns, Activities
  <2>1. ASSUME NEW t \in AllTabs, NEW a \in Activities, OpenTabs(t, a) PROVE FilterInv'
    <3> DEFINE one(f) == [for |-> {f}, activity |-> a, last |-> {}]
               all == [for |-> AllTabs, activity |-> a, last |-> AllTabs]
    <3>1. /\ activeTab' = t /\ urlActivity' = a /\ pageActivity' = a
          /\ UNCHANGED <<activityTab, askedBy, tabCounts, outrun>>
          /\ activeTab = Absent
          /\ countRequests' = (IF a = Absent THEN {} ELSE {one(f) : f \in FilterTabs})
                                \union {all}
      BY <2>1 DEF OpenTabs, shownVars
    <3>2. /\ \A f \in FilterTabs : one(f) \in Requests /\ one(f).last = {}
          /\ all \in Requests /\ all.last = AllTabs /\ all.activity = a /\ all.for = AllTabs
      BY DEF Requests, AllTabs
    <3> HIDE DEF one, all
    <3>3. FilterTypeOK'
      BY <3>1, <3>2 DEF FilterTypeOK
    <3>4. CopiesInv' /\ LoadedInv'
      BY <3>1 DEF CopiesInv, LoadedInv, Rests, Columns
    <3>5. CountsInv'
      BY <3>1, <3>2 DEF CountsInv, CountedBy, AllTabs
    <3> QED BY <3>3, <3>4, <3>5
  <2>2. ASSUME NEW t \in AllTabs, SwitchTab(t) PROVE FilterInv'
    <3>1. /\ activeTab # Absent /\ activeTab' = t
          /\ activityTab' = FreshTab
          /\ countRequests' = Asked(countRequests, {activeTab}, pageActivity)
          /\ UNCHANGED <<urlActivity, pageActivity, tabCounts, outrun>>
      BY <2>2 DEF SwitchTab, CountOfLeft
    <3>2. t # Absent /\ {activeTab} \in SUBSET AllTabs /\ pageActivity \in Activities
      BY <3>1, TabsAssumption DEF FilterTypeOK, AllTabs
    <3>3. /\ countRequests' \subseteq Requests
          /\ \A r \in countRequests' : r.last \subseteq r.for
      BY <3>1, <3>2, AskedType, AskedFor DEF FilterTypeOK, CountsInv
    <3>4. FilterTypeOK'
      BY <3>1, <3>3, <2>0 DEF FilterTypeOK
    <3>5. CopiesInv' /\ LoadedInv'
      BY <3>1, <3>2, <2>0 DEF CopiesInv, LoadedInv, Rests, HasColumn
    <3>6. CountsInv'
      <4> SUFFICES ASSUME NEW f \in FilterTabs, f = t => Rests'
                   PROVE  CountedBy(countRequests', tabCounts, outrun, f, urlActivity)
        BY <3>1, <3>3 DEF CountsInv
      <4>1. f # t
        BY <3>1, <2>0 DEF Rests
      <4>2. CASE f = activeTab
        BY <4>2, <3>1, <3>2, AskedCounts DEF FilterTypeOK, CopiesInv
      <4>3. CASE f # activeTab
        <5>1. CountedBy(countRequests, tabCounts, outrun, f, urlActivity)
          BY <3>1, <4>3 DEF CountsInv
        <5> QED BY <4>3, <5>1, <3>1, <3>2, AskedCounts DEF FilterTypeOK
      <4> QED BY <4>2, <4>3
    <3> QED BY <3>4, <3>5, <3>6
  <2>3. ASSUME NEW a \in Activities, ClickElement(a) PROVE FilterInv'
    <3> DEFINE b == IF a = urlActivity THEN Absent ELSE a
    <3>1. /\ Navigate(b, countRequests, activityTab)
          /\ UNCHANGED <<activeTab, askedBy, tabCounts, outrun>>
      BY <2>3 DEF ClickElement
    <3>2. b \in Activities
      BY <2>0
    <3> HIDE DEF b
    <3>a. /\ countRequests \in SUBSET Requests /\ activityTab \in Tab
          /\ \A r \in countRequests : r.last \subseteq r.for
          /\ activityTab.changed > 0 => Columns(activityTab) /\ activeTab # Absent
          /\ activityTab.initiated => activeTab # Absent
      BY DEF FilterTypeOK, CopiesInv, CountsInv
    <3>b. HasColumn /\ Columns(activityTab) /\ activityTab.changed = 0 /\ activityTab.own = b
            => activityTab.model = b /\ activityTab.filters = b
      BY DEF CopiesInv, Rests
    <3>c. activeTab # Absent =>
            \A f \in FilterTabs :
              /\ f # activeTab =>
                   CountedBy(countRequests, tabCounts, outrun, f, urlActivity)
              /\ f = activeTab /\ Columns(activityTab) /\ activityTab.changed = 0
                   /\ activityTab.own = b
                   => CountedBy(countRequests, tabCounts, outrun, f, b)
      BY DEF CountsInv, CopiesInv, Rests, HasColumn
    <3>3. FilterTypeOK' /\ CopiesInv' /\ CountsInv'
          /\ activityTab'.filters = activityTab.filters
          /\ activityTab'.initiated = activityTab.initiated
      BY <3>1, <3>2, <3>a, <3>b, <3>c, NavigateInv
    <3> QED BY <3>1, <3>3 DEF LoadedInv
  <2>4. ASSUME NEW a \in Activities, TypeFilter(a) PROVE FilterInv'
    <3>1. /\ activeTab # Absent /\ Columns(activityTab)
          /\ activityTab' = [activityTab EXCEPT !.model = a, !.changed = @ + 1]
          /\ UNCHANGED <<activeTab, urlActivity, pageActivity, askedBy, tabCounts,
                         countRequests, outrun>>
      BY <2>4 DEF TypeFilter, countVars
    <3>a. activityTab.changed + 1 \in Nat /\ activityTab.changed + 1 > 0
      BY DEF FilterTypeOK, Tab
    <3>b. \A c \in Nat : [activityTab EXCEPT !.model = a, !.changed = c] \in Tab
      BY DEF FilterTypeOK, Tab
    <3>2. /\ activityTab' \in Tab /\ activityTab'.changed > 0
          /\ activityTab'.own = activityTab.own
          /\ activityTab'.filters = activityTab.filters
          /\ activityTab'.initiated = activityTab.initiated
          /\ activityTab'.gridReady = activityTab.gridReady
      BY <3>1, <3>a, <3>b DEF FilterTypeOK, Tab
    <3> QED
      BY <3>1, <3>2 DEF FilterTypeOK, CopiesInv, LoadedInv, CountsInv, Rests, Columns, HasColumn
  <2>5. CASE LeaveTabs
    <3>1. /\ activeTab' = Absent /\ urlActivity' = Absent /\ pageActivity' = Absent
          /\ activityTab' = FreshTab /\ tabCounts' = [t \in AllTabs |-> Absent]
          /\ countRequests' = {} /\ outrun' = {}
      BY <2>5 DEF LeaveTabs
    <3> QED
      BY <3>1, <2>0 DEF FilterTypeOK, CopiesInv, LoadedInv, CountsInv, Rests
  <2>6. CASE TabInitiated
    <3> DEFINE t == [activityTab EXCEPT !.initiated = TRUE]
    <3>1. /\ activeTab # Absent /\ ~activityTab.initiated
          /\ activityTab' = Filtered(t, urlActivity) /\ LoadBy(t, urlActivity)
          /\ UNCHANGED <<activeTab, urlActivity, pageActivity, tabCounts, countRequests, outrun>>
      BY <2>6 DEF TabInitiated, countVars
    <3>2. t \in Tab /\ t.filters = activityTab.filters /\ t.changed = activityTab.changed
      BY DEF FilterTypeOK, Tab
    <3> HIDE DEF t
    <3>3. activityTab.changed = 0
      BY <3>1 DEF CopiesInv, FilterTypeOK, Tab, Columns
    <3>4. FilterTypeOK' /\ CopiesInv' /\ CountsInv' /\ activityTab'.filters = t.filters
      BY <3>1, <3>2, <3>3, SetUpInv
    <3>5. LoadedInv'
      BY <3>1, <3>4 DEF LoadedInv, LoadBy, DataActivity
    <3> QED BY <3>4, <3>5
  <2>7. CASE GridReady
    <3> DEFINE t == [activityTab EXCEPT !.gridReady = TRUE]
    <3>1. /\ activeTab # Absent /\ ~activityTab.gridReady
          /\ activityTab' = Filtered(t, urlActivity)
          /\ UNCHANGED <<activeTab, urlActivity, pageActivity, askedBy, tabCounts,
                         countRequests, outrun>>
      BY <2>7 DEF GridReady, countVars
    <3>2. /\ t \in Tab /\ t.filters = activityTab.filters /\ t.changed = activityTab.changed
          /\ t.initiated = activityTab.initiated
      BY DEF FilterTypeOK, Tab
    <3> HIDE DEF t
    <3>3. activityTab.changed = 0
      BY <3>1 DEF CopiesInv, FilterTypeOK, Tab, Columns
    <3> QED BY <3>1, <3>2, <3>3, SetUpInv DEF LoadedInv
  <2>8. CASE FilterHeard
    <3> DEFINE t == [activityTab EXCEPT !.changed = @ - 1, !.filters = activityTab.model]
               asked == Asked(countRequests, {activeTab}, t.filters)
    <3>1. /\ activityTab.changed > 0
          /\ Navigate(t.filters, asked, t)
          /\ IF t.filters # activityTab.filters THEN LoadBy(t, t.filters) ELSE UNCHANGED askedBy
          /\ UNCHANGED <<activeTab, tabCounts, outrun>>
      BY <2>8 DEF FilterHeard
    <3>a. activityTab.changed - 1 \in Nat /\ activityTab.model \in Activities
      BY <3>1 DEF FilterTypeOK, Tab
    <3>b. \A c \in Nat, f \in Activities :
            [activityTab EXCEPT !.changed = c, !.filters = f] \in Tab
      BY DEF FilterTypeOK, Tab
    <3>2. /\ t \in Tab /\ t.filters = activityTab.model /\ t.model = activityTab.model
          /\ t.own = activityTab.own /\ t.initiated = activityTab.initiated
          /\ t.gridReady = activityTab.gridReady
          /\ t.filters \in Activities
      BY <3>a, <3>b DEF FilterTypeOK, Tab
    <3> HIDE DEF t
    <3>3. Columns(activityTab) /\ Columns(t) /\ activeTab # Absent
      BY <3>1, <3>2 DEF CopiesInv, Columns
    <3>4. {activeTab} \in SUBSET AllTabs
      BY <3>3 DEF FilterTypeOK
    <3>5. /\ asked \in SUBSET Requests
          /\ \A r \in asked : r.last \subseteq r.for
      BY <3>2, <3>4, AskedType, AskedFor DEF FilterTypeOK, CountsInv
    <3>6. ASSUME NEW f \in FilterTabs, f # activeTab
          PROVE  CountedBy(asked, tabCounts, outrun, f, urlActivity)
      <4>1. CountedBy(countRequests, tabCounts, outrun, f, urlActivity)
        BY <3>3, <3>6 DEF CountsInv
      <4> QED BY <3>2, <3>6, <4>1, AskedCounts DEF FilterTypeOK
    <3>7. CountedBy(asked, tabCounts, outrun, activeTab, t.filters)
      BY <3>2, AskedCounts DEF FilterTypeOK
    <3> HIDE DEF asked
    <3>8. /\ FilterTypeOK' /\ CopiesInv' /\ CountsInv'
          /\ activityTab'.filters = t.filters /\ activityTab'.initiated = t.initiated
      BY <3>1, <3>2, <3>3, <3>5, <3>6, <3>7, NavigateInv
    <3>9. LoadedInv'
      BY <3>1, <3>2, <3>8 DEF LoadedInv, LoadBy, DataActivity
    <3> QED BY <3>8, <3>9
  <2>9. CASE ReloadTab
    <3> DEFINE a == DataActivity(activityTab, urlActivity)
               b == IF HasColumn THEN a ELSE urlActivity
               asked == Asked(countRequests, {activeTab}, a)
    <3>1. /\ activityTab.initiated
          /\ LoadBy(activityTab, urlActivity)
          /\ Navigate(b, asked, activityTab)
          /\ UNCHANGED <<activeTab, tabCounts, outrun>>
      BY <2>9 DEF ReloadTab
    <3>2. a \in Activities /\ b \in Activities /\ activityTab \in Tab
      BY DEF FilterTypeOK, DataActivity, Tab
    <3>a. a = DataActivity(activityTab, urlActivity) /\ (HasColumn => b = a)
      OBVIOUS
    <3> HIDE DEF a, b
    <3>4. activeTab # Absent /\ {activeTab} \in SUBSET AllTabs
      BY <3>1 DEF CopiesInv, FilterTypeOK
    <3>5. /\ asked \in SUBSET Requests
          /\ \A r \in asked : r.last \subseteq r.for
      BY <3>2, <3>4, AskedType, AskedFor DEF FilterTypeOK, CountsInv
    <3>6. ASSUME NEW f \in FilterTabs, f # activeTab
          PROVE  CountedBy(asked, tabCounts, outrun, f, urlActivity)
      <4>1. CountedBy(countRequests, tabCounts, outrun, f, urlActivity)
        BY <3>4, <3>6 DEF CountsInv
      <4> QED BY <3>2, <3>6, <4>1, AskedCounts DEF FilterTypeOK
    <3>7. CountedBy(asked, tabCounts, outrun, activeTab, a)
      BY <3>2, AskedCounts DEF FilterTypeOK
    <3> HIDE DEF asked
    <3>8. /\ activityTab.changed > 0 => Columns(activityTab) /\ activeTab # Absent
          /\ HasColumn /\ Columns(activityTab) /\ activityTab.changed = 0
               => activityTab.model = activityTab.own /\ activityTab.filters = activityTab.own
      BY DEF CopiesInv, Rests
    <3>b. \A f \in FilterTabs : f = activeTab => HasColumn
      BY DEF HasColumn
    <3>9. /\ FilterTypeOK' /\ CopiesInv' /\ CountsInv'
          /\ activityTab'.filters = activityTab.filters
          /\ activityTab'.initiated = activityTab.initiated
      BY <3>1, <3>2, <3>a, <3>b, <3>4, <3>5, <3>6, <3>7, <3>8, NavigateInv
    <3>10. LoadedInv'
      BY <3>1, <3>9 DEF LoadedInv, LoadBy, DataActivity
    <3> QED BY <3>9, <3>10
  <2>10. CASE ResetTab
    <3> DEFINE t == [activityTab EXCEPT !.filters = Absent, !.model = Absent,
                       !.changed = IF activityTab.model = Absent THEN @ ELSE @ + 1]
    <3>1. /\ activeTab # Absent /\ Columns(activityTab)
          /\ LoadBy(t, urlActivity) /\ Navigate(Absent, countRequests, t)
          /\ UNCHANGED <<activeTab, tabCounts, outrun>>
      BY <2>10 DEF ResetTab
    <3>a. PICK c : c = IF activityTab.model = Absent THEN activityTab.changed
                       ELSE activityTab.changed + 1
      OBVIOUS
    <3>b. c \in Nat /\ (c = 0 => activityTab.changed = 0 /\ activityTab.model = Absent)
      BY <3>a DEF FilterTypeOK, Tab
    <3>c. t = [activityTab EXCEPT !.filters = Absent, !.model = Absent, !.changed = c]
      BY <3>a
    <3>2. /\ t \in Tab /\ t.filters = Absent /\ t.model = Absent
          /\ t.own = activityTab.own /\ t.initiated = activityTab.initiated
          /\ t.gridReady = activityTab.gridReady
          /\ t.changed = 0 => activityTab.changed = 0 /\ activityTab.model = Absent
      BY <2>0, <3>b, <3>c DEF FilterTypeOK, Tab
    <3> HIDE DEF t
    <3>3. Columns(t)
      BY <3>1, <3>2 DEF Columns
    <3>4. ASSUME NEW f \in FilterTabs, f = activeTab, t.changed = 0
          PROVE  CountedBy(countRequests, tabCounts, outrun, f, Absent)
      <4>1. Rests /\ HasColumn /\ urlActivity = Absent
        BY <3>1, <3>2, <3>4 DEF Rests, HasColumn, CopiesInv
      <4> QED BY <3>1, <3>4, <4>1 DEF CountsInv
    <3>5. \A f \in FilterTabs : f # activeTab =>
            CountedBy(countRequests, tabCounts, outrun, f, urlActivity)
      BY <3>1 DEF CountsInv
    <3>6. countRequests \in SUBSET Requests /\ \A r \in countRequests : r.last \subseteq r.for
      BY DEF FilterTypeOK, CountsInv
    <3>7. /\ FilterTypeOK' /\ CopiesInv' /\ CountsInv'
          /\ activityTab'.filters = Absent
      BY <3>1, <3>2, <3>3, <3>4, <3>5, <3>6, <2>0, NavigateInv
    <3>8. LoadedInv'
      BY <3>1, <3>2, <3>7 DEF LoadedInv, LoadBy
    <3> QED BY <3>7, <3>8
  <2>11. ASSUME NEW r \in countRequests, CountAnswered(r) PROVE FilterInv'
    <3>1. /\ countRequests' = countRequests \ {r}
          /\ tabCounts' = [t \in AllTabs |-> IF t \in r.for THEN r.activity ELSE tabCounts[t]]
          /\ outrun' = (outrun \ r.last) \union (r.for \ r.last)
          /\ UNCHANGED <<activeTab, urlActivity, pageActivity, activityTab, askedBy>>
      BY <2>11 DEF CountAnswered, shownVars
    <3>2. /\ r.for \subseteq AllTabs /\ r.activity \in Activities /\ r.last \subseteq r.for
      BY DEF FilterTypeOK, Requests, CountsInv
    <3>3. FilterTypeOK' /\ CopiesInv' /\ LoadedInv'
      BY <3>1, <3>2 DEF FilterTypeOK, CopiesInv, LoadedInv, Rests, Columns, HasColumn
    <3>4. ASSUME NEW f \in FilterTabs,
                 CountedBy(countRequests, tabCounts, outrun, f, urlActivity)
          PROVE  CountedBy(countRequests', tabCounts', outrun', f, urlActivity)
      BY <3>1, <3>2, <3>4 DEF CountedBy, AllTabs
    <3>5. CountsInv'
      BY <3>1, <3>4 DEF CountsInv, Rests, Columns
    <3> QED BY <3>3, <3>5
  <2>12. ASSUME NEW r \in countRequests, CountFailed(r) PROVE FilterInv'
    <3>1. /\ countRequests' = countRequests \ {r} /\ outrun' = outrun \union r.last
          /\ UNCHANGED <<activeTab, urlActivity, pageActivity, activityTab, askedBy, tabCounts>>
      BY <2>12 DEF CountFailed, shownVars
    <3>2. r.last \subseteq AllTabs
      BY DEF FilterTypeOK, Requests
    <3>3. FilterTypeOK' /\ CopiesInv' /\ LoadedInv'
      BY <3>1, <3>2 DEF FilterTypeOK, CopiesInv, LoadedInv, Rests, Columns, HasColumn
    <3>4. ASSUME NEW f \in FilterTabs,
                 CountedBy(countRequests, tabCounts, outrun, f, urlActivity)
          PROVE  CountedBy(countRequests', tabCounts', outrun', f, urlActivity)
      BY <3>1, <3>4 DEF CountedBy
    <3>5. CountsInv'
      BY <3>1, <3>4 DEF CountsInv, Rests, Columns
    <3> QED BY <3>3, <3>5
  <2>13. CASE UNCHANGED filterVars
    BY <2>13 DEF filterVars, shownVars, countVars, FilterTypeOK, CopiesInv, LoadedInv,
                 CountsInv, Rests, Columns, HasColumn
  <2> QED
    BY <2>1, <2>2, <2>3, <2>4, <2>5, <2>6, <2>7, <2>8, <2>9, <2>10, <2>11, <2>12, <2>13
    DEF FilterNext, Activities
<1> QED BY <1>1, <1>2, AllPagesStart, OnePageMoves, PTL DEF MCSpec

\* Nobody who waits for the grid sees two activities at once.
THEOREM FilterIsOne == MCSpec => []FilterIsOneEverywhere
<1>1. FilterInv => FilterIsOneEverywhere
  BY DEF FilterInv, FilterTypeOK, CopiesInv, LoadedInv, CountsInv, CountedBy, Rests, Columns,
         HasColumn, FilterIsOneEverywhere
<1> QED BY <1>1, FilterInvariant, PTL
-----------------------------------------------------------------------------
(***************************************************************************)
(* For any variables and values and any number of loads, saves and         *)
(* changes by others: what the variables tab sends is about the variable   *)
(* its dialog showed unless the rows moved under it, and rows at rest are  *)
(* what the engine has.                                                    *)
(*                                                                         *)
(* DialogInv: until the rows move, the row of the dialog's index is the    *)
(* one it showed.  FreshInv: the last answer, which a later load of the    *)
(* same question may share, and the rows that are not being replaced are   *)
(* true; each save makes the next load ask anew, unless the memo is fresh. *)
(***************************************************************************)
VariableRows == [id : Ids, value : Values]
VariableRequests == [id : Ids, value : Values \union {Absent}]

\* Rows of variables, and rows that show what the engine has
AreRows(s) == \A r \in DOMAIN s : s[r] \in VariableRows
TrueRows(s) == \A r \in DOMAIN s : s[r] = Row(s[r].id)

VariablesTypeOK ==
  /\ values \in [Ids -> Values \union {Absent}]
  /\ AreRows(rows) /\ (rowsAnswer # Absent => AreRows(rowsAnswer))
  /\ varSent \in Seq(VariableRequests)
  /\ rowsLoading \in BOOLEAN /\ memoFresh \in BOOLEAN /\ rowsMoved \in BOOLEAN
  /\ misdirected \in BOOLEAN /\ rowsForeign \in BOOLEAN

VarDialogInv ==
  varDialog # Absent =>
    \/ varDialog.kind = "Add" /\ varDialog.id = Absent
    \/ /\ varDialog.kind \in {"Edit", "Delete"} /\ varDialog.id \in Ids
       /\ ~rowsMoved => varDialog.row \in DOMAIN rows /\ varDialog.id = rows[varDialog.row].id

FreshInv ==
  ~rowsForeign => /\ rowsAnswer # Absent => TrueRows(rowsAnswer)
                  /\ ~rowsLoading => TrueRows(rows)

VariablesInv == VariablesTypeOK /\ VarDialogInv /\ FreshInv /\ SavesWhatWasShown

\* An empty list shows nothing false.
LEMMA NoRows == AreRows(<<>>) /\ TrueRows(<<>>)
BY DEF AreRows, TrueRows

\* What the engine answers are rows, and true (RowLists).
LEMMA AnswersAreTrue ==
  ASSUME values \in [Ids -> Values \union {Absent}], NEW s \in RowLists
  PROVE  AreRows(s) /\ TrueRows(s)
<1>1. PICK S \in SUBSET {id \in Ids : values[id] # Absent} : s \in SetToSeqs({Row(id) : id \in S})
  BY DEF RowLists
<1>2. \A r \in DOMAIN s : s[r] \in {Row(id) : id \in S}
  BY <1>1 DEF SetToSeqs
<1>3. \A id \in S : Row(id) \in VariableRows /\ Row(Row(id).id) = Row(id)
  BY <1>1 DEF Row, VariableRows
<1> QED BY <1>2, <1>3 DEF AreRows, TrueRows

\* A request that reached the engine sets one variable.
LEMMA ValueSet ==
  ASSUME VariablesTypeOK, NEW i \in DOMAIN varSent
  PROVE  /\ Modified(i) \in [Ids -> Values \union {Absent}]
         /\ RemoveAt(varSent, i) \in Seq(VariableRequests)
<1>1. varSent[i] \in VariableRequests
  BY DEF VariablesTypeOK
<1>2. RemoveAt(varSent, i) \in Seq(VariableRequests)
  BY RemoveAtFacts DEF VariablesTypeOK
<1> QED BY <1>1, <1>2 DEF Modified, VariablesTypeOK, VariableRequests

\* The inductive invariant.
THEOREM VariablesInvariant == MCSpec => []VariablesInv
<1>1. VariablesInit => VariablesInv
  <2> SUFFICES ASSUME VariablesInit PROVE VariablesInv
    OBVIOUS
  <2>1. AreRows(rows) /\ TrueRows(rows)
    BY NoRows DEF VariablesInit
  <2>2. varSent \in Seq(VariableRequests)
    BY DEF VariablesInit
  <2> QED
    BY <2>1, <2>2 DEF VariablesInit, VariablesInv, VariablesTypeOK, VarDialogInv, FreshInv,
                      SavesWhatWasShown
<1>2. VariablesInv /\ [VariablesNext]_variablesVars => VariablesInv'
  <2> SUFFICES ASSUME VariablesInv, [VariablesNext]_variablesVars PROVE VariablesInv'
    OBVIOUS
  <2> USE DEF VariablesInv
  <2>1. ASSUME NEW same \in BOOLEAN, LoadRows(same) PROVE VariablesInv'
    BY <2>1 DEF LoadRows, AskRows, VariablesTypeOK, VarDialogInv, FreshInv, SavesWhatWasShown,
                AreRows, TrueRows, Row
  <2>2. CASE RowsRead
    BY <2>2, AnswersAreTrue
    DEF RowsRead, VariablesTypeOK, VarDialogInv, FreshInv, SavesWhatWasShown, AreRows, TrueRows, Row
  <2>3. CASE RowsLoaded
    BY <2>3 DEF RowsLoaded, VariablesTypeOK, VarDialogInv, FreshInv, SavesWhatWasShown, AreRows,
                TrueRows, Row
  <2>4. CASE RowsFailed
    <3>1. AreRows(rows') /\ TrueRows(rows)'
      BY <2>4 DEF RowsFailed, AreRows, TrueRows
    <3> QED
      BY <2>4, <3>1 DEF RowsFailed, VariablesTypeOK, VarDialogInv, FreshInv, SavesWhatWasShown,
                        AreRows, TrueRows, Row
  <2>5. CASE MemoExpires
    BY <2>5 DEF MemoExpires, VariablesTypeOK, VarDialogInv, FreshInv, SavesWhatWasShown, AreRows,
                TrueRows, Row
  <2>6. CASE CloseVariablesTab
    <3>1. varSent = <<>> => values' = values
      BY <2>6 DEF CloseVariablesTab, VariablesTypeOK, Range
    <3>2. AreRows(rows') /\ TrueRows(rows)'
      BY <2>6 DEF CloseVariablesTab, AreRows, TrueRows
    <3>3. varSent' \in Seq(VariableRequests) /\ values' \in [Ids -> Values \union {Absent}]
      BY <2>6 DEF CloseVariablesTab
    <3> QED
      BY <2>6, <3>1, <3>2, <3>3 DEF CloseVariablesTab, VariablesTypeOK, VarDialogInv, FreshInv,
                                    SavesWhatWasShown, AreRows, TrueRows, Row
  <2>7. ASSUME NEW kind \in {"Edit", "Delete"}, NEW row \in DOMAIN rows, OpenRowDialog(kind, row)
        PROVE  VariablesInv'
    <3>1. rows[row].id \in Ids
      BY <2>7 DEF VariablesTypeOK, AreRows, VariableRows
    <3> QED
      BY <2>7, <3>1 DEF OpenRowDialog, loadVars, VariablesTypeOK, VarDialogInv, FreshInv,
                        SavesWhatWasShown, AreRows, TrueRows, Row
  <2>8. CASE OpenAddDialog
    BY <2>8 DEF OpenAddDialog, loadVars, VariablesTypeOK, VarDialogInv, FreshInv,
                SavesWhatWasShown, AreRows, TrueRows, Row
  <2>9. CASE DismissVariable
    BY <2>9 DEF DismissVariable, loadVars, VariablesTypeOK, VarDialogInv, FreshInv,
                SavesWhatWasShown, AreRows, TrueRows, Row
  <2>10. ASSUME NEW name \in Ids, NEW value \in Values \union {Absent}, SaveVariable(name, value)
         PROVE  VariablesInv'
    <3>1. /\ varDialog # Absent /\ varDialog' = Absent
          /\ UNCHANGED <<values, rows, rowsLoading, rowsAnswer, memoFresh, rowsMoved, rowsForeign>>
      BY <2>10 DEF SaveVariable, loadVars
    <3>2. ASSUME NEW id \in Target(varDialog, name)
          PROVE  /\ id \in Ids
                 /\ ~rowsMoved => varDialog.id \in {Absent, id}
      BY <3>1, <3>2 DEF Target, VarDialogInv, VariablesTypeOK, AreRows, VariableRows
    <3>3. \A id \in Ids :
            Append(varSent, [id |-> id, value |-> value]) \in Seq(VariableRequests)
      BY DEF VariablesTypeOK, VariableRequests
    <3>4. varSent' \in Seq(VariableRequests)
      BY <2>10, <3>2, <3>3 DEF SaveVariable, VariablesTypeOK
    <3>5. ~misdirected'
      BY <2>10, <3>2 DEF SaveVariable, SavesWhatWasShown
    <3>6. misdirected' \in BOOLEAN
      BY <2>10 DEF SaveVariable, VariablesTypeOK
    <3> QED
      BY <3>1, <3>4, <3>5, <3>6 DEF VariablesTypeOK, VarDialogInv, FreshInv, SavesWhatWasShown,
                                    AreRows, TrueRows, Row
  <2>11. ASSUME NEW i \in DOMAIN varSent, VariableSaved(i) PROVE VariablesInv'
    BY <2>11, ValueSet DEF VariableSaved, AskRows, VariablesTypeOK, VarDialogInv, FreshInv,
                           SavesWhatWasShown, AreRows, TrueRows, Row
  <2>12. ASSUME NEW i \in DOMAIN varSent, NEW done \in BOOLEAN, VariableRefused(i, done)
         PROVE  VariablesInv'
    BY <2>12, ValueSet DEF VariableRefused, loadVars, VariablesTypeOK, VarDialogInv, FreshInv,
                           SavesWhatWasShown, AreRows, TrueRows, Row
  <2>13. ASSUME NEW id \in Ids, VariableMoves(id) PROVE VariablesInv'
    BY <2>13 DEF VariableMoves, loadVars, VariablesTypeOK, VarDialogInv, FreshInv,
                 SavesWhatWasShown, AreRows, TrueRows, Row
  <2>14. CASE UNCHANGED variablesVars
    BY <2>14 DEF variablesVars, loadVars, VariablesTypeOK, VarDialogInv, FreshInv,
                 SavesWhatWasShown, AreRows, TrueRows, Row
  <2> QED
    BY <2>1, <2>2, <2>3, <2>4, <2>5, <2>6, <2>7, <2>8, <2>9, <2>10, <2>11, <2>12, <2>13, <2>14
    DEF VariablesNext
<1> QED BY <1>1, <1>2, AllPagesStart, OnePageMoves, PTL DEF MCSpec

\* What is sent is about the variable the dialog showed.
THEOREM SavesShown == MCSpec => []SavesWhatWasShown
<1>1. VariablesInv => SavesWhatWasShown
  BY DEF VariablesInv
<1> QED BY <1>1, VariablesInvariant, PTL

\* Rows at rest are what the engine has.
THEOREM RowsTrue == MCSpec => []RowsCatchUp
<1>1. VariablesInv => RowsCatchUp
  BY DEF VariablesInv, FreshInv, TrueRows, RowsCatchUp
<1> QED BY <1>1, VariablesInvariant, PTL

-----------------------------------------------------------------------------
(***************************************************************************)
(* The toolbar.  Whatever it showed before, an update that nothing         *)
(* overtakes leaves it fit for the state, or waiting for one check that    *)
(* makes it so.                                                            *)
(***************************************************************************)
Bars == [shown : SUBSET Buttons, enabled : SUBSET Buttons, tools : BOOLEAN, initWaits : BOOLEAN,
         typeKnown : BOOLEAN, updates : SUBSET States, overtaken : BOOLEAN]

\* Nothing is offered that the state forbids; everything is that it asks for.
Forbids(b, type, state) ==
  /\ b.shown \intersect HiddenBy(type, state) = {}
  /\ b.enabled \intersect {"activate", "suspend"} \subseteq Fitting(state)
  /\ type # "Batch" => b.tools = (state = "active")
Offers(b, state) ==
  Fitting(state) \subseteq b.enabled /\ Fitting(state) \intersect TypePermitted \subseteq b.shown

BarOK(b, type, state) ==
  ~b.overtaken =>
    /\ ~b.initWaits /\ Forbids(b, type, state)
    /\ b.updates = {state} \/ (b.updates = {} /\ Offers(b, state))

\* The toolbar of a new page
LEMMA NewBars ==
  ASSUME bar \in Bars
  PROVE  EmptyBar \in Bars /\ InitButtons \in Bars /\ [EmptyBar EXCEPT !.typeKnown = bar.typeKnown] \in Bars
BY DEF Bars, EmptyBar, InitButtons

\* What the check on the type brings (Offered)
LEMMA OfferedOK ==
  ASSUME NEW type \in ItemTypes, NEW b \in Bars, NEW state \in States
  PROVE  /\ Offered(b, type, {state}) \in Bars
         /\ Offers(Offered(b, type, {state}), state)
         /\ Forbids(b, type, state) => Forbids(Offered(b, type, {state}), type, state)
         /\ Offered(b, type, {state}).initWaits = b.initWaits
         /\ Offered(b, type, {state}).overtaken = b.overtaken
         /\ Offered(b, type, {state}).updates = b.updates
<1> DEFINE c == Offered(b, type, {state})
<1>1. UNION {Fitting(s) : s \in {state}} = Fitting(state)
  OBVIOUS
<1>2. c = [b EXCEPT !.shown = @ \union (Fitting(state) \intersect TypePermitted),
                    !.enabled = @ \union Fitting(state) \union {Lasting(type)}]
  BY <1>1 DEF Offered
<1>3. /\ Fitting(state) \subseteq Buttons /\ Lasting(type) \in Buttons
      /\ Lasting(type) \notin {"activate", "suspend"}
      /\ Fitting(state) \subseteq {"activate", "suspend"}
      /\ Fitting(state) \intersect HiddenBy(type, state) = {}
  BY DEF States, ItemTypes, Fitting, Lasting, Buttons, HiddenBy
<1>4. /\ c.shown = b.shown \union (Fitting(state) \intersect TypePermitted)
      /\ c.enabled = b.enabled \union Fitting(state) \union {Lasting(type)}
      /\ c.tools = b.tools /\ c.initWaits = b.initWaits /\ c.overtaken = b.overtaken
      /\ c.updates = b.updates /\ c.typeKnown = b.typeKnown
  BY <1>2 DEF Bars
<1>5. c \in Bars
  <2> DEFINE shown == b.shown \union (Fitting(state) \intersect TypePermitted)
             enabled == b.enabled \union Fitting(state) \union {Lasting(type)}
  <2>1. shown \in SUBSET Buttons /\ enabled \in SUBSET Buttons
    BY <1>3 DEF Bars
  <2>2. c = [b EXCEPT !.shown = shown, !.enabled = enabled]
    BY <1>2
  <2> HIDE DEF shown, enabled, c
  <2> QED BY <2>1, <2>2 DEF Bars
<1> HIDE DEF c
<1> QED BY <1>3, <1>4, <1>5 DEF Offers, Forbids, c

\* updateButtonStates
LEMMA UpdatedOK ==
  ASSUME NEW type \in ItemTypes, NEW b \in Bars, NEW state \in States
  PROVE  Updated(b, type, state) \in Bars /\ BarOK(Updated(b, type, state), type, state)
<1> DEFINE hidden == [b EXCEPT !.shown = @ \ HiddenBy(type, state),
                               !.enabled = @ \ HiddenBy(type, state),
                               !.tools = ToolsAfter(b, type, state),
                               !.overtaken = b.initWaits \/ b.updates # {}]
<1>1. /\ hidden \in Bars
      /\ hidden.shown = b.shown \ HiddenBy(type, state)
      /\ hidden.enabled = b.enabled \ HiddenBy(type, state)
      /\ hidden.tools = ToolsAfter(b, type, state)
      /\ hidden.initWaits = b.initWaits /\ hidden.updates = b.updates
      /\ hidden.typeKnown = b.typeKnown
      /\ hidden.overtaken = (b.initWaits \/ b.updates # {})
  BY DEF Bars, ToolsAfter
<1>2. Forbids(hidden, type, state)
  BY <1>1 DEF Forbids, ToolsAfter, HiddenBy, Fitting, States
<1> HIDE DEF hidden
<1>3. CASE state = "ended"
  <2> DEFINE more == IF type = "Batch" THEN {"delete"} ELSE {}
  <2>1. Updated(b, type, state) = [hidden EXCEPT !.enabled = @ \union more]
    BY <1>3 DEF Updated, hidden
  <2>2. more \subseteq Buttons /\ more \intersect {"activate", "suspend"} = {}
    BY DEF Buttons
  <2> HIDE DEF more
  <2>3. /\ Updated(b, type, state) \in Bars
        /\ Forbids(Updated(b, type, state), type, state)
        /\ Updated(b, type, state).initWaits = hidden.initWaits
        /\ Updated(b, type, state).overtaken = hidden.overtaken
        /\ Updated(b, type, state).updates = hidden.updates
    BY <1>1, <1>2, <2>1, <2>2 DEF Bars, Forbids
  <2>4. Offers(Updated(b, type, state), state)
    BY <1>3 DEF Offers, Fitting
  <2> QED BY <1>1, <2>3, <2>4 DEF BarOK
<1>4. CASE state # "ended" /\ b.typeKnown
  <2>1. Updated(b, type, state) = Offered(hidden, type, {state})
    BY <1>4 DEF Updated, hidden
  <2>2. /\ Offered(hidden, type, {state}) \in Bars
        /\ Offers(Offered(hidden, type, {state}), state)
        /\ Forbids(Offered(hidden, type, {state}), type, state)
        /\ Offered(hidden, type, {state}).initWaits = b.initWaits
        /\ Offered(hidden, type, {state}).overtaken = hidden.overtaken
        /\ Offered(hidden, type, {state}).updates = b.updates
    BY <1>1, <1>2, OfferedOK
  <2>3. ~hidden.overtaken => ~b.initWaits /\ b.updates = {}
    BY <1>1
  <2> QED BY <2>1, <2>2, <2>3 DEF BarOK
<1>5. CASE state # "ended" /\ ~b.typeKnown
  <2>1. Updated(b, type, state) = [hidden EXCEPT !.updates = @ \union {state}]
    BY <1>5 DEF Updated, hidden
  <2>2. /\ Updated(b, type, state) \in Bars
        /\ Forbids(Updated(b, type, state), type, state)
        /\ Updated(b, type, state).initWaits = hidden.initWaits
        /\ Updated(b, type, state).overtaken = hidden.overtaken
        /\ Updated(b, type, state).updates = hidden.updates \union {state}
    BY <1>1, <1>2, <2>1 DEF Bars, Forbids
  <2> QED BY <1>1, <2>2 DEF BarOK
<1> QED BY <1>3, <1>4, <1>5

\* An answered check keeps the toolbar as fit as it was (PermissionsAnswered).
LEMMA CheckedOK ==
  ASSUME itemType \in ItemTypes, bar \in Bars, PermissionsAnswered
  PROVE  /\ bar' \in Bars
         /\ \A state \in States : BarOK(bar, itemType, state) => BarOK(bar', itemType, state)
<1>1. CASE bar.initWaits /\ bar' = ItemChecked(bar, itemType)
  <2>1. InitialButtons(itemType) \subseteq Buttons
    BY DEF InitialButtons, ItemTypes, Buttons
  <2>2. bar' \in Bars /\ bar'.overtaken = bar.overtaken
    BY <1>1, <2>1 DEF ItemChecked, Bars
  <2> QED BY <1>1, <2>2 DEF BarOK
<1>2. CASE bar.updates # {} /\ bar' = TypeChecked(bar, itemType)
  <2> DEFINE fitting == UNION {Fitting(s) : s \in bar.updates}
             o == Offered(bar, itemType, bar.updates)
  <2>1. fitting \subseteq Buttons /\ Lasting(itemType) \in Buttons
    <3>1. \A s \in States : Fitting(s) \subseteq Buttons
      BY DEF Fitting, Buttons, States
    <3>2. bar.updates \subseteq States
      BY DEF Bars
    <3>3. Lasting(itemType) \in Buttons
      BY DEF Buttons, Lasting
    <3> QED BY <3>1, <3>2, <3>3
  <2>2. o = [bar EXCEPT !.shown = @ \union (fitting \intersect TypePermitted),
                        !.enabled = @ \union fitting \union {Lasting(itemType)}]
    BY DEF Offered
  <2> HIDE DEF fitting
  <2>3. o \in Bars /\ o.overtaken = bar.overtaken /\ o.initWaits = bar.initWaits
    <3> DEFINE shown == bar.shown \union (fitting \intersect TypePermitted)
               enabled == bar.enabled \union fitting \union {Lasting(itemType)}
    <3>1. shown \in SUBSET Buttons /\ enabled \in SUBSET Buttons
      BY <2>1 DEF Bars
    <3>2. o = [bar EXCEPT !.shown = shown, !.enabled = enabled]
      BY <2>2
    <3> HIDE DEF shown, enabled, o
    <3> QED BY <3>1, <3>2 DEF Bars
  <2>4. bar' = [o EXCEPT !.updates = {}, !.typeKnown = TRUE]
    BY <1>2 DEF TypeChecked
  <2> HIDE DEF o
  <2>5. /\ bar' \in Bars /\ bar'.overtaken = bar.overtaken /\ bar'.initWaits = bar.initWaits
        /\ bar'.updates = {} /\ bar'.shown = o.shown /\ bar'.enabled = o.enabled
        /\ bar'.tools = o.tools
    BY <2>3, <2>4 DEF Bars
  <2>6. ASSUME NEW state \in States, BarOK(bar, itemType, state), ~bar.overtaken
        PROVE  BarOK(bar', itemType, state)
    <3>1. bar.updates = {state} /\ Forbids(bar, itemType, state) /\ ~bar.initWaits
      BY <1>2, <2>6 DEF BarOK
    <3>2. /\ Offers(o, state) /\ Forbids(o, itemType, state)
      BY <3>1, OfferedOK DEF o
    <3> QED BY <2>5, <3>1, <3>2 DEF BarOK, Forbids, Offers
  <2> QED BY <2>5, <2>6 DEF BarOK
<1> QED BY <1>1, <1>2 DEF PermissionsAnswered

\* A toolbar at rest fits.
LEMMA BarFits ==
  ASSUME NEW state \in States, BarOK(bar, itemType, state), BarAtRest, ~bar.overtaken
  PROVE  Fits(state)
<1>1. Forbids(bar, itemType, state) /\ Offers(bar, state)
  BY DEF BarOK, BarAtRest
<1>2. Fitting(state) \subseteq {"activate", "suspend"}
  BY DEF Fitting, States
<1> QED BY <1>1, <1>2 DEF Fits, Forbids, Offers

-----------------------------------------------------------------------------
(***************************************************************************)
(* The batch page, for any number of events and actions.  It never loads   *)
(* its batch again, so what it shows stays true only because every action  *)
(* of its own is accounted for.  VisitInv: a page that is closed or still  *)
(* reads has nothing of its own under way.  DueInv: while others leave the *)
(* batch alone and no answer of an action that was carried out is lost, at *)
(* most one toggle of this visit is asked, sent or due, it asks for the    *)
(* opposite of what is shown, and the engine is ahead of the page exactly  *)
(* while its callback is due; a deletion that is due leaves the page.      *)
(***************************************************************************)
HasDelete(s) == \E i \in Ours(s) : s[i].button = "delete"
OneToggle(s) == \A i, j \in Toggles(s) : i = j
TogglesTo(s, to) == \A i \in Toggles(s) : s[i].to = to

\* A page with nothing of its own under way
Idle == /\ batchShown = Absent /\ batchDialog = Absent
        /\ Ours(batchSent) = {} /\ Ours(batchDue) = {}

BatchTypeOK ==
  /\ batchOpen \in BOOLEAN /\ isLoading \in BOOLEAN /\ batchForeign \in BOOLEAN
  /\ batchState \in States \union {Absent} /\ batchShown \in States \union {Absent}
  /\ batchRead \in {"none", "history", "statistics"}
  /\ batchDialog \in Actions \union {Absent}
  /\ batchSent \in Seq(Actions) /\ batchDue \in Seq(Actions)

VisitInv ==
  /\ ~batchOpen => batchRead = "none"
  /\ ~batchOpen \/ batchRead # "none" => batchShown = Absent
  /\ batchShown = Absent => Idle
  /\ batchDialog # Absent => batchDialog.ours

DueInv ==
  /\ HasDelete(batchDue) => batchState \in {"ended", Absent}
  /\ ~batchForeign =>
       /\ batchDialog # Absent /\ batchDialog.button = "toggle" =>
            /\ Toggles(batchSent) = {} /\ Toggles(batchDue) = {}
            /\ batchDialog.to = Opposite(batchShown)
       /\ Toggles(batchSent) = {} \/ Toggles(batchDue) = {}
       /\ OneToggle(batchSent) /\ OneToggle(batchDue)
       /\ TogglesTo(batchSent, Opposite(batchShown))
       /\ batchShown # Absent =>
            \/ HasDelete(batchDue)
            \/ Toggles(batchDue) = {} /\ batchState = batchShown
            \/ /\ Toggles(batchDue) # {} /\ batchShown \in {"active", "suspended"}
               /\ batchState = Opposite(batchShown)

BatchBarInv ==
  itemType = "Batch" =>
    bar \in Bars /\ (batchShown # Absent => BarOK(bar, "Batch", batchShown))

BatchInv ==
  /\ BatchTypeOK /\ VisitInv /\ DueInv /\ BatchBarInv /\ SpinnerMeansWork
  /\ itemType # "Batch" => batchShown = Absent

\* An action that is added is the last one.
LEMMA AppendedActions ==
  ASSUME NEW s \in Seq(Actions), NEW a \in Actions
  PROVE  /\ Append(s, a) \in Seq(Actions)
         /\ Ours(Append(s, a)) = Ours(s) \union (IF a.ours THEN {Len(s) + 1} ELSE {})
         /\ HasDelete(Append(s, a)) <=> HasDelete(s) \/ (a.ours /\ a.button = "delete")
         /\ ~(a.ours /\ a.button = "toggle") => Toggles(Append(s, a)) = Toggles(s)
         /\ a.ours /\ a.button = "toggle" => Toggles(Append(s, a)) # {}
         /\ OneToggle(s) /\ (Toggles(s) = {} \/ ~a.ours \/ a.button # "toggle")
              => OneToggle(Append(s, a))
         /\ \A to : TogglesTo(s, to) /\ (a.to = to \/ ~a.ours \/ a.button # "toggle")
              => TogglesTo(Append(s, a), to)
<1>1. /\ Append(s, a) \in Seq(Actions) /\ DOMAIN Append(s, a) = (DOMAIN s) \union {Len(s) + 1}
      /\ Append(s, a)[Len(s) + 1] = a /\ \A i \in DOMAIN s : Append(s, a)[i] = s[i]
      /\ Len(s) + 1 \notin DOMAIN s
  BY AppendProperties
<1>2. Ours(Append(s, a)) = Ours(s) \union (IF a.ours THEN {Len(s) + 1} ELSE {})
  BY <1>1 DEF Ours
<1>3. Toggles(Append(s, a)) =
        Toggles(s) \union (IF a.ours /\ a.button = "toggle" THEN {Len(s) + 1} ELSE {})
  BY <1>1, <1>2 DEF Toggles, Ours
<1>4. HasDelete(Append(s, a)) <=> HasDelete(s) \/ (a.ours /\ a.button = "delete")
  BY <1>1, <1>2 DEF HasDelete, Ours
<1>5. \A i \in Toggles(s) : i \in DOMAIN s
  BY DEF Toggles, Ours
<1> QED BY <1>1, <1>2, <1>3, <1>4, <1>5 DEF OneToggle, TogglesTo

\* The actions that are left are those that were there but one.
LEMMA RemovedActions ==
  ASSUME NEW s \in Seq(Actions), NEW i \in DOMAIN s, NEW t \in Seq(Actions), Len(t) = Len(s) - 1,
         \A j \in DOMAIN t : t[j] = IF j < i THEN s[j] ELSE s[j + 1]
  PROVE  /\ Ours(s) = {} => Ours(t) = {}
         /\ Ours(s) # {} /\ ~s[i].ours => Ours(t) # {}
         /\ HasDelete(t) => HasDelete(s)
         /\ HasDelete(s) /\ ~(s[i].ours /\ s[i].button = "delete") => HasDelete(t)
         /\ Toggles(s) = {} => Toggles(t) = {}
         /\ Toggles(s) # {} /\ i \notin Toggles(s) => Toggles(t) # {}
         /\ OneToggle(s) => OneToggle(t) /\ (i \in Toggles(s) => Toggles(t) = {})
         /\ \A to : TogglesTo(s, to) => TogglesTo(t, to)
<1> DEFINE from(j) == IF j < i THEN j ELSE j + 1
           to(k) == IF k < i THEN k ELSE k - 1
<1>1. /\ DOMAIN s = 1 .. Len(s) /\ DOMAIN t = 1 .. Len(s) - 1 /\ Len(s) \in Nat /\ i \in 1 .. Len(s)
  OBVIOUS
<1>2. /\ \A j \in DOMAIN t : from(j) \in DOMAIN s /\ from(j) # i /\ t[j] = s[from(j)]
      /\ \A j, k \in DOMAIN t : from(j) = from(k) => j = k
  BY <1>1
<1>3. \A k \in DOMAIN s : k # i => to(k) \in DOMAIN t /\ from(to(k)) = k
  BY <1>1
<1> HIDE DEF from, to
<1>4. /\ \A j \in Ours(t) : from(j) \in Ours(s)
      /\ \A k \in Ours(s) : k # i => to(k) \in Ours(t)
  BY <1>2, <1>3 DEF Ours
<1>5. /\ \A j \in Toggles(t) : from(j) \in Toggles(s)
      /\ \A k \in Toggles(s) : k # i => to(k) \in Toggles(t)
  BY <1>2, <1>3, <1>4 DEF Toggles, Ours
<1>6. /\ HasDelete(t) => HasDelete(s)
      /\ HasDelete(s) /\ ~(s[i].ours /\ s[i].button = "delete") => HasDelete(t)
  BY <1>2, <1>3, <1>4 DEF HasDelete, Ours
<1>7. OneToggle(s) => OneToggle(t) /\ (i \in Toggles(s) => Toggles(t) = {})
  BY <1>2, <1>5 DEF OneToggle, Toggles, Ours
<1>8. \A x : TogglesTo(s, x) => TogglesTo(t, x)
  BY <1>2, <1>5 DEF TogglesTo, Toggles, Ours
<1>9. Ours(s) # {} /\ ~s[i].ours => Ours(t) # {}
  BY <1>4 DEF Ours
<1> QED BY <1>4, <1>5, <1>6, <1>7, <1>8, <1>9

\* Nothing is left of a visit that is over (Disowned).
LEMMA DisownedActions ==
  ASSUME NEW s \in Seq(Actions)
  PROVE  /\ Disowned(s) \in Seq(Actions) /\ Ours(Disowned(s)) = {}
         /\ Toggles(Disowned(s)) = {} /\ ~HasDelete(Disowned(s))
<1>1. \A i \in DOMAIN s : s[i] \in Actions
  OBVIOUS
<1>2. \A i \in DOMAIN s : /\ [s[i] EXCEPT !.ours = FALSE] \in Actions
                          /\ ~[s[i] EXCEPT !.ours = FALSE].ours
  BY <1>1 DEF Actions
<1>3. Disowned(s) \in Seq(Actions)
  BY <1>2 DEF Disowned
<1>4. Ours(Disowned(s)) = {}
  BY <1>2 DEF Disowned, Ours
<1> QED BY <1>3, <1>4 DEF Toggles, HasDelete

\* A page that is closed, from wherever it is
LEMMA BatchClosedInv ==
  ASSUME BatchInv, itemType = "Batch", UNCHANGED itemType, BatchClosed, batchDialog = Absent,
         NEW due \in Seq(Actions), HasDelete(due) => HasDelete(batchDue),
         batchSent' = Disowned(batchSent), batchDue' = Disowned(due)
  PROVE  BatchInv'
<1>1. /\ ~batchOpen' /\ batchRead' = "none" /\ batchShown' = Absent /\ ~isLoading'
      /\ bar' = [EmptyBar EXCEPT !.typeKnown = bar.typeKnown]
      /\ UNCHANGED <<batchState, batchDialog, batchForeign>>
      /\ batchOpen' \in BOOLEAN /\ isLoading' \in BOOLEAN
  BY DEF BatchClosed
<1>2. /\ batchSent' \in Seq(Actions) /\ Ours(batchSent') = {} /\ Toggles(batchSent') = {}
      /\ batchDue' \in Seq(Actions) /\ Ours(batchDue') = {} /\ Toggles(batchDue') = {}
      /\ ~HasDelete(batchDue')
  BY DisownedActions DEF BatchInv, BatchTypeOK
<1>3. bar' \in Bars
  BY <1>1, NewBars DEF BatchInv, BatchBarInv
<1>4. BatchTypeOK' /\ VisitInv'
  BY <1>1, <1>2 DEF BatchInv, BatchTypeOK, VisitInv, Idle, Ours
<1>5. DueInv'
  BY <1>1, <1>2 DEF DueInv, OneToggle, TogglesTo, HasDelete, Toggles, Ours
<1>6. BatchBarInv'
  BY <1>1, <1>3 DEF BatchBarInv
<1>7. SpinnerMeansWork'
  BY <1>1 DEF SpinnerMeansWork
<1> QED BY <1>1, <1>4, <1>5, <1>6, <1>7 DEF BatchInv

\* getBatch has emitted: nothing of this visit is under way yet.
LEMMA BatchLoadedInv ==
  ASSUME BatchInv, itemType = "Batch", UNCHANGED itemType, batchRead # "none",
         NEW state \in States, BatchLoaded(state), batchForeign' \/ state = batchState,
         batchForeign' \in BOOLEAN,
         UNCHANGED <<batchOpen, batchState, batchDialog, batchSent, batchDue>>
  PROVE  BatchInv'
<1>1. /\ batchRead' = "none" /\ isLoading' = FALSE /\ batchShown' = state
      /\ bar' = [Updated(bar, "Batch", state) EXCEPT !.enabled = @ \union {"retry"}]
  BY DEF BatchLoaded
<1>2. Idle /\ batchOpen
  BY DEF BatchInv, VisitInv, BatchTypeOK
<1>3. /\ Ours(batchSent') = {} /\ Ours(batchDue') = {}
      /\ Toggles(batchSent') = {} /\ Toggles(batchDue') = {} /\ ~HasDelete(batchDue')
  BY <1>2 DEF Idle, Ours, Toggles, HasDelete
<1>4. BatchTypeOK' /\ VisitInv'
  BY <1>1, <1>2 DEF BatchInv, BatchTypeOK, VisitInv, Idle
<1>5. DueInv'
  BY <1>1, <1>2, <1>3 DEF DueInv, OneToggle, TogglesTo, HasDelete, Toggles, Ours, Idle
<1>6. BatchBarInv'
  <2> DEFINE u == Updated(bar, "Batch", state)
  <2>1. u \in Bars /\ BarOK(u, "Batch", state)
    BY UpdatedOK DEF BatchInv, BatchBarInv, ItemTypes
  <2>2. bar' = [u EXCEPT !.enabled = @ \union {"retry"}]
    BY <1>1
  <2> HIDE DEF u
  <2>3. /\ bar' \in Bars /\ bar'.enabled = u.enabled \union {"retry"}
        /\ bar'.shown = u.shown /\ bar'.tools = u.tools /\ bar'.initWaits = u.initWaits
        /\ bar'.updates = u.updates /\ bar'.overtaken = u.overtaken
    BY <2>1, <2>2 DEF Bars, Buttons
  <2>4. BarOK(bar', "Batch", state)
    BY <2>1, <2>3 DEF BarOK, Forbids, Offers
  <2> QED BY <1>1, <2>3, <2>4 DEF BatchBarInv
<1>7. SpinnerMeansWork'
  BY <1>1 DEF SpinnerMeansWork
<1> QED BY <1>4, <1>5, <1>6, <1>7 DEF BatchInv

LEMMA BatchMovesOnly ==
  [MCNext]_allVars =>
    /\ UNCHANGED itemType
    /\ \/ itemType = "Batch" /\ BatchNext
       \/ UNCHANGED batchVars /\ (itemType = "Batch" => UNCHANGED bar)
BY DEF MCNext, allVars, definitionOnly, instanceOnly

\* The inductive invariant.
THEOREM BatchInvariant == MCSpec => []BatchInv
<1>1. MCInit => BatchInv
  <2> SUFFICES ASSUME MCInit PROVE BatchInv
    OBVIOUS
  <2>1. BatchInit /\ bar = EmptyBar
    BY AllPagesStart DEF InstanceInit
  <2>2. Ours(batchSent) = {} /\ Ours(batchDue) = {} /\ batchSent \in Seq(Actions) /\ batchDue \in Seq(Actions)
    BY <2>1 DEF BatchInit, Ours
  <2>3. EmptyBar \in Bars
    BY DEF EmptyBar, Bars
  <2> QED
    BY <2>1, <2>2, <2>3 DEF BatchInit, BatchInv, BatchTypeOK, VisitInv, DueInv, BatchBarInv, Idle,
       SpinnerMeansWork, States, OneToggle, TogglesTo, HasDelete, Toggles
<1>2. BatchInv /\ [MCNext]_allVars => BatchInv'
  <2> SUFFICES ASSUME BatchInv, UNCHANGED itemType,
                      \/ itemType = "Batch" /\ BatchNext
                      \/ UNCHANGED batchVars /\ (itemType = "Batch" => UNCHANGED bar)
               PROVE  BatchInv'
    BY BatchMovesOnly
  <2>1. CASE UNCHANGED batchVars /\ (itemType = "Batch" => UNCHANGED bar)
    BY <2>1 DEF batchVars, BatchInv, BatchTypeOK, VisitInv, DueInv, BatchBarInv, Idle,
                SpinnerMeansWork, OneToggle, TogglesTo, HasDelete, Toggles, Ours
  <2> SUFFICES ASSUME itemType = "Batch", BatchNext PROVE BatchInv'
    BY <2>1
  <2>0. /\ BatchTypeOK /\ VisitInv /\ DueInv /\ SpinnerMeansWork /\ bar \in Bars
        /\ batchShown # Absent => BarOK(bar, "Batch", batchShown)
        /\ itemType' = "Batch"
    BY DEF BatchInv, BatchBarInv
  <2>2. CASE OpenBatch
    <3>1. /\ ~batchOpen /\ batchOpen' = TRUE /\ batchRead' = "history" /\ isLoading' = TRUE
          /\ batchForeign' = FALSE /\ bar' = InitButtons
          /\ UNCHANGED <<batchState, batchShown, batchDialog, batchSent, batchDue>>
      BY <2>2 DEF OpenBatch
    <3>2. Idle
      BY <2>0, <3>1 DEF VisitInv
    <3>3. BatchTypeOK' /\ VisitInv' /\ SpinnerMeansWork'
      BY <2>0, <3>1, <3>2 DEF BatchTypeOK, VisitInv, Idle, SpinnerMeansWork
    <3>4. DueInv'
      BY <3>1, <3>2 DEF DueInv, Idle, OneToggle, TogglesTo, HasDelete, Toggles, Ours
    <3>5. BatchBarInv'
      BY <2>0, <3>1, <3>2, NewBars DEF BatchBarInv, Idle
    <3> QED BY <2>0, <3>3, <3>4, <3>5 DEF BatchInv
  <2>3. CASE LeaveBatch
    BY <2>0, <2>3, BatchClosedInv DEF LeaveBatch, BatchTypeOK
  <2>4. CASE HistoryAnswered
    <3>1. CASE batchState = "ended"
      <4>1. BatchLoaded("ended") /\ batchForeign' \in BOOLEAN
        BY <2>4, <3>1, <2>0 DEF HistoryAnswered, BatchTypeOK
      <4> QED BY <2>4, <3>1, <4>1, BatchLoadedInv DEF HistoryAnswered, States
    <3>2. CASE batchState # "ended"
      <4>1. /\ batchRead = "history" /\ batchRead' = "statistics"
            /\ UNCHANGED <<batchOpen, batchState, batchShown, isLoading, batchDialog, batchSent,
                           batchDue, batchForeign, bar>>
        BY <2>4, <3>2 DEF HistoryAnswered
      <4> QED
        BY <2>0, <4>1 DEF BatchInv, BatchTypeOK, VisitInv, DueInv, BatchBarInv, Idle,
           SpinnerMeansWork, OneToggle, TogglesTo, HasDelete, Toggles, Ours
    <3> QED BY <3>1, <3>2
  <2>5. CASE StatisticsAnswered
    <3> DEFINE state == IF batchState = "suspended" THEN "suspended" ELSE "active"
    <3>1. /\ batchRead # "none" /\ BatchLoaded(state) /\ state \in States
          /\ UNCHANGED <<batchOpen, batchState, batchDialog, batchSent, batchDue>>
      BY <2>5 DEF StatisticsAnswered, States
    <3>2. batchForeign' = (batchForeign \/ batchState \notin {"active", "suspended"})
      BY <2>5 DEF StatisticsAnswered
    <3>3. batchForeign' \in BOOLEAN /\ (batchForeign' \/ state = batchState)
      BY <2>0, <3>2 DEF BatchTypeOK
    <3> QED BY <3>1, <3>3, BatchLoadedInv
  <2>6. CASE BatchReadFailed
    <3>1. /\ batchRead # "none" /\ batchRead' = "none" /\ isLoading' = FALSE /\ batchShown' = Absent
          /\ UNCHANGED <<batchOpen, batchState, batchDialog, batchSent, batchDue, batchForeign, bar>>
      BY <2>6 DEF BatchReadFailed
    <3>2. batchShown = Absent /\ batchOpen
      BY <2>0, <3>1 DEF VisitInv, Idle, BatchTypeOK
    <3> QED
      BY <2>0, <3>1, <3>2 DEF BatchInv, BatchTypeOK, VisitInv, DueInv, BatchBarInv, Idle,
         SpinnerMeansWork, OneToggle, TogglesTo, HasDelete, Toggles, Ours
  <2>7. ASSUME NEW b \in {"activate", "suspend", "retry", "delete"}, ClickBatch(b) PROVE BatchInv'
    <3>1. /\ batchOpen /\ batchDialog = Absent /\ batchShown # Absent
          /\ batchDialog' = CASE b \in {"activate", "suspend"} -> Action("toggle", Opposite(batchShown))
                              [] OTHER -> Action(b, batchShown)
          /\ isLoading' = (isLoading \/ b # "delete")
          /\ batchForeign' = (batchForeign \/ /\ b \in {"activate", "suspend"}
                                              /\ Toggles(batchSent) \union Toggles(batchDue) # {})
          /\ UNCHANGED <<batchOpen, batchState, batchRead, batchShown, batchSent, batchDue, bar>>
      BY <2>7 DEF ClickBatch
    <3>2. /\ batchDialog' \in Actions /\ batchDialog'.ours
          /\ batchDialog'.button = "toggle" =>
               /\ batchDialog'.to = Opposite(batchShown)
               /\ ~batchForeign' => Toggles(batchSent) = {} /\ Toggles(batchDue) = {}
      <4>1. CASE b \in {"activate", "suspend"}
        BY <3>1, <4>1 DEF Action, Actions, Opposite, States
      <4>2. CASE b \in {"retry", "delete"}
        <5>1. batchDialog' = Action(b, batchShown) /\ batchShown \in States
          BY <3>1, <4>2, <2>0 DEF BatchTypeOK
        <5> QED BY <4>2, <5>1 DEF Action, Actions
      <4> QED BY <4>1, <4>2
    <3>3. batchDialog' # Absent
      BY <3>2, BatchPageAssumption
    <3>4. batchForeign' \in BOOLEAN /\ isLoading' \in BOOLEAN /\ (~batchForeign' => ~batchForeign)
      BY <3>1, <2>0 DEF BatchTypeOK
    <3>5. BatchTypeOK' /\ VisitInv' /\ SpinnerMeansWork'
      BY <2>0, <3>1, <3>2, <3>3, <3>4 DEF BatchTypeOK, VisitInv, Idle, SpinnerMeansWork, Ours
    <3>6. DueInv'
      BY <2>0, <3>1, <3>2, <3>4 DEF DueInv, OneToggle, TogglesTo, HasDelete, Toggles, Ours
    <3> QED BY <2>0, <3>1, <3>5, <3>6 DEF BatchInv, BatchBarInv
  <2>8. CASE CancelBatch
    <3>1. /\ batchDialog' = Absent /\ isLoading' = FALSE
          /\ UNCHANGED <<batchOpen, batchState, batchRead, batchShown, batchSent, batchDue,
                         batchForeign, bar>>
      BY <2>8 DEF CancelBatch
    <3>2. BatchTypeOK' /\ VisitInv' /\ SpinnerMeansWork'
      BY <2>0, <3>1 DEF BatchTypeOK, VisitInv, Idle, SpinnerMeansWork
    <3>3. DueInv'
      BY <2>0, <3>1 DEF DueInv
    <3> QED BY <2>0, <3>1, <3>2, <3>3 DEF BatchInv, BatchBarInv
  <2>9. CASE ConfirmBatch
    <3>1. /\ batchDialog # Absent /\ batchSent' = Append(batchSent, batchDialog)
          /\ batchDialog' = Absent
          /\ UNCHANGED <<batchOpen, batchState, batchRead, batchShown, isLoading, batchDue,
                         batchForeign, bar>>
      BY <2>9 DEF ConfirmBatch
    <3>2. batchDialog \in Actions /\ batchDialog.ours /\ batchOpen /\ batchRead = "none"
      BY <3>1, <2>0 DEF BatchTypeOK, VisitInv, Idle
    <3>3. BatchTypeOK' /\ VisitInv' /\ SpinnerMeansWork'
      BY <2>0, <3>1, <3>2, AppendedActions DEF BatchTypeOK, VisitInv, Idle, SpinnerMeansWork
    <3>4. batchDue' = batchDue /\ batchShown' = batchShown /\ batchState' = batchState
      BY <3>1
    <3>5. DueInv'
      <4>1. HasDelete(batchDue') => batchState' \in {"ended", Absent}
        BY <2>0, <3>4 DEF DueInv
      <4>2. ASSUME ~batchForeign, batchDialog.button = "toggle"
            PROVE  /\ Toggles(batchDue) = {} /\ OneToggle(batchSent')
                   /\ TogglesTo(batchSent', Opposite(batchShown))
        BY <4>2, <2>0, <3>1, <3>2, AppendedActions DEF DueInv, BatchTypeOK
      <4>3. ASSUME ~batchForeign, batchDialog.button # "toggle"
            PROVE  /\ Toggles(batchSent') = Toggles(batchSent) /\ OneToggle(batchSent')
                   /\ TogglesTo(batchSent', Opposite(batchShown))
        BY <4>3, <2>0, <3>1, <3>2, AppendedActions DEF DueInv, BatchTypeOK
      <4> QED BY <2>0, <3>1, <3>4, <4>1, <4>2, <4>3 DEF DueInv
    <3> QED BY <2>0, <3>1, <3>3, <3>5 DEF BatchInv, BatchBarInv
  <2>10. ASSUME NEW i \in DOMAIN batchSent, BatchActed(i) PROVE BatchInv'
    <3> DEFINE a == batchSent[i]
    <3>1. /\ batchState' \in Becomes(a) /\ batchSent' = RemoveAt(batchSent, i)
          /\ batchDue' = Append(batchDue, a)
          /\ batchForeign' = (batchForeign \/ (a.button # "retry" /\ ~a.ours))
          /\ UNCHANGED <<batchOpen, batchRead, batchShown, isLoading, batchDialog, bar>>
      BY <2>10 DEF BatchActed
    <3>2. a \in Actions
      BY <2>0 DEF BatchTypeOK
    <3>3. /\ batchSent' \in Seq(Actions) /\ Len(batchSent') = Len(batchSent) - 1
          /\ \A j \in DOMAIN batchSent' :
               batchSent'[j] = IF j < i THEN batchSent[j] ELSE batchSent[j + 1]
      BY <2>0, <3>1, RemoveAtFacts DEF BatchTypeOK
    <3>4. batchDue' \in Seq(Actions)
      BY <2>0, <3>1, <3>2, AppendedActions DEF BatchTypeOK
    <3>5. /\ batchState # Absent /\ batchState' \in States \union {Absent}
          /\ batchState = "ended" => a.button = "delete" /\ batchState' = Absent
          /\ a.button = "toggle" => batchState # "ended" /\ batchState' = a.to
          /\ a.button = "retry" => batchState' = batchState
          /\ a.button = "delete" => batchState' \in {"ended", Absent}
      <4>1. a.button \in {"toggle", "retry", "delete"} /\ a.to \in States
        BY <3>2 DEF Actions
      <4>2. CASE batchState \in {"active", "suspended"}
        BY <3>1, <4>1, <4>2, StatesAssumption DEF Becomes, States
      <4>3. CASE batchState \notin {"active", "suspended"}
        <5>1. /\ batchState = "ended" /\ a.button = "delete" /\ batchState' = Absent
          BY <3>1, <4>3 DEF Becomes
        <5> QED BY <5>1, StatesAssumption DEF States
      <4> QED BY <4>2, <4>3
    <3>6. a.ours <=> i \in Ours(batchSent)
      BY DEF Ours
    <3> HIDE DEF a
    <3>7. batchForeign' \in BOOLEAN /\ (~batchForeign' => ~batchForeign /\ (a.ours \/ a.button = "retry"))
      BY <3>1, <2>0 DEF BatchTypeOK
    <3>8. BatchTypeOK'
      BY <2>0, <3>1, <3>3, <3>4, <3>5, <3>7 DEF BatchTypeOK
    <3>9. /\ Ours(batchSent) = {} => Ours(batchSent') = {} /\ ~a.ours
          /\ ~a.ours /\ Ours(batchSent) # {} => Ours(batchSent') # {}
          /\ a.ours => Ours(batchDue') # {}
          /\ ~a.ours => Ours(batchDue') = Ours(batchDue)
          /\ Ours(batchDue) # {} => Ours(batchDue') # {}
      <4>1. /\ Ours(batchDue') = Ours(batchDue) \union (IF a.ours THEN {Len(batchDue) + 1} ELSE {})
        BY <2>0, <3>1, <3>2, AppendedActions DEF BatchTypeOK
      <4>2. /\ Ours(batchSent) = {} => Ours(batchSent') = {}
            /\ Ours(batchSent) # {} /\ ~a.ours => Ours(batchSent') # {}
        BY <2>0, <3>3, RemovedActions DEF BatchTypeOK, a
      <4> QED BY <3>6, <4>1, <4>2
    <3>10. VisitInv' /\ SpinnerMeansWork'
      BY <2>0, <3>1, <3>9 DEF VisitInv, Idle, SpinnerMeansWork
    <3>11. DueInv'
      <4>1. HasDelete(batchDue') => batchState' \in {"ended", Absent}
        BY <2>0, <3>1, <3>2, <3>5, AppendedActions DEF DueInv, BatchTypeOK
      <4> SUFFICES ASSUME ~batchForeign' PROVE DueInv'
        BY <4>1 DEF DueInv
      <4>2. CASE a.ours /\ a.button = "toggle"
        <5>1. i \in Toggles(batchSent)
          BY <4>2, <3>6 DEF Toggles, a
        <5>2. /\ Toggles(batchDue) = {} /\ OneToggle(batchSent) /\ OneToggle(batchDue)
              /\ a.to = Opposite(batchShown)
              /\ ~(batchDialog # Absent /\ batchDialog.button = "toggle")
          BY <2>0, <3>7, <5>1 DEF DueInv, TogglesTo, a
        <5>3. Toggles(batchSent') = {}
          BY <2>0, <3>3, <5>1, <5>2, RemovedActions DEF BatchTypeOK
        <5>4. OneToggle(batchDue') /\ Toggles(batchDue') # {}
          BY <2>0, <3>1, <3>2, <4>2, <5>2, AppendedActions DEF BatchTypeOK
        <5>5. batchShown # Absent =>
                batchShown \in {"active", "suspended"} /\ batchState' = Opposite(batchShown)
          BY <2>0, <3>5, <3>7, <4>2, <5>2 DEF DueInv, BatchTypeOK, States
        <5> QED
          BY <3>1, <4>1, <5>2, <5>3, <5>4, <5>5 DEF DueInv, OneToggle, TogglesTo
      <4>3. CASE ~(a.ours /\ a.button = "toggle")
        <5>1. /\ Toggles(batchDue') = Toggles(batchDue)
              /\ OneToggle(batchDue) => OneToggle(batchDue')
              /\ HasDelete(batchDue) => HasDelete(batchDue')
              /\ a.ours /\ a.button = "delete" => HasDelete(batchDue')
          BY <2>0, <3>1, <3>2, <4>3, AppendedActions DEF BatchTypeOK
        <5>2. /\ Toggles(batchSent) = {} => Toggles(batchSent') = {}
              /\ OneToggle(batchSent) => OneToggle(batchSent')
              /\ \A to : TogglesTo(batchSent, to) => TogglesTo(batchSent', to)
          BY <2>0, <3>3, RemovedActions DEF BatchTypeOK
        <5>3. a.button = "retry" \/ (a.ours /\ a.button = "delete")
          BY <3>2, <3>7, <4>3 DEF Actions
        <5> QED BY <2>0, <3>1, <3>5, <3>7, <4>1, <5>1, <5>2, <5>3 DEF DueInv
      <4> QED BY <4>2, <4>3
    <3> QED BY <2>0, <3>1, <3>8, <3>10, <3>11 DEF BatchInv, BatchBarInv
  <2>11. ASSUME NEW i \in DOMAIN batchSent, BatchFailed(i) PROVE BatchInv'
    <3> DEFINE a == batchSent[i]
    <3>1. /\ batchState' \in {batchState} \union Becomes(a) /\ batchSent' = RemoveAt(batchSent, i)
          /\ batchForeign' = (batchForeign \/ (batchShown # Absent /\ batchState' # batchState))
          /\ isLoading' = (isLoading /\ ~a.ours)
          /\ UNCHANGED <<batchOpen, batchRead, batchShown, batchDialog, batchDue, bar>>
      BY <2>11 DEF BatchFailed
    <3>2. /\ batchSent' \in Seq(Actions) /\ Len(batchSent') = Len(batchSent) - 1
          /\ \A j \in DOMAIN batchSent' :
               batchSent'[j] = IF j < i THEN batchSent[j] ELSE batchSent[j + 1]
      BY <2>0, <3>1, RemoveAtFacts DEF BatchTypeOK
    <3>3. /\ Ours(batchSent) = {} => Ours(batchSent') = {}
          /\ Ours(batchSent) # {} /\ ~a.ours => Ours(batchSent') # {}
          /\ Toggles(batchSent) = {} => Toggles(batchSent') = {}
          /\ OneToggle(batchSent) => OneToggle(batchSent')
          /\ \A to : TogglesTo(batchSent, to) => TogglesTo(batchSent', to)
      BY <2>0, <3>2, RemovedActions DEF BatchTypeOK
    <3>4. /\ batchState' \in States \union {Absent}
          /\ batchState \in {"ended", Absent} => batchState' \in {"ended", Absent}
      <4>1. a \in Actions
        BY <2>0 DEF BatchTypeOK
      <4>2. a.button \in {"toggle", "retry", "delete"} /\ a.to \in States
        BY <4>1 DEF Actions
      <4> HIDE DEF a
      <4>3. CASE batchState \in {"active", "suspended"}
        BY <3>1, <4>2, <4>3, StatesAssumption DEF Becomes, States
      <4>4. CASE batchState \notin {"active", "suspended"}
        BY <2>0, <3>1, <4>4 DEF Becomes, BatchTypeOK
      <4> QED BY <4>3, <4>4
    <3> HIDE DEF a
    <3>5. BatchTypeOK' /\ VisitInv' /\ SpinnerMeansWork'
      BY <2>0, <3>1, <3>2, <3>3, <3>4 DEF BatchTypeOK, VisitInv, Idle, SpinnerMeansWork
    <3>6. ~batchForeign' => ~batchForeign /\ (batchShown # Absent => batchState' = batchState)
      BY <2>0, <3>1 DEF BatchTypeOK
    <3>7. DueInv'
      BY <2>0, <3>1, <3>3, <3>4, <3>6 DEF DueInv
    <3> QED BY <2>0, <3>1, <3>5, <3>7 DEF BatchInv, BatchBarInv
  <2>12. CASE BatchCallback
    <3> DEFINE a == Head(batchDue)
               due == Tail(batchDue)
    <3>1. batchDue # <<>> /\ batchDue \in Seq(Actions)
      BY <2>12, <2>0 DEF BatchCallback, BatchTypeOK
    <3>2. /\ a = batchDue[1] /\ 1 \in DOMAIN batchDue /\ a \in Actions
          /\ due \in Seq(Actions) /\ Len(due) = Len(batchDue) - 1
          /\ \A j \in DOMAIN due : due[j] = IF j < 1 THEN batchDue[j] ELSE batchDue[j + 1]
      BY <3>1
    <3>3. /\ Ours(batchDue) = {} => Ours(due) = {} /\ ~a.ours
          /\ Ours(batchDue) # {} /\ ~a.ours => Ours(due) # {}
          /\ HasDelete(due) => HasDelete(batchDue)
          /\ HasDelete(batchDue) /\ ~(a.ours /\ a.button = "delete") => HasDelete(due)
          /\ Toggles(batchDue) = {} => Toggles(due) = {}
          /\ Toggles(batchDue) # {} /\ ~(a.ours /\ a.button = "toggle") => Toggles(due) # {}
          /\ OneToggle(batchDue) =>
               OneToggle(due) /\ (a.ours /\ a.button = "toggle" => Toggles(due) = {})
      <4>1. /\ a.ours <=> 1 \in Ours(batchDue)
            /\ a.ours /\ a.button = "toggle" <=> 1 \in Toggles(batchDue)
        BY <3>2 DEF Ours, Toggles
      <4> HIDE DEF a, due
      <4>2. /\ Ours(batchDue) = {} => Ours(due) = {}
            /\ Ours(batchDue) # {} /\ ~a.ours => Ours(due) # {}
            /\ HasDelete(due) => HasDelete(batchDue)
            /\ HasDelete(batchDue) /\ ~(a.ours /\ a.button = "delete") => HasDelete(due)
        BY <3>1, <3>2, RemovedActions
      <4>3. /\ Toggles(batchDue) = {} => Toggles(due) = {}
            /\ Toggles(batchDue) # {} /\ 1 \notin Toggles(batchDue) => Toggles(due) # {}
            /\ OneToggle(batchDue) =>
                 OneToggle(due) /\ (1 \in Toggles(batchDue) => Toggles(due) = {})
        BY <3>1, <3>2, RemovedActions
      <4> QED BY <4>1, <4>2, <4>3
    <3>4. CASE a.button = "delete"
      <4>1. /\ BatchClosed /\ batchDialog = Absent
            /\ batchSent' = Disowned(batchSent) /\ batchDue' = Disowned(due)
        BY <2>12, <3>4 DEF BatchCallback
      <4> QED BY <3>2, <3>3, <4>1, BatchClosedInv
    <3>5. CASE a.button # "delete"
      <4>1. /\ batchDue' = due /\ isLoading' = (isLoading /\ ~a.ours)
            /\ batchShown' = IF a.ours THEN ShownAfter(a) ELSE batchShown
            /\ bar' = IF a.ours /\ a.button = "toggle"
                      THEN Updated(bar, "Batch", ShownAfter(a)) ELSE bar
            /\ UNCHANGED <<batchOpen, batchState, batchRead, batchDialog, batchSent, batchForeign>>
        BY <2>12, <3>5 DEF BatchCallback
      <4>2. a.ours => batchOpen /\ batchRead = "none"
        BY <2>0, <3>3 DEF VisitInv, Idle
      <4> HIDE DEF a, due
      <4>3. CASE a.ours /\ a.button = "toggle" /\ batchShown \in {"active", "suspended"}
        <5>1. /\ batchShown' = Opposite(batchShown) /\ batchShown' \in States
              /\ bar' = Updated(bar, "Batch", batchShown')
          BY <4>1, <4>3 DEF ShownAfter, Opposite, States
        <5>2. BatchTypeOK' /\ VisitInv' /\ SpinnerMeansWork'
          <6>1. batchOpen' /\ batchRead' = "none" /\ batchShown' # Absent /\ ~isLoading'
            BY <2>0, <4>1, <4>2, <4>3, <5>1, StatesAssumption DEF BatchTypeOK
          <6> QED
            BY <2>0, <3>2, <4>1, <5>1, <6>1 DEF BatchTypeOK, VisitInv, SpinnerMeansWork
        <5>3. BatchBarInv'
          BY <2>0, <5>1, UpdatedOK DEF BatchBarInv, ItemTypes
        <5>4. Toggles(batchDue) # {}
          BY <3>3, <3>2, <4>3 DEF Toggles, Ours
        <5>5. DueInv'
          BY <2>0, <3>3, <4>1, <4>3, <5>1, <5>4, StatesAssumption
          DEF DueInv, OneToggle, TogglesTo, Opposite, States
        <5> QED BY <2>0, <5>2, <5>3, <5>5 DEF BatchInv
      <4>4. CASE ~(a.ours /\ a.button = "toggle" /\ batchShown \in {"active", "suspended"})
        <5>1. batchShown' = batchShown
          BY <4>1, <4>4 DEF ShownAfter
        <5>2. BatchTypeOK' /\ VisitInv' /\ SpinnerMeansWork'
          BY <2>0, <3>2, <3>3, <4>1, <4>2, <5>1
          DEF BatchTypeOK, VisitInv, Idle, SpinnerMeansWork
        <5>3. BatchBarInv'
          <6>1. CASE a.ours /\ a.button = "toggle"
            <7>1. batchShown # Absent
              BY <2>0, <3>3, <6>1 DEF VisitInv, Idle
            <7>2. batchShown \in States /\ bar' = Updated(bar, "Batch", batchShown)
              BY <2>0, <4>1, <5>1, <6>1, <7>1 DEF BatchTypeOK
            <7> QED BY <2>0, <5>1, <7>2, UpdatedOK DEF BatchBarInv, ItemTypes
          <6>2. CASE ~(a.ours /\ a.button = "toggle")
            BY <2>0, <4>1, <5>1, <6>2 DEF BatchBarInv
          <6> QED BY <6>1, <6>2
        <5>4. HasDelete(batchDue') => batchState' \in {"ended", Absent}
          BY <2>0, <3>3, <4>1 DEF DueInv
        <5>5. CASE a.ours /\ a.button = "toggle"
          <6>1. Toggles(batchDue) # {}
            BY <3>2, <5>5 DEF Toggles, Ours
          <6> QED
            BY <2>0, <3>3, <3>5, <4>1, <4>4, <5>1, <5>2, <5>3, <5>4, <5>5, <6>1
            DEF BatchInv, DueInv
        <5>6. CASE ~(a.ours /\ a.button = "toggle")
          <6>1. DueInv'
            BY <2>0, <3>3, <3>5, <4>1, <5>1, <5>4, <5>6 DEF DueInv
          <6> QED BY <2>0, <5>2, <5>3, <6>1 DEF BatchInv
        <5> QED BY <5>5, <5>6
      <4> QED BY <4>3, <4>4
    <3> QED BY <3>4, <3>5
  <2>13. CASE BatchMoves
    <3>1. /\ batchState \in {"active", "suspended"} /\ batchState' \in States
          /\ batchForeign' = (batchForeign \/ batchShown # Absent \/ batchRead # "history")
          /\ UNCHANGED <<batchOpen, batchRead, batchShown, isLoading, batchDialog, batchSent,
                         batchDue, bar>>
      BY <2>13 DEF BatchMoves, States
    <3>2. ~HasDelete(batchDue)
      BY <2>0, <3>1, StatesAssumption DEF DueInv, States
    <3>3. batchForeign' \in BOOLEAN /\ (~batchForeign' => ~batchForeign /\ batchShown = Absent)
      BY <2>0, <3>1 DEF BatchTypeOK
    <3>4. BatchTypeOK' /\ VisitInv' /\ SpinnerMeansWork'
      BY <2>0, <3>1, <3>3 DEF BatchTypeOK, VisitInv, Idle, SpinnerMeansWork
    <3>5. DueInv'
      BY <2>0, <3>1, <3>2, <3>3 DEF DueInv
    <3> QED BY <2>0, <3>1, <3>4, <3>5 DEF BatchInv, BatchBarInv
  <2>14. CASE BatchPermissions
    <3>1. UNCHANGED batchVars /\ PermissionsAnswered
      BY <2>14 DEF BatchPermissions
    <3>2. /\ bar' \in Bars
          /\ \A state \in States : BarOK(bar, "Batch", state) => BarOK(bar', "Batch", state)
      BY <2>0, <3>1, CheckedOK DEF ItemTypes
    <3>3. BatchBarInv'
      BY <2>0, <3>1, <3>2 DEF BatchBarInv, batchVars, BatchTypeOK
    <3> QED
      BY <2>0, <3>1, <3>3 DEF batchVars, BatchInv, BatchTypeOK, VisitInv, DueInv, Idle,
         SpinnerMeansWork, OneToggle, TogglesTo, HasDelete, Toggles, Ours
  <2> QED
    BY <2>2, <2>3, <2>4, <2>5, <2>6, <2>7, <2>8, <2>9, <2>10, <2>11, <2>12, <2>13, <2>14
    DEF BatchNext
<1> QED BY <1>1, <1>2, PTL DEF MCSpec

\* The spinner means work.
THEOREM SpinnerWorks == MCSpec => []SpinnerMeansWork
<1>1. BatchInv => SpinnerMeansWork
  BY DEF BatchInv
<1> QED BY <1>1, BatchInvariant, PTL

\* A batch page at rest tells the truth, and so does its toolbar.
THEOREM BatchTrue == MCSpec => []BatchAtRestIsTrue
<1>1. BatchInv => BatchAtRestIsTrue
  <2> SUFFICES ASSUME BatchInv, BatchAtRest
               PROVE  /\ batchForeign \/ batchShown = batchState
                      /\ bar.overtaken \/ Fits(batchShown)
    BY DEF BatchAtRestIsTrue
  <2>1. /\ batchShown \in States /\ itemType = "Batch" /\ BarOK(bar, itemType, batchShown)
    BY DEF BatchInv, BatchTypeOK, BatchBarInv, BatchAtRest
  <2>2. batchForeign \/ batchShown = batchState
    BY DEF BatchInv, DueInv, BatchAtRest, HasDelete, Toggles
  <2> QED BY <2>1, <2>2, BarFits DEF BatchAtRest
<1> QED BY <1>1, BatchInvariant, PTL

-----------------------------------------------------------------------------
(***************************************************************************)
(* The process instance page, for any instances and any number of loads.   *)
(* ReloadsInv: only the load that subscribed last can be a reload, and it  *)
(* asks for the instance of the URL; a page that is gone waits for         *)
(* nothing.  PendingInv: what the memo takes for asked is asked, by a      *)
(* request whose answer it will keep, so a load that shares it is answered *)
(* or fails with it.  ShownInv: unless the last answer was a first load's, *)
(* an instance that is not the URL's is shown only while a load waits.     *)
(***************************************************************************)
PageRequests == [id : Ids, loads : Seq(Load), cached : BOOLEAN]
Shown == [id : Ids, state : States]
PageActions == [id : Ids, to : States]

InstanceTypeOK ==
  /\ here \in Ids \union {Absent}
  /\ engine \in [Ids -> States]
  /\ memo \in [Ids -> States \union {Absent, "pending"}]
  /\ requests \in Seq(PageRequests)
  /\ page.instance \in Shown \union {Absent}
  /\ strayed \in BOOLEAN
  /\ dialog \in PageActions \union {Absent} /\ acting \subseteq PageActions
  /\ reloadDue \in BOOLEAN

ReloadsInv ==
  /\ \A r \in DOMAIN requests : \A l \in DOMAIN requests[r].loads :
       requests[r].loads[l] = "reload" => requests[r].id = here /\ l = Len(requests[r].loads)
  /\ here = Absent => /\ page.instance = Absent
                      /\ \A r \in DOMAIN requests : requests[r].loads = <<>>

PendingInv ==
  \A id \in Ids : memo[id] = "pending" =>
    \E r \in DOMAIN requests : requests[r].id = id /\ requests[r].cached

Waits == \E r \in DOMAIN requests : requests[r].loads # <<>>

ShownInv ==
  page.instance # Absent /\ ~strayed =>
    /\ page.canModify = (page.instance.state = "active")
    /\ page.instance.id = here \/ Waits

InstanceBarInv ==
  itemType = "ProcessInstance" =>
    /\ bar \in Bars
    /\ page.instance # Absent => BarOK(bar, "ProcessInstance", page.instance.state)

InstanceInv ==
  /\ InstanceTypeOK /\ ReloadsInv /\ PendingInv /\ ShownInv /\ InstanceBarInv
  /\ itemType # "ProcessInstance" => page.instance = Absent

\* An element that is not removed stays, and no other comes (RemoveAt).
LEMMA RemoveAtElements ==
  ASSUME NEW S, NEW s \in Seq(S), NEW i \in DOMAIN s
  PROVE  /\ RemoveAt(s, i) \in Seq(S)
         /\ \A j \in DOMAIN RemoveAt(s, i) : \E k \in DOMAIN s : k # i /\ RemoveAt(s, i)[j] = s[k]
         /\ \A k \in DOMAIN s : k # i => \E j \in DOMAIN RemoveAt(s, i) : RemoveAt(s, i)[j] = s[k]
<1> DEFINE t == RemoveAt(s, i)
<1>1. /\ t \in Seq(S) /\ Len(t) = Len(s) - 1
      /\ \A j \in DOMAIN t : t[j] = IF j < i THEN s[j] ELSE s[j + 1]
  BY RemoveAtFacts
<1> HIDE DEF t
<1>2. DOMAIN s = 1 .. Len(s) /\ DOMAIN t = 1 .. Len(s) - 1 /\ Len(s) \in Nat /\ i \in 1 .. Len(s)
  BY <1>1
<1>3. ASSUME NEW j \in DOMAIN t PROVE \E k \in DOMAIN s : k # i /\ t[j] = s[k]
  <2>1. CASE j < i
    BY <1>1, <1>2, <2>1
  <2>2. CASE ~(j < i)
    <3>1. j + 1 \in DOMAIN s /\ j + 1 # i /\ t[j] = s[j + 1]
      BY <1>1, <1>2, <2>2
    <3> QED BY <3>1
  <2> QED BY <2>1, <2>2
<1>4. ASSUME NEW k \in DOMAIN s, k # i PROVE \E j \in DOMAIN t : t[j] = s[k]
  <2>1. CASE k < i
    BY <1>1, <1>2, <2>1
  <2>2. CASE ~(k < i)
    <3>1. k - 1 \in DOMAIN t /\ ~(k - 1 < i) /\ t[k - 1] = s[(k - 1) + 1] /\ (k - 1) + 1 = k
      BY <1>1, <1>2, <1>4, <2>2
    <3> QED BY <3>1
  <2> QED BY <2>1, <2>2
<1> QED BY <1>1, <1>3, <1>4 DEF t

\* The same requests, without a load that is a reload
Unreloaded(rs) ==
  /\ rs \in Seq(PageRequests) /\ DOMAIN rs = DOMAIN requests
  /\ \A r \in DOMAIN rs :
       /\ rs[r].id = requests[r].id /\ rs[r].cached = requests[r].cached
       /\ \A l \in DOMAIN rs[r].loads : rs[r].loads[l] # "reload"

LEMMA WithoutReloadOK ==
  ASSUME InstanceInv
  PROVE  Unreloaded(WithoutReload(requests))
<1>1. ASSUME NEW r \in DOMAIN requests
      PROVE  /\ WithoutReload(requests)[r] \in PageRequests
             /\ WithoutReload(requests)[r].id = requests[r].id
             /\ WithoutReload(requests)[r].cached = requests[r].cached
             /\ \A l \in DOMAIN WithoutReload(requests)[r].loads :
                  WithoutReload(requests)[r].loads[l] # "reload"
  <2> DEFINE loads == requests[r].loads
             keptLoads == IF loads # <<>> /\ Last(loads) = "reload" THEN Front(loads) ELSE loads
  <2>1. requests[r] \in PageRequests
    BY DEF InstanceInv, InstanceTypeOK
  <2>2. loads \in Seq(Load) /\ \A l \in DOMAIN loads : loads[l] = "reload" => l = Len(loads)
    BY <2>1 DEF InstanceInv, ReloadsInv, PageRequests
  <2>3. WithoutReload(requests)[r] = [requests[r] EXCEPT !.loads = keptLoads]
    BY DEF WithoutReload
  <2> HIDE DEF loads
  <2>4. /\ keptLoads \in Seq(Load) /\ \A l \in DOMAIN keptLoads : keptLoads[l] # "reload"
    <3>1. CASE loads # <<>> /\ Last(loads) = "reload"
      <4>1. /\ Front(loads) \in Seq(Load)
            /\ \A l \in DOMAIN Front(loads) :
                 l \in DOMAIN loads /\ l # Len(loads) /\ Front(loads)[l] = loads[l]
        BY <2>2, <3>1 DEF Front
      <4> QED BY <2>2, <3>1, <4>1
    <3>2. CASE ~(loads # <<>> /\ Last(loads) = "reload")
      BY <2>2, <3>2 DEF Last
    <3> QED BY <3>1, <3>2
  <2> HIDE DEF keptLoads
  <2> QED BY <2>1, <2>3, <2>4 DEF PageRequests
<1>2. /\ DOMAIN WithoutReload(requests) = DOMAIN requests
      /\ WithoutReload(requests) = [r \in DOMAIN requests |-> WithoutReload(requests)[r]]
  BY DEF WithoutReload
<1>3. requests \in Seq(PageRequests)
  BY DEF InstanceInv, InstanceTypeOK
<1>4. WithoutReload(requests) \in Seq(PageRequests)
  BY <1>1, <1>2, <1>3
<1> QED BY <1>1, <1>2, <1>4 DEF Unreloaded

LEMMA StrayOK ==
  ASSUME NEW rs, Unreloaded(rs)
  PROVE  Unreloaded(Stray(rs))
<1>1. ASSUME NEW r \in DOMAIN rs
      PROVE  /\ Stray(rs)[r] \in PageRequests
             /\ Stray(rs)[r].id = rs[r].id /\ Stray(rs)[r].cached = rs[r].cached
             /\ \A l \in DOMAIN Stray(rs)[r].loads : Stray(rs)[r].loads[l] # "reload"
  <2> DEFINE loads == rs[r].loads
             keptLoads == [l \in DOMAIN loads |-> IF loads[l] = "first" THEN "stray" ELSE loads[l]]
  <2>1. rs[r] \in PageRequests
    BY DEF Unreloaded
  <2>2. loads \in Seq(Load) /\ \A l \in DOMAIN loads : loads[l] # "reload"
    BY <2>1 DEF Unreloaded, PageRequests
  <2>3. Stray(rs)[r] = [rs[r] EXCEPT !.loads = keptLoads]
    BY DEF Stray
  <2> HIDE DEF loads
  <2>4. keptLoads \in Seq(Load) /\ \A l \in DOMAIN keptLoads : keptLoads[l] # "reload"
    BY <2>2 DEF Load
  <2> HIDE DEF keptLoads
  <2> QED BY <2>1, <2>3, <2>4 DEF PageRequests
<1>2. DOMAIN Stray(rs) = DOMAIN rs /\ Stray(rs) = [r \in DOMAIN rs |-> Stray(rs)[r]]
  BY DEF Stray
<1>3. Stray(rs) \in Seq(PageRequests)
  BY <1>1, <1>2 DEF Unreloaded
<1> QED BY <1>1, <1>2, <1>3 DEF Unreloaded

\* What an answer does to the page and its toolbar (Delivered).
LEMMA DeliveredOK ==
  ASSUME InstanceInv, itemType = "ProcessInstance",
         NEW loads \in Seq(Load), loads # <<>>, NEW id \in Ids, NEW state \in States,
         Delivered(loads, id, state)
  PROVE  /\ page'.instance = [id |-> id, state |-> state] /\ page'.instance \in Shown
         /\ Last(loads) = "reload" => page'.canModify = (state = "active")
         /\ strayed' = (Last(loads) # "reload")
         /\ bar' \in Bars /\ BarOK(bar', "ProcessInstance", state)
<1>1. /\ page' = [instance |-> [id |-> id, state |-> state], canModify |-> CanModify(Last(loads), state)]
      /\ strayed' = (Last(loads) # "reload")
  BY DEF Delivered
<1>2. bar \in Bars
  BY DEF InstanceInv, InstanceBarInv
<1>3. CASE here = Absent
  <2>1. bar' = [InitButtons EXCEPT !.overtaken = TRUE]
    BY <1>3 DEF Delivered, CurrentBar
  <2>2. bar' \in Bars /\ bar'.overtaken
    BY <1>2, <2>1, NewBars DEF Bars
  <2> QED BY <1>1, <2>2 DEF BarOK, CanModify, Shown
<1>4. CASE here # Absent
  <2> DEFINE once == Updated(bar, "ProcessInstance", state)
  <2>1. bar' = UpdatedByAll(loads, state)
    BY <1>4 DEF Delivered
  <2>2. once \in Bars /\ BarOK(once, "ProcessInstance", state)
    BY <1>2, UpdatedOK DEF ItemTypes
  <2>3. bar' = once \/ bar' = Updated(once, "ProcessInstance", state)
    BY <2>1 DEF UpdatedByAll
  <2> HIDE DEF once
  <2>4. bar' \in Bars /\ BarOK(bar', "ProcessInstance", state)
    BY <2>2, <2>3, UpdatedOK DEF ItemTypes
  <2> QED BY <1>1, <2>4 DEF CanModify, Shown
<1> QED BY <1>3, <1>4

LEMMA InstanceMovesOnly ==
  ASSUME [MCNext]_allVars
  PROVE  /\ UNCHANGED itemType
         /\ \/ itemType = "ProcessInstance" /\ InstanceNext
            \/ /\ UNCHANGED instanceOnly
               /\ itemType = "ProcessInstance" => UNCHANGED bar
  BY DEF MCNext, allVars

LEMMA AskedLoads ==
  ASSUME NEW loads \in {<<"first", "reload">>, <<"reload">>}
  PROVE  /\ loads \in Seq(Load) /\ loads # <<>> /\ Last(loads) = "reload"
         /\ \A l \in DOMAIN loads : loads[l] = "reload" => l = Len(loads)
<1>1. CASE loads = <<"reload">>
  BY <1>1 DEF Load, Last
<1>2. CASE loads = <<"first", "reload">>
  BY <1>2 DEF Load, Last
<1> QED BY <1>1, <1>2

\* The appended loads come after those that waited.
LEMMA LoadsAppended ==
  ASSUME NEW old \in Seq(Load), \A l \in DOMAIN old : old[l] # "reload",
         NEW loads \in {<<"first", "reload">>, <<"reload">>}
  PROVE  /\ old \o loads \in Seq(Load) /\ old \o loads # <<>>
         /\ \A l \in DOMAIN (old \o loads) :
              (old \o loads)[l] = "reload" => l = Len(old \o loads)
<1>1. CASE loads = <<"reload">>
  <2>1. /\ Len(old \o loads) = Len(old) + 1
        /\ \A l \in 1 .. Len(old) : (old \o loads)[l] = old[l]
        /\ old \o loads \in Seq(Load)
    BY <1>1 DEF Load
  <2> QED BY <2>1
<1>2. CASE loads = <<"first", "reload">>
  <2>1. /\ Len(old \o loads) = Len(old) + 2
        /\ \A l \in 1 .. Len(old) : (old \o loads)[l] = old[l]
        /\ (old \o loads)[Len(old) + 1] = "first"
        /\ old \o loads \in Seq(Load)
    BY <1>2 DEF Load
  <2> QED BY <2>1
<1> QED BY <1>1, <1>2

\* A load that asks for the instance of the URL
LEMMA GetInv ==
  ASSUME InstanceInv, itemType = "ProcessInstance", itemType' = itemType,
         NEW id \in Ids, here' = id, NEW loads \in {<<"first", "reload">>, <<"reload">>},
         NEW rs, Unreloaded(rs), Get(id, loads, rs),
         UNCHANGED <<engine, dialog, acting>>, reloadDue' \in BOOLEAN
  PROVE  InstanceInv'
<1> DEFINE m == CurrentMemo
           qs == [r \in DOMAIN rs |-> [rs[r] EXCEPT !.cached = @ /\ m.cached]]
<1>1. /\ m.memo \in [Ids -> States \union {Absent, "pending"}] /\ m.cached \in BOOLEAN
      /\ \A i \in Ids : m.memo[i] = "pending" => m.cached /\ m.memo = memo
  BY StatesAssumption DEF CurrentMemo, InstanceInv, InstanceTypeOK
<1>2. CurrentBar \in Bars /\ (here = Absent => page.instance = Absent)
      /\ (here # Absent => CurrentBar = bar)
  BY NewBars DEF CurrentBar, InstanceInv, InstanceBarInv, ReloadsInv
<1>3. id # Absent
  BY DetailPagesAssumption
<1>4. /\ qs \in Seq(PageRequests) /\ DOMAIN qs = DOMAIN requests
      /\ \A r \in DOMAIN qs :
           /\ qs[r].id = requests[r].id
           /\ qs[r].loads \in Seq(Load)
           /\ \A l \in DOMAIN qs[r].loads : qs[r].loads[l] # "reload"
           /\ \A i \in Ids : m.memo[i] = "pending" => qs[r].cached = requests[r].cached
  <2>1. ASSUME NEW r \in DOMAIN rs
        PROVE  /\ qs[r] \in PageRequests /\ qs[r].id = rs[r].id /\ qs[r].loads = rs[r].loads
               /\ m.cached => qs[r].cached = rs[r].cached
    <3>1. rs[r] \in PageRequests /\ qs[r] = [rs[r] EXCEPT !.cached = @ /\ m.cached]
      BY DEF Unreloaded
    <3> QED BY <1>1, <3>1 DEF PageRequests
  <2>2. qs = [r \in DOMAIN rs |-> qs[r]] /\ DOMAIN qs = DOMAIN rs
    OBVIOUS
  <2> HIDE DEF qs, m
  <2>3. rs \in Seq(PageRequests) /\ qs \in Seq(PageRequests)
    BY <2>1, <2>2 DEF Unreloaded
  <2>4. ASSUME NEW r \in DOMAIN rs PROVE rs[r].loads \in Seq(Load)
    <3>1. rs[r] \in PageRequests
      BY <2>3
    <3> QED BY <3>1 DEF PageRequests
  <2> QED BY <1>1, <2>1, <2>2, <2>3, <2>4 DEF Unreloaded
<1>5. /\ memo' \in [Ids -> States \union {Absent, "pending"}] /\ requests' \in Seq(PageRequests)
      /\ PendingInv' /\ ReloadsInv'
      /\ \/ Waits' /\ bar' = CurrentBar /\ UNCHANGED <<page, strayed>>
         \/ \E state \in States : Delivered(loads, id, state)
  <2>1. CASE m.memo[id] = Absent
    <3> DEFINE new == [id |-> id, loads |-> loads, cached |-> TRUE]
    <3>1. /\ requests' = Append(qs, new)
          /\ memo' = [m.memo EXCEPT ![id] = "pending"] /\ bar' = CurrentBar
          /\ UNCHANGED <<page, strayed>>
      BY <2>1, StatesAssumption DEF Get
    <3>2. /\ new \in PageRequests /\ new.id = id /\ new.loads # <<>> /\ new.cached
          /\ \A l \in DOMAIN new.loads : new.loads[l] = "reload" => l = Len(new.loads)
      BY AskedLoads DEF PageRequests
    <3> HIDE DEF new, qs, m
    <3>3. /\ requests' \in Seq(PageRequests) /\ Len(requests) + 1 \in DOMAIN requests'
          /\ requests'[Len(requests) + 1] = new
          /\ DOMAIN requests' = DOMAIN requests \union {Len(requests) + 1}
          /\ \A r \in DOMAIN requests : requests'[r] = qs[r]
      <4>1. Len(qs) = Len(requests) /\ Len(qs) \in Nat
        BY <1>4 DEF InstanceInv, InstanceTypeOK
      <4> QED BY <1>4, <3>1, <3>2, <4>1
    <3>4. memo' \in [Ids -> States \union {Absent, "pending"}]
          /\ \A i \in Ids : memo'[i] = "pending" => i = id \/ m.memo[i] = "pending"
      BY <1>1, <3>1
    <3>5. PendingInv'
      <4> SUFFICES ASSUME NEW i \in Ids, memo'[i] = "pending"
                   PROVE  \E r \in DOMAIN requests' : requests'[r].id = i /\ requests'[r].cached
        BY DEF PendingInv
      <4>1. CASE i = id
        BY <4>1, <3>2, <3>3
      <4>2. CASE i # id
        <5>1. m.memo[i] = "pending" /\ memo[i] = "pending"
          BY <1>1, <3>4, <4>2
        <5>2. PICK r \in DOMAIN requests : requests[r].id = i /\ requests[r].cached
          BY <5>1 DEF InstanceInv, PendingInv
        <5> QED BY <1>4, <3>3, <5>1, <5>2
      <4> QED BY <4>1, <4>2
    <3>6. ReloadsInv' /\ Waits'
      BY <1>3, <1>4, <3>2, <3>3 DEF ReloadsInv, Waits
    <3> QED BY <3>1, <3>3, <3>4, <3>5, <3>6
  <2>2. CASE m.memo[id] = "pending"
    <3> DEFINE next(r) == IF qs[r].id = id /\ qs[r].cached
                          THEN [qs[r] EXCEPT !.loads = @ \o loads] ELSE qs[r]
    <3>1. /\ requests' = [r \in DOMAIN qs |-> next(r)]
          /\ memo' = m.memo /\ bar' = CurrentBar
          /\ UNCHANGED <<page, strayed>>
      BY <2>2, StatesAssumption DEF Get
    <3>2. ASSUME NEW r \in DOMAIN requests
          PROVE  /\ next(r) \in PageRequests
                 /\ next(r).id = requests[r].id /\ next(r).cached = requests[r].cached
                 /\ next(r).loads \in Seq(Load)
                 /\ \A l \in DOMAIN next(r).loads :
                      next(r).loads[l] = "reload" =>
                        requests[r].id = id /\ l = Len(next(r).loads)
                 /\ requests[r].id = id /\ requests[r].cached => next(r).loads # <<>>
      <4> HIDE DEF qs, m
      <4> DEFINE after == qs[r].loads \o loads
      <4>1. /\ after \in Seq(Load) /\ after # <<>>
            /\ \A l \in DOMAIN after : after[l] = "reload" => l = Len(after)
        BY <1>4, LoadsAppended
      <4>2. qs[r] \in PageRequests /\ qs[r].id = requests[r].id
            /\ qs[r].cached = requests[r].cached
        BY <1>4, <2>2
      <4>3. CASE qs[r].id = id /\ qs[r].cached
        <5>1. next(r) = [qs[r] EXCEPT !.loads = after]
          BY <4>3
        <5> HIDE DEF after, next
        <5> QED BY <4>1, <4>2, <4>3, <5>1 DEF PageRequests
      <4>4. CASE ~(qs[r].id = id /\ qs[r].cached)
        <5>1. next(r) = qs[r]
          BY <4>4
        <5> HIDE DEF after, next
        <5> QED BY <1>4, <4>2, <4>4, <5>1
      <4> QED BY <4>3, <4>4
    <3> HIDE DEF next, qs, m
    <3>3. /\ requests' \in Seq(PageRequests) /\ DOMAIN requests' = DOMAIN requests
          /\ \A r \in DOMAIN requests : requests'[r] = next(r)
      BY <1>4, <3>1, <3>2
    <3>4. PendingInv'
      <4>1. memo' = memo
        BY <1>1, <2>2, <3>1
      <4>2. \A r \in DOMAIN requests : /\ r \in DOMAIN requests'
                                      /\ requests'[r].id = requests[r].id
                                      /\ requests'[r].cached = requests[r].cached
        BY <3>2, <3>3
      <4> QED BY <4>1, <4>2 DEF PendingInv, InstanceInv
    <3>5. ReloadsInv'
      BY <1>3, <3>2, <3>3 DEF ReloadsInv
    <3>6. Waits'
      <4>1. memo[id] = "pending"
        BY <1>1, <2>2
      <4>2. PICK r \in DOMAIN requests : requests[r].id = id /\ requests[r].cached
        BY <4>1 DEF InstanceInv, PendingInv
      <4> QED BY <3>2, <3>3, <4>2 DEF Waits
    <3> QED BY <1>1, <3>1, <3>3, <3>4, <3>5, <3>6
  <2>3. CASE m.memo[id] \in States
    <3>1. Delivered(loads, id, m.memo[id]) /\ requests' = qs /\ memo' = m.memo
      BY <2>3, StatesAssumption DEF Get, States
    <3> HIDE DEF qs, m
    <3>2. PendingInv'
      <4> SUFFICES ASSUME NEW i \in Ids, m.memo[i] = "pending"
                   PROVE  \E r \in DOMAIN qs : qs[r].id = i /\ qs[r].cached
        BY <3>1 DEF PendingInv
      <4>1. PICK r \in DOMAIN requests : requests[r].id = i /\ requests[r].cached
        BY <1>1 DEF InstanceInv, PendingInv
      <4> QED BY <1>4, <4>1
    <3>3. ReloadsInv'
      BY <1>3, <1>4, <3>1 DEF ReloadsInv
    <3> QED BY <1>1, <1>4, <2>3, <3>1, <3>2, <3>3
  <2> QED BY <1>1, <2>1, <2>2, <2>3
<1> HIDE DEF m, qs
<1>6. CASE Waits' /\ bar' = CurrentBar /\ UNCHANGED <<page, strayed>>
  <2>1. InstanceTypeOK'
    BY <1>5, <1>6 DEF InstanceInv, InstanceTypeOK
  <2>2. ShownInv'
    BY <1>6 DEF InstanceInv, ShownInv, Waits
  <2>3. InstanceBarInv'
    BY <1>2, <1>6 DEF InstanceInv, InstanceBarInv
  <2> QED BY <1>5, <2>1, <2>2, <2>3 DEF InstanceInv
<1>7. ASSUME NEW state \in States, Delivered(loads, id, state) PROVE InstanceInv'
  <2>1. loads \in Seq(Load) /\ loads # <<>> /\ Last(loads) = "reload"
    BY AskedLoads
  <2>2. /\ page'.instance = [id |-> id, state |-> state] /\ page'.instance \in Shown
        /\ page'.canModify = (state = "active") /\ strayed' = FALSE
        /\ bar' \in Bars /\ BarOK(bar', "ProcessInstance", state)
    BY <1>7, <2>1, DeliveredOK
  <2>3. InstanceTypeOK'
    BY <1>5, <2>2 DEF InstanceInv, InstanceTypeOK
  <2>4. ShownInv' /\ InstanceBarInv'
    BY <2>2 DEF ShownInv, InstanceBarInv
  <2> QED BY <1>5, <2>3, <2>4 DEF InstanceInv
<1> QED BY <1>5, <1>6, <1>7

\* The inductive invariant.
THEOREM InstanceInvariant == MCSpec => []InstanceInv
<1>1. MCInit => InstanceInv
  <2> SUFFICES ASSUME MCInit PROVE InstanceInv
    OBVIOUS
  <2>1. /\ here = Absent /\ engine = [i \in Ids |-> "active"] /\ memo = [i \in Ids |-> Absent]
        /\ requests = <<>> /\ page = EmptyPage /\ strayed = FALSE
        /\ dialog = Absent /\ acting = {} /\ reloadDue = FALSE /\ bar = EmptyBar
    BY DEF MCInit, InstanceInit
  <2>2. page.instance = Absent /\ bar \in Bars
    BY <2>1 DEF EmptyPage, EmptyBar, Bars
  <2>3. requests \in Seq(PageRequests) /\ DOMAIN requests = {}
    BY <2>1
  <2>4. InstanceTypeOK
    BY <2>1, <2>2, <2>3 DEF InstanceTypeOK, States
  <2>5. PendingInv
    BY <2>1, StatesAssumption DEF PendingInv
  <2> QED
    BY <2>1, <2>2, <2>3, <2>4, <2>5 DEF InstanceInv, ReloadsInv, ShownInv, InstanceBarInv
<1>2. InstanceInv /\ [MCNext]_allVars => InstanceInv'
  <2> SUFFICES ASSUME InstanceInv, [MCNext]_allVars PROVE InstanceInv'
    OBVIOUS
  <2>0. itemType' = itemType
    BY InstanceMovesOnly
  <2>1. CASE UNCHANGED instanceOnly /\ (itemType = "ProcessInstance" => UNCHANGED bar)
    BY <2>0, <2>1 DEF instanceOnly, memoVars, InstanceInv, InstanceTypeOK, ReloadsInv, PendingInv,
       ShownInv, InstanceBarInv, Waits
  <2>2. CASE itemType = "ProcessInstance" /\ InstanceNext
    <3>1. ASSUME NEW id \in Ids, Visit(id) PROVE InstanceInv'
      <4>1. Unreloaded(Stray(WithoutReload(requests)))
        BY WithoutReloadOK, StrayOK
      <4>2. reloadDue' \in BOOLEAN
        BY <3>1 DEF Visit, InstanceInv, InstanceTypeOK
      <4> QED BY <2>0, <2>2, <3>1, <4>1, <4>2, GetInv DEF Visit
    <3>2. ASSUME NEW id \in Ids, EngineMoves(id) PROVE InstanceInv'
      <4>1. /\ engine' \in [Ids -> States]
            /\ UNCHANGED <<here, dialog, acting, reloadDue, pageVars, memoVars>>
        BY <3>2 DEF EngineMoves, InstanceInv, InstanceTypeOK
      <4> QED
        BY <2>0, <4>1 DEF pageVars, memoVars, InstanceInv, InstanceTypeOK, ReloadsInv, PendingInv,
           ShownInv, InstanceBarInv, Waits
    <3>3. CASE LeaveInstance
      <4>1. /\ here' = Absent /\ page' = EmptyPage /\ strayed' = FALSE
            /\ bar' = [EmptyBar EXCEPT !.typeKnown = bar.typeKnown]
            /\ requests' = [r \in DOMAIN requests |-> [requests[r] EXCEPT !.loads = <<>>]]
            /\ UNCHANGED <<engine, memo, dialog, acting, reloadDue>>
        BY <3>3 DEF LeaveInstance
      <4>2. ASSUME NEW r \in DOMAIN requests
            PROVE  /\ requests'[r] \in PageRequests /\ requests'[r].loads = <<>>
                   /\ requests'[r].id = requests[r].id /\ requests'[r].cached = requests[r].cached
        <5>1. requests[r] \in PageRequests /\ <<>> \in Seq(Load)
          BY DEF InstanceInv, InstanceTypeOK
        <5> QED BY <4>1, <5>1 DEF PageRequests
      <4>3. DOMAIN requests' = DOMAIN requests /\ requests' \in Seq(PageRequests)
        BY <4>1, <4>2 DEF InstanceInv, InstanceTypeOK
      <4>4. page'.instance = Absent /\ bar' \in Bars
        BY <2>2, <4>1, NewBars DEF EmptyPage, InstanceInv, InstanceBarInv
      <4>5. InstanceTypeOK'
        BY <4>1, <4>3, <4>4 DEF InstanceInv, InstanceTypeOK
      <4>6. PendingInv' /\ ReloadsInv'
        BY <4>1, <4>2, <4>3, <4>4 DEF InstanceInv, PendingInv, ReloadsInv
      <4> QED
        BY <4>4, <4>5, <4>6 DEF InstanceInv, ShownInv, InstanceBarInv
    <3>4. ASSUME NEW r \in DOMAIN requests, InstanceAnswered(r) PROVE InstanceInv'
      <4> DEFINE q == requests[r]
      <4>1. /\ Delivered(q.loads, q.id, engine[q.id])
            /\ memo' = IF q.cached THEN [memo EXCEPT ![q.id] = engine[q.id]] ELSE memo
            /\ requests' = RemoveAt(requests, r)
            /\ UNCHANGED <<here, engine, dialog, acting, reloadDue>>
        BY <3>4 DEF InstanceAnswered
      <4>2. q \in PageRequests /\ requests \in Seq(PageRequests)
        BY DEF InstanceInv, InstanceTypeOK
      <4>3. q.id \in Ids /\ q.loads \in Seq(Load) /\ q.cached \in BOOLEAN /\ engine[q.id] \in States
        BY <4>2 DEF PageRequests, InstanceInv, InstanceTypeOK
      <4>4. /\ requests' \in Seq(PageRequests)
            /\ \A j \in DOMAIN requests' : \E k \in DOMAIN requests :
                 k # r /\ requests'[j] = requests[k]
            /\ \A k \in DOMAIN requests : k # r => \E j \in DOMAIN requests' :
                 requests'[j] = requests[k]
        BY <4>1, <4>2, RemoveAtElements
      <4>5. /\ memo' \in [Ids -> States \union {Absent, "pending"}]
            /\ \A id \in Ids : memo'[id] = "pending" =>
                 memo[id] = "pending" /\ ~(q.id = id /\ q.cached)
        BY <4>1, <4>3, StatesAssumption DEF InstanceInv, InstanceTypeOK, States
      <4>6. PendingInv'
        <5> SUFFICES ASSUME NEW id \in Ids, memo'[id] = "pending"
                     PROVE  \E j \in DOMAIN requests' : requests'[j].id = id /\ requests'[j].cached
          BY DEF PendingInv
        <5>1. PICK k \in DOMAIN requests : requests[k].id = id /\ requests[k].cached
          BY <4>5 DEF InstanceInv, PendingInv
        <5>2. k # r
          BY <4>5, <5>1
        <5> QED BY <4>4, <5>1, <5>2
      <4>7. CASE q.loads = <<>>
        <5>1. UNCHANGED <<page, strayed, bar>>
          BY <4>1, <4>7 DEF Delivered
        <5>2. Waits => Waits'
          BY <4>4, <4>7 DEF Waits
        <5>3. InstanceTypeOK'
          BY <4>1, <4>4, <4>5, <5>1 DEF InstanceInv, InstanceTypeOK
        <5>4. ReloadsInv'
          BY <4>1, <4>4, <5>1 DEF InstanceInv, ReloadsInv
        <5> QED
          BY <2>0, <4>1, <4>6, <5>1, <5>2, <5>3, <5>4 DEF InstanceInv, ShownInv, InstanceBarInv
      <4>8. CASE q.loads # <<>>
        <5>1. /\ page'.instance = [id |-> q.id, state |-> engine[q.id]] /\ page'.instance \in Shown
              /\ Last(q.loads) = "reload" => page'.canModify = (engine[q.id] = "active")
              /\ strayed' = (Last(q.loads) # "reload")
              /\ bar' \in Bars /\ BarOK(bar', "ProcessInstance", engine[q.id])
          BY <2>2, <4>1, <4>3, <4>8, DeliveredOK
        <5>2. here # Absent
          BY <4>8 DEF InstanceInv, ReloadsInv
        <5>3. Last(q.loads) = "reload" => q.id = here
          BY <4>3, <4>8 DEF InstanceInv, ReloadsInv, Last
        <5>4. InstanceTypeOK'
          BY <4>1, <4>4, <4>5, <5>1 DEF InstanceInv, InstanceTypeOK
        <5>5. ReloadsInv'
          BY <4>1, <4>4, <5>2 DEF InstanceInv, ReloadsInv
        <5>6. page'.instance.id = q.id /\ page'.instance.state = engine[q.id]
          BY <5>1
        <5>7. ShownInv'
          BY <4>1, <5>1, <5>3, <5>6 DEF ShownInv
        <5>8. InstanceBarInv'
          BY <5>1, <5>6 DEF InstanceBarInv
        <5> QED BY <2>0, <2>2, <4>6, <5>4, <5>5, <5>7, <5>8 DEF InstanceInv
      <4> QED BY <4>7, <4>8
    <3>5. ASSUME NEW r \in DOMAIN requests, InstanceFailed(r) PROVE InstanceInv'
      <4> DEFINE q == requests[r]
      <4>1. /\ memo' = IF q.cached THEN [memo EXCEPT ![q.id] = Absent] ELSE memo
            /\ requests' = RemoveAt(requests, r)
            /\ strayed' = (strayed \/ q.loads # <<>>)
            /\ UNCHANGED <<here, engine, dialog, acting, reloadDue, page, bar>>
        BY <3>5 DEF InstanceFailed
      <4>2. q \in PageRequests /\ requests \in Seq(PageRequests)
        BY DEF InstanceInv, InstanceTypeOK
      <4>3. q.id \in Ids /\ q.cached \in BOOLEAN
        BY <4>2 DEF PageRequests
      <4>4. /\ requests' \in Seq(PageRequests)
            /\ \A j \in DOMAIN requests' : \E k \in DOMAIN requests :
                 k # r /\ requests'[j] = requests[k]
            /\ \A k \in DOMAIN requests : k # r => \E j \in DOMAIN requests' :
                 requests'[j] = requests[k]
        BY <4>1, <4>2, RemoveAtElements
      <4>5. /\ memo' \in [Ids -> States \union {Absent, "pending"}]
            /\ \A id \in Ids : memo'[id] = "pending" =>
                 memo[id] = "pending" /\ ~(q.id = id /\ q.cached)
        BY <4>1, <4>3, StatesAssumption DEF InstanceInv, InstanceTypeOK
      <4>6. PendingInv'
        <5> SUFFICES ASSUME NEW id \in Ids, memo'[id] = "pending"
                     PROVE  \E j \in DOMAIN requests' : requests'[j].id = id /\ requests'[j].cached
          BY DEF PendingInv
        <5>1. PICK k \in DOMAIN requests : requests[k].id = id /\ requests[k].cached
          BY <4>5 DEF InstanceInv, PendingInv
        <5>2. k # r
          BY <4>5, <5>1
        <5> QED BY <4>4, <5>1, <5>2
      <4>7. InstanceTypeOK'
        BY <4>1, <4>4, <4>5 DEF InstanceInv, InstanceTypeOK
      <4>8. ReloadsInv'
        BY <4>1, <4>4 DEF InstanceInv, ReloadsInv
      <4>9. ShownInv'
        <5> SUFFICES ASSUME page.instance # Absent, ~strayed' PROVE ShownInv'
          BY <4>1 DEF ShownInv
        <5>1. ~strayed /\ q.loads = <<>>
          BY <4>1
        <5>2. Waits => Waits'
          BY <4>4, <5>1 DEF Waits
        <5> QED BY <4>1, <5>1, <5>2 DEF InstanceInv, ShownInv
      <4> QED BY <2>0, <4>1, <4>6, <4>7, <4>8, <4>9 DEF InstanceInv, InstanceBarInv
    <3>6. CASE InstancePermissions
      <4>1. /\ PermissionsAnswered
            /\ UNCHANGED <<here, engine, dialog, acting, reloadDue, page, strayed, memoVars>>
        BY <3>6 DEF InstancePermissions
      <4>2. /\ bar' \in Bars
            /\ \A state \in States : BarOK(bar, "ProcessInstance", state) =>
                                     BarOK(bar', "ProcessInstance", state)
        BY <2>2, <4>1, CheckedOK DEF InstanceInv, InstanceBarInv, ItemTypes
      <4>3. page.instance # Absent => page.instance.state \in States
        BY DEF InstanceInv, InstanceTypeOK, Shown
      <4> QED
        BY <2>0, <4>1, <4>2, <4>3 DEF memoVars, InstanceInv, InstanceTypeOK, ReloadsInv, PendingInv,
           ShownInv, InstanceBarInv, Waits
    <3>7. CASE ReloadInstance
      <4>1. CASE here = Absent
        <5>1. UNCHANGED <<here, engine, dialog, acting, pageVars, memoVars>> /\ reloadDue' = FALSE
          BY <3>7, <4>1 DEF ReloadInstance
        <5> QED
          BY <2>0, <5>1 DEF pageVars, memoVars, InstanceInv, InstanceTypeOK, ReloadsInv, PendingInv,
             ShownInv, InstanceBarInv, Waits
      <4>2. CASE here # Absent
        <5>1. /\ Get(here, <<"reload">>, WithoutReload(requests))
              /\ here' = here /\ reloadDue' = FALSE /\ UNCHANGED <<engine, dialog, acting>>
          BY <3>7, <4>2 DEF ReloadInstance
        <5>2. here \in Ids /\ Unreloaded(WithoutReload(requests))
          BY <4>2, WithoutReloadOK DEF InstanceInv, InstanceTypeOK
        <5> QED BY <2>0, <2>2, <5>1, <5>2, GetInv
      <4> QED BY <4>1, <4>2
    <3>8. ASSUME NEW b \in {"suspend", "activate", "terminate"}, ClickInstance(b)
          PROVE  InstanceInv'
      <4>1. /\ dialog' \in PageActions
            /\ UNCHANGED <<here, engine, acting, reloadDue, pageVars, memoVars>>
        <5>1. here \in Ids /\ Effect(b) \in States
          BY <3>8 DEF ClickInstance, Effect, States, InstanceInv, InstanceTypeOK
        <5> QED BY <3>8, <5>1 DEF ClickInstance, PageActions
      <4> QED
        BY <2>0, <4>1 DEF pageVars, memoVars, InstanceInv, InstanceTypeOK, ReloadsInv, PendingInv,
           ShownInv, InstanceBarInv, Waits
    <3>9. CASE CancelInstance \/ ConfirmInstance
      <4>1. /\ acting' \subseteq PageActions /\ dialog' = Absent
            /\ UNCHANGED <<here, engine, reloadDue, pageVars, memoVars>>
        BY <3>9 DEF CancelInstance, ConfirmInstance, InstanceInv, InstanceTypeOK
      <4> QED
        BY <2>0, <4>1 DEF pageVars, memoVars, InstanceInv, InstanceTypeOK, ReloadsInv, PendingInv,
           ShownInv, InstanceBarInv, Waits
    <3>10. ASSUME NEW a \in acting, NEW s \in BOOLEAN, ActionAnswered(a, s) PROVE InstanceInv'
      <4>1. /\ acting' \subseteq PageActions /\ engine' \in [Ids -> States] /\ reloadDue' = TRUE
            /\ UNCHANGED <<here, dialog, pageVars, memoVars>>
        <5>1. a.id \in Ids /\ a.to \in States
          BY DEF InstanceInv, InstanceTypeOK, PageActions
        <5> QED BY <3>10, <5>1 DEF ActionAnswered, InstanceInv, InstanceTypeOK
      <4> QED
        BY <2>0, <4>1 DEF pageVars, memoVars, InstanceInv, InstanceTypeOK, ReloadsInv, PendingInv,
           ShownInv, InstanceBarInv, Waits
    <3>11. CASE InstanceTick
      <4>1. UNCHANGED <<here, engine, dialog, acting, reloadDue, pageVars, memo, requests>>
        BY <3>11 DEF InstanceTick
      <4> QED
        BY <2>0, <4>1 DEF pageVars, InstanceInv, InstanceTypeOK, ReloadsInv, PendingInv,
           ShownInv, InstanceBarInv, Waits
    <3> QED
      BY <2>2, <3>1, <3>2, <3>3, <3>4, <3>5, <3>6, <3>7, <3>8, <3>9, <3>10, <3>11 DEF InstanceNext
  <2> QED BY <2>1, <2>2, InstanceMovesOnly
<1> QED BY <1>1, <1>2, PTL DEF MCSpec

\* A page at rest shows the instance of its URL, and its toolbar fits.
THEOREM PageFits == MCSpec => []PageAtRestFitsItsInstance
<1>1. InstanceInv => PageAtRestFitsItsInstance
  <2> SUFFICES ASSUME InstanceInv, InstanceAtRest, ~strayed, ~bar.overtaken
               PROVE  /\ page.instance.id = here
                      /\ Fits(page.instance.state)
                      /\ page.canModify = (page.instance.state = "active")
    BY DEF PageAtRestFitsItsInstance
  <2>1. /\ page.instance # Absent /\ ~Waits /\ BarAtRest
        /\ page.instance.state \in States /\ itemType = "ProcessInstance"
        /\ BarOK(bar, itemType, page.instance.state)
    BY DEF InstanceInv, InstanceTypeOK, InstanceBarInv, InstanceAtRest, Shown, Waits
  <2> QED BY <2>1, BarFits DEF InstanceInv, ShownInv
<1> QED BY <1>1, InstanceInvariant, PTL

-----------------------------------------------------------------------------
(***************************************************************************)
(* The process definition page, for any versions and any number of loads.  *)
(* LoadedDetailsInv: a page that no load waits for, and whose last load    *)
(* was neither of another version nor empty, has what its URL says.        *)
(* MarksInv: whatever the order of loads, renderings and switches, no      *)
(* token of another version stays on the diagram, and a diagram that was   *)
(* drawn after the last switch has those that are switched on.             *)
(***************************************************************************)
DetailLoads == [nr : 1 .. MaxLoads, id : Ids, tracked : BOOLEAN]

DefinitionTypeOK ==
  /\ version \in Version /\ detailLoads \subseteq DetailLoads
  /\ details \in Details \union {Absent} /\ kept \in Version
  /\ itemFound \in BOOLEAN /\ detailStray \in BOOLEAN
  /\ rendered \in BOOLEAN /\ statsShown \in BOOLEAN /\ drawnHidden \in BOOLEAN
  /\ version # Absent => itemType = "ProcessDefinition"

LoadedDetailsInv ==
  /\ version = Absent => details = Absent /\ detailLoads = {}
  /\ version # Absent /\ itemFound /\ ~detailStray /\ detailLoads = {} =>
       kept = version /\ details # Absent /\ details.id = version

MarksInv ==
  /\ tokens \subseteq {kept} \ {Absent}
  /\ ~rendered => tokens = {}
  /\ rendered /\ ~drawnHidden => tokens = IF statsShown THEN {kept} \ {Absent} ELSE {}

DefinitionBarInv ==
  itemType = "ProcessDefinition" =>
    /\ bar \in Bars
    /\ details # Absent => BarOK(bar, "ProcessDefinition", details.state)

DefinitionInv == DefinitionTypeOK /\ LoadedDetailsInv /\ MarksInv /\ DefinitionBarInv

LEMMA DefinitionMovesOnly ==
  ASSUME [MCNext]_allVars
  PROVE  /\ UNCHANGED itemType
         /\ \/ itemType = "ProcessDefinition" /\ DefinitionNext
            \/ /\ UNCHANGED definitionOnly
               /\ itemType = "ProcessDefinition" => UNCHANGED bar
  BY DEF MCNext, allVars

\* A page that is left keeps nothing of its version (Destroyed).
LEMMA DestroyedInv ==
  ASSUME DefinitionInv, itemType' = itemType, Destroyed
  PROVE  DefinitionInv'
<1>1. bar \in Bars => [EmptyBar EXCEPT !.typeKnown = bar.typeKnown] \in Bars
  BY NewBars
<1>2. DefinitionTypeOK' /\ LoadedDetailsInv' /\ MarksInv'
  BY DEF Destroyed, DefinitionTypeOK, LoadedDetailsInv, MarksInv, Version
<1>3. DefinitionBarInv'
  BY <1>1 DEF Destroyed, DefinitionInv, DefinitionBarInv
<1> QED BY <1>2, <1>3 DEF DefinitionInv

\* The inductive invariant.
THEOREM DefinitionInvariant == MCSpec => []DefinitionInv
<1>1. MCInit => DefinitionInv
  <2>1. EmptyBar \in Bars
    BY DEF EmptyBar, Bars
  <2> QED
    BY <2>1 DEF MCInit, DefinitionInit, DefinitionInv, DefinitionTypeOK, LoadedDetailsInv, MarksInv,
       DefinitionBarInv, Version
<1>2. DefinitionInv /\ [MCNext]_allVars => DefinitionInv'
  <2> SUFFICES ASSUME DefinitionInv, [MCNext]_allVars PROVE DefinitionInv'
    OBVIOUS
  <2>0. itemType' = itemType
    BY DefinitionMovesOnly
  <2>1. CASE UNCHANGED definitionOnly /\ (itemType = "ProcessDefinition" => UNCHANGED bar)
    BY <2>0, <2>1 DEF definitionOnly, diagramVars, DefinitionInv, DefinitionTypeOK, LoadedDetailsInv,
       MarksInv, DefinitionBarInv
  <2>2. CASE itemType = "ProcessDefinition" /\ DefinitionNext
    <3>1. ASSUME NEW id \in Ids, VisitVersion(id) PROVE DefinitionInv'
      <4>1. /\ version' = id /\ bar' = IF version = Absent THEN InitButtons ELSE bar
            /\ detailLoads' \subseteq DetailLoads /\ detailLoads' # {}
            /\ UNCHANGED <<details, kept, itemFound, detailStray, rendered, tokens, statsShown,
                           drawnHidden>>
        BY <3>1 DEF VisitVersion, NewLoads, DetailLoads, DefinitionInv, DefinitionTypeOK
      <4>2. id # Absent
        BY DetailPagesAssumption
      <4>3. DefinitionTypeOK' /\ LoadedDetailsInv' /\ MarksInv'
        BY <2>0, <2>2, <4>1, <4>2
        DEF DefinitionInv, DefinitionTypeOK, LoadedDetailsInv, MarksInv, Version
      <4>4. DefinitionBarInv'
        BY <2>2, <4>1, NewBars DEF DefinitionInv, LoadedDetailsInv, DefinitionBarInv
      <4> QED BY <4>3, <4>4 DEF DefinitionInv
    <3>2. CASE LeaveDefinition
      BY <2>0, <3>2, DestroyedInv DEF LeaveDefinition
    <3>3. ASSUME NEW l \in detailLoads, NEW found \in BOOLEAN, NEW state \in DefinitionStates,
                 DetailsLoaded(l, found, state)
          PROVE  DefinitionInv'
      <4>1. /\ detailLoads' = detailLoads \ {l}
            /\ tokens' = (tokens \ {kept}) \union Marked(l.id, statsShown)
            /\ kept' = l.id
            /\ details' = IF found THEN [id |-> l.id, state |-> state] ELSE details
            /\ bar' = IF found THEN Updated(bar, "ProcessDefinition", state) ELSE bar
            /\ detailStray' = (l.id # version \/ ~found)
            /\ drawnHidden' = FALSE
            /\ UNCHANGED <<version, itemFound, rendered, statsShown>>
        BY <3>3 DEF DetailsLoaded, Cleared
      <4>2. /\ l.id \in Ids /\ l.id # Absent /\ version # Absent
            /\ [id |-> l.id, state |-> state] \in Details
        BY DetailPagesAssumption
        DEF DefinitionInv, DefinitionTypeOK, LoadedDetailsInv, DetailLoads, Details
      <4>3. details' \in Details \union {Absent} /\ detailLoads' \subseteq DetailLoads
        BY <4>1, <4>2 DEF DefinitionInv, DefinitionTypeOK
      <4>4. DefinitionTypeOK'
        BY <2>0, <4>1, <4>2, <4>3 DEF DefinitionInv, DefinitionTypeOK, Version
      <4>5. found => details'.id = l.id /\ details'.state = state
        BY <4>1
      <4>6. Absent \notin Details
        BY DefinitionPageAssumption
      <4>7. LoadedDetailsInv'
        BY <4>1, <4>2, <4>5, <4>6 DEF LoadedDetailsInv
      <4>8. MarksInv'
        BY <4>1, <4>2 DEF DefinitionInv, MarksInv, Marked
      <4>9. DefinitionBarInv'
        <5>1. state \in States /\ bar \in Bars
          BY <2>2 DEF DefinitionStates, States, DefinitionInv, DefinitionBarInv
        <5>2. found => bar' \in Bars /\ BarOK(bar', "ProcessDefinition", state)
          BY <4>1, <5>1, UpdatedOK DEF ItemTypes
        <5>3. CASE found
          BY <4>5, <5>2, <5>3 DEF DefinitionBarInv
        <5>4. CASE ~found
          BY <2>0, <4>1, <5>4 DEF DefinitionInv, DefinitionBarInv
        <5> QED BY <5>3, <5>4
      <4> QED BY <4>4, <4>7, <4>8, <4>9 DEF DefinitionInv
    <3>4. ASSUME NEW l \in detailLoads, DetailsFailed(l) PROVE DefinitionInv'
      BY <2>0, <3>4 DEF DetailsFailed, diagramVars, DefinitionInv, DefinitionTypeOK, LoadedDetailsInv,
         MarksInv, DefinitionBarInv
    <3>5. CASE ReloadDefinition
      <4>1. /\ detailLoads' \subseteq DetailLoads
            /\ detailLoads' = {} => detailLoads = {}
            /\ version = Absent => detailLoads' = detailLoads
            /\ UNCHANGED <<version, details, kept, itemFound, detailStray, bar, diagramVars>>
        <5>1. UNCHANGED <<version, details, kept, itemFound, detailStray, bar, diagramVars>>
          BY <3>5 DEF ReloadDefinition
        <5>2. CASE version = Absent
          BY <3>5, <5>1, <5>2 DEF ReloadDefinition, DefinitionInv, DefinitionTypeOK
        <5>3. CASE version # Absent
          <6>1. PICK load \in NewLoads(version, FALSE) : detailLoads' = detailLoads \union {load}
            BY <3>5, <5>3 DEF ReloadDefinition
          <6>2. load \in DetailLoads
            BY <5>3 DEF NewLoads, DetailLoads, DefinitionInv, DefinitionTypeOK, Version
          <6> QED BY <5>1, <5>3, <6>1, <6>2 DEF DefinitionInv, DefinitionTypeOK
        <5> QED BY <5>2, <5>3
      <4> QED
        BY <2>0, <4>1 DEF diagramVars, DefinitionInv, DefinitionTypeOK, LoadedDetailsInv, MarksInv,
           DefinitionBarInv
    <3>6. CASE XmlAnswered \/ XmlFailed
      <4>1. UNCHANGED <<version, detailVars, rendered, tokens, statsShown, drawnHidden>>
        BY <3>6 DEF XmlAnswered, XmlFailed
      <4> QED
        BY <2>0, <4>1 DEF detailVars, DefinitionInv, DefinitionTypeOK, LoadedDetailsInv, MarksInv,
           DefinitionBarInv
    <3>7. CASE DiagramRendered
      <4>1. /\ rendered' = TRUE /\ tokens' = {kept} \ {Absent}
            /\ drawnHidden' = (~statsShown /\ kept # Absent)
            /\ UNCHANGED <<version, detailVars, statsShown>>
        BY <3>7 DEF DiagramRendered
      <4>2. DefinitionTypeOK' /\ LoadedDetailsInv' /\ DefinitionBarInv'
        BY <2>0, <4>1 DEF detailVars, DefinitionInv, DefinitionTypeOK, LoadedDetailsInv,
           DefinitionBarInv
      <4>3. MarksInv'
        BY <4>1 DEF detailVars, MarksInv
      <4> QED BY <4>2, <4>3 DEF DefinitionInv
    <3>8. CASE ToggleStatistics
      <4>1. /\ statsShown' = ~statsShown /\ drawnHidden' = FALSE
            /\ tokens' = (tokens \ {kept}) \union Marked(kept, ~statsShown)
            /\ UNCHANGED <<version, detailVars, rendered>>
        BY <3>8 DEF ToggleStatistics, Cleared
      <4>2. DefinitionTypeOK' /\ LoadedDetailsInv' /\ DefinitionBarInv'
        BY <2>0, <4>1 DEF detailVars, DefinitionInv, DefinitionTypeOK, LoadedDetailsInv,
           DefinitionBarInv
      <4>3. MarksInv'
        BY <4>1 DEF detailVars, DefinitionInv, DefinitionTypeOK, MarksInv, Marked
      <4> QED BY <4>2, <4>3 DEF DefinitionInv
    <3>9. CASE \/ ClickDefinition \/ DefinitionRefused
               \/ \E confirmed \in BOOLEAN : AnswerDialog(confirmed)
      <4>1. UNCHANGED <<version, detailVars, diagramVars>>
        BY <3>9 DEF ClickDefinition, DefinitionRefused, AnswerDialog
      <4> QED
        BY <2>0, <4>1 DEF detailVars, diagramVars, DefinitionInv, DefinitionTypeOK, LoadedDetailsInv,
           MarksInv, DefinitionBarInv
    <3>10. ASSUME NEW deleted \in BOOLEAN, DefinitionActed(deleted) PROVE DefinitionInv'
      <4>1. CASE deleted
        BY <2>0, <3>10, <4>1, DestroyedInv DEF DefinitionActed
      <4>2. CASE ~deleted
        <5>1. UNCHANGED <<version, detailVars, diagramVars>>
          BY <3>10, <4>2 DEF DefinitionActed
        <5> QED
          BY <2>0, <5>1 DEF detailVars, diagramVars, DefinitionInv, DefinitionTypeOK,
             LoadedDetailsInv, MarksInv, DefinitionBarInv
      <4> QED BY <4>1, <4>2
    <3>11. CASE DefinitionPermissions
      <4>1. /\ PermissionsAnswered
            /\ UNCHANGED <<version, detailLoads, details, kept, itemFound, detailStray, diagramVars>>
        BY <3>11 DEF DefinitionPermissions
      <4>2. /\ bar' \in Bars
            /\ \A state \in States : BarOK(bar, "ProcessDefinition", state) =>
                                     BarOK(bar', "ProcessDefinition", state)
        BY <2>2, <4>1, CheckedOK DEF DefinitionInv, DefinitionBarInv, ItemTypes
      <4>3. details # Absent => details.state \in States
        BY DEF DefinitionInv, DefinitionTypeOK, Details, DefinitionStates, States
      <4> QED
        BY <2>0, <4>1, <4>2, <4>3 DEF diagramVars, DefinitionInv, DefinitionTypeOK, LoadedDetailsInv,
           MarksInv, DefinitionBarInv
    <3> QED
      BY <2>2, <3>1, <3>2, <3>3, <3>4, <3>5, <3>6, <3>7, <3>8, <3>9, <3>10, <3>11 DEF DefinitionNext
  <2> QED BY <2>1, <2>2, DefinitionMovesOnly
<1> QED BY <1>1, <1>2, PTL DEF MCSpec

\* A definition page at rest shows the version of its URL, on its diagram too.
THEOREM DefinitionShown == MCSpec => []DefinitionAtRestShowsItsVersion
<1>1. DefinitionInv => DefinitionAtRestShowsItsVersion
  <2> SUFFICES ASSUME DefinitionInv, DefinitionAtRest, ~detailStray
               PROVE  /\ kept = version /\ details.id = version
                      /\ ~bar.overtaken => Fits(details.state)
                      /\ rendered /\ ~drawnHidden => tokens = IF statsShown THEN {version} ELSE {}
    BY DEF DefinitionAtRestShowsItsVersion
  <2>1. kept = version /\ version # Absent /\ details # Absent /\ details.id = version
    BY DEF DefinitionInv, LoadedDetailsInv, DefinitionAtRest
  <2>2. /\ itemType = "ProcessDefinition" /\ details.state \in States /\ BarAtRest
        /\ BarOK(bar, itemType, details.state)
    BY <2>1 DEF DefinitionInv, DefinitionTypeOK, DefinitionBarInv, DefinitionAtRest, Details,
       DefinitionStates, States
  <2>3. ~bar.overtaken => Fits(details.state)
    BY <2>2, BarFits
  <2>4. rendered /\ ~drawnHidden => tokens = IF statsShown THEN {version} ELSE {}
    BY <2>1 DEF DefinitionInv, MarksInv
  <2> QED BY <2>1, <2>3, <2>4
<1> QED BY <1>1, DefinitionInvariant, PTL

-----------------------------------------------------------------------------
(***************************************************************************)
(* The heatmap, for any versions, timelines and number of timers.  Three   *)
(* things follow one another through timers and a request: the parameters, *)
(* the history and the data.  HeardInv says how far the page is: while     *)
(* parameters wait, the last of them are those of the event bus; when none *)
(* wait, the page asks for what they say, has the newest data that say it, *)
(* or has missed it.  CanvasInv: a heatmap is drawn exactly if the newest  *)
(* data are some, wherever they are on their way.                          *)
(***************************************************************************)
HeatParameters ==
  [active : {TRUE}, timeline : Timelines] \union [active : {FALSE}, timeline : Timelines \union {Absent}]
HeatTicks ==
  [kind : {"params"}, value : HeatParameters] \union
  [kind : {"data"}, value : HeatData \union {Absent}] \union {Unheard}

\* These data are the newest: the last on their way, or what is shown.
NewestData(d, ticks, shown) ==
  \/ \E i \in DOMAIN ticks :
       /\ ticks[i] = DataTick(d)
       /\ \A j \in DOMAIN ticks : j > i => ticks[j].kind # "data"
  \/ d = shown /\ \A i \in DOMAIN ticks : ticks[i].kind # "data"

ParamsWait(ticks) == \E i \in DOMAIN ticks : ticks[i].kind = "params"

\* The last parameters that wait, if any, are these.
LastParams(ticks, p) ==
  \A i \in DOMAIN ticks :
    ticks[i].kind = "params" /\ (\A j \in DOMAIN ticks : j > i => ticks[j].kind # "params") =>
      ticks[i].value = p

HeatmapTypeOK ==
  /\ heatHere \in Ids \union {Absent} /\ heatParams \in HeatParameters
  /\ heatSwitch \in BOOLEAN /\ heatSettings \in BOOLEAN
  /\ heatTicks \in Seq(HeatTicks) /\ heatAsked \in Histories \union {Absent}
  /\ heatCanvas \in BOOLEAN /\ heatDrawn \in BOOLEAN /\ heatPainted \in BOOLEAN
  /\ heatShown \in HeatData \union {Absent}
  /\ heatMissed \in BOOLEAN /\ heatOverruled \in BOOLEAN

SwitchInv ==
  /\ heatSwitch => heatSettings
  /\ heatOverruled \/ heatSwitch = heatParams.active \/ (heatSettings /\ ~heatSwitch)

CanvasInv ==
  /\ \A d \in HeatData \union {Absent} :
       NewestData(d, heatTicks, heatShown) => (heatDrawn <=> d # Absent)
  /\ ~heatCanvas => ~heatPainted

HeardInv ==
  /\ LastParams(heatTicks, heatParams)
  /\ heatHere = Absent =>
       /\ ~heatParams.active /\ heatTicks = <<>> /\ heatAsked = Absent
       /\ ~heatXml /\ ~heatSettings /\ ~heatCanvas
  /\ ~ParamsWait(heatTicks) /\ ~heatParams.active =>
       heatAsked = Absent /\ (heatMissed \/ ~heatDrawn)
  /\ ~ParamsWait(heatTicks) /\ heatParams.active =>
       \/ heatAsked = [id |-> heatHere, timeline |-> heatParams.timeline]
       \/ heatAsked = Absent /\ heatMissed
       \/ /\ heatAsked = Absent /\ heatDrawn /\ heatPainted
          /\ \A d \in HeatData \union {Absent} : NewestData(d, heatTicks, heatShown) =>
               d.id = heatHere /\ d.timeline = heatParams.timeline

HeatmapInv == HeatmapTypeOK /\ SwitchInv /\ CanvasInv /\ HeardInv

LEMMA HeatmapMovesOnly ==
  ASSUME [MCNext]_allVars
  PROVE  UNCHANGED itemType /\ (HeatmapNext \/ UNCHANGED heatVars)
  BY DEF MCNext, allVars

\* What comes last in the queue of timers is the newest.
LEMMA AppendedTick ==
  ASSUME NEW ticks \in Seq(HeatTicks), NEW shown, NEW t \in HeatTicks
  PROVE  /\ Append(ticks, t) \in Seq(HeatTicks)
         /\ t.kind = "params" =>
              /\ LastParams(Append(ticks, t), t.value) /\ ParamsWait(Append(ticks, t))
              /\ \A d : NewestData(d, Append(ticks, t), shown) => NewestData(d, ticks, shown)
         /\ t.kind = "data" =>
              /\ \A p : LastParams(ticks, p) => LastParams(Append(ticks, t), p)
              /\ ParamsWait(Append(ticks, t)) <=> ParamsWait(ticks)
              /\ \A d : NewestData(d, Append(ticks, t), shown) => t = DataTick(d)
<1> DEFINE n == Len(ticks) + 1
           s == Append(ticks, t)
<1>1. /\ s \in Seq(HeatTicks) /\ s[n] = t /\ n \in DOMAIN s
      /\ \A i \in DOMAIN s : i # n => i \in DOMAIN ticks /\ s[i] = ticks[i]
      /\ \A i \in DOMAIN ticks : i \in DOMAIN s /\ i < n /\ s[i] = ticks[i] /\ ~(i > n)
      /\ \A i \in DOMAIN s : ~(i > n) /\ (i # n => n > i)
  OBVIOUS
<1> HIDE DEF n, s
<1>2. CASE t.kind = "params"
  <2>1. LastParams(s, t.value) /\ ParamsWait(s)
    BY <1>1, <1>2 DEF LastParams, ParamsWait
  <2>2. ASSUME NEW d, NewestData(d, s, shown) PROVE NewestData(d, ticks, shown)
    <3>1. t # DataTick(d)
      BY <1>2 DEF DataTick
    <3> QED BY <1>1, <1>2, <2>2, <3>1 DEF NewestData
  <2> QED BY <1>1, <1>2, <2>1, <2>2 DEF s
<1>3. CASE t.kind = "data"
  <2>1. ASSUME NEW p, LastParams(ticks, p) PROVE LastParams(s, p)
    BY <1>1, <1>3, <2>1 DEF LastParams
  <2>2. ParamsWait(s) <=> ParamsWait(ticks)
    BY <1>1, <1>3 DEF ParamsWait
  <2>3. ASSUME NEW d, NewestData(d, s, shown) PROVE t = DataTick(d)
    BY <1>1, <1>3, <2>3 DEF NewestData
  <2> QED BY <1>1, <1>3, <2>1, <2>2, <2>3 DEF s
<1>4. CASE t.kind # "params" /\ t.kind # "data"
  BY <1>1, <1>4 DEF s
<1> QED BY <1>2, <1>3, <1>4

\* A timer that fires takes the first of the queue.
LEMMA FirstTick ==
  ASSUME NEW ticks \in Seq(HeatTicks), ticks # <<>>, NEW shown
  PROVE  /\ Head(ticks) \in HeatTicks /\ Tail(ticks) \in Seq(HeatTicks)
         /\ \A p : LastParams(ticks, p) => LastParams(Tail(ticks), p)
         /\ \A p : LastParams(ticks, p) /\ Head(ticks).kind = "params" /\ ~ParamsWait(Tail(ticks)) =>
              Head(ticks).value = p
         /\ Head(ticks).kind # "params" => (ParamsWait(Tail(ticks)) <=> ParamsWait(ticks))
         /\ Head(ticks).kind # "data" =>
              \A d : NewestData(d, Tail(ticks), shown) => NewestData(d, ticks, shown)
         /\ Head(ticks).kind = "data" =>
              \A d : NewestData(d, Tail(ticks), Head(ticks).value) => NewestData(d, ticks, shown)
<1> DEFINE t == Head(ticks)
           s == Tail(ticks)
<1>1. /\ t = ticks[1] /\ 1 \in DOMAIN ticks /\ t \in HeatTicks /\ s \in Seq(HeatTicks)
      /\ \A i \in DOMAIN s : i + 1 \in DOMAIN ticks /\ s[i] = ticks[i + 1] /\ i \in Int /\ i + 1 > 1
      /\ \A i \in DOMAIN ticks : i \in Int /\ (i # 1 => i - 1 \in DOMAIN s /\ s[i - 1] = ticks[i] /\ i > 1)
      /\ \A i \in DOMAIN ticks : i > 1 => i # 1
      /\ \A i \in DOMAIN s : \A j \in DOMAIN ticks : j > i + 1 => j # 1
  OBVIOUS
<1> HIDE DEF t, s
<1>2. \A i \in DOMAIN ticks : i = 1 \/ \E j \in DOMAIN s : i = j + 1 /\ s[j] = ticks[i]
  <2> SUFFICES ASSUME NEW i \in DOMAIN ticks, i # 1
               PROVE  \E j \in DOMAIN s : i = j + 1 /\ s[j] = ticks[i]
    OBVIOUS
  <2>1. i - 1 \in DOMAIN s /\ i = (i - 1) + 1 /\ s[i - 1] = ticks[i]
    BY <1>1
  <2> QED BY <2>1
<1>3. ASSUME NEW p, LastParams(ticks, p)
      PROVE  LastParams(s, p) /\ (t.kind = "params" /\ ~ParamsWait(s) => t.value = p)
  <2>1. ASSUME NEW i \in DOMAIN s, s[i].kind = "params",
               \A j \in DOMAIN s : j > i => s[j].kind # "params"
        PROVE  s[i].value = p
    <3>1. i + 1 \in DOMAIN ticks /\ ticks[i + 1] = s[i]
      BY <1>1
    <3>2. ASSUME NEW j \in DOMAIN ticks, j > i + 1 PROVE ticks[j].kind # "params"
      <4>1. PICK k \in DOMAIN s : j = k + 1 /\ s[k] = ticks[j]
        BY <1>1, <1>2, <3>2
      <4>2. k > i
        BY <1>1, <3>2, <4>1
      <4> QED BY <2>1, <4>1, <4>2
    <3> QED BY <1>3, <2>1, <3>1, <3>2 DEF LastParams
  <2>2. ASSUME t.kind = "params", ~ParamsWait(s) PROVE t.value = p
    <3>1. \A j \in DOMAIN ticks : j > 1 => ticks[j].kind # "params"
      <4> SUFFICES ASSUME NEW j \in DOMAIN ticks, j > 1 PROVE ticks[j].kind # "params"
        OBVIOUS
      <4>1. PICK k \in DOMAIN s : s[k] = ticks[j]
        BY <1>1, <1>2
      <4> QED BY <2>2, <4>1 DEF ParamsWait
    <3> QED BY <1>1, <1>3, <2>2, <3>1 DEF LastParams
  <2> QED BY <2>1, <2>2 DEF LastParams
<1>4. t.kind # "params" => (ParamsWait(s) <=> ParamsWait(ticks))
  <2>1. \A i \in DOMAIN s : \E j \in DOMAIN ticks : s[i] = ticks[j]
    BY <1>1
  <2>2. \A i \in DOMAIN ticks : ticks[i] = t \/ \E j \in DOMAIN s : s[j] = ticks[i]
    BY <1>1, <1>2
  <2> QED BY <2>1, <2>2 DEF ParamsWait
<1>5. ASSUME NEW d, NEW i \in DOMAIN s, s[i] = DataTick(d),
             \A j \in DOMAIN s : j > i => s[j].kind # "data"
      PROVE  NewestData(d, ticks, shown)
  <2>1. i + 1 \in DOMAIN ticks /\ ticks[i + 1] = DataTick(d)
    BY <1>1, <1>5
  <2>2. ASSUME NEW j \in DOMAIN ticks, j > i + 1 PROVE ticks[j].kind # "data"
    <3>1. PICK k \in DOMAIN s : j = k + 1 /\ s[k] = ticks[j]
      BY <1>1, <1>2, <2>2
    <3>2. k > i
      BY <1>1, <2>2, <3>1
    <3> QED BY <1>5, <3>1, <3>2
  <2> QED BY <2>1, <2>2 DEF NewestData
<1>6. ASSUME NEW d, d = shown, \A i \in DOMAIN s : s[i].kind # "data", t.kind # "data"
      PROVE  NewestData(d, ticks, shown)
  <2>1. \A i \in DOMAIN ticks : ticks[i].kind # "data"
    BY <1>1, <1>2, <1>6
  <2> QED BY <1>6, <2>1 DEF NewestData
<1>7. ASSUME NEW d, d = t.value, \A i \in DOMAIN s : s[i].kind # "data", t.kind = "data"
      PROVE  NewestData(d, ticks, shown)
  <2>1. \A j \in DOMAIN ticks : j > 1 => ticks[j].kind # "data"
    BY <1>1, <1>2, <1>7
  <2>2. t = DataTick(d)
    BY <1>1, <1>7 DEF HeatTicks, DataTick, Unheard
  <2> QED BY <1>1, <2>1, <2>2 DEF NewestData
<1>8. \A d : /\ t.kind # "data" /\ NewestData(d, s, shown) => NewestData(d, ticks, shown)
             /\ t.kind = "data" /\ NewestData(d, s, t.value) => NewestData(d, ticks, shown)
  BY <1>5, <1>6, <1>7 DEF NewestData
<1> QED BY <1>1, <1>3, <1>4, <1>8 DEF t, s

\* Parameters that nobody hears any more are no data.
LEMMA UnsubscribedTicks ==
  ASSUME NEW ticks \in Seq(HeatTicks), NEW shown
  PROVE  /\ Unsubscribed(ticks) \in Seq(HeatTicks)
         /\ \A d : NewestData(d, Unsubscribed(ticks), shown) => NewestData(d, ticks, shown)
<1> DEFINE s == Unsubscribed(ticks)
<1>1. /\ DOMAIN s = DOMAIN ticks /\ s = [i \in DOMAIN ticks |-> s[i]]
      /\ \A i \in DOMAIN ticks : s[i] = IF ticks[i].kind = "params" THEN Unheard ELSE ticks[i]
  BY DEF Unsubscribed
<1> HIDE DEF s
<1>2. \A i \in DOMAIN ticks : s[i] \in HeatTicks /\ (s[i].kind = "data" <=> ticks[i].kind = "data")
                             /\ (s[i].kind = "data" => s[i] = ticks[i])
  BY <1>1 DEF HeatTicks, Unheard
<1>3. s \in Seq(HeatTicks)
  BY <1>1, <1>2
<1>4. ASSUME NEW d, NewestData(d, s, shown) PROVE NewestData(d, ticks, shown)
  <2>1. DataTick(d).kind = "data"
    BY DEF DataTick
  <2> QED BY <1>1, <1>2, <1>4, <2>1 DEF NewestData
<1> QED BY <1>3, <1>4 DEF s

\* Sending parameters (Send): they are the last that wait.
LEMMA SentInv ==
  ASSUME HeatmapInv, NEW p \in HeatParameters, Send(p)
  PROVE  /\ heatTicks' \in Seq(HeatTicks) /\ heatParams' = p /\ heatSwitch' = p.active
         /\ LastParams(heatTicks', heatParams') /\ ParamsWait(heatTicks')
         /\ \A d : NewestData(d, heatTicks', heatShown) => NewestData(d, heatTicks, heatShown)
<1>1. /\ heatTicks' = Append(heatTicks, ParamsTick(p)) /\ heatParams' = p /\ heatSwitch' = p.active
      /\ heatTicks \in Seq(HeatTicks)
  BY DEF Send, HeatmapInv, HeatmapTypeOK
<1>2. ParamsTick(p) \in HeatTicks /\ ParamsTick(p).kind = "params" /\ ParamsTick(p).value = p
  BY DEF ParamsTick, HeatTicks
<1> QED BY <1>1, <1>2, AppendedTick

\* What sending does to a page that is open, and stays as it is otherwise
LEMMA SentKeepsInv ==
  ASSUME HeatmapInv, heatHere # Absent, NEW p \in HeatParameters, Send(p),
         heatSettings' \in BOOLEAN, p.active => heatSettings',
         heatOverruled' \in BOOLEAN, heatCanvas' \in BOOLEAN, heatPainted' \in BOOLEAN,
         ~heatCanvas' => ~heatPainted',
         UNCHANGED <<heatHere, heatAsked, heatDrawn, heatShown, heatMissed>>
  PROVE  HeatmapInv'
<1>1. /\ heatTicks' \in Seq(HeatTicks) /\ heatParams' = p /\ heatSwitch' = p.active
      /\ LastParams(heatTicks', heatParams') /\ ParamsWait(heatTicks')
      /\ \A d : NewestData(d, heatTicks', heatShown) => NewestData(d, heatTicks, heatShown)
  BY SentInv
<1>2. p.active \in BOOLEAN
  BY DEF HeatParameters
<1>3. HeatmapTypeOK'
  BY <1>1, <1>2 DEF HeatmapInv, HeatmapTypeOK
<1>4. SwitchInv' /\ CanvasInv'
  BY <1>1 DEF HeatmapInv, SwitchInv, CanvasInv
<1>5. HeardInv'
  BY <1>1 DEF HeardInv
<1> QED BY <1>3, <1>4, <1>5 DEF HeatmapInv

\* Drawing and clearing keep the newest data and what is drawn together.
LEMMA CreatedInv ==
  ASSUME HeatmapInv, NEW data \in HeatData, NEW ticks \in Seq(HeatTicks), Create(data, ticks),
         \A d \in HeatData \union {Absent} :
           NewestData(d, ticks, heatShown) => NewestData(d, heatTicks, heatShown)
  PROVE  /\ heatDrawn' \in BOOLEAN /\ heatPainted' \in BOOLEAN /\ heatTicks' \in Seq(HeatTicks)
         /\ \A d \in HeatData \union {Absent} :
              NewestData(d, heatTicks', heatShown) => (heatDrawn' <=> d # Absent)
         /\ \A p : LastParams(ticks, p) => LastParams(heatTicks', p)
         /\ ParamsWait(heatTicks') <=> ParamsWait(ticks)
         /\ heatCanvas => /\ heatDrawn' /\ heatPainted'
                          /\ \A d : NewestData(d, heatTicks', heatShown) => d = data
         /\ ~heatCanvas => heatTicks' = ticks /\ heatDrawn' = heatDrawn /\ heatPainted' = heatPainted
<1>1. /\ heatDrawn' = (heatDrawn \/ heatCanvas) /\ heatPainted' = (heatPainted \/ heatCanvas)
      /\ heatTicks' = IF heatCanvas THEN Append(ticks, DataTick(data)) ELSE ticks
      /\ heatCanvas \in BOOLEAN /\ heatDrawn \in BOOLEAN /\ heatPainted \in BOOLEAN
  BY DEF Create, HeatmapInv, HeatmapTypeOK
<1>2. /\ DataTick(data) \in HeatTicks /\ DataTick(data).kind = "data"
      /\ \A d : DataTick(data) = DataTick(d) => d = data
  BY DEF DataTick, HeatTicks
<1>3. data # Absent
  BY HeatmapAssumption
<1>4. CASE heatCanvas
  <2>1. heatTicks' = Append(ticks, DataTick(data)) /\ heatDrawn' /\ heatPainted'
    BY <1>1, <1>4
  <2>2. /\ heatTicks' \in Seq(HeatTicks)
        /\ \A p : LastParams(ticks, p) => LastParams(heatTicks', p)
        /\ ParamsWait(heatTicks') <=> ParamsWait(ticks)
        /\ \A d : NewestData(d, heatTicks', heatShown) => DataTick(data) = DataTick(d)
    BY <1>2, <2>1, AppendedTick
  <2> QED BY <1>1, <1>2, <1>3, <1>4, <2>1, <2>2
<1>5. CASE ~heatCanvas
  BY <1>1, <1>5 DEF HeatmapInv, CanvasInv
<1> QED BY <1>4, <1>5

LEMMA ClearedInv ==
  ASSUME HeatmapInv, NEW ticks \in Seq(HeatTicks), Destroy(ticks),
         \A d \in HeatData \union {Absent} :
           NewestData(d, ticks, heatShown) => NewestData(d, heatTicks, heatShown)
  PROVE  /\ heatDrawn' = (heatDrawn /\ ~heatCanvas) /\ heatTicks' \in Seq(HeatTicks)
         /\ \A d \in HeatData \union {Absent} :
              NewestData(d, heatTicks', heatShown) => (heatDrawn' <=> d # Absent)
         /\ \A p : LastParams(ticks, p) => LastParams(heatTicks', p)
         /\ ParamsWait(heatTicks') <=> ParamsWait(ticks)
<1>1. /\ heatDrawn' = (heatDrawn /\ ~heatCanvas)
      /\ heatTicks' = IF heatCanvas THEN Append(ticks, DataTick(Absent)) ELSE ticks
  BY DEF Destroy
<1>2. /\ DataTick(Absent) \in HeatTicks /\ DataTick(Absent).kind = "data"
      /\ \A d : DataTick(Absent) = DataTick(d) => d = Absent
  BY DEF DataTick, HeatTicks
<1>3. CASE heatCanvas
  <2>1. heatTicks' = Append(ticks, DataTick(Absent)) /\ ~heatDrawn'
    BY <1>1, <1>3
  <2>2. /\ heatTicks' \in Seq(HeatTicks)
        /\ \A p : LastParams(ticks, p) => LastParams(heatTicks', p)
        /\ ParamsWait(heatTicks') <=> ParamsWait(ticks)
        /\ \A d : NewestData(d, heatTicks', heatShown) => DataTick(Absent) = DataTick(d)
    BY <1>2, <2>1, AppendedTick
  <2> QED BY <1>1, <1>2, <2>1, <2>2
<1>4. CASE ~heatCanvas
  BY <1>1, <1>4 DEF HeatmapInv, HeatmapTypeOK, CanvasInv
<1> QED BY <1>3, <1>4

\* The inductive invariant.
THEOREM HeatmapInvariant == MCSpec => []HeatmapInv
<1>1. MCInit => HeatmapInv
  <2> SUFFICES ASSUME HeatmapInit PROVE HeatmapInv
    BY DEF MCInit
  <2>1. Inactive(Absent) \in HeatParameters /\ ~Inactive(Absent).active
    BY DEF Inactive, HeatParameters
  <2>2. HeatmapTypeOK /\ SwitchInv
    <3>1. <<>> \in Seq(HeatTicks)
      OBVIOUS
    <3>2. HeatmapTypeOK
      BY <2>1, <3>1 DEF HeatmapInit, HeatmapTypeOK
    <3>3. SwitchInv
      BY DEF HeatmapInit, SwitchInv, Inactive
    <3> QED BY <3>2, <3>3
  <2>3. CanvasInv
    BY DEF HeatmapInit, CanvasInv, NewestData
  <2>4. HeardInv
    BY <2>1 DEF HeatmapInit, HeardInv, LastParams
  <2> QED BY <2>2, <2>3, <2>4 DEF HeatmapInv
<1>2. HeatmapInv /\ [MCNext]_allVars => HeatmapInv'
  <2> SUFFICES ASSUME HeatmapInv, [MCNext]_allVars PROVE HeatmapInv'
    OBVIOUS
  <2>1. CASE UNCHANGED heatVars
    BY <2>1 DEF heatVars, HeatmapInv, HeatmapTypeOK, SwitchInv, CanvasInv, HeardInv
  <2>2. \A t \in Timelines \union {Absent} : Inactive(t) \in HeatParameters /\ ~Inactive(t).active
    BY DEF Inactive, HeatParameters
  <2>3. \A t \in Timelines : [active |-> TRUE, timeline |-> t] \in HeatParameters
    BY DEF HeatParameters
  <2>4. ASSUME NEW id \in Ids, OpenHeatmapOf(id) PROVE HeatmapInv'
    <3> DEFINE rest == Unsubscribed(heatTicks)
    <3>1. /\ heatHere' = id /\ heatTicks' = Append(rest, ParamsTick(heatParams)) /\ heatAsked' = Absent
          /\ UNCHANGED <<heatParams, heatSwitch, heatSettings, heatCanvas, heatDrawn, heatPainted,
                         heatShown, heatMissed, heatOverruled>>
      BY <2>4 DEF OpenHeatmapOf
    <3>2. /\ ParamsTick(heatParams) \in HeatTicks /\ ParamsTick(heatParams).kind = "params"
          /\ ParamsTick(heatParams).value = heatParams
      BY DEF ParamsTick, HeatTicks, HeatmapInv, HeatmapTypeOK
    <3>3. /\ rest \in Seq(HeatTicks)
          /\ \A d : NewestData(d, rest, heatShown) => NewestData(d, heatTicks, heatShown)
      BY UnsubscribedTicks DEF HeatmapInv, HeatmapTypeOK
    <3> HIDE DEF rest
    <3>4. /\ heatTicks' \in Seq(HeatTicks)
          /\ LastParams(heatTicks', heatParams) /\ ParamsWait(heatTicks')
          /\ \A d : NewestData(d, heatTicks', heatShown) => NewestData(d, rest, heatShown)
      BY <3>1, <3>2, <3>3, AppendedTick
    <3>5. id # Absent
      BY DetailPagesAssumption
    <3>6. HeatmapTypeOK' /\ SwitchInv' /\ CanvasInv'
      BY <3>1, <3>3, <3>4 DEF HeatmapInv, HeatmapTypeOK, SwitchInv, CanvasInv
    <3>7. HeardInv'
      BY <3>1, <3>4, <3>5 DEF HeardInv
    <3> QED BY <3>6, <3>7 DEF HeatmapInv
  <2>5. CASE LeaveHeatmap
    <3>1. HeatmapTypeOK' /\ SwitchInv'
      <4>1. <<>> \in Seq(HeatTicks)
        OBVIOUS
      <4>2. HeatmapTypeOK'
        BY <2>2, <2>5, <4>1 DEF LeaveHeatmap, HeatmapTypeOK
      <4>3. SwitchInv'
        BY <2>5 DEF LeaveHeatmap, SwitchInv, Inactive
      <4> QED BY <4>2, <4>3
    <3>2. CanvasInv'
      BY <2>5 DEF LeaveHeatmap, CanvasInv, NewestData
    <3>3. HeardInv'
      BY <2>2, <2>5 DEF LeaveHeatmap, HeardInv, LastParams
    <3> QED BY <3>1, <3>2, <3>3 DEF HeatmapInv
  <2>6. ASSUME NEW imported \in BOOLEAN, DiagramDrawn(imported) PROVE HeatmapInv'
    <3>1. /\ heatXml /\ ~heatXml' /\ heatCanvas' = imported /\ heatPainted' = FALSE
          /\ UNCHANGED <<heatHere, heatSettings, heatAsked, heatDrawn, heatShown, heatMissed,
                         heatOverruled>>
      BY <2>6 DEF DiagramDrawn
    <3>2. heatHere # Absent
      BY <3>1 DEF HeatmapInv, HeardInv
    <3>3. CASE heatCanvas
      <4>1. Send(Inactive(Absent))
        BY <2>6, <3>3 DEF DiagramDrawn
      <4> QED BY <2>2, <3>1, <3>2, <4>1, SentKeepsInv DEF HeatmapInv, HeatmapTypeOK
    <3>4. CASE ~heatCanvas
      <4>1. UNCHANGED <<heatParams, heatTicks, heatSwitch>> /\ ~heatPainted
        BY <2>6, <3>4 DEF DiagramDrawn, HeatmapInv, CanvasInv
      <4>2. heatPainted' = heatPainted
        BY <3>1, <4>1 DEF HeatmapInv, HeatmapTypeOK
      <4> QED
        BY <3>1, <3>2, <4>1, <4>2 DEF HeatmapInv, HeatmapTypeOK, SwitchInv, CanvasInv, HeardInv
    <3> QED BY <3>3, <3>4
  <2>7. ASSUME NEW timeline \in Timelines, SwitchOn(timeline) PROVE HeatmapInv'
    <3>1. /\ heatHere # Absent /\ heatSettings' = TRUE
          /\ UNCHANGED <<heatHere, heatAsked, heatXml, heatCanvas, heatDrawn, heatPainted, heatShown,
                         heatMissed>>
      BY <2>7 DEF SwitchOn
    <3>2. CASE heatSettings
      <4>1. /\ heatSwitch' = TRUE /\ heatOverruled' = (heatOverruled \/ ~heatParams.active)
            /\ UNCHANGED <<heatParams, heatTicks>>
        BY <2>7, <3>2 DEF SwitchOn
      <4>2. heatParams.active \in BOOLEAN
        BY DEF HeatmapInv, HeatmapTypeOK, HeatParameters
      <4>3. HeatmapTypeOK' /\ SwitchInv'
        BY <3>1, <4>1, <4>2 DEF HeatmapInv, HeatmapTypeOK, SwitchInv
      <4>4. CanvasInv' /\ HeardInv'
        BY <3>1, <4>1 DEF HeatmapInv, CanvasInv, HeardInv
      <4> QED BY <4>3, <4>4 DEF HeatmapInv
    <3>3. CASE ~heatSettings
      <4>1. Send([active |-> TRUE, timeline |-> timeline]) /\ UNCHANGED heatOverruled
        BY <2>7, <3>3 DEF SwitchOn
      <4> QED BY <2>3, <3>1, <4>1, SentKeepsInv DEF HeatmapInv, HeatmapTypeOK, CanvasInv
    <3> QED BY <3>2, <3>3
  <2>8. ASSUME NEW timeline \in Timelines, UpdateHeatmap(timeline) PROVE HeatmapInv'
    <3>1. /\ Send([active |-> TRUE, timeline |-> timeline]) /\ heatSettings /\ heatOverruled' = FALSE
          /\ UNCHANGED <<heatHere, heatSettings, heatAsked, heatCanvas, heatDrawn, heatPainted,
                         heatShown, heatMissed>>
      BY <2>8 DEF UpdateHeatmap
    <3>2. heatHere # Absent
      BY <3>1 DEF HeatmapInv, HeardInv
    <3> QED BY <2>3, <3>1, <3>2, SentKeepsInv DEF HeatmapInv, HeatmapTypeOK, CanvasInv
  <2>9. CASE SwitchOff
    <3>1. /\ heatSwitch /\ heatSwitch' = FALSE
          /\ UNCHANGED <<heatHere, heatParams, heatSettings, heatTicks, heatAsked, heatXml, heatCanvas,
                         heatDrawn, heatPainted, heatShown, heatMissed, heatOverruled>>
      BY <2>9 DEF SwitchOff
    <3> QED BY <3>1 DEF HeatmapInv, HeatmapTypeOK, SwitchInv, CanvasInv, HeardInv
  <2>10. CASE SettingsClosed
    <3>1. /\ heatSettings /\ heatSettings' = FALSE /\ heatOverruled' = FALSE
          /\ UNCHANGED <<heatHere, heatAsked, heatCanvas, heatDrawn, heatPainted, heatShown, heatMissed>>
      BY <2>10 DEF SettingsClosed
    <3>2. PICK t \in IF heatParams.timeline = Absent THEN Timelines ELSE {heatParams.timeline} :
            Send(Inactive(t))
      BY <2>10 DEF SettingsClosed
    <3>3. t \in Timelines
      BY <3>2 DEF HeatmapInv, HeatmapTypeOK, HeatParameters
    <3>4. heatHere # Absent
      BY <3>1 DEF HeatmapInv, HeardInv
    <3> QED BY <2>2, <3>1, <3>2, <3>3, <3>4, SentKeepsInv DEF HeatmapInv, HeatmapTypeOK, CanvasInv
  <2>11. CASE ClickDiagram
    <3>1. /\ heatCanvas /\ Send(Inactive(Absent))
          /\ UNCHANGED <<heatHere, heatSettings, heatAsked, heatCanvas, heatDrawn, heatPainted,
                         heatShown, heatMissed, heatOverruled>>
      BY <2>11 DEF ClickDiagram
    <3>2. heatHere # Absent
      BY <3>1 DEF HeatmapInv, HeardInv
    <3> QED BY <2>2, <3>1, <3>2, SentKeepsInv DEF HeatmapInv, HeatmapTypeOK, CanvasInv
  <2>12. CASE HeatmapTick
    <3> DEFINE t == Head(heatTicks)
               rest == Tail(heatTicks)
    <3>1. /\ heatTicks # <<>>
          /\ UNCHANGED <<heatHere, heatParams, heatSwitch, heatSettings, heatXml, heatCanvas,
                         heatOverruled>>
      BY <2>12 DEF HeatmapTick
    <3>2. heatHere # Absent /\ heatHere \in Ids
      BY <3>1 DEF HeatmapInv, HeardInv, HeatmapTypeOK
    <3>3. /\ t \in HeatTicks /\ rest \in Seq(HeatTicks) /\ LastParams(rest, heatParams)
          /\ t.kind = "params" /\ ~ParamsWait(rest) => t.value = heatParams
          /\ t.kind # "params" => (ParamsWait(rest) <=> ParamsWait(heatTicks))
          /\ t.kind # "data" =>
               \A d : NewestData(d, rest, heatShown) => NewestData(d, heatTicks, heatShown)
          /\ t.kind = "data" =>
               \A d : NewestData(d, rest, t.value) => NewestData(d, heatTicks, heatShown)
      BY <3>1, FirstTick DEF HeatmapInv, HeatmapTypeOK, HeardInv
    <3>4. \/ t.kind = "params" /\ HearParams(t.value)
          \/ /\ t.kind # "params" /\ heatTicks' = rest
             /\ heatShown' = IF t.kind = "data" THEN t.value ELSE heatShown
             /\ UNCHANGED <<heatAsked, heatDrawn, heatPainted, heatMissed>>
      BY <2>12 DEF HeatmapTick
    <3>5. /\ t.kind = "params" => t.value \in HeatParameters
          /\ t.kind = "data" => t.value \in HeatData \union {Absent}
      BY <3>3 DEF HeatTicks, Unheard
    <3>6. CASE t.kind # "params"
      <4>1. /\ heatTicks' = rest /\ heatShown' = IF t.kind = "data" THEN t.value ELSE heatShown
            /\ UNCHANGED <<heatAsked, heatDrawn, heatPainted, heatMissed>>
        BY <3>4, <3>6
      <4> HIDE DEF t, rest
      <4>2. \A d : NewestData(d, heatTicks', heatShown') => NewestData(d, heatTicks, heatShown)
        BY <3>3, <4>1
      <4>3. HeatmapTypeOK' /\ SwitchInv'
        BY <3>1, <3>3, <3>5, <4>1 DEF HeatmapInv, HeatmapTypeOK, SwitchInv
      <4>4. CanvasInv'
        BY <3>1, <4>1, <4>2 DEF HeatmapInv, CanvasInv
      <4>5. HeardInv'
        BY <3>1, <3>2, <3>3, <3>6, <4>1, <4>2 DEF HeatmapInv, HeardInv
      <4> QED BY <4>3, <4>4, <4>5 DEF HeatmapInv
    <3>7. CASE t.kind = "params"
      <4>1. HearParams(t.value) /\ t.value \in HeatParameters
        BY <3>4, <3>5, <3>7
      <4> DEFINE p == t.value
      <4>2. /\ heatAsked' = IF p.active THEN [id |-> heatHere, timeline |-> p.timeline] ELSE Absent
            /\ UNCHANGED <<heatShown, heatPainted>>
        BY <4>1 DEF HearParams
      <4>3. CASE p.active
        <5>1. heatTicks' = rest /\ UNCHANGED <<heatDrawn, heatMissed>>
          BY <4>1, <4>3 DEF HearParams
        <5> HIDE DEF t, rest
        <5>2. heatAsked' \in Histories
          BY <3>2, <4>1, <4>2, <4>3 DEF HeatParameters, Histories
        <5>3. HeatmapTypeOK' /\ SwitchInv'
          BY <3>1, <3>3, <4>2, <5>1, <5>2 DEF HeatmapInv, HeatmapTypeOK, SwitchInv
        <5>4. CanvasInv'
          BY <3>1, <3>3, <3>7, <4>2, <5>1 DEF HeatmapInv, CanvasInv
        <5>5. HeardInv'
          BY <3>1, <3>2, <3>3, <3>7, <4>2, <4>3, <5>1 DEF HeardInv
        <5> QED BY <5>3, <5>4, <5>5 DEF HeatmapInv
      <4>4. CASE ~p.active
        <5>1. /\ Destroy(rest)
              /\ heatMissed' = IF heatCanvas THEN FALSE ELSE heatMissed \/ heatShown # Absent \/ heatDrawn
          BY <4>1, <4>4 DEF HearParams
        <5> HIDE DEF t, rest
        <5>2. /\ heatDrawn' = (heatDrawn /\ ~heatCanvas) /\ heatTicks' \in Seq(HeatTicks)
              /\ \A d \in HeatData \union {Absent} :
                   NewestData(d, heatTicks', heatShown) => (heatDrawn' <=> d # Absent)
              /\ LastParams(heatTicks', heatParams)
              /\ ParamsWait(heatTicks') <=> ParamsWait(rest)
          BY <3>3, <3>7, <5>1, ClearedInv
        <5>3. heatMissed' \in BOOLEAN /\ heatDrawn' \in BOOLEAN
          BY <5>1, <5>2 DEF HeatmapInv, HeatmapTypeOK
        <5>4. HeatmapTypeOK' /\ SwitchInv'
          BY <3>1, <4>2, <4>4, <5>2, <5>3 DEF HeatmapInv, HeatmapTypeOK, SwitchInv
        <5>5. CanvasInv'
          BY <3>1, <4>2, <5>2 DEF HeatmapInv, CanvasInv
        <5>6. heatMissed' \/ ~heatDrawn'
          BY <5>1, <5>2
        <5>7. HeardInv'
          BY <3>1, <3>2, <3>3, <3>7, <4>2, <4>4, <5>2, <5>6 DEF HeardInv
        <5> QED BY <5>4, <5>5, <5>7 DEF HeatmapInv
      <4> QED BY <4>3, <4>4
    <3> QED BY <3>6, <3>7
  <2>13. ASSUME NEW empty \in BOOLEAN, HistoryRead(empty) PROVE HeatmapInv'
    <3> DEFINE data == Data(heatAsked.id, heatAsked.timeline, empty)
    <3>1. /\ heatAsked # Absent /\ Create(data, heatTicks)
          /\ heatMissed' = ~heatCanvas /\ heatAsked' = Absent
          /\ UNCHANGED <<heatHere, heatParams, heatSwitch, heatSettings, heatXml, heatCanvas,
                         heatShown, heatOverruled>>
      BY <2>13 DEF HistoryRead
    <3>2. heatHere # Absent /\ heatAsked \in Histories
      BY <3>1 DEF HeatmapInv, HeatmapTypeOK, HeardInv
    <3>3. data \in HeatData /\ data.id = heatAsked.id /\ data.timeline = heatAsked.timeline
      BY <3>2 DEF Data, Histories, HeatData
    <3> HIDE DEF data
    <3>4. /\ heatDrawn' \in BOOLEAN /\ heatPainted' \in BOOLEAN /\ heatTicks' \in Seq(HeatTicks)
          /\ \A d \in HeatData \union {Absent} :
               NewestData(d, heatTicks', heatShown) => (heatDrawn' <=> d # Absent)
          /\ LastParams(heatTicks', heatParams)
          /\ ParamsWait(heatTicks') <=> ParamsWait(heatTicks)
          /\ heatCanvas => /\ heatDrawn' /\ heatPainted'
                           /\ \A d : NewestData(d, heatTicks', heatShown) => d = data
          /\ ~heatCanvas => heatTicks' = heatTicks /\ heatPainted' = heatPainted
      BY <3>1, <3>3, CreatedInv DEF HeatmapInv, HeatmapTypeOK, HeardInv
    <3>5. HeatmapTypeOK' /\ SwitchInv'
      BY <3>1, <3>4 DEF HeatmapInv, HeatmapTypeOK, SwitchInv
    <3>6. CanvasInv'
      BY <3>1, <3>4 DEF HeatmapInv, CanvasInv
    <3>7. HeardInv'
      <4>1. ~ParamsWait(heatTicks) =>
              heatParams.active /\ heatAsked = [id |-> heatHere, timeline |-> heatParams.timeline]
        BY <3>1 DEF HeatmapInv, HeardInv
      <4>2. ~ParamsWait(heatTicks) => data.id = heatHere /\ data.timeline = heatParams.timeline
        BY <3>3, <4>1
      <4> QED BY <3>1, <3>2, <3>4, <4>1, <4>2 DEF HeardInv
    <3> QED BY <3>5, <3>6, <3>7 DEF HeatmapInv
  <2>14. CASE HistoryFailed
    <3>1. /\ heatAsked # Absent /\ heatAsked' = Absent /\ heatMissed' = TRUE
          /\ UNCHANGED <<heatHere, heatParams, heatSwitch, heatSettings, heatTicks, heatXml, heatCanvas,
                         heatDrawn, heatPainted, heatShown, heatOverruled>>
      BY <2>14 DEF HistoryFailed
    <3> QED BY <3>1 DEF HeatmapInv, HeatmapTypeOK, SwitchInv, CanvasInv, HeardInv
  <2>15. CASE ResizeCanvas
    <3>1. UNCHANGED <<heatHere, heatParams, heatSwitch, heatSettings, heatTicks, heatAsked, heatXml,
                      heatCanvas, heatDrawn, heatPainted, heatShown, heatMissed, heatOverruled>>
      BY <2>15 DEF ResizeCanvas
    <3> QED BY <3>1 DEF HeatmapInv, HeatmapTypeOK, SwitchInv, CanvasInv, HeardInv
  <2>16. CASE Redrawn
    <3> DEFINE data == IF heatShown = Absent THEN NoData ELSE heatShown
    <3>1. /\ Create(data, heatTicks)
          /\ heatMissed' = (heatMissed \/ heatShown = Absent \/ heatTicks # <<>>)
          /\ UNCHANGED <<heatHere, heatParams, heatSwitch, heatSettings, heatAsked, heatXml,
                         heatCanvas, heatShown, heatOverruled>>
      BY <2>16 DEF Redrawn
    <3>2. data \in HeatData
      BY DEF NoData, Data, HeatData, HeatmapInv, HeatmapTypeOK
    <3>3. heatShown # Absent => data = heatShown
      OBVIOUS
    <3> HIDE DEF data
    <3>4. /\ heatDrawn' \in BOOLEAN /\ heatPainted' \in BOOLEAN /\ heatTicks' \in Seq(HeatTicks)
          /\ \A d \in HeatData \union {Absent} :
               NewestData(d, heatTicks', heatShown) => (heatDrawn' <=> d # Absent)
          /\ LastParams(heatTicks', heatParams)
          /\ ParamsWait(heatTicks') <=> ParamsWait(heatTicks)
          /\ heatCanvas => /\ heatDrawn' /\ heatPainted'
                           /\ \A d : NewestData(d, heatTicks', heatShown) => d = data
          /\ ~heatCanvas => /\ heatTicks' = heatTicks /\ heatDrawn' = heatDrawn
                            /\ heatPainted' = heatPainted
      BY <3>1, <3>2, CreatedInv DEF HeatmapInv, HeatmapTypeOK, HeardInv
    <3>5. heatMissed' \in BOOLEAN
      BY <3>1 DEF HeatmapInv, HeatmapTypeOK
    <3>6. HeatmapTypeOK' /\ SwitchInv'
      BY <3>1, <3>4, <3>5 DEF HeatmapInv, HeatmapTypeOK, SwitchInv
    <3>7. CanvasInv'
      BY <3>1, <3>4 DEF HeatmapInv, CanvasInv
    <3>8. heatTicks = <<>> => NewestData(heatShown, heatTicks, heatShown)
      BY DEF NewestData
    <3>9. HeardInv'
      <4>1. heatHere = Absent => ~heatCanvas
        BY DEF HeatmapInv, HeardInv
      <4>2. ~heatMissed' => ~heatMissed /\ heatShown # Absent /\ heatTicks = <<>> /\ heatDrawn
        BY <3>1, <3>8 DEF HeatmapInv, CanvasInv, HeatmapTypeOK
      <4>3. ~heatMissed' => \A d : NewestData(d, heatTicks', heatShown) =>
                                   NewestData(d, heatTicks, heatShown)
        BY <3>3, <3>4, <3>8, <4>2
      <4> QED BY <3>1, <3>4, <4>1, <4>2, <4>3 DEF HeatmapInv, HeardInv
    <3> QED BY <3>6, <3>7, <3>9 DEF HeatmapInv
  <2> QED
    BY <2>1, <2>4, <2>5, <2>6, <2>7, <2>8, <2>9, <2>10, <2>11, <2>12, <2>13, <2>14, <2>15, <2>16,
       HeatmapMovesOnly DEF HeatmapNext
<1> QED BY <1>1, <1>2, PTL DEF MCSpec

\* At rest the heatmap shows what the switch and the settings say.
THEOREM HeatmapRight == MCSpec => []HeatmapAtRestIsRight
<1>1. HeatmapInv => HeatmapAtRestIsRight
  <2> SUFFICES ASSUME HeatmapInv, HeatmapAtRest
               PROVE  /\ heatOverruled \/ heatSwitch = heatParams.active
                      /\ heatMissed \/ (heatShown = Absent <=> ~heatParams.active)
                      /\ heatParams.active /\ ~heatMissed =>
                           /\ heatShown.id = heatHere /\ heatShown.timeline = heatParams.timeline
                           /\ heatPainted
    BY DEF HeatmapAtRestIsRight
  <2>1. heatTicks = <<>> /\ heatAsked = Absent /\ heatSettings = heatSwitch
    BY DEF HeatmapAtRest
  <2>2. NewestData(heatShown, heatTicks, heatShown) /\ ~ParamsWait(heatTicks)
    BY <2>1 DEF NewestData, ParamsWait
  <2>3. (heatDrawn <=> heatShown # Absent) /\ heatShown \in HeatData \union {Absent}
    BY <2>2 DEF HeatmapInv, CanvasInv, HeatmapTypeOK
  <2>4. heatOverruled \/ heatSwitch = heatParams.active
    BY <2>1 DEF HeatmapInv, SwitchInv
  <2>5. CASE ~heatParams.active
    BY <2>2, <2>3, <2>4, <2>5 DEF HeatmapInv, HeardInv
  <2>6. CASE heatParams.active
    <3>1. [id |-> heatHere, timeline |-> heatParams.timeline] # Absent
      <4>1. [id |-> heatHere, timeline |-> heatParams.timeline] \in Histories
        BY <2>6 DEF HeatmapAtRest, HeatmapInv, HeatmapTypeOK, HeatParameters, Histories
      <4> QED BY <4>1, HeatmapAssumption
    <3> QED BY <2>1, <2>2, <2>3, <2>4, <2>6, <3>1 DEF HeatmapInv, HeardInv
  <2> QED BY <2>5, <2>6
<1> QED BY <1>1, HeatmapInvariant, PTL

-----------------------------------------------------------------------------
(***************************************************************************)
(* The deployment page, for any deployments and files of any kinds.  The   *)
(* selected file reaches the page by a queue, the URL by a navigation and  *)
(* the panel by a timer, so each part is right or its correction is under  *)
(* way: HeardFileInv, UrlInv and PanelInv say which.  DefTabInv is what a  *)
(* tab asks for: a BPMN tab the file that is selected, even one the page   *)
(* has not heard of, a DMN tab what the URL names.                         *)
(***************************************************************************)
AnyFile == AllFiles \union {Absent}

DeploymentTypeOK ==
  /\ deployment \in Ids \union {Absent} /\ depView \in {"loading", "found", "missing"}
  /\ detailsMemo \in [Ids -> {"none", "pending", "answered"}] /\ detailsOld \in BOOLEAN
  /\ info \in {"none", "waiting", "shown", "failed"}
  /\ selectedResource \in AnyFile /\ delayed \in Seq(AnyFile)
  /\ pageResource \in AnyFile /\ fileShown \in AnyFile /\ depEnabled \in BOOLEAN
  /\ urlName \in Names /\ navigation \in {<<>>} \union {<<name>> : name \in Names}
  /\ defTab \in DefinitionTabs \union {Absent}
  /\ panel \in [visible : BOOLEAN, moved : BOOLEAN] /\ viewChanged \in BOOLEAN
  /\ versions \subseteq Diagrams /\ versionsAsked \subseteq Diagrams /\ versionGaps \subseteq Diagrams
  /\ nameless \in BOOLEAN

\* What is there before the details are, and whose file is selected after
DrawnInv ==
  /\ deployment = Absent => depView = "loading" /\ delayed = <<>>
  /\ depView # "found" => info = "none" /\ defTab = Absent
  /\ info = "shown" => selectedResource \in Files(deployment)
  /\ depView = "found" => Diagrams \subseteq versions \union versionsAsked \union versionGaps

HeardFileInv ==
  /\ deployment # Absent =>
       IF delayed = <<>> THEN pageResource = selectedResource
                         ELSE delayed[Len(delayed)] = selectedResource
  /\ info = "shown" /\ delayed = <<>> => fileShown = pageResource /\ depEnabled

UrlInv ==
  ~nameless => \/ navigation = <<>> /\ urlName = NameOf(pageResource)
               \/ navigation = <<NameOf(pageResource)>>

PanelInv ==
  depView = "found" /\ ~viewChanged /\ ~panel.moved =>
    (panel.visible <=> KindOf(fileShown) \in Diagrams)

DefTabInv ==
  /\ depView = "found" =>
       IF KindOf(pageResource) \notin Diagrams THEN defTab = Absent
       ELSE defTab # Absent /\ (defTab.kind = "bpmn" <=> KindOf(pageResource) = "bpmn")
  /\ defTab # Absent =>
       /\ defTab.rows \in {Absent, <<>>, <<defTab.asks>>}
       /\ defTab.asks = IF defTab.kind = "bpmn" THEN NameOf(selectedResource) ELSE urlName

DeploymentInv == DeploymentTypeOK /\ DrawnInv /\ HeardFileInv /\ UrlInv /\ PanelInv /\ DefTabInv

LEMMA DeploymentMovesOnly ==
  ASSUME [MCNext]_allVars
  PROVE  UNCHANGED itemType /\ (DeploymentNext \/ UNCHANGED deploymentVars)
  BY DEF MCNext, allVars

LEMMA FilesAreNamed ==
  /\ \A d \in Ids : /\ First(d) \in Files(d) /\ First(d) \in AllFiles /\ First(d) # Absent
                    /\ Files(d) \subseteq AllFiles /\ NameOf(First(d)) = 1
  /\ \A file \in AnyFile : NameOf(file) \in Names
  /\ \A file \in AllFiles : file # Absent /\ NameOf(file) = file.name
  /\ 1 \in Names
<1>1. 1 \in DOMAIN FileKinds
  BY FileKindsAssumption
<1>2. \A file \in AllFiles : file # Absent /\ NameOf(file) = file.name /\ file.name \in DOMAIN FileKinds
  BY FileKindsAssumption DEF NameOf, AllFiles
<1>3. \A d \in Ids : First(d) \in Files(d) /\ First(d).name = 1 /\ Files(d) \subseteq AllFiles
  BY <1>1 DEF First, Files, AllFiles
<1>4. NameOf(Absent) = Undefined
  BY DEF NameOf
<1> QED BY <1>1, <1>2, <1>3, <1>4 DEF Names, AnyFile

\* A tab that asks is a tab, and has no rows of anything else.
LEMMA AskingTabs ==
  ASSUME NEW name \in Names
  PROVE  /\ \A kind \in {"bpmn", "dmn", "drd"} :
              /\ Asking(kind, name) \in DefinitionTabs /\ Asking(kind, name) # Absent
              /\ Asking(kind, name).kind = kind /\ Asking(kind, name).asks = name
              /\ Asking(kind, name).rows = Absent
         /\ \A tab \in DefinitionTabs :
              /\ Asks(tab, name) \in DefinitionTabs /\ Asks(tab, name) # Absent
              /\ Asks(tab, name).kind = tab.kind /\ Asks(tab, name).asks = name
              /\ Asks(tab, name).rows = Absent
<1>1. \A kind \in {"bpmn", "dmn", "drd"} :
        /\ Asking(kind, name) \in DefinitionTabs
        /\ Asking(kind, name).kind = kind /\ Asking(kind, name).asks = name
        /\ Asking(kind, name).rows = Absent
  BY DEF Asking, DefinitionTabs
<1>2. \A tab \in DefinitionTabs :
        /\ Asks(tab, name) \in DefinitionTabs
        /\ Asks(tab, name).kind = tab.kind /\ Asks(tab, name).asks = name
        /\ Asks(tab, name).rows = Absent
  BY DEF Asks, DefinitionTabs
<1> QED BY <1>1, <1>2, FileKindsAssumption

\* The tab of the file the page has heard of
LEMMA FirstTab ==
  ASSUME DeploymentInv, NEW file \in AnyFile, NEW selected \in AnyFile,
         defTab # Absent /\ defTab.kind = "bpmn" => NameOf(selected) = NameOf(selectedResource),
         NEW tab, tab = TabFor(KindOf(file), selected, urlName)
  PROVE  /\ tab \in DefinitionTabs \union {Absent}
         /\ IF KindOf(file) \notin Diagrams THEN tab = Absent
            ELSE tab # Absent /\ (tab.kind = "bpmn" <=> KindOf(file) = "bpmn")
         /\ tab # Absent =>
              /\ tab.rows \in {Absent, <<>>, <<tab.asks>>}
              /\ tab.asks = IF tab.kind = "bpmn" THEN NameOf(selected) ELSE urlName
<1>1. urlName \in Names /\ defTab \in DefinitionTabs \union {Absent}
  BY DEF DeploymentInv, DeploymentTypeOK
<1>2. NameOf(selected) \in Names
  BY FilesAreNamed
<1>3. CASE KindOf(file) \notin Diagrams
  BY <1>3 DEF TabFor
<1>4. CASE KindOf(file) \in Diagrams /\ defTab # Absent /\ defTab.kind = KindOf(file)
  BY <1>1, <1>4 DEF TabFor, DeploymentInv, DefTabInv
<1>5. CASE KindOf(file) \in Diagrams /\ ~(defTab # Absent /\ defTab.kind = KindOf(file))
  <2> DEFINE name == IF KindOf(file) = "bpmn" THEN NameOf(selected) ELSE urlName
  <2>1. tab = Asking(KindOf(file), name) /\ KindOf(file) \in {"bpmn", "dmn", "drd"} /\ name \in Names
    BY <1>1, <1>2, <1>5 DEF TabFor, Diagrams
  <2>2. tab \in DefinitionTabs /\ tab # Absent /\ tab.kind = KindOf(file) /\ tab.asks = name
        /\ tab.rows = Absent
    BY <2>1, AskingTabs
  <2> QED BY <1>5, <2>2
<1> QED BY <1>3, <1>4, <1>5

\* The details are there (Drawn).
LEMMA DrawnKeepsInv ==
  ASSUME DeploymentInv, NEW d \in Ids, deployment' = d, depView # "found",
         NEW told \in Seq(AnyFile),
         IF told = <<>> THEN pageResource = selectedResource
                        ELSE told[Len(told)] = selectedResource,
         Drawn(d, told),
         detailsMemo' \in [Ids -> {"none", "pending", "answered"}], detailsOld' \in BOOLEAN,
         UNCHANGED <<pageOnly, urlName, panel, versions, versionGaps, nameless>>
  PROVE  DeploymentInv'
<1> DEFINE now == IF info' = "shown" THEN First(d) ELSE selectedResource
<1>1. /\ depView' = "found" /\ info' \in {"shown", "waiting"} /\ selectedResource' = now
      /\ delayed' = IF info' = "shown" THEN Append(told, First(d)) ELSE told
      /\ defTab' = TabFor(KindOf(pageResource), now, urlName)
      /\ navigation' = <<NameOf(pageResource)>>
      /\ versionsAsked' = Diagrams /\ viewChanged' = TRUE
      /\ UNCHANGED <<pageResource, fileShown, depEnabled, urlName, panel, versions, versionGaps, nameless>>
  BY DEF Drawn, pageOnly
<1>2. /\ pageResource \in AnyFile /\ First(d) \in AnyFile /\ now \in AnyFile
      /\ NameOf(pageResource) \in Names /\ First(d) \in Files(d)
  BY FilesAreNamed DEF DeploymentInv, DeploymentTypeOK, AnyFile
<1>3. defTab = Absent /\ d # Absent
  BY DetailPagesAssumption DEF DeploymentInv, DrawnInv
<1> HIDE DEF now
<1>4. /\ defTab' \in DefinitionTabs \union {Absent}
      /\ IF KindOf(pageResource) \notin Diagrams THEN defTab' = Absent
         ELSE defTab' # Absent /\ (defTab'.kind = "bpmn" <=> KindOf(pageResource) = "bpmn")
      /\ defTab' # Absent =>
           /\ defTab'.rows \in {Absent, <<>>, <<defTab'.asks>>}
           /\ defTab'.asks = IF defTab'.kind = "bpmn" THEN NameOf(now) ELSE urlName
  BY <1>1, <1>2, <1>3, FirstTab
<1>5. delayed' \in Seq(AnyFile)
      /\ IF delayed' = <<>> THEN pageResource = now /\ info' # "shown"
                            ELSE delayed'[Len(delayed')] = now
  <2>1. CASE info' = "shown"
    <3>1. delayed' = Append(told, First(d)) /\ now = First(d)
      BY <1>1, <2>1 DEF now
    <3> QED BY <1>2, <3>1
  <2>2. CASE info' # "shown"
    BY <1>1, <2>2 DEF now
  <2> QED BY <2>1, <2>2
<1>6. DeploymentTypeOK'
  BY <1>1, <1>2, <1>4, <1>5 DEF DeploymentInv, DeploymentTypeOK
<1>7. DrawnInv'
  <2>1. info' = "shown" => selectedResource' \in Files(d)
    BY <1>1, <1>2 DEF now
  <2> QED BY <1>1, <1>3, <2>1 DEF DrawnInv
<1>8. HeardFileInv' /\ UrlInv' /\ PanelInv'
  BY <1>1, <1>3, <1>5 DEF HeardFileInv, UrlInv, PanelInv
<1>9. DefTabInv'
  BY <1>1, <1>4 DEF DefTabInv
<1> QED BY <1>6, <1>7, <1>8, <1>9 DEF DeploymentInv

\* Another file is selected: the page will hear of it, a BPMN tab hears it now.
LEMMA SelectedInv ==
  ASSUME DeploymentInv, info \in {"waiting", "shown"}, info' = "shown",
         NEW file \in Files(deployment), Selected(file),
         defTab' = IF defTab # Absent /\ defTab.kind = "bpmn" THEN Asks(defTab, file.name) ELSE defTab,
         detailsMemo' \in [Ids -> {"none", "pending", "answered"}],
         UNCHANGED <<deployment, depView, detailsOld, pageOnly, urlName, navigation, panel, viewChanged,
                     versionVars, nameless>>
  PROVE  DeploymentInv'
<1>1. /\ selectedResource' = file /\ delayed' = Append(delayed, file)
      /\ UNCHANGED <<pageResource, fileShown, depEnabled, versions, versionsAsked, versionGaps>>
  BY DEF Selected, pageOnly, versionVars
<1>2. depView = "found" /\ deployment \in Ids
  BY DEF DeploymentInv, DeploymentTypeOK, DrawnInv
<1>3. file \in AnyFile /\ file \in AllFiles /\ NameOf(file) = file.name /\ file.name \in Names
  BY <1>2, FilesAreNamed DEF AnyFile
<1>4. delayed' \in Seq(AnyFile) /\ delayed' # <<>> /\ delayed'[Len(delayed')] = file
  BY <1>1, <1>3 DEF DeploymentInv, DeploymentTypeOK
<1>5. /\ defTab' \in DefinitionTabs \union {Absent}
      /\ defTab' # Absent <=> defTab # Absent
      /\ defTab' # Absent =>
           /\ defTab'.kind = defTab.kind
           /\ defTab'.rows \in {Absent, <<>>, <<defTab'.asks>>}
           /\ defTab'.asks = IF defTab'.kind = "bpmn" THEN NameOf(file) ELSE urlName
  BY <1>3, AskingTabs DEF DeploymentInv, DeploymentTypeOK, DefTabInv
<1>6. DeploymentTypeOK'
  BY <1>1, <1>3, <1>4, <1>5 DEF DeploymentInv, DeploymentTypeOK
<1>7. DrawnInv' /\ HeardFileInv' /\ UrlInv' /\ PanelInv'
  BY <1>1, <1>2, <1>4, DetailPagesAssumption
  DEF DeploymentInv, DrawnInv, HeardFileInv, UrlInv, PanelInv
<1>8. DefTabInv'
  BY <1>1, <1>2, <1>5 DEF DeploymentInv, DefTabInv
<1> QED BY <1>6, <1>7, <1>8 DEF DeploymentInv

\* The inductive invariant.
THEOREM DeploymentInvariant == MCSpec => []DeploymentInv
<1>1. MCInit => DeploymentInv
  <2> SUFFICES ASSUME DeploymentInit PROVE DeploymentInv
    BY DEF MCInit
  <2>1. <<>> \in Seq(AnyFile) /\ Absent \in AnyFile /\ Undefined \in Names /\ NameOf(Absent) = Undefined
    BY DEF AnyFile, Names, NameOf
  <2>2. DeploymentTypeOK
    BY <2>1 DEF DeploymentInit, DeploymentTypeOK, FirstPanel, Diagrams
  <2> QED
    BY <2>1, <2>2 DEF DeploymentInit, DeploymentInv, DrawnInv, HeardFileInv, UrlInv, PanelInv, DefTabInv
<1>2. DeploymentInv /\ [MCNext]_allVars => DeploymentInv'
  <2> SUFFICES ASSUME DeploymentInv, [MCNext]_allVars PROVE DeploymentInv'
    OBVIOUS
  <2>1. CASE UNCHANGED deploymentVars
    BY <2>1 DEF deploymentVars, detailsVars, pageOnly, versionVars, DeploymentInv, DeploymentTypeOK,
       DrawnInv, HeardFileInv, UrlInv, PanelInv, DefTabInv
  <2>2. ASSUME NEW d \in Ids, OpenDeployment(d) PROVE DeploymentInv'
    <3>1. /\ deployment = Absent /\ deployment' = d /\ GetDetails(d)
          /\ UNCHANGED <<pageOnly, urlName, panel, versions, versionGaps, nameless>>
      BY <2>2 DEF OpenDeployment
    <3>2. depView = "loading" /\ info = "none" /\ defTab = Absent /\ d # Absent
      BY <3>1, DetailPagesAssumption DEF DeploymentInv, DrawnInv
    <3>3. detailsMemo' \in [Ids -> {"none", "pending", "answered"}] /\ detailsOld' \in BOOLEAN
      BY <3>1 DEF GetDetails, CurrentDetails, DeploymentInv, DeploymentTypeOK
    <3>4. /\ <<selectedResource>> \in Seq(AnyFile) /\ <<selectedResource>> # <<>>
          /\ <<selectedResource>>[Len(<<selectedResource>>)] = selectedResource
      BY DEF DeploymentInv, DeploymentTypeOK
    <3>5. CASE detailsMemo'[d] = "answered"
      <4>1. Drawn(d, <<selectedResource>>)
        BY <2>2, <3>5 DEF OpenDeployment
      <4> QED BY <3>1, <3>2, <3>3, <3>4, <4>1, DrawnKeepsInv
    <3>6. CASE detailsMemo'[d] # "answered"
      <4>1. /\ depView' = "loading" /\ delayed' = <<selectedResource>>
            /\ UNCHANGED <<info, selectedResource, defTab, navigation, versionsAsked, viewChanged>>
            /\ UNCHANGED <<pageResource, fileShown, depEnabled>>
        BY <2>2, <3>6, <3>1 DEF OpenDeployment, pageOnly
      <4>2. DeploymentTypeOK'
        BY <3>1, <3>3, <3>4, <4>1 DEF DeploymentInv, DeploymentTypeOK
      <4>3. DrawnInv' /\ HeardFileInv' /\ UrlInv' /\ PanelInv'
        BY <3>1, <3>2, <3>4, <4>1 DEF DeploymentInv, DrawnInv, HeardFileInv, UrlInv, PanelInv
      <4>4. DefTabInv'
        BY <3>2, <4>1 DEF DefTabInv
      <4> QED BY <4>2, <4>3, <4>4 DEF DeploymentInv
    <3> QED BY <3>5, <3>6
  <2>3. CASE LeaveDeployment
    <3>1. <<>> \in Seq(AnyFile) /\ Absent \in AnyFile /\ Undefined \in Names /\ NameOf(Absent) = Undefined
      BY DEF AnyFile, Names, NameOf
    <3>2. UNCHANGED <<detailsMemo, detailsOld, selectedResource>>
      BY <2>3 DEF LeaveDeployment, detailsVars
    <3>3. DeploymentTypeOK'
      BY <2>3, <3>1, <3>2 DEF LeaveDeployment, DeploymentInv, DeploymentTypeOK, FirstPanel, Diagrams
    <3>4. DrawnInv' /\ HeardFileInv' /\ UrlInv' /\ PanelInv' /\ DefTabInv'
      BY <2>3, <3>1 DEF LeaveDeployment, DrawnInv, HeardFileInv, UrlInv, PanelInv, DefTabInv
    <3> QED BY <3>3, <3>4 DEF DeploymentInv
  <2>4. ASSUME NEW d \in Ids, FilesAnswered(d) PROVE DeploymentInv'
    <3>1. UNCHANGED <<deployment, pageOnly, urlName, panel, versions, versionGaps, nameless>>
      BY <2>4 DEF FilesAnswered
    <3>2. /\ detailsMemo' \in [Ids -> {"none", "pending", "answered"}]
          /\ detailsOld' \in BOOLEAN
      BY <2>4 DEF FilesAnswered, DeploymentInv, DeploymentTypeOK
    <3>3. CASE deployment = d /\ depView = "loading" /\ Drawn(d, delayed)
      <4>1. /\ delayed \in Seq(AnyFile) /\ d # Absent
            /\ IF delayed = <<>> THEN pageResource = selectedResource
                                 ELSE delayed[Len(delayed)] = selectedResource
        BY <3>3, DetailPagesAssumption DEF DeploymentInv, DeploymentTypeOK, HeardFileInv
      <4> QED BY <3>1, <3>2, <3>3, <4>1, DrawnKeepsInv
    <3>4. CASE /\ deployment = d /\ info = "waiting" /\ info' = "shown" /\ Selected(First(d))
               /\ defTab' = IF defTab # Absent /\ defTab.kind = "bpmn" THEN Asks(defTab, 1) ELSE defTab
               /\ UNCHANGED <<detailsOld, depView, navigation, versionsAsked, viewChanged>>
      <4>1. First(d) \in Files(deployment) /\ First(d).name = 1
        BY <3>4, FilesAreNamed DEF First
      <4>2. UNCHANGED versionVars
        BY <3>1, <3>4 DEF versionVars
      <4> QED BY <3>1, <3>2, <3>4, <4>1, <4>2, SelectedInv
    <3>5. CASE UNCHANGED <<detailsOld, depView, info, selectedResource, delayed, defTab, navigation,
                           versionsAsked, viewChanged>>
      BY <3>1, <3>2, <3>5 DEF pageOnly, DeploymentInv, DeploymentTypeOK, DrawnInv, HeardFileInv,
         UrlInv, PanelInv, DefTabInv
    <3> QED BY <2>4, <3>3, <3>4, <3>5 DEF FilesAnswered
  <2>5. ASSUME NEW d \in Ids, FilesFailed(d) PROVE DeploymentInv'
    <3>1. /\ depView' = IF deployment = d /\ depView = "loading" THEN "missing" ELSE depView
          /\ info' = IF deployment = d /\ info = "waiting" THEN "failed" ELSE info
          /\ detailsMemo' = [detailsMemo EXCEPT ![d] = "none"]
          /\ UNCHANGED <<deployment, detailsOld, selectedResource, delayed, pageOnly, urlName,
                         navigation, defTab, panel, viewChanged, versionVars, nameless>>
      BY <2>5 DEF FilesFailed
    <3>2. d # Absent
      BY DetailPagesAssumption
    <3>3. DeploymentTypeOK'
      BY <3>1 DEF pageOnly, versionVars, DeploymentInv, DeploymentTypeOK
    <3>4. DrawnInv' /\ HeardFileInv'
      BY <3>1, <3>2 DEF pageOnly, versionVars, DeploymentInv, DrawnInv, HeardFileInv
    <3>5. UrlInv' /\ PanelInv' /\ DefTabInv'
      BY <3>1 DEF pageOnly, DeploymentInv, UrlInv, PanelInv, DefTabInv
    <3> QED BY <3>3, <3>4, <3>5 DEF DeploymentInv
  <2>6. ASSUME NEW d \in Ids, NEW file \in Files(d), ClickFile(file) PROVE DeploymentInv'
    <3>1. /\ info = "shown" /\ info' = "shown" /\ file.of = deployment /\ Selected(file)
          /\ defTab' = IF defTab # Absent /\ defTab.kind = "bpmn" THEN Asks(defTab, file.name) ELSE defTab
          /\ UNCHANGED <<deployment, depView, detailsVars, pageOnly, urlName, navigation, panel,
                         viewChanged, versionVars, nameless>>
      BY <2>6 DEF ClickFile
    <3>2. file \in Files(deployment)
      BY <3>1 DEF Files
    <3>3. detailsMemo' \in [Ids -> {"none", "pending", "answered"}] /\ UNCHANGED detailsOld
      BY <3>1 DEF detailsVars, DeploymentInv, DeploymentTypeOK
    <3> QED BY <3>1, <3>2, <3>3, SelectedInv
  <2>7. CASE MemoAges
    <3>1. /\ detailsOld' = TRUE
          /\ UNCHANGED <<deployment, depView, detailsMemo, info, selectedResource, delayed, pageOnly,
                         urlName, navigation, defTab, panel, viewChanged, versionVars, nameless>>
      BY <2>7 DEF MemoAges
    <3> QED
      BY <3>1 DEF pageOnly, versionVars, DeploymentInv, DeploymentTypeOK, DrawnInv, HeardFileInv,
         UrlInv, PanelInv, DefTabInv
  <2>8. CASE SelectionHeard
    <3> DEFINE file == Head(delayed)
               rest == Tail(delayed)
               drawn == depView = "found"
    <3>1. /\ delayed # <<>> /\ delayed' = rest /\ pageResource' = file
          /\ depEnabled' = (depEnabled \/ drawn)
          /\ fileShown' = IF drawn THEN file ELSE fileShown
          /\ viewChanged' = (viewChanged \/ (drawn /\ file # fileShown))
          /\ defTab' = IF drawn THEN TabFor(KindOf(file), selectedResource, urlName) ELSE defTab
          /\ navigation' = <<NameOf(file)>> /\ nameless' = FALSE
          /\ UNCHANGED <<deployment, depView, detailsVars, info, selectedResource, urlName, panel,
                         versionVars>>
      BY <2>8 DEF SelectionHeard
    <3>2. /\ file \in AnyFile /\ rest \in Seq(AnyFile) /\ delayed \in Seq(AnyFile)
          /\ rest = <<>> => file = delayed[Len(delayed)]
          /\ rest # <<>> => rest[Len(rest)] = delayed[Len(delayed)]
      <4>1. delayed \in Seq(AnyFile) /\ delayed # <<>>
        BY <3>1 DEF DeploymentInv, DeploymentTypeOK
      <4>2. /\ file \in AnyFile /\ rest \in Seq(AnyFile) /\ file = delayed[1]
            /\ Len(rest) = Len(delayed) - 1 /\ Len(delayed) \in Nat \ {0}
            /\ \A i \in 1 .. Len(rest) : rest[i] = delayed[i + 1]
        BY <4>1
      <4> HIDE DEF file, rest
      <4>3. rest = <<>> => Len(delayed) = 1
        BY <4>1, <4>2
      <4>4. rest # <<>> => Len(rest) \in 1 .. Len(rest) /\ Len(rest) + 1 = Len(delayed)
        BY <4>1, <4>2
      <4> QED BY <4>1, <4>2, <4>3, <4>4
    <3>3. deployment # Absent
      BY <3>1 DEF DeploymentInv, DrawnInv
    <3>4. NameOf(file) \in Names
      BY <3>2, FilesAreNamed
    <3> HIDE DEF file, rest
    <3>5. drawn => /\ defTab' \in DefinitionTabs \union {Absent}
                   /\ IF KindOf(file) \notin Diagrams THEN defTab' = Absent
                      ELSE defTab' # Absent /\ (defTab'.kind = "bpmn" <=> KindOf(file) = "bpmn")
                   /\ defTab' # Absent =>
                        /\ defTab'.rows \in {Absent, <<>>, <<defTab'.asks>>}
                        /\ defTab'.asks =
                             IF defTab'.kind = "bpmn" THEN NameOf(selectedResource) ELSE urlName
      <4>1. selectedResource \in AnyFile
        BY DEF DeploymentInv, DeploymentTypeOK
      <4> QED BY <3>1, <3>2, <4>1, FirstTab
    <3>6. UNCHANGED <<detailsMemo, detailsOld, versions, versionsAsked, versionGaps>>
      BY <3>1 DEF detailsVars, versionVars
    <3>7. DeploymentTypeOK'
      BY <3>1, <3>2, <3>4, <3>5, <3>6 DEF DeploymentInv, DeploymentTypeOK
    <3>8. DrawnInv' /\ UrlInv'
      BY <3>1, <3>3, <3>6 DEF DeploymentInv, DrawnInv, UrlInv
    <3>9. HeardFileInv'
      <4>1. info = "shown" => drawn
        BY DEF DeploymentInv, DrawnInv
      <4> QED BY <3>1, <3>2, <3>3, <4>1 DEF DeploymentInv, HeardFileInv
    <3>10. PanelInv'
      BY <3>1 DEF DeploymentInv, PanelInv
    <3>11. DefTabInv'
      BY <3>1, <3>5 DEF DeploymentInv, DrawnInv, DefTabInv
    <3> QED BY <3>7, <3>8, <3>9, <3>10, <3>11 DEF DeploymentInv
  <2>9. CASE TabReplacesUrl
    <3>1. /\ navigation' = <<Undefined>> /\ nameless' = TRUE /\ Undefined \in Names
          /\ UNCHANGED <<deployment, depView, detailsVars, info, selectedResource, delayed, pageOnly,
                         urlName, defTab, panel, viewChanged, versionVars>>
      BY <2>9 DEF TabReplacesUrl, Names
    <3> QED
      BY <3>1 DEF detailsVars, pageOnly, versionVars, DeploymentInv, DeploymentTypeOK, DrawnInv,
         HeardFileInv, UrlInv, PanelInv, DefTabInv
  <2>10. CASE Navigated
    <3>1. /\ navigation # <<>> /\ navigation' = <<>> /\ urlName' = Head(navigation)
          /\ defTab' = IF defTab # Absent /\ defTab.kind # "bpmn" /\ urlName' # urlName
                       THEN Asks(defTab, urlName') ELSE defTab
          /\ UNCHANGED <<deployment, depView, detailsVars, info, selectedResource, delayed, pageOnly,
                         panel, viewChanged, versionVars, nameless>>
      BY <2>10 DEF Navigated
    <3>2. urlName' \in Names /\ navigation = <<urlName'>>
      BY <3>1 DEF DeploymentInv, DeploymentTypeOK
    <3>3. /\ defTab' \in DefinitionTabs \union {Absent}
          /\ defTab' # Absent <=> defTab # Absent
          /\ defTab' # Absent =>
               /\ defTab'.kind = defTab.kind
               /\ defTab'.rows \in {Absent, <<>>, <<defTab'.asks>>}
               /\ defTab'.asks = IF defTab'.kind = "bpmn" THEN NameOf(selectedResource) ELSE urlName'
      BY <3>1, <3>2, AskingTabs DEF DeploymentInv, DeploymentTypeOK, DefTabInv
    <3>4. DeploymentTypeOK'
      BY <3>1, <3>2, <3>3 DEF detailsVars, pageOnly, versionVars, DeploymentInv, DeploymentTypeOK
    <3>5. DrawnInv' /\ HeardFileInv' /\ PanelInv'
      BY <3>1, <3>3 DEF detailsVars, pageOnly, versionVars, DeploymentInv, DrawnInv, HeardFileInv, PanelInv
    <3>6. UrlInv'
      <4>1. ~nameless => urlName' = NameOf(pageResource)
        BY <3>1, <3>2 DEF DeploymentInv, UrlInv
      <4> QED BY <3>1, <4>1 DEF UrlInv, pageOnly
    <3>7. DefTabInv'
      BY <3>1, <3>3 DEF pageOnly, DeploymentInv, DefTabInv
    <3> QED BY <3>4, <3>5, <3>6, <3>7 DEF DeploymentInv
  <2>11. ASSUME NEW kind \in {"dmn", "drd"}, ChooseTab(kind) PROVE DeploymentInv'
    <3>1. /\ KindOf(pageResource) = "dmn" /\ defTab # Absent /\ defTab' = Asking(kind, urlName)
          /\ navigation' = <<NameOf(pageResource)>> /\ nameless' = FALSE
          /\ UNCHANGED <<deployment, depView, detailsVars, info, selectedResource, delayed, pageOnly,
                         urlName, panel, viewChanged, versionVars>>
      BY <2>11 DEF ChooseTab
    <3>2. urlName \in Names /\ NameOf(pageResource) \in Names
      BY FilesAreNamed DEF DeploymentInv, DeploymentTypeOK
    <3>3. /\ defTab' \in DefinitionTabs /\ defTab' # Absent /\ defTab'.kind = kind
          /\ defTab'.asks = urlName /\ defTab'.rows = Absent
      BY <3>1, <3>2, AskingTabs
    <3>4. DeploymentTypeOK'
      BY <3>1, <3>2, <3>3 DEF detailsVars, pageOnly, versionVars, DeploymentInv, DeploymentTypeOK
    <3>5. DrawnInv' /\ HeardFileInv' /\ PanelInv' /\ UrlInv'
      BY <3>1, <3>3 DEF detailsVars, pageOnly, versionVars, DeploymentInv, DrawnInv, HeardFileInv,
         PanelInv, UrlInv
    <3>6. DefTabInv'
      BY <3>1, <3>3 DEF pageOnly, DeploymentInv, DefTabInv, Diagrams
    <3> QED BY <3>4, <3>5, <3>6 DEF DeploymentInv
  <2>12. CASE TabLoaded
    <3>1. /\ defTab # Absent
          /\ UNCHANGED <<deployment, depView, detailsVars, info, selectedResource, delayed, pageOnly,
                         urlName, navigation, panel, viewChanged, versionVars, nameless>>
      BY <2>12 DEF TabLoaded
    <3>2. PICK found \in {<<>>, <<defTab.asks>>} : defTab' = [defTab EXCEPT !.rows = found]
      BY <2>12 DEF TabLoaded
    <3>3. defTab \in DefinitionTabs /\ defTab.asks \in Names
      BY <3>1 DEF DeploymentInv, DeploymentTypeOK, DefinitionTabs
    <3>4. /\ defTab' \in DefinitionTabs /\ defTab'.kind = defTab.kind /\ defTab'.asks = defTab.asks
          /\ defTab'.rows = found
      BY <3>2, <3>3 DEF DefinitionTabs
    <3>5. defTab' # Absent
      BY <3>4, FileKindsAssumption
    <3>6. DeploymentTypeOK'
      BY <3>1, <3>4 DEF detailsVars, pageOnly, versionVars, DeploymentInv, DeploymentTypeOK
    <3>7. DrawnInv' /\ HeardFileInv' /\ PanelInv' /\ UrlInv'
      BY <3>1 DEF detailsVars, pageOnly, versionVars, DeploymentInv, DrawnInv, HeardFileInv,
         PanelInv, UrlInv
    <3>8. DefTabInv'
      BY <3>1, <3>2, <3>4, <3>5 DEF pageOnly, DeploymentInv, DefTabInv
    <3> QED BY <3>6, <3>7, <3>8 DEF DeploymentInv
  <2>13. CASE ViewTimer
    <3>1. /\ viewChanged' = FALSE
          /\ panel' = [visible |-> KindOf(fileShown) \in Diagrams, moved |-> FALSE]
          /\ UNCHANGED <<deployment, depView, detailsVars, info, selectedResource, delayed, pageOnly,
                         urlName, navigation, defTab, versionVars, nameless>>
      BY <2>13 DEF ViewTimer
    <3>2. (KindOf(fileShown) \in Diagrams) \in BOOLEAN
      OBVIOUS
    <3>3. panel' \in [visible : BOOLEAN, moved : BOOLEAN] /\ (panel'.visible <=> KindOf(fileShown) \in Diagrams)
      BY <3>1, <3>2
    <3>4. DeploymentTypeOK'
      BY <3>1, <3>3 DEF detailsVars, pageOnly, versionVars, DeploymentInv, DeploymentTypeOK
    <3>5. DrawnInv' /\ HeardFileInv' /\ PanelInv' /\ UrlInv' /\ DefTabInv'
      BY <3>1, <3>3 DEF detailsVars, pageOnly, versionVars, DeploymentInv, DrawnInv, HeardFileInv,
         PanelInv, UrlInv, DefTabInv
    <3> QED BY <3>4, <3>5 DEF DeploymentInv
  <2>14. CASE ViewsChanged
    <3>1. /\ viewChanged' = TRUE
          /\ UNCHANGED <<deployment, depView, detailsVars, info, selectedResource, delayed, pageOnly,
                         urlName, navigation, defTab, panel, versionVars, nameless>>
      BY <2>14 DEF ViewsChanged
    <3> QED
      BY <3>1 DEF detailsVars, pageOnly, versionVars, DeploymentInv, DeploymentTypeOK, DrawnInv,
         HeardFileInv, UrlInv, PanelInv, DefTabInv
  <2>15. CASE TogglePanel
    <3>1. /\ panel' = [panel EXCEPT !.visible = ~@, !.moved = TRUE]
          /\ UNCHANGED <<deployment, depView, detailsVars, info, selectedResource, delayed, pageOnly,
                         urlName, navigation, defTab, viewChanged, versionVars, nameless>>
      BY <2>15 DEF TogglePanel
    <3>2. panel' \in [visible : BOOLEAN, moved : BOOLEAN] /\ panel'.moved
      BY <3>1 DEF DeploymentInv, DeploymentTypeOK
    <3> QED
      BY <3>1, <3>2 DEF detailsVars, pageOnly, versionVars, DeploymentInv, DeploymentTypeOK, DrawnInv,
         HeardFileInv, UrlInv, PanelInv, DefTabInv
  <2>16. ASSUME NEW kind \in Diagrams, VersionsAnswered(kind) \/ VersionsFailed(kind)
         PROVE  DeploymentInv'
    <3>1. UNCHANGED <<deployment, depView, detailsVars, info, selectedResource, delayed, pageOnly,
                      urlName, navigation, defTab, panel, viewChanged, nameless>>
      BY <2>16 DEF VersionsAnswered, VersionsFailed
    <3>2. /\ versions' \subseteq Diagrams /\ versionsAsked' \subseteq Diagrams
          /\ versionGaps' \subseteq Diagrams
          /\ versions \union versionsAsked \union versionGaps \subseteq
               versions' \union versionsAsked' \union versionGaps'
      <4>1. CASE VersionsAnswered(kind)
        BY <4>1 DEF VersionsAnswered, Diagrams, DeploymentInv, DeploymentTypeOK
      <4>2. CASE VersionsFailed(kind)
        BY <4>2 DEF VersionsFailed, DeploymentInv, DeploymentTypeOK
      <4> QED BY <2>16, <4>1, <4>2
    <3>3. DeploymentTypeOK'
      BY <3>1, <3>2 DEF detailsVars, pageOnly, DeploymentInv, DeploymentTypeOK
    <3>4. DrawnInv'
      BY <3>1, <3>2 DEF DeploymentInv, DrawnInv
    <3>5. HeardFileInv' /\ PanelInv' /\ UrlInv' /\ DefTabInv'
      BY <3>1 DEF pageOnly, DeploymentInv, HeardFileInv, PanelInv, UrlInv, DefTabInv
    <3> QED BY <3>3, <3>4, <3>5 DEF DeploymentInv
  <2> QED
    BY <2>1, <2>2, <2>3, <2>4, <2>5, <2>6, <2>7, <2>8, <2>9, <2>10, <2>11, <2>12, <2>13, <2>14, <2>15,
       <2>16, DeploymentMovesOnly DEF DeploymentNext
<1> QED BY <1>1, <1>2, PTL DEF MCSpec

\* A deployment page at rest shows the file that is selected, everywhere.
THEOREM DeploymentShown == MCSpec => []DeploymentAtRestShowsItsFile
<1>1. DeploymentInv => DeploymentAtRestShowsItsFile
  <2> DEFINE kind == KindOf(selectedResource)
  <2> SUFFICES ASSUME DeploymentInv, DeploymentAtRest
               PROVE  /\ selectedResource.of = deployment
                      /\ pageResource = selectedResource /\ fileShown = selectedResource /\ depEnabled
                      /\ nameless \/ urlName = selectedResource.name
                      /\ panel.moved \/ (panel.visible <=> kind \in Diagrams)
                      /\ IF kind \notin Diagrams THEN defTab = Absent
                         ELSE /\ defTab # Absent /\ (defTab.kind = "bpmn" <=> kind = "bpmn")
                              /\ \/ defTab.rows \in {Absent, <<>>, <<selectedResource.name>>}
                                 \/ nameless /\ kind = "dmn"
                              /\ kind \in versions \union versionsAsked \union versionGaps
    BY DEF DeploymentAtRestShowsItsFile
  <2>1. /\ depView = "found" /\ info = "shown" /\ delayed = <<>> /\ navigation = <<>> /\ ~viewChanged
        /\ deployment \in Ids /\ deployment # Absent
    BY DetailPagesAssumption DEF DeploymentAtRest, DeploymentInv, DeploymentTypeOK, DrawnInv
  <2>2. selectedResource \in Files(deployment) /\ selectedResource.of = deployment
    BY <2>1 DEF DeploymentInv, DrawnInv, Files
  <2>3. NameOf(selectedResource) = selectedResource.name
    BY <2>1, <2>2, FilesAreNamed
  <2>4. pageResource = selectedResource /\ fileShown = selectedResource /\ depEnabled
    BY <2>1 DEF DeploymentInv, HeardFileInv
  <2>5. nameless \/ urlName = selectedResource.name
    BY <2>1, <2>3, <2>4 DEF DeploymentInv, UrlInv
  <2>6. panel.moved \/ (panel.visible <=> kind \in Diagrams)
    BY <2>1, <2>4 DEF DeploymentInv, PanelInv
  <2>7. CASE kind \notin Diagrams
    BY <2>1, <2>2, <2>4, <2>5, <2>6, <2>7 DEF DeploymentInv, DefTabInv
  <2>8. CASE kind \in Diagrams
    <3>1. /\ defTab # Absent /\ (defTab.kind = "bpmn" <=> kind = "bpmn")
          /\ defTab.rows \in {Absent, <<>>, <<defTab.asks>>}
          /\ defTab.asks = IF defTab.kind = "bpmn" THEN NameOf(selectedResource) ELSE urlName
      BY <2>1, <2>4, <2>8 DEF DeploymentInv, DefTabInv
    <3>2. kind = "dmn" \/ kind = "bpmn"
      BY <2>8 DEF Diagrams
    <3>3. defTab.rows \in {Absent, <<>>, <<selectedResource.name>>} \/ (nameless /\ kind = "dmn")
      <4>1. defTab.asks = selectedResource.name \/ (nameless /\ kind = "dmn")
        <5>1. CASE kind = "bpmn"
          <6>1. defTab.asks = NameOf(selectedResource)
            BY <3>1, <5>1
          <6> QED BY <2>3, <6>1
        <5>2. CASE kind = "dmn"
          <6>1. defTab.asks = urlName
            BY <3>1, <5>2
          <6> QED BY <2>5, <5>2, <6>1
        <5> QED BY <3>2, <5>1, <5>2
      <4> HIDE DEF kind
      <4> QED BY <3>1, <4>1
    <3>4. kind \in versions \union versionsAsked \union versionGaps
      BY <2>1, <2>8 DEF DeploymentInv, DrawnInv
    <3> QED BY <2>2, <2>4, <2>5, <2>6, <2>8, <3>1, <3>3, <3>4
  <2> QED BY <2>7, <2>8
<1> QED BY <1>1, DeploymentInvariant, PTL
=============================================================================
