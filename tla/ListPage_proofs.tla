-------------------------- MODULE ListPage_proofs ---------------------------
(***************************************************************************)
(* For any lists, values and bounds: the state of a list page is well      *)
(* typed, and a list at rest shows the rows its URL asks for, unless an    *)
(* answer was lost or overtook another.                                    *)
(*                                                                         *)
(* The second is not inductive.  FollowsUrl says that what the list parsed *)
(* last is what its URL says now, whoever changed it, and LastIsMine that  *)
(* the request made last, or the rows once nothing is under way, belong to *)
(* what was parsed last.                                                   *)
(***************************************************************************)
EXTENDS ListPage, TLAPS

FollowsUrl == ready /\ ~Bare(url) => mine = Question(here, url)

LastIsMine ==
  ready /\ ~Bare(url) /\ ~disturbed =>
    /\ asked[here].toggles = mine.toggles
    /\ requests # <<>> => requests[Len(requests)] = mine
    /\ requests = <<>> /\ ~loading => rows = mine

\* A list that has rows is open and has parsed parameters.
RowsAreParsed ==
  /\ ready => here # Absent
  /\ rows # Absent \/ requests # <<>> => mine # Absent /\ ready

IInv == TypeOK /\ FollowsUrl /\ LastIsMine /\ RowsAreParsed

-----------------------------------------------------------------------------
\* A question is a question, what it contains can be asked again, and what
\* is saved are settings.
LEMMA QuestionType ==
  ASSUME NEW l \in Lists, NEW u \in Params
  PROVE  /\ Question(l, u) \in Query
         /\ Asked(Question(l, u)) \in Askable
         /\ SettingsToSave(l, u) \in Settings
<1>1. Parsed(l, u) \in Settings /\ Content(Parsed(l, u).toggles) \in Lists \union {Absent}
  BY DEF Parsed, Settings, Content, Params
<1>2. Content(u.sorting) \in Sorts \union {Absent}
  BY DEF Content, Params
<1>3. (IF u.page = Absent THEN 1 ELSE u.page) \in Pages
  BY PagesAssumption DEF Params
<1>4. Parsed(l, u).filters \in Filters \union {Absent}
  BY <1>1 DEF Settings
<1>5. Question(l, u) \in Query
  BY <1>1, <1>2, <1>3, <1>4 DEF Question, Query
<1>6. Asked(Question(l, u)) \in Askable
  BY <1>5 DEF Asked, Askable, Query
<1>7. SettingsToSave(l, u) \in Settings
  BY <1>1 DEF SettingsToSave, Settings
<1> QED BY <1>5, <1>6, <1>7

\* Completing a URL with what was saved or with the defaults gives a URL.
LEMMA MergeType ==
  ASSUME TypeOK, NEW l \in Lists, NEW u \in Params
  PROVE  Merge(u, Restored(l)) \in Params /\ Merge(u, Defaults(l)) \in Params
<1>1. Defaults(l) \in Settings
  BY DefaultAssumption DEF Defaults, Settings
<1>2. saved[l] \in Settings
  BY DEF TypeOK
<1>3. Restored(l) \in Settings
  BY <1>1, <1>2 DEF Restored, Settings, Content
<1> QED BY <1>1, <1>3 DEF Merge, Params, Settings

\* The router tells the open list of a URL: it loads, or nothing is there to
\* be parsed.
LEMMA EmittedType ==
  ASSUME TypeOK, NEW l \in Lists, NEW u \in Params, Emitted(l, u)
  PROVE  /\ url' \in Params
         /\ saved' \in [Lists -> Settings]
         /\ asked' \in [Lists -> Askable]
         /\ mine' \in Query \union {Absent}
         /\ requests' \in Seq(Query)
         /\ rows' \in Query \union {Absent}
         /\ loading' \in BOOLEAN /\ disturbed' \in BOOLEAN
<1> DEFINE v == IF Bare(u) THEN Merge(u, Restored(l)) ELSE u
<1>1. v \in Params
  BY MergeType
<1>2. url' = v
  BY DEF Emitted
<1>3. CASE Bare(v)
  BY <1>1, <1>2, <1>3 DEF Emitted, listVars, viewVars, TypeOK
<1>4. CASE ~Bare(v)
  <2>1. /\ saved' = [saved EXCEPT ![l] = SettingsToSave(l, v)]
        /\ asked' = [asked EXCEPT ![l] = Asked(Question(l, v))]
        /\ mine' = Question(l, v)
        /\ disturbed' = (disturbed /\ requests # <<>>)
        /\ LoadData(Question(l, v))
    BY <1>4 DEF Emitted
  <2>2. /\ Question(l, v) \in Query
        /\ Asked(Question(l, v)) \in Askable
        /\ SettingsToSave(l, v) \in Settings
    BY <1>1, QuestionType
  <2> HIDE DEF v
  <2>3. requests' \in Seq(Query) /\ rows' = Absent /\ loading' = TRUE
    BY <2>1, <2>2 DEF LoadData, TypeOK
  <2>4. disturbed' \in BOOLEAN
    BY Zenon, <2>1 DEF TypeOK
  <2>5. saved' \in [Lists -> Settings] /\ asked' \in [Lists -> Askable]
    BY <2>1, <2>2 DEF TypeOK
  <2> QED BY <1>1, <1>2, <2>1, <2>2, <2>3, <2>4, <2>5
<1> QED BY <1>3, <1>4

\* Whatever it is told, the open list then has parsed its URL and asked for
\* it.
LEMMA EmittedInv ==
  ASSUME IInv, NEW l \in Lists, NEW u \in Params, Emitted(l, u), here' = l, ready'
  PROVE  FollowsUrl' /\ LastIsMine' /\ RowsAreParsed'
<1> DEFINE v == IF Bare(u) THEN Merge(u, Restored(l)) ELSE u
<1>1. v \in Params /\ url' = v
  BY MergeType DEF Emitted, IInv
<1>2. CASE Bare(v)
  BY <1>1, <1>2, ValuesAssumption DEF Emitted, FollowsUrl, LastIsMine, RowsAreParsed,
     IInv, listVars, viewVars, Bare
<1>3. CASE ~Bare(v)
  <2>1. /\ asked' = [asked EXCEPT ![l] = Asked(Question(l, v))]
        /\ mine' = Question(l, v)
        /\ LoadData(Question(l, v))
    BY <1>3 DEF Emitted
  <2>2. Question(l, v) \in Query /\ Question(l, v) # Absent
    BY <1>1, QuestionType, ValuesAssumption DEF Query
  <2> HIDE DEF v
  <2>3. /\ requests' = Append(requests, Question(l, v))
        /\ requests' # <<>> /\ requests'[Len(requests')] = Question(l, v)
    BY <2>1, <2>2 DEF LoadData, IInv, TypeOK
  <2>4. asked'[here'].toggles = mine'.toggles
    BY <2>1 DEF Asked, IInv, TypeOK
  <2>5. here' # Absent
    BY ValuesAssumption
  <2> QED BY <1>1, <2>1, <2>2, <2>3, <2>4, <2>5 DEF FollowsUrl, LastIsMine, RowsAreParsed
<1> QED BY <1>2, <1>3

\* The same of a navigation, which tells nobody before the list is ready.
LEMMA UpdateRouteType ==
  ASSUME TypeOK, ready => here # Absent, NEW u \in Params, UpdateRoute(u)
  PROVE  /\ url' \in Params
         /\ saved' \in [Lists -> Settings]
         /\ asked' \in [Lists -> Askable]
         /\ mine' \in Query \union {Absent}
         /\ requests' \in Seq(Query)
         /\ rows' \in Query \union {Absent}
         /\ loading' \in BOOLEAN /\ disturbed' \in BOOLEAN
<1>1. CASE ready /\ u # url
  <2>1. here \in Lists /\ Emitted(here, u)
    BY <1>1 DEF UpdateRoute, TypeOK
  <2> QED BY <2>1, EmittedType
<1>2. CASE ~(ready /\ u # url)
  BY <1>2 DEF UpdateRoute, TypeOK, listVars, viewVars
<1> QED BY <1>1, <1>2

LEMMA UpdateRouteInv ==
  ASSUME IInv, NEW u \in Params, UpdateRoute(u), UNCHANGED <<here, ready>>
  PROVE  FollowsUrl' /\ LastIsMine' /\ RowsAreParsed'
<1>1. CASE ready /\ u # url
  <2>1. here \in Lists /\ Emitted(here, u) /\ here' = here /\ ready'
    BY <1>1 DEF UpdateRoute, IInv, TypeOK, RowsAreParsed
  <2> QED BY <2>1, EmittedInv
<1>2. CASE ~(ready /\ u # url)
  BY <1>2 DEF UpdateRoute, IInv, TypeOK, listVars, viewVars, FollowsUrl, LastIsMine,
     RowsAreParsed, Bare
<1> QED BY <1>1, <1>2

\* A new component has well typed fields.
LEMMA FreshType ==
  ASSUME Fresh
  PROVE  /\ ready' = FALSE /\ clicked' = Absent /\ mine' = Absent
         /\ requests' = <<>> /\ requests' \in Seq(Query)
         /\ rows' = Absent /\ loading' = FALSE /\ disturbed' = FALSE
BY DEF Fresh

\* The controls of a list: filters, sort order, toggle, reset.
Control ==
  \/ \E f \in Filters \union {Empty} : SelectFilter(f)
  \/ \E s \in Sorts \union {Empty} : SelectHeaderSort(s)
  \/ SelectToggleFilter
  \/ ResetColumns

\* Each of them updates the URL.
LEMMA ControlUpdates ==
  ASSUME TypeOK, Control
  PROVE  \E u \in Params : UserUpdates(u)
<1>1. ASSUME NEW f \in Filters \union {Empty}, SelectFilter(f)
      PROVE  \E u \in Params : UserUpdates(u)
  <2>1. [url EXCEPT !.filters = f] \in Params
    BY DEF Params, TypeOK
  <2> QED BY <1>1, <2>1 DEF SelectFilter
<1>2. ASSUME NEW s \in Sorts \union {Empty}, SelectHeaderSort(s)
      PROVE  \E u \in Params : UserUpdates(u)
  <2>1. [url EXCEPT !.sorting = s] \in Params
    BY DEF Params, TypeOK
  <2> QED BY <1>2, <2>1 DEF SelectHeaderSort
<1>3. CASE SelectToggleFilter
  <2>1. here \in Lists
    BY <1>3, ToggledAssumption DEF SelectToggleFilter
  <2>2. [url EXCEPT !.toggles = IF asked[here].toggles = here THEN Empty ELSE here] \in Params
    BY <2>1 DEF Params, TypeOK
  <2> QED BY <1>3, <2>2 DEF SelectToggleFilter
<1>4. CASE ResetColumns
  <2>1. here \in Lists /\ UserUpdates(Merge(url, Defaults(here))) /\ url \in Params
    BY <1>4 DEF ResetColumns, TypeOK
  <2> QED BY <2>1, MergeType
<1> QED BY <1>1, <1>2, <1>3, <1>4 DEF Control

-----------------------------------------------------------------------------
\* Each action keeps the types.
LEMMA StepType ==
  ASSUME TypeOK, RowsAreParsed, [Next]_vars
  PROVE  TypeOK'
<1> USE DEF TypeOK
<1>1. ASSUME NEW l \in Lists, NEW f \in Filters \union {Absent}, Open(l, f) PROVE TypeOK'
  <2>1. [NoParams EXCEPT !.filters = f] \in Params
    BY DEF NoParams, Params
  <2>2. ghosts' \subseteq [list : Lists, url : Params]
    BY <1>1 DEF Open, Left
  <2>3. /\ here' = l /\ url' = [NoParams EXCEPT !.filters = f]
        /\ provided' \in BOOLEAN /\ UNCHANGED <<saved, asked>> /\ Fresh
    BY <1>1 DEF Open
  <2> QED BY <2>1, <2>2, <2>3, FreshType
<1>2. CASE OpenAgain
  <2>1. NoParams \in Params /\ here \in Lists
    BY <1>2 DEF OpenAgain, NoParams, Params
  <2>2. CASE ready
    <3>1. /\ Emitted(here, NoParams) /\ provided' = FALSE
          /\ UNCHANGED <<here, ready, ghosts, clicked>>
      BY <1>2, <2>2 DEF OpenAgain
    <3> QED BY <2>1, <3>1, EmittedType
  <2>3. CASE ~ready
    BY <1>2, <2>1, <2>3 DEF OpenAgain, listVars, viewVars
  <2> QED BY <2>2, <2>3
<1>3. CASE Leave
  <2>1. NoParams \in Params
    BY DEF NoParams, Params
  <2>2. ghosts' \subseteq [list : Lists, url : Params]
    BY <1>3 DEF Leave, Left
  <2>3. /\ here' = Absent /\ url' = NoParams /\ provided' = FALSE
        /\ UNCHANGED <<saved, asked>> /\ Fresh
    BY <1>3 DEF Leave
  <2> QED BY <2>1, <2>2, <2>3, FreshType
<1>4. CASE PermissionAnswered
  <2>1. here \in Lists /\ Emitted(here, url) /\ ready' = TRUE
        /\ UNCHANGED <<here, ghosts, clicked, provided>>
    BY <1>4 DEF PermissionAnswered
  <2> QED BY <2>1, EmittedType
<1>5. ASSUME NEW g \in ghosts, GhostAnswered(g) PROVE TypeOK'
  <2>1. g.list \in Lists /\ g.url \in Params
    OBVIOUS
  <2>2. ghosts' = ghosts \ {g} /\ UNCHANGED <<here, ready, clicked, provided>>
    BY <1>5 DEF GhostAnswered
  <2>3. CASE Bare(g.url)
    <3>1. Merge(url, Restored(g.list)) \in Params
      BY <2>1, MergeType
    <3>2. UpdateRoute(Merge(url, Restored(g.list)))
      BY <1>5, <2>3 DEF GhostAnswered
    <3> QED BY <2>2, <3>1, <3>2, UpdateRouteType DEF RowsAreParsed
  <2>4. CASE ~Bare(g.url)
    <3>1. /\ Asked(Question(g.list, g.url)) \in Askable
          /\ SettingsToSave(g.list, g.url) \in Settings
      BY <2>1, QuestionType
    <3>2. /\ saved' = [saved EXCEPT ![g.list] = SettingsToSave(g.list, g.url)]
          /\ asked' = [asked EXCEPT ![g.list] = Asked(Question(g.list, g.url))]
          /\ disturbed' = (disturbed \/ g.list = here)
          /\ UNCHANGED <<url, mine, requests, rows, loading>>
      BY <1>5, <2>4 DEF GhostAnswered
    <3>3. disturbed' \in BOOLEAN
      BY Zenon, <3>2
    <3> QED BY <2>2, <3>1, <3>2, <3>3
  <2> QED BY <2>3, <2>4
<1>6. ASSUME NEW u \in Params, UserUpdates(u) PROVE TypeOK'
  <2>1. /\ UpdateRoute(u) /\ provided' = TRUE
        /\ UNCHANGED <<here, ready, ghosts, clicked>>
    BY <1>6 DEF UserUpdates
  <2> QED BY <2>1, UpdateRouteType DEF RowsAreParsed
<1>7. ASSUME NEW p \in Pages, PageClicked(p) PROVE TypeOK'
  BY <1>7 DEF PageClicked, listVars, viewVars
<1>8. CASE PageSettled
  <2>1. clicked \in Pages /\ [url EXCEPT !.page = clicked] \in Params
    BY <1>8 DEF PageSettled, Params
  <2>2. /\ UpdateRoute([url EXCEPT !.page = clicked])
        /\ clicked' = Absent /\ UNCHANGED <<here, ready, ghosts, provided>>
    BY <1>8 DEF PageSettled
  <2> QED BY <2>1, <2>2, UpdateRouteType DEF RowsAreParsed
<1>9. CASE LoadAgain
  <2>1. here \in Lists /\ mine \in Query
    BY <1>9 DEF LoadAgain, RowsAreParsed
  <2>2. asked[here].toggles \in Lists \union {Absent}
    BY <2>1 DEF Askable
  <2>3. [mine EXCEPT !.toggles = asked[here].toggles] \in Query
    BY <2>1, <2>2 DEF Query
  <2>4. requests' \in Seq(Query) /\ rows' = Absent /\ loading' = TRUE
    BY <1>9, <2>3 DEF LoadAgain, LoadData
  <2> QED BY <1>9, <2>4 DEF LoadAgain
<1>10. ASSUME NEW i \in DOMAIN requests, Answered(i) \/ Failed(i) PROVE TypeOK'
  <2>1. requests[i] \in Query /\ RemoveAt(requests, i) \in Seq(Query)
    BY DEF RemoveAt
  <2>2. /\ requests' = RemoveAt(requests, i)
        /\ UNCHANGED <<here, url, ready, ghosts, clicked, provided, saved, asked, mine>>
        /\ rows' \in {rows, requests[i]}
    BY <1>10 DEF Answered, Failed
  <2>3. disturbed' \in BOOLEAN /\ loading' \in BOOLEAN
    BY <1>10 DEF Answered, Failed
  <2> QED BY <2>1, <2>2, <2>3
<1>11. CASE UNCHANGED vars
  BY <1>11 DEF vars, listVars, viewVars
<1>12. CASE Control
  BY <1>6, <1>12, ControlUpdates
<1> QED BY <1>1, <1>2, <1>3, <1>4, <1>5, <1>7, <1>8, <1>9, <1>10, <1>11, <1>12
        DEF Next, Control

-----------------------------------------------------------------------------
\* Each action leaves what was parsed last, and the last request, in step
\* with the URL.
LEMMA StepInv ==
  ASSUME IInv, [Next]_vars
  PROVE  FollowsUrl' /\ LastIsMine' /\ RowsAreParsed'
<1> DEFINE Goal == FollowsUrl' /\ LastIsMine' /\ RowsAreParsed'
<1> USE DEF IInv
<1>1. ASSUME Fresh PROVE Goal
  BY <1>1, FreshType DEF FollowsUrl, LastIsMine, RowsAreParsed
<1>2. ASSUME NEW l \in Lists, NEW f \in Filters \union {Absent}, Open(l, f) PROVE Goal
  BY <1>1, <1>2 DEF Open
<1>3. CASE Leave
  BY <1>1, <1>3 DEF Leave
<1>4. CASE OpenAgain
  <2>1. NoParams \in Params /\ here \in Lists /\ Bare(NoParams)
    BY <1>4 DEF OpenAgain, NoParams, Params, TypeOK, Bare
  <2>2. CASE ready
    <3>1. Emitted(here, NoParams) /\ here' = here /\ ready'
      BY <1>4, <2>2 DEF OpenAgain
    <3> QED BY <2>1, <3>1, EmittedInv
  <2>3. CASE ~ready
    BY <1>4, <2>1, <2>3 DEF OpenAgain, listVars, viewVars, FollowsUrl, LastIsMine,
       RowsAreParsed
  <2> QED BY <2>2, <2>3
<1>5. CASE PermissionAnswered
  <2>1. here \in Lists /\ Emitted(here, url) /\ ready' /\ here' = here /\ url \in Params
    BY <1>5 DEF PermissionAnswered, TypeOK
  <2> QED BY <2>1, EmittedInv
<1>6. ASSUME NEW g \in ghosts, GhostAnswered(g) PROVE Goal
  <2>1. g.list \in Lists /\ g.url \in Params /\ url \in Params
    BY DEF TypeOK
  <2>2. UNCHANGED <<here, ready>>
    BY <1>6 DEF GhostAnswered
  <2>3. CASE Bare(g.url)
    <3>1. Merge(url, Restored(g.list)) \in Params
      BY <2>1, MergeType
    <3>2. UpdateRoute(Merge(url, Restored(g.list)))
      BY <1>6, <2>3 DEF GhostAnswered
    <3> QED BY <2>2, <3>1, <3>2, UpdateRouteInv
  <2>4. CASE ~Bare(g.url)
    <3>1. /\ asked' = [asked EXCEPT ![g.list] = Asked(Question(g.list, g.url))]
          /\ disturbed' = (disturbed \/ g.list = here)
          /\ UNCHANGED <<url, mine, requests, rows, loading>>
      BY <1>6, <2>4 DEF GhostAnswered
    <3>2. ready /\ ~disturbed' => ~disturbed /\ asked'[here] = asked[here]
      BY <2>1, <3>1 DEF TypeOK, RowsAreParsed
    <3>3. UNCHANGED <<here, ready, url, mine, requests, rows, loading>>
      BY <2>2, <3>1
    <3> HIDE <3>1
    <3> QED BY <3>2, <3>3 DEF FollowsUrl, LastIsMine, RowsAreParsed
  <2> QED BY <2>3, <2>4
<1>7. CASE Control
  <2>1. PICK u \in Params : UserUpdates(u)
    BY <1>7, ControlUpdates
  <2> QED BY <2>1, UpdateRouteInv DEF UserUpdates
<1>8. ASSUME NEW p \in Pages, PageClicked(p) PROVE Goal
  BY <1>8 DEF PageClicked, listVars, viewVars, FollowsUrl, LastIsMine, RowsAreParsed
<1>9. CASE PageSettled
  <2>1. [url EXCEPT !.page = clicked] \in Params
    BY <1>9 DEF PageSettled, Params, TypeOK
  <2>2. UpdateRoute([url EXCEPT !.page = clicked]) /\ UNCHANGED <<here, ready>>
    BY <1>9 DEF PageSettled
  <2> QED BY <2>1, <2>2, UpdateRouteInv
<1>10. CASE LoadAgain
  <2>1. here \in Lists /\ mine \in Query /\ ready
    BY <1>10 DEF LoadAgain, RowsAreParsed, TypeOK
  <2>2. asked[here].toggles \in Lists \union {Absent}
    BY <2>1 DEF Askable, TypeOK
  <2> DEFINE q == [mine EXCEPT !.toggles = asked[here].toggles]
  <2>3. q \in Query /\ (asked[here].toggles = mine.toggles => q = mine)
    BY <2>1, <2>2 DEF Query
  <2> HIDE DEF q
  <2>4. /\ requests' = Append(requests, q) /\ rows' = Absent /\ loading' = TRUE
        /\ UNCHANGED <<here, url, ready, asked, mine, disturbed>>
    BY <1>10 DEF LoadAgain, LoadData, q
  <2>5. requests' # <<>> /\ requests'[Len(requests')] = q
    BY <2>3, <2>4 DEF TypeOK
  <2>6. FollowsUrl'
    BY <2>4 DEF FollowsUrl, Question, Bare
  <2>7. RowsAreParsed'
    BY <2>1, <2>4, ValuesAssumption DEF RowsAreParsed
  <2>8. ASSUME ready, ~Bare(url), ~disturbed
        PROVE  q = mine /\ asked[here].toggles = mine.toggles
    BY <2>3, <2>8 DEF LastIsMine
  <2>9. LastIsMine'
    BY <2>4, <2>5, <2>8 DEF LastIsMine, Bare
  <2> QED BY <2>6, <2>7, <2>9
<1>11. ASSUME NEW i \in DOMAIN requests, Answered(i) \/ Failed(i) PROVE Goal
  <2>1. /\ requests' = RemoveAt(requests, i)
        /\ UNCHANGED <<here, url, ready, asked, mine>>
        /\ rows' # Absent => rows # Absent \/ requests # <<>>
    BY <1>11 DEF Answered, Failed, TypeOK
  <2>2. requests # <<>>
    BY DEF TypeOK
  <2>3. FollowsUrl' /\ RowsAreParsed'
    BY <2>1, <2>2 DEF FollowsUrl, RowsAreParsed
  <2>4. CASE disturbed'
    BY <2>3, <2>4 DEF LastIsMine
  <2>5. CASE ~disturbed'
    <3>1. ~disturbed /\ i = 1 /\ rows' = requests[1]
      BY <1>11, <2>5 DEF Answered, Failed
    <3>2. requests' = Tail(requests)
      BY <2>1, <3>1 DEF RemoveAt, TypeOK
    <3>3. /\ Len(requests) = 1 => requests' = <<>>
          /\ Len(requests) # 1 => requests' # <<>> /\ requests'[Len(requests')] = requests[Len(requests)]
      <4>1. /\ requests \in Seq(Query) /\ Len(requests) \in Nat \ {0}
            /\ requests' \in Seq(Query) /\ Len(requests') = Len(requests) - 1
        BY <2>2, <3>2 DEF TypeOK
      <4>2. Len(requests) = 1 => requests' = <<>>
        BY <4>1
      <4>3. Len(requests) # 1 => requests'[Len(requests')] = requests[Len(requests)]
        BY <3>2, <4>1
      <4> QED BY <4>1, <4>2, <4>3
    <3> QED BY <2>1, <2>2, <2>3, <3>1, <3>3 DEF LastIsMine, TypeOK
  <2> QED BY <2>4, <2>5
<1>12. CASE UNCHANGED vars
  BY <1>12 DEF vars, listVars, viewVars, FollowsUrl, LastIsMine, RowsAreParsed
<1> QED BY <1>2, <1>3, <1>4, <1>5, <1>6, <1>7, <1>8, <1>9, <1>10, <1>11, <1>12
        DEF Next, Control

-----------------------------------------------------------------------------
\* The inductive invariant.
THEOREM Invariant == Spec => []IInv
<1>1. Init => IInv
  <2> SUFFICES ASSUME Init PROVE IInv
    OBVIOUS
  <2>1. NoParams \in Params /\ Nothing \in Settings /\ Nothing \in Askable
    BY DEF NoParams, Nothing, Params, Settings, Askable
  <2>2. <<>> \in Seq(Query)
    OBVIOUS
  <2>3. TypeOK
    BY <2>1, <2>2 DEF Init, TypeOK
  <2> QED BY <2>3 DEF Init, IInv, FollowsUrl, LastIsMine, RowsAreParsed
<1>2. IInv /\ [Next]_vars => IInv'
  BY StepType, StepInv DEF IInv
<1> QED BY <1>1, <1>2, PTL DEF Spec

\* Every variable keeps its type.
THEOREM TypeCorrect == Spec => []TypeOK
BY Invariant, PTL DEF IInv

\* A list at rest shows what its URL asks for, whoever changed it: controls,
\* the late pager, links, or the init() of a list that was left
\* (base-list.component.ts).
THEOREM SettledList == Spec => []SettledListShowsItsUrl
<1>1. IInv => SettledListShowsItsUrl
  BY DEF IInv, FollowsUrl, LastIsMine, SettledListShowsItsUrl
<1> QED BY <1>1, Invariant, PTL

-----------------------------------------------------------------------------
\* What a list saved is what it asked last, spelled as it was in the URL:
\* both are written by the same parsing of the same parameters.
SavedAsAsked ==
  \A l \in Lists : saved[l] # Nothing =>
    /\ saved[l].toggles \in IF l \in Toggled THEN {l, Empty} ELSE {Absent}
    /\ asked[l] = [filters |-> Content(saved[l].filters), sorting |-> Content(saved[l].sorting),
                   toggles |-> Content(saved[l].toggles)]

\* Settings that are saved lose nothing of the question but their page.
LEMMA SavedFacts ==
  ASSUME NEW l \in Lists, NEW u \in Params
  PROVE  LET s == SettingsToSave(l, u) IN
         /\ s.toggles \in IF l \in Toggled THEN {l, Empty} ELSE {Absent}
         /\ Asked(Question(l, u)) = [filters |-> Content(s.filters), sorting |-> Content(s.sorting),
                                     toggles |-> Content(s.toggles)]
<1> DEFINE p == Parsed(l, u)
           s == SettingsToSave(l, u)
<1>1. /\ s.filters = p.filters /\ s.sorting = p.sorting
      /\ s.toggles = IF l \in Toggled THEN p.toggles ELSE Absent
  BY DEF SettingsToSave, Parsed
<1>2. p.filters = Content(u.filters) /\ p.sorting = u.sorting
      /\ p.toggles = IF l \in Toggled /\ u.toggles = l THEN l ELSE Empty
  BY DEF Parsed
<1>3. Content(p.filters) = p.filters
  BY <1>2, ValuesAssumption DEF Content
<1>4. Content(s.toggles) = Content(p.toggles)
  BY <1>1, <1>2, ValuesAssumption DEF Content
<1>5. Asked(Question(l, u)) = [filters |-> p.filters, sorting |-> Content(u.sorting),
                               toggles |-> Content(p.toggles)]
  BY DEF Asked, Question
<1> HIDE DEF p, s
<1> QED BY <1>1, <1>2, <1>3, <1>4, <1>5 DEF s

\* Saved settings are saved together with what is asked, or nothing is.
LEMMA SavedStep ==
  ASSUME TypeOK, SavedAsAsked, NEW l \in Lists, NEW u \in Params,
         saved' = [saved EXCEPT ![l] = SettingsToSave(l, u)],
         asked' = [asked EXCEPT ![l] = Asked(Question(l, u))]
  PROVE  SavedAsAsked'
<1> SUFFICES ASSUME NEW m \in Lists, saved'[m] # Nothing
             PROVE  /\ saved'[m].toggles \in IF m \in Toggled THEN {m, Empty} ELSE {Absent}
                    /\ asked'[m] = [filters |-> Content(saved'[m].filters),
                                    sorting |-> Content(saved'[m].sorting),
                                    toggles |-> Content(saved'[m].toggles)]
  BY DEF SavedAsAsked
<1>1. CASE m = l
  <2>1. saved'[m] = SettingsToSave(l, u) /\ asked'[m] = Asked(Question(l, u))
    BY <1>1 DEF TypeOK
  <2> QED BY <1>1, <2>1, SavedFacts
<1>2. CASE m # l
  <2>1. saved'[m] = saved[m] /\ asked'[m] = asked[m]
    BY <1>2 DEF TypeOK
  <2> QED BY <2>1 DEF SavedAsAsked
<1> QED BY <1>1, <1>2

LEMMA SavedEmitted ==
  ASSUME TypeOK, SavedAsAsked, NEW l \in Lists, NEW u \in Params, Emitted(l, u)
  PROVE  SavedAsAsked'
<1> DEFINE v == IF Bare(u) THEN Merge(u, Restored(l)) ELSE u
<1>1. v \in Params
  BY MergeType
<1>2. CASE Bare(v)
  BY <1>2 DEF Emitted, listVars, SavedAsAsked
<1>3. CASE ~Bare(v)
  <2>1. /\ saved' = [saved EXCEPT ![l] = SettingsToSave(l, v)]
        /\ asked' = [asked EXCEPT ![l] = Asked(Question(l, v))]
    BY <1>3 DEF Emitted
  <2> HIDE DEF v
  <2> QED BY <1>1, <2>1, SavedStep
<1> QED BY <1>2, <1>3

LEMMA SavedUpdate ==
  ASSUME IInv, SavedAsAsked, NEW u \in Params, UpdateRoute(u)
  PROVE  SavedAsAsked'
<1>1. CASE ready /\ u # url
  BY <1>1, SavedEmitted DEF UpdateRoute, IInv, TypeOK, RowsAreParsed
<1>2. CASE ~(ready /\ u # url)
  BY <1>2 DEF UpdateRoute, listVars, SavedAsAsked
<1> QED BY <1>1, <1>2

\* Each action saves what it asks, or neither saves nor asks.
LEMMA SavedNext ==
  ASSUME IInv, SavedAsAsked, [Next]_vars
  PROVE  SavedAsAsked'
<1> USE DEF IInv
<1>1. CASE UNCHANGED <<saved, asked>>
  BY <1>1 DEF SavedAsAsked
<1>2. CASE OpenAgain
  <2>1. NoParams \in Params /\ here \in Lists
    BY <1>2 DEF OpenAgain, NoParams, Params, TypeOK
  <2>2. Emitted(here, NoParams) \/ UNCHANGED listVars
    BY <1>2 DEF OpenAgain
  <2> QED BY <1>1, <2>1, <2>2, SavedEmitted DEF listVars
<1>3. CASE PermissionAnswered
  BY <1>3, SavedEmitted DEF PermissionAnswered, TypeOK
<1>4. ASSUME NEW g \in ghosts, GhostAnswered(g) PROVE SavedAsAsked'
  <2>1. g.list \in Lists /\ g.url \in Params /\ url \in Params
    BY DEF TypeOK
  <2>2. CASE Bare(g.url)
    <3>1. Merge(url, Restored(g.list)) \in Params
      BY <2>1, MergeType
    <3>2. UpdateRoute(Merge(url, Restored(g.list)))
      BY <1>4, <2>2 DEF GhostAnswered
    <3> QED BY <3>1, <3>2, SavedUpdate
  <2>3. CASE ~Bare(g.url)
    BY <1>4, <2>1, <2>3, SavedStep DEF GhostAnswered
  <2> QED BY <2>2, <2>3
<1>5. CASE Control
  <2>1. PICK u \in Params : UserUpdates(u)
    BY <1>5, ControlUpdates
  <2> QED BY <2>1, SavedUpdate DEF UserUpdates
<1>6. CASE PageSettled
  <2>1. [url EXCEPT !.page = clicked] \in Params
    BY <1>6 DEF PageSettled, Params, TypeOK
  <2> QED BY <1>6, <2>1, SavedUpdate DEF PageSettled
<1>7. CASE \/ \E l \in Lists, f \in Filters \union {Absent} : Open(l, f)
           \/ Leave \/ (\E p \in Pages : PageClicked(p)) \/ LoadAgain
           \/ \E i \in DOMAIN requests : Answered(i) \/ Failed(i)
  BY <1>1, <1>7 DEF Open, Leave, PageClicked, LoadAgain, Answered, Failed, listVars
<1>8. CASE UNCHANGED vars
  BY <1>1, <1>8 DEF vars, listVars
<1> QED BY <1>2, <1>3, <1>4, <1>5, <1>6, <1>7, <1>8 DEF Next, Control

\* A list that is opened again by a bare link asks what it asked last, also
\* when a list that was left has saved in between, and although the URL spells
\* "nothing" in three ways and the question in one (base-list.component.ts).
THEOREM OpenedAgain == Spec => OpenedAgainAsksTheSame
<1> DEFINE Same == PermissionAnswered /\ Bare(url) /\ saved[here] # Nothing /\ ~Bare(url')
                     => asked'[here] = asked[here]
<1>1. Init => SavedAsAsked
  BY DEF Init, SavedAsAsked
<1>2. IInv /\ SavedAsAsked /\ [Next]_vars => SavedAsAsked'
  BY SavedNext
<1>3. IInv /\ SavedAsAsked => Same
  <2> SUFFICES ASSUME IInv, SavedAsAsked, PermissionAnswered, Bare(url), saved[here] # Nothing,
                      ~Bare(url')
               PROVE  asked'[here] = asked[here]
    OBVIOUS
  <2> DEFINE v == Merge(url, Restored(here))
  <2>1. here \in Lists /\ url \in Params /\ Emitted(here, url) /\ v \in Params
    BY MergeType DEF PermissionAnswered, IInv, TypeOK
  <2>2. url' = v /\ asked' = [asked EXCEPT ![here] = Asked(Question(here, v))]
    BY <2>1 DEF Emitted
  <2>3. asked'[here] = Asked(Question(here, v))
    BY <2>1, <2>2 DEF IInv, TypeOK
  <2>4. /\ v.filters = Content(saved[here].filters) /\ v.sorting = Content(saved[here].sorting)
        /\ v.toggles = Content(saved[here].toggles)
    BY <2>1 DEF Merge, Restored, Params
  <2> HIDE DEF v
  <2>5. /\ saved[here].toggles \in IF here \in Toggled THEN {here, Empty} ELSE {Absent}
        /\ asked[here] = [filters |-> v.filters, sorting |-> v.sorting, toggles |-> v.toggles]
    BY <2>1, <2>4 DEF SavedAsAsked
  <2>6. Parsed(here, v).toggles = IF here \in Toggled /\ v.toggles = here THEN here ELSE Empty
    BY DEF Parsed
  <2>7. Content(Parsed(here, v).toggles) = v.toggles
    BY <2>1, <2>4, <2>5, <2>6, ValuesAssumption DEF Content
  <2>8. Parsed(here, v).filters = v.filters /\ Content(v.sorting) = v.sorting
    BY <2>4, ValuesAssumption DEF Parsed, Content
  <2>9. Asked(Question(here, v)) = [filters |-> v.filters, sorting |-> v.sorting, toggles |-> v.toggles]
    BY <2>7, <2>8 DEF Asked, Question
  <2> QED BY <2>3, <2>5, <2>9
<1> HIDE DEF Same
<1>4. IInv /\ SavedAsAsked => [Same]_vars
  BY <1>3
<1>5. Spec => [][Same]_vars
  BY <1>1, <1>2, <1>4, Invariant, PTL DEF Spec
<1> QED BY <1>5 DEF Same, OpenedAgainAsksTheSame
=============================================================================
