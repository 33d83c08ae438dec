-------------------------- MODULE DetailTab_proofs --------------------------
(***************************************************************************)
(* For any number of items, filters, pages and subscriptions, and of       *)
(* initialisations and filter changes at a time: a tab that keeps its      *)
(* subscription implements LatestLoad, and shows what its state asks for   *)
(* when its handlers have come to their end.                               *)
(*                                                                         *)
(* Neither follows from the state a reader sees.  LiveInv is why no answer *)
(* is overtaken: whatever may still answer is the subscription that the    *)
(* next load ends.  AskedInv is why comparing after an await is enough:    *)
(* while the last question is not the current one, some handler at its     *)
(* await holds old filters that differ from the current ones, and will     *)
(* load.                                                                   *)
(***************************************************************************)
EXTENDS DetailTab, TLAPS

LiveInv ==
  \A s \in live : s.sub = dataSubscription /\ s.query = asked

RowsInv == ~loading => rows \in {asked, None}

\* A handler at its await that will load if nothing changes before.
WillLoad == \E k \in 1..Len(comparing) : comparing[k] # filters

AskedInv ==
  inits = 0 =>
    /\ filters # None
    /\ asked # None
    /\ asked = DataFilter(item, filters, page) \/ WillLoad

IInv == TypeOK /\ LiveInv /\ RowsInv /\ AskedInv

-----------------------------------------------------------------------------
\* The question a tab asks is a question (dataFilter).
LEMMA DataFilterType ==
  ASSUME NEW i \in Items, NEW f \in Filters \union {None}, NEW p \in Pages
  PROVE  DataFilter(i, f, p) \in Query
BY DefaultAssumption DEF DataFilter, Query

\* loadData keeps the types: one more subscription and a new question.
LEMMA LoadDataType ==
  ASSUME TypeOK, NEW q \in Query, LoadData(q)
  PROVE  /\ live' \subseteq [sub : Subscriptions, query : Query, here : BOOLEAN]
         /\ dataSubscription' \in Subscriptions \union {None}
         /\ asked' \in Query \union {None}
         /\ loading' \in BOOLEAN
         /\ rows' \in Query \union {None}
<1>1. PICK d \in Subscriptions :
        /\ live' = Unsubscribed \union {[sub |-> d, query |-> q, here |-> FALSE]}
        /\ dataSubscription' = IF KeepsSubscription THEN d ELSE dataSubscription
        /\ asked' = q /\ loading' = TRUE /\ rows' = rows
  BY DEF LoadData
<1>2. [sub |-> d, query |-> q, here |-> FALSE]
        \in [sub : Subscriptions, query : Query, here : BOOLEAN]
  OBVIOUS
<1>3. dataSubscription' \in Subscriptions \union {None}
  BY <1>1 DEF TypeOK
<1> QED BY <1>1, <1>2, <1>3 DEF TypeOK, Unsubscribed

\* loadData leaves one subscription, its own, when it keeps it.
LEMMA LoadDataLive ==
  ASSUME TypeOK, LiveInv, KeepsSubscription, NEW q \in Query, LoadData(q)
  PROVE  /\ \A s \in live' : s.sub = dataSubscription' /\ s.query = q
         /\ asked' = q /\ loading' = TRUE /\ rows' = rows
BY DEF TypeOK, LiveInv, LoadData, Unsubscribed

-----------------------------------------------------------------------------
\* Every variable keeps its type, with and without a kept subscription.
THEOREM TypeCorrect == Spec => []TypeOK
<1>1. Init => TypeOK
  <2> SUFFICES ASSUME Init PROVE TypeOK
    OBVIOUS
  <2>1. joins \in BOOLEAN
    BY Zenon DEF Init
  <2>2. comparing \in Seq(Filters \union {None})
    BY DEF Init
  <2> QED BY <2>1, <2>2, PagesAssumption DEF Init, TypeOK
<1>2. TypeOK /\ [Next]_vars => TypeOK'
  <2> SUFFICES ASSUME TypeOK, [Next]_vars PROVE TypeOK'
    OBVIOUS
  <2> USE DefaultAssumption
  <2>1. ASSUME NEW i \in Items, SetDetailItem(i) PROVE TypeOK'
    BY <2>1 DEF TypeOK, SetDetailItem, answerVars
  <2>2. CASE PermissionsAnswered
    <3>1. DataFilter(item, Default, page) \in Query
      BY DataFilterType DEF TypeOK
    <3> QED BY <2>2, <3>1, LoadDataType DEF TypeOK, PermissionsAnswered
  <2>3. ASSUME NEW f \in Filters, FilterChanged(f) PROVE TypeOK'
    BY <2>3 DEF TypeOK, FilterChanged, initVars, answerVars
  <2>4. CASE FilterCompared
    <3>1. DataFilter(item, filters, page) \in Query
      BY DataFilterType DEF TypeOK
    <3>2. comparing' \in Seq(Filters \union {None})
      BY <2>4 DEF TypeOK, FilterCompared
    <3>3. CASE LoadData(DataFilter(item, filters, page))
      BY <2>4, <3>1, <3>2, <3>3, LoadDataType DEF TypeOK, FilterCompared, userVars, initVars
    <3>4. CASE UNCHANGED <<answerVars, rows, loading>>
      BY <2>4, <3>2, <3>4 DEF TypeOK, FilterCompared, userVars, initVars, answerVars
    <3> QED BY <2>4, <3>3, <3>4 DEF FilterCompared
  <2>5. CASE LoadAgain
    <3>1. DataFilter(item, filters, page) \in Query
      BY DataFilterType DEF TypeOK
    <3> QED BY <2>5, <3>1, LoadDataType DEF TypeOK, LoadAgain, userVars, initVars
  <2>6. CASE HandleReload
    <3>1. DataFilter(item, filters, page) \in Query
      BY DataFilterType DEF TypeOK
    <3> QED BY <2>6, <3>1, LoadDataType DEF TypeOK, HandleReload, userVars, initVars
  <2>7. CASE ResetGridClicked
    <3>1. DataFilter(item, Default, page) \in Query
      BY DataFilterType DEF TypeOK
    <3> QED BY <2>7, <3>1, LoadDataType DEF TypeOK, ResetGridClicked, initVars
  <2>8. ASSUME NEW p \in Pages, PageClicked(p) PROVE TypeOK'
    BY <2>8 DEF TypeOK, PageClicked, userVars, initVars, answerVars
  <2>9. CASE PageSettled
    <3>1. DataFilter(item, filters, clicked) \in Query
      BY <2>9, DataFilterType DEF TypeOK, PageSettled
    <3> QED BY <2>9, <3>1, LoadDataType DEF TypeOK, PageSettled, initVars
  <2>10. ASSUME NEW s \in live, Answered(s) PROVE TypeOK'
    <3>1. /\ s \in [sub : Subscriptions, query : Query, here : BOOLEAN]
          /\ [s EXCEPT !.here = TRUE] \in [sub : Subscriptions, query : Query, here : BOOLEAN]
      BY DEF TypeOK
    <3> QED BY <2>10, <3>1 DEF TypeOK, Answered, OnDataLoad, userVars, initVars
  <2>11. ASSUME NEW s \in live, Failed(s) PROVE TypeOK'
    BY <2>11 DEF TypeOK, Failed, OnDataLoadFailed, userVars, initVars
  <2>12. ASSUME NEW b \in BOOLEAN, DiagramRendered(b) PROVE TypeOK'
    BY <2>12 DEF TypeOK, DiagramRendered, OnDataLoad, userVars, initVars, answerVars
  <2>13. CASE Destroy
    <3>1. listeners' \in Nat
      BY <2>13 DEF TypeOK, Destroy
    <3>2. live' \subseteq [sub : Subscriptions, query : Query, here : BOOLEAN]
      BY <2>13 DEF TypeOK, Destroy, Unsubscribed
    <3>3. alive' = FALSE
      BY <2>13 DEF Destroy
    <3> QED BY <2>13, <3>1, <3>2, <3>3 DEF TypeOK, Destroy, userVars
  <2>14. CASE UNCHANGED vars
    BY <2>14 DEF TypeOK, vars, userVars, initVars, answerVars
  <2> QED
    BY <2>1, <2>2, <2>3, <2>4, <2>5, <2>6, <2>7, <2>8, <2>9, <2>10, <2>11,
       <2>12, <2>13, <2>14 DEF Next
<1> QED BY <1>1, <1>2, PTL DEF Spec

\* What the invariant says of a tab right after a load for its current state.
LEMMA LoadDataInv ==
  ASSUME TypeOK, LiveInv, KeepsSubscription,
         item' \in Items, page' \in Pages, filters' \in Filters \union {None},
         inits' = 0 => filters' # None,
         LoadData(DataFilter(item', filters', page'))
  PROVE  LiveInv' /\ RowsInv' /\ AskedInv'
<1> DEFINE q == DataFilter(item', filters', page')
<1>1. q \in Query
  BY DataFilterType
<1> HIDE DEF q
<1>2. LoadData(q)
  BY DEF q
<1>3. /\ \A s \in live' : s.sub = dataSubscription' /\ s.query = q
      /\ asked' = q /\ loading' = TRUE /\ rows' = rows
  BY <1>1, <1>2, LoadDataLive
<1>4. LiveInv' /\ RowsInv'
  BY <1>3 DEF LiveInv, RowsInv
<1>5. AskedInv'
  BY <1>1, <1>3, NoneAssumption DEF AskedInv, q
<1> QED BY <1>4, <1>5

\* The invariant and its parts, for tabs that keep their subscription.
LEMMA Invariant == KeepsSubscription => (Spec => []IInv)
<1> SUFFICES ASSUME KeepsSubscription PROVE Spec => []IInv
  OBVIOUS
<1>1. Init => LiveInv /\ RowsInv /\ AskedInv
  BY DEF Init, LiveInv, RowsInv, AskedInv
<1>2. TypeOK /\ TypeOK' /\ LiveInv /\ RowsInv /\ AskedInv /\ [Next]_vars
        => LiveInv' /\ RowsInv' /\ AskedInv'
  <2> SUFFICES ASSUME TypeOK, TypeOK', LiveInv, RowsInv, AskedInv, [Next]_vars
               PROVE  LiveInv' /\ RowsInv' /\ AskedInv'
    OBVIOUS
  <2> DEFINE Goal == LiveInv' /\ RowsInv' /\ AskedInv'
  <2>a. /\ item' \in Items /\ page' \in Pages
        /\ filters' \in Filters \union {None}
    BY DEF TypeOK
  \* A load for the current state: every step of it is the same.
  <2>b. ASSUME inits' = 0 => filters' # None,
               LoadData(DataFilter(item', filters', page'))
        PROVE  Goal
    BY <2>a, <2>b, LoadDataInv
  <2>1. ASSUME NEW i \in Items, SetDetailItem(i) PROVE Goal
    <3>1. inits' # 0
      BY <2>1 DEF SetDetailItem, TypeOK
    <3> QED BY <2>1, <3>1 DEF SetDetailItem, answerVars, LiveInv, RowsInv, AskedInv
  <2>2. CASE PermissionsAnswered
    <3>1. filters' = Default /\ filters' # None
      BY <2>2, DefaultAssumption, NoneAssumption DEF PermissionsAnswered
    <3> QED BY <2>2, <2>b, <3>1 DEF PermissionsAnswered
  <2>3. ASSUME NEW f \in Filters, FilterChanged(f) PROVE Goal
    <3>1. LiveInv' /\ RowsInv'
      BY <2>3 DEF FilterChanged, answerVars, LiveInv, RowsInv
    <3>2. AskedInv'
      <4> SUFFICES ASSUME inits = 0
                   PROVE  /\ f # None /\ asked # None
                          /\ asked = DataFilter(item, f, page) \/ WillLoad'
        BY <2>3 DEF FilterChanged, initVars, answerVars, AskedInv
      <4>1. /\ Len(comparing') = Len(comparing) + 1
            /\ comparing'[Len(comparing) + 1] = filters
            /\ \A k \in 1..Len(comparing) : comparing'[k] = comparing[k]
            /\ Len(comparing) \in Nat
        BY <2>3 DEF FilterChanged, TypeOK
      <4>2. filters' = f
        BY <2>3 DEF FilterChanged
      <4>3. CASE filters # f
        BY <4>1, <4>2, <4>3, NoneAssumption DEF WillLoad, AskedInv
      <4>4. CASE filters = f
        <5>1. CASE WillLoad
          BY <4>1, <4>2, <4>4, <5>1, NoneAssumption DEF WillLoad, AskedInv
        <5>2. CASE asked = DataFilter(item, filters, page)
          BY <4>4, <5>2, NoneAssumption DEF AskedInv
        <5> QED BY <5>1, <5>2 DEF AskedInv
      <4> QED BY <4>3, <4>4
    <3> QED BY <3>1, <3>2
  <2>4. CASE FilterCompared
    <3>1. /\ filters' = filters /\ item' = item /\ page' = page /\ inits' = inits
      BY <2>4 DEF FilterCompared, userVars, initVars
    <3>2. CASE Head(comparing) # filters
      BY <2>4, <2>b, <3>1, <3>2 DEF FilterCompared, AskedInv
    <3>3. CASE Head(comparing) = filters
      <4>1. UNCHANGED <<answerVars, rows, loading>>
        BY <2>4, <3>3 DEF FilterCompared
      <4>2. LiveInv' /\ RowsInv'
        BY <4>1 DEF answerVars, LiveInv, RowsInv
      <4>3. WillLoad => WillLoad'
        <5> SUFFICES ASSUME NEW k \in 1..Len(comparing), comparing[k] # filters
                     PROVE  WillLoad'
          BY DEF WillLoad
        <5>1. comparing # <<>> /\ comparing' = Tail(comparing)
          BY <2>4 DEF FilterCompared
        <5>2. k # 1
          BY <3>3 DEF TypeOK
        <5>3. k - 1 \in 1..Len(comparing') /\ comparing'[k - 1] = comparing[k]
          BY <5>1, <5>2 DEF TypeOK
        <5> QED BY <3>1, <5>3 DEF WillLoad
      <4>4. AskedInv'
        BY <3>1, <4>1, <4>3 DEF AskedInv, answerVars, DataFilter
      <4> QED BY <4>2, <4>4
    <3> QED BY <3>2, <3>3
  <2>5. CASE LoadAgain
    <3>1. filters' = filters /\ item' = item /\ page' = page /\ inits' = inits
      BY <2>5 DEF LoadAgain, userVars, initVars
    <3> QED BY <2>5, <2>b, <3>1 DEF LoadAgain, AskedInv
  <2>6. CASE HandleReload
    <3>1. filters' = filters /\ item' = item /\ page' = page /\ inits' = inits
      BY <2>6 DEF HandleReload, userVars, initVars
    <3> QED BY <2>6, <2>b, <3>1 DEF HandleReload, AskedInv
  <2>7. CASE ResetGridClicked
    <3>1. filters' = Default /\ filters' # None /\ item' = item /\ page' = page
      BY <2>7, DefaultAssumption, NoneAssumption DEF ResetGridClicked
    <3> QED BY <2>7, <2>b, <3>1 DEF ResetGridClicked
  <2>8. ASSUME NEW p \in Pages, PageClicked(p) PROVE Goal
    BY <2>8 DEF PageClicked, userVars, initVars, answerVars,
                LiveInv, RowsInv, AskedInv, WillLoad, DataFilter
  <2>9. CASE PageSettled
    <3>1. filters' = filters /\ item' = item /\ page' = clicked /\ inits' = inits
      BY <2>9 DEF PageSettled, initVars
    <3> QED BY <2>9, <2>b, <3>1 DEF PageSettled, AskedInv
  <2>10. ASSUME NEW s \in live, Answered(s) PROVE Goal
    <3>1. s.sub = dataSubscription /\ s.query = asked
      BY DEF LiveInv
    <3>2. [s EXCEPT !.here = TRUE].sub = s.sub /\ [s EXCEPT !.here = TRUE].query = s.query
      BY DEF TypeOK
    <3>3. LiveInv'
      BY <2>10, <3>1, <3>2 DEF Answered, LiveInv
    <3>4. RowsInv'
      BY <2>10, <3>1 DEF Answered, OnDataLoad, RowsInv
    <3>5. AskedInv'
      BY <2>10 DEF Answered, userVars, initVars, AskedInv, WillLoad, DataFilter
    <3> QED BY <3>3, <3>4, <3>5
  <2>11. ASSUME NEW s \in live, Failed(s) PROVE Goal
    BY <2>11 DEF Failed, OnDataLoadFailed, userVars, initVars,
                 LiveInv, RowsInv, AskedInv, WillLoad, DataFilter
  <2>12. ASSUME NEW b \in BOOLEAN, DiagramRendered(b) PROVE Goal
    BY <2>12 DEF DiagramRendered, OnDataLoad, userVars, initVars, answerVars,
                 LiveInv, RowsInv, AskedInv, WillLoad, DataFilter
  <2>13. CASE Destroy
    BY <2>13 DEF Destroy, Unsubscribed, userVars,
                 LiveInv, RowsInv, AskedInv, WillLoad, DataFilter
  <2>14. CASE UNCHANGED vars
    BY <2>14 DEF vars, userVars, initVars, answerVars,
                 LiveInv, RowsInv, AskedInv, WillLoad, DataFilter
  <2> QED
    BY <2>1, <2>2, <2>3, <2>4, <2>5, <2>6, <2>7, <2>8, <2>9, <2>10, <2>11,
       <2>12, <2>13, <2>14 DEF Next
<1> QED BY <1>1, <1>2, TypeCorrect, PTL DEF Spec, IInv

\* When the handlers of a tab have come to their end and the spinner is gone,
\* the rows are those its item, filters and page ask for.
THEOREM SettledTab == KeepsSubscription => (Spec => []SettledTabShowsItsState)
<1>1. IInv => SettledTabShowsItsState
  BY DEF IInv, RowsInv, AskedInv, WillLoad, TypeOK, SettledTabShowsItsState
<1> QED BY <1>1, Invariant, PTL

\* Every step of a tab that keeps its subscription is a step of LatestLoad or
\* leaves what the user sees alone: no answer is overtaken.
THEOREM ImplementsLatestLoad == KeepsSubscription => (Spec => LastAnswerWins)
<1> SUFFICES ASSUME KeepsSubscription PROVE Spec => L!Spec
  BY DEF LastAnswerWins
<1>1. Init => L!Init
  BY DEF Init, L!Init
<1>2. IInv /\ [Next]_vars => [L!Next]_L!vars
  <2> SUFFICES ASSUME IInv, [Next]_vars PROVE L!Next \/ UNCHANGED L!vars
    OBVIOUS
  <2> USE DEF IInv
  <2>a. ASSUME NEW q \in Query, LoadData(q) PROVE  L!Next
    BY <2>a DEF LoadData, L!Next, L!Ask
  <2>b. ASSUME NEW s \in live, OnDataLoad(s.query), asked' = asked PROVE L!Next
    BY <2>b, NoneAssumption DEF LiveInv, TypeOK, OnDataLoad, L!Next, L!Show
  <2>c. ASSUME filters \in Filters \union {None}
        PROVE  DataFilter(item, filters, page) \in Query
    BY DataFilterType DEF TypeOK
  <2>1. ASSUME NEW i \in Items, SetDetailItem(i) PROVE UNCHANGED L!vars
    BY <2>1 DEF SetDetailItem, answerVars, L!vars
  <2>2. CASE PermissionsAnswered
    <3>1. DataFilter(item, Default, page) \in Query
      BY DataFilterType, DefaultAssumption DEF TypeOK
    <3> QED BY <2>2, <2>a, <3>1 DEF PermissionsAnswered
  <2>3. ASSUME NEW f \in Filters, FilterChanged(f) PROVE UNCHANGED L!vars
    BY <2>3 DEF FilterChanged, answerVars, L!vars
  <2>4. CASE FilterCompared
    BY <2>4, <2>a, <2>c DEF FilterCompared, answerVars, L!vars, TypeOK
  <2>5. CASE LoadAgain
    BY <2>5, <2>a, <2>c DEF LoadAgain, TypeOK
  <2>6. CASE HandleReload
    BY <2>6, <2>a, <2>c DEF HandleReload, TypeOK
  <2>7. CASE ResetGridClicked
    <3>1. DataFilter(item, Default, page) \in Query
      BY DataFilterType, DefaultAssumption DEF TypeOK
    <3> QED BY <2>7, <2>a, <3>1 DEF ResetGridClicked
  <2>8. ASSUME NEW p \in Pages, PageClicked(p) PROVE UNCHANGED L!vars
    BY <2>8 DEF PageClicked, answerVars, L!vars
  <2>9. CASE PageSettled
    <3>1. DataFilter(item, filters, clicked) \in Query
      BY <2>9, DataFilterType DEF PageSettled, TypeOK
    <3> QED BY <2>9, <2>a, <3>1 DEF PageSettled
  <2>10. ASSUME NEW s \in live, Answered(s) PROVE L!Next \/ UNCHANGED L!vars
    BY <2>10, <2>b DEF Answered, L!vars
  <2>11. ASSUME NEW s \in live, Failed(s) PROVE L!Next
    BY <2>11, NoneAssumption
       DEF Failed, OnDataLoadFailed, LiveInv, TypeOK, L!Next, L!Fail
  <2>12. ASSUME NEW b \in BOOLEAN, DiagramRendered(b) PROVE L!Next \/ UNCHANGED L!vars
    BY <2>12, <2>b DEF DiagramRendered, answerVars, L!vars
  <2>13. CASE Destroy
    BY <2>13 DEF Destroy, L!vars
  <2>14. CASE UNCHANGED vars
    BY <2>14 DEF vars, answerVars, L!vars
  <2> QED
    BY <2>1, <2>2, <2>3, <2>4, <2>5, <2>6, <2>7, <2>8, <2>9, <2>10, <2>11,
       <2>12, <2>13, <2>14 DEF Next
<1> QED BY <1>1, <1>2, Invariant, PTL DEF Spec, L!Spec
=============================================================================
