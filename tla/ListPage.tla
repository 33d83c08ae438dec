------------------------------ MODULE ListPage ------------------------------
(***************************************************************************)
(* The list pages (BaseListComponent and its subclasses): process          *)
(* instances, definitions, incidents, jobs, deployments...  What a list    *)
(* asks the server for is kept in the query parameters of the URL.  Every  *)
(* control changes the URL, the router tells the list (queryParams), and   *)
(* the list then saves the parameters in local storage, parses and loads.  *)
(* A list opened by a bare link puts what it saved last, or its defaults,  *)
(* into the URL and waits to be told again.                                *)
(*                                                                         *)
(* A list subscribes to the router only when a permission check has been   *)
(* answered.  It may be left before: SubSink.add() of a component that is  *)
(* destroyed subscribes nevertheless, and the parameters the list had when *)
(* it was left are replayed to it.  Such components are the members of     *)
(* ghosts.                                                                 *)
(*                                                                         *)
(* A navigation that only changes query parameters completes before        *)
(* anything else happens, and one that changes nothing is ignored          *)
(* (onSameUrlNavigation).  Undefined parameters are removed from the URL.  *)
(* A toggle filter is named by the list it belongs to, one for a list.     *)
(* Requests of a list that was left are forgotten; one request stands for  *)
(* the rows and their count (forkJoin).                                    *)
(***************************************************************************)
EXTENDS Naturals, FiniteSets, Sequences, SequencesExt

CONSTANTS Lists, Filters, Sorts,
          Pages,
          Toggled,        \* the lists with a toggle filter
          DefaultToggled, \* those where it is selected by default
          DefaultFilters, \* of each list, Absent if it has none
          DefaultSorting, \* of each list
          Empty,          \* '' or '[]': a parameter without content
          Absent,         \* no parameter, or undefined
          MaxRequests, MaxGhosts \* bounds

ASSUME ToggledAssumption == DefaultToggled \subseteq Toggled /\ Toggled \subseteq Lists
ASSUME DefaultAssumption == /\ DefaultFilters \in [Lists -> Filters \union {Absent}]
                            /\ DefaultSorting \in [Lists -> Sorts]
ASSUME PagesAssumption == Pages \subseteq Nat /\ 1 \in Pages
ASSUME MaxAssumption == MaxRequests \in Nat /\ MaxGhosts \in Nat

Params == [filters : Filters \union {Empty, Absent},
           sorting : Sorts \union {Empty, Absent},
           toggles : Lists \union {Empty, Absent},
           page    : Pages \union {Absent}]

Settings == [filters : Filters \union {Absent},
             sorting : Sorts \union {Empty, Absent},
             toggles : Lists \union {Empty, Absent}]

\* What of the settings a question may contain
Askable == [filters : Filters \union {Absent},
            sorting : Sorts \union {Absent},
            toggles : Lists \union {Absent}]

Query == [list : Lists, filters : Filters \union {Absent},
          sorting : Sorts \union {Absent}, toggles : Lists \union {Absent}, page : Pages]

ASSUME ValuesAssumption ==
  /\ Absent # Empty
  /\ \A S \in {Lists, Filters, Sorts, Pages, Query} : Absent \notin S /\ Empty \notin S

VARIABLES
  here,      \* the list that is open, Absent on any other page
  url,       \* query parameters of the URL
  ready,     \* the open list has subscribed to the router
  saved,     \* local storage, for each list
  ghosts,    \* lists left before they subscribed, with the parameters of then
  clicked,   \* the page clicked less than 300 ms ago
  requests,  \* questions under way, in the order asked
  rows, loading,
  mine,      \* what the open list parsed last: filters, sorting, page
  asked,     \* the settings each list asked last; its toggle filters are
             \* one array for all components of the list
  provided,  \* auxiliary: the user gave parameters since the list was opened
  disturbed  \* auxiliary: an answer failed or came out of order, or a ghost
             \* of the open list has switched its toggle filters

viewVars == <<requests, rows, loading, disturbed>>
listVars == <<saved, asked, mine, viewVars>>
vars == <<here, url, ready, ghosts, clicked, provided, listVars>>

Nothing == [filters |-> Absent, sorting |-> Absent, toggles |-> Absent]
NoParams == [filters |-> Absent, sorting |-> Absent, toggles |-> Absent, page |-> Absent]

TypeOK ==
  /\ here \in Lists \union {Absent}
  /\ url \in Params
  /\ ready \in BOOLEAN /\ loading \in BOOLEAN
  /\ provided \in BOOLEAN /\ disturbed \in BOOLEAN
  /\ saved \in [Lists -> Settings]
  /\ ghosts \subseteq [list : Lists, url : Params]
  /\ clicked \in Pages \union {Absent}
  /\ requests \in Seq(Query)
  /\ rows \in Query \union {Absent}
  /\ mine \in Query \union {Absent}
  /\ asked \in [Lists -> Askable]

-----------------------------------------------------------------------------
\* A link brought none of the parameters that a list needs.
Bare(u) == u.filters = Absent /\ u.sorting = Absent /\ u.toggles = Absent

\* queryParamsHandling: 'merge'
Merge(u, s) ==
  [u EXCEPT !.filters = s.filters, !.sorting = s.sorting, !.toggles = s.toggles]

\* The value that is there, if it has content.
Content(v) == IF v = Empty THEN Absent ELSE v

\* setDataLoadParams: what the list takes from the URL
Parsed(l, u) ==
  [filters |-> Content(u.filters), sorting |-> u.sorting,
   toggles |-> IF l \in Toggled /\ u.toggles = l THEN l ELSE Empty]

\* Mutant: no default for the page.
QuestionWithoutPage(l, u) ==
  [list |-> l, filters |-> Parsed(l, u).filters, sorting |-> Content(u.sorting),
   toggles |-> Content(Parsed(l, u).toggles), page |-> u.page]

\* getMappedLoadOptions: what it asks the server
Question(l, u) ==
  [list |-> l, filters |-> Parsed(l, u).filters, sorting |-> Content(u.sorting),
   toggles |-> Content(Parsed(l, u).toggles),
   page |-> IF u.page = Absent THEN 1 ELSE u.page]

\* Mutant: the selected toggle filters are not saved.
SettingsWithoutToggles(l, u) == [Parsed(l, u) EXCEPT !.toggles = Absent]

\* The settings of a question
Asked(q) == [filters |-> q.filters, sorting |-> q.sorting, toggles |-> q.toggles]

\* What the list saves
SettingsToSave(l, u) ==
  [Parsed(l, u) EXCEPT !.toggles = IF l \in Toggled THEN @ ELSE Absent]

Defaults(l) ==
  [filters |-> DefaultFilters[l], sorting |-> DefaultSorting[l],
   toggles |-> IF l \in DefaultToggled THEN l ELSE Absent]

\* What a bare URL is completed with: what was saved, if anything was.
Restored(l) ==
  LET s == IF saved[l] = Nothing THEN Defaults(l) ELSE saved[l]
  IN [filters |-> Content(s.filters), sorting |-> Content(s.sorting),
      toggles |-> Content(s.toggles)]

-----------------------------------------------------------------------------
LoadData(q) ==
  /\ Len(requests) < MaxRequests
  /\ requests' = Append(requests, q)
  /\ rows' = Absent /\ loading' = TRUE

\* The URL of the open list l becomes u and the router tells the list.
Emitted(l, u) ==
  LET v == IF Bare(u) THEN Merge(u, Restored(l)) ELSE u
  IN /\ url' = v
     /\ IF Bare(v)
        THEN UNCHANGED listVars
        ELSE /\ saved' = [saved EXCEPT ![l] = SettingsToSave(l, v)]
             /\ asked' = [asked EXCEPT ![l] = Asked(Question(l, v))]
             /\ mine' = Question(l, v)
             /\ disturbed' = (disturbed /\ requests # <<>>)
             /\ LoadData(Question(l, v))

\* router.navigate([], merge): nothing happens unless the URL changes, and
\* nobody is told before the list has subscribed.
UpdateRoute(u) ==
  IF ready /\ u # url
  THEN Emitted(here, u)
  ELSE url' = u /\ UNCHANGED listVars

UserUpdates(u) ==
  /\ here # Absent
  /\ UpdateRoute(u)
  /\ provided' = TRUE
  /\ UNCHANGED <<here, ready, ghosts, clicked>>

-----------------------------------------------------------------------------
Init ==
  /\ here = Absent /\ url = NoParams /\ ready = FALSE
  /\ saved = [l \in Lists |-> Nothing]
  /\ ghosts = {} /\ clicked = Absent
  /\ requests = <<>> /\ rows = Absent /\ loading = FALSE
  /\ mine = Absent /\ asked = [l \in Lists |-> Nothing]
  /\ provided = FALSE /\ disturbed = FALSE

\* The fields of a new component
Fresh ==
  /\ ready' = FALSE /\ clicked' = Absent /\ mine' = Absent
  /\ requests' = <<>> /\ rows' = Absent /\ loading' = FALSE /\ disturbed' = FALSE

\* Any page is left; init() of a list goes on if it still waits.
Left ==
  IF here # Absent /\ ~ready
  THEN Cardinality(ghosts) < MaxGhosts /\ ghosts' = ghosts \union {[list |-> here, url |-> url]}
  ELSE UNCHANGED ghosts

\* A link of the menu, the dashboard or a page leads to list l.
Open(l, f) ==
  /\ here # l
  /\ Left
  /\ here' = l
  /\ url' = [NoParams EXCEPT !.filters = f]
  /\ Fresh
  /\ provided' = (f # Absent)
  /\ UNCHANGED <<saved, asked>>

Leave ==
  /\ here # Absent
  /\ Left
  /\ here' = Absent /\ url' = NoParams
  /\ Fresh
  /\ provided' = FALSE
  /\ UNCHANGED <<saved, asked>>

\* The menu's link to the list that is open.
OpenAgain ==
  /\ here # Absent
  /\ url # NoParams
  /\ IF ready THEN Emitted(here, NoParams)
              ELSE url' = NoParams /\ UNCHANGED listVars
  /\ provided' = FALSE
  /\ UNCHANGED <<here, ready, ghosts, clicked>>

\* init() of the open list goes on and subscribes.
PermissionAnswered ==
  /\ here # Absent /\ ~ready
  /\ ready' = TRUE
  /\ Emitted(here, url)
  /\ UNCHANGED <<here, ghosts, clicked, provided>>

\* init() of a list that was left goes on: it may navigate, on another page.
GhostAnswered(g) ==
  /\ ghosts' = ghosts \ {g}
  /\ IF Bare(g.url)
     THEN UpdateRoute(Merge(url, Restored(g.list)))
     ELSE /\ saved' = [saved EXCEPT ![g.list] = SettingsToSave(g.list, g.url)]
          /\ asked' = [asked EXCEPT ![g.list] = Asked(Question(g.list, g.url))]
          /\ disturbed' = (disturbed \/ g.list = here)
          /\ UNCHANGED <<url, mine, requests, rows, loading>>
  /\ UNCHANGED <<here, ready, clicked, provided>>

SelectFilter(f) == UserUpdates([url EXCEPT !.filters = f])

SelectHeaderSort(s) == UserUpdates([url EXCEPT !.sorting = s])

\* The toggles keep the state of the last visit until the URL is parsed.
SelectToggleFilter ==
  /\ here \in Toggled
  /\ UserUpdates([url EXCEPT !.toggles = IF asked[here].toggles = here THEN Empty ELSE here])

ResetColumns ==
  here # Absent /\ UserUpdates(Merge(url, Defaults(here)))

\* The pager has pages once rows are there.
PageClicked(p) ==
  /\ rows # Absent
  /\ clicked' = p
  /\ UNCHANGED <<here, url, ready, ghosts, provided, listVars>>

\* debounceTime(300)
PageSettled ==
  /\ clicked # Absent
  /\ clicked' = Absent
  /\ UpdateRoute([url EXCEPT !.page = clicked])
  /\ UNCHANGED <<here, ready, ghosts, provided>>

\* Mutant: the list is loaded from the start.
LoadFirstPageAgain ==
  /\ rows # Absent
  /\ LoadData([mine EXCEPT !.toggles = asked[here].toggles, !.page = 1])
  /\ UNCHANGED <<here, url, ready, ghosts, clicked, provided, saved, asked, mine,
                 disturbed>>

\* A bulk action has succeeded.
LoadAgain ==
  /\ rows # Absent
  /\ LoadData([mine EXCEPT !.toggles = asked[here].toggles])
  /\ UNCHANGED <<here, url, ready, ghosts, clicked, provided, saved, asked, mine,
                 disturbed>>

Answered(i) ==
  /\ rows' = requests[i] /\ loading' = FALSE
  /\ requests' = RemoveAt(requests, i)
  /\ disturbed' = (disturbed \/ i # 1)
  /\ UNCHANGED <<here, url, ready, ghosts, clicked, provided, saved, asked, mine>>

\* No list handles an error: the spinner stays.
Failed(i) ==
  /\ requests' = RemoveAt(requests, i)
  /\ disturbed' = TRUE
  /\ UNCHANGED <<here, url, ready, ghosts, clicked, provided, saved, asked, mine,
                 rows, loading>>

Next ==
  \/ \E l \in Lists, f \in Filters \union {Absent} : Open(l, f)
  \/ OpenAgain
  \/ Leave
  \/ PermissionAnswered
  \/ \E g \in ghosts : GhostAnswered(g)
  \/ \E f \in Filters \union {Empty} : SelectFilter(f)
  \/ \E s \in Sorts \union {Empty} : SelectHeaderSort(s)
  \/ SelectToggleFilter
  \/ ResetColumns
  \/ \E p \in Pages : PageClicked(p)
  \/ PageSettled
  \/ LoadAgain
  \/ \E i \in DOMAIN requests : Answered(i) \/ Failed(i)

Spec == Init /\ [][Next]_vars

-----------------------------------------------------------------------------
\* A list at rest, whose URL has parameters, shows the rows they ask for,
\* unless an answer was lost or overtook another.  Several parties
\* change the URL (controls, the late pager, links, ghosts) and two of them
\* read what was saved.
SettledListShowsItsUrl ==
  ready /\ ~Bare(url) /\ requests = <<>> /\ ~loading /\ ~disturbed
    => rows = Question(here, url)

\* A list that is opened again without parameters asks what it asked last,
\* except for the page, if anything was saved (base-list.component.ts:112).
OpenedAgainAsksTheSame ==
  [][ PermissionAnswered /\ Bare(url) /\ saved[here] # Nothing /\ ~Bare(url')
        => asked'[here] = asked[here] ]_vars

\* "the query params will be present so we will now load the data"
\* (base-list.component.ts:138): once a list has subscribed, its URL has
\* parameters.
ReadyListHasParameters == ready => ~Bare(url)

\* "If nothing was provided in the query params, load some defaults or what
\* is in local storage" (base-list.component.ts:108): a list opened by a bare
\* link finds no parameters when it subscribes.
NothingProvidedNothingFound ==
  here # Absent /\ ~ready /\ ~provided => Bare(url)
=============================================================================
