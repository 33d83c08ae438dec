# TLA+ models of the Fluxnova Control Center

The Control Center is a single-page Angular application and a NestJS backend for
frontend ("the server" below) in front of the REST API of the Fluxnova BPM engine.
It stores nothing durable: its state is in components and services of the
browser, in the URL, in the browser's storage, in a signed session cookie and in
memory caches of the server.  What is hard in it is therefore order: answers
that overtake each other, values read before an `await` and used after it, events
replayed to late subscribers, components that are reused or destroyed while they
wait, cookies written by concurrent answers.  The models here are about these.

Paths are shortened: `PM` = `src/libs/process-modification/src/lib`,
`C` = `src/libs/common/src/lib`, `G` = `src/libs/grid/src/lib`,
`S` = `src/apps/server/src`.  `PROJECT.json` maps every definition to its lines.

## 1. Inventory of the system

| Part | State it keeps | Operations | Talks to |
|---|---|---|---|
| Command stack `PM/detail-pages/diagram-section/pim-command-stack.service.ts` | `_stack`, `_undoStack`, four subjects; one for the whole app | add, undo, redo, clear, execute, terminate warning | page and toolbar (synchronous subjects), engine (one POST), timer of 200 ms |
| Context menu, diagram toolbar, apply dialog (same directory) | the open menu and its disabled flags; `hasChanges`, `isEditing`; dialog | open, choose, close; edit, cancel, apply; confirm, clear, dismiss | command stack, page |
| Process instance page `PM/detail-pages/process-instance`, base class `item-detail-page.component.ts`, event bus | item of the route, instance, activity instances, incidents, tab counts, overlays, `isSaving` | open, switch item, reload, toolbar click, tab change, leave | route, memoized services, diagram, toolbar, tabs |
| Diagram viewer, mixins, overlays, heatmap | rendered diagram, overlays, heat canvas | render, mark, centre, toggle heatmap | page, event bus (`diagramRendered$`) |
| Toolbar `PM/common/toolbar` | per button: visible, enabled | init, update by item state | permission service |
| Tabs `PM/detail-pages/tabs` | item, filters, sort, page, rows, spinner, subscriptions | init, load, filter, sort, page, reload, reset, destroy | route, event bus, permission service, server |
| Variables tab and dialog | rows, edited copy, `isSaving` | add, edit, delete, save many | server (one request per variable) |
| List pages `PM/list-pages` | filters, sort, toggles, page, rows; URL; local storage | open, parse, save, restore, load, controls, bulk actions | router, local storage, permission service, server |
| Column state `PM/common/list-utils.ts` | saved columns | merge, sync, compare with defaults | local storage, grid |
| Definition page | version, diagram, tokens, heatmap's parameters | open, switch version, reload, actions | services, diagram, event bus |
| Deployment page | selected file in a subject that outlives the page, details, tab, panel | open, select, show versions | memo, URL, tabs |
| Batch page, decision pages | the batch with its two requests; the decision | open, act, toggle | services |
| History and called instances `PM/detail-pages/tabs`, `PM/services` | rows, count, memo | load, choose types, filter | server (several requests for one answer) |
| Confirmed actions `PM/services/confirm-action.service.ts` | none across calls | dialog, request(s), toast, delayed reload | modal service, services, toasts |
| Frontend services, `C/services/memoize.ts` | memo caches of 2 s to 30 s | one request per method | server |
| Permissions `C/services/permission.service.ts`, `C/auth/authorization.http-service.ts`, `C/utils/cache-utils.ts` | memo cache, session storage cache | nested AllOf/OneOf checks, ALL as fallback | server |
| Dashboard `PM/dashboard` | series, drill-down, hidden slices, time frame | load, drill, toggle slice | services |
| Session in the browser `C/auth`, `C/interceptor` | what the tab shows, dialog, reload timer | start, call, refuse, reload | server |
| Session on the server `S/auth` | session copy per request; MSAL's account cache | four middlewares, guard, refresh, login, callback, logout | cookie, identity provider |
| Tenant selection, toasts, layout, grid widgets | selected tenant; list of toasts; pager | select; show, remove; page change (300 ms debounce) | user service, router |
| Dialogs: start, migrate, evaluate, variable, confirmation, date selector | text, markers, choices, request under way | enter, choose, submit, dismiss | server, editor's worker |
| Grid filters `G`, tables of columns `src/libs/types/src/grid` | text typed, comparator, chosen values | type, choose, clear, disable | URL of the list |
| Server caches `S/common/cache.ts`, OAuth tokens `S/auth/oauth.service.ts` | six TTL caches | load through, flush, renew | engine, token endpoint |
| Engine controllers `S/fluxnova` | none | translate, fetch all pages | engine |
| Start, health, shutdown, configuration, logging, tracing, static files | ready flag | start, aggregate, close within 10 s | process signals |

How they interact.  A *click* runs to its end before anything else does, with
every synchronous subject subscriber it reaches: one click, answer or timer is one
action of a model.  *Answers* come in any order.  The *event bus* and the *router*
replay their last value to new subscribers.  The *router* reuses a page component
when only the item in the path changes, so that all that a component keeps has to
be reset or tolerated.  *Local storage and the URL* are shared by whatever list is
open.  *Session copies*: each request decodes the cookie, works on its own copy and
may write the whole cookie back.

What makes each part correct:

- token editing: the two stacks are one edit history; menu, overlays, toolbar and
  what is posted agree with it whatever happens in between;
- tabs: what is shown answers the question the tab's state asks; the spinner ends;
- lists: rows, URL and saved settings stay together; opening a list by a bare link
  shows what it showed last or its defaults;
- session: a working user is never thrown out, an expired token is never used, and
  an expired session ends at a login;
- instance page and toolbar: the buttons are those of the item's present state;
  after an action the page shows the state after it;
- variables: what is saved is the variable that was edited; failures leave rows
  that match the engine;
- confirmed actions: each selected entity is asked for once, and what succeeded is
  reported and reloaded;
- caches: no value older than its time is served, a flush is final, and a renewed
  token replaces the old one;
- column state: merging saved columns with the defined ones keeps every defined
  column once, and the user's order;
- requests of lists: the engine hears what filters, toggles and header show;
- diagrams: overlays, markers, heat and tooltips are those of what was loaded last;
- dialogs: what is sent is what is shown, and a late answer does not reach a later dialog;
- dashboard, history, called instances: chart, rows, count and link speak of the same items.

The hazards list of `PROJECT.json` names the lines where these can go wrong, with the
properties that cover each.

## 2. Modules

| Module | Models | Run |
|---|---|---|
| `EditHistory` | what undo and redo promise: a log with a cursor (abstract) | |
| `TokenEditing` | command stack, menu, toolbar, dialog, page; implements `EditHistory` | `token_editing` |
| `LatestLoad` | what a table of rows promises: the last question wins (abstract) | |
| `DetailTab` | `BaseTabComponent` and the tabs that load as incidents, jobs, job definitions and called processes do; implements `LatestLoad` | `detail_tab` |
| `ListPage` | `BaseListComponent`, its subclasses' load, the pager, URL and storage | `list_page` |
| `UserSession` | one tab, the server's middlewares and guard, MSAL's cache, the identity provider | `user_session` |
| `InstancePage`, `DefinitionPage`, `BatchPage` over `Toolbar` | three detail pages with toolbar, actions and reload | `detail_pages` |
| `VariablesTab`, `HeatmapLayer`, `DeploymentPage`, `ActivityFilter` | the other machines of the detail pages | `detail_pages` |
| `BulkActions`, `ConfirmDialog`, `Permissions`, `HistoryCache`, `OAuthToken` | services of browser and server | `services` |
| `DashboardWidget`, `ColumnState`, `ListQuery`, `DateRange` | dashboard, columns and requests of lists, date selector | `widgets` |
| `SequenceFlows`, `DiagramMarks`, `HeatmapPoints` | what is drawn on a diagram | `widgets` |
| `TabRows` | rows of two tabs, made of several requests | `widgets` |
| `MigrateModal`, `SubmitForm`, `VariableDialog` | dialogs | `widgets` |
| `DetailPages`, `Parts` | what the modules of one run share: which of them a behaviour is about, and a budget of gestures | |
| `TokenEditing_proofs`, `DetailTab_proofs`, `ListPage_proofs`, `UserSession_proofs` | theorems about the module of that name | |
| `DetailPages_proofs`, `Services_proofs`, `Widgets_proofs` | theorems about the machines of that run | |
| `Lists_proofs` | theorems about the columns of lists, of the run `widgets` | |
| `MC*` | instances for TLC | |

The three runs `detail_pages`, `services` and `widgets` hold machines that do not interact:
a behaviour is about one of them, chosen at the start, and the others do not move.  Their
states add up instead of multiplying, so each machine is checked in its own bounds.  Machines
that do interact are one module: the three pages with their toolbar, the heatmap with switch,
settings, page and canvas, the deployment page with its sections, the filter with URL, page,
tab and grid, a dialog with its selector.

### TokenEditing

`stack`, `undoStack` are the service's arrays (top last).  `IsEmptyEmitted` is what
toolbar and page do when `isEmpty$` emits, as part of the step that emits it and
with the values the arrays have at that moment: `clear()` emits before it drops the
undo stack, so the toolbar still sees it.  `OpenMenu` fills a menu whose flags are
read from the stack; `ChooseKind`, `ChooseUndo`, `ChooseRedo` are clicks on it later.
`ApplyClicked`, `ModalConfirmed`, `ModalCleared`, `ModalDismissed` are the dialog,
`Accepted`, `Rejected`, `RejectedWithoutBody`, `Settled` the answer and the timer
after it.  `OpenPage`, `SwitchItem`, `LeavePage` are the route.

Decisions.  Activity instances that are not loaded are the empty set, with which the
menu only offers to add.  The menu of the root process offers undo and redo only.
Filling the menu and showing it in the next turn are one step, since any click closes
a menu.  The dialog's backdrop blocks clicks, not the browser's back button.  The two
kinds of "start" instructions are one.  Whether modification tools are enabled and
permitted is left open: the model allows editing always, which is more than the code
does.  Not prevented by the code, and contained in the model: commands given while a
modification is under way or in the 200 ms after it are dropped by `clear()`; Apply
can be clicked again during the flight; the stack outlives the switch to another
instance.

### DetailTab

A question (`Query`) names item, filters and page; an answer is named by its question.
The actions are the methods of `BaseTabComponent`; `PermissionsAnswered` is the part of
`init()` after its `await`, `FilterCompared` that of `onFilterChanged`.  `live` are the
subscriptions to answers; tabs that wait for the diagram (`joins`) never complete
theirs, so an answer stays and is shown again at each rendering.
`KeepsSubscription = FALSE` is the jobs tab.  The activity filter of the route is part
of the filters.  `delay(0)` and `delay(1)` between answer and display are part of
`Answered`.

### ListPage

`url` are the query parameters, `saved` the local storage, `Emitted` the subscription
to `route.queryParams`: it either completes a bare URL (`Restored`) or saves, parses and
loads.  The three spellings of "nothing" are kept apart where the code tells them apart:
a parameter that is missing (`Absent`), one that is there without content (`Empty`: `''`
or `[]`), and what parsing makes of them.  `toggles` as parsed outlive the component:
the constants they are kept in are shared by all components of a list (`asked`).
`ghosts` are lists that were left while they waited for a permission check and then
subscribe nevertheless.

Decisions.  A navigation that only changes query parameters is atomic, and one to the
same URL is ignored (the router's default).  Rows and count are one request.  One
toggle filter for a list.  Page size is part of the page.  Links to lists carry at most a
filter.  The grid's events that echo a change of the code are left out, but the user may
sort and filter while the list waits.  Columns are in `ColumnState`, what the filters ask
in `ListQuery`, buttons in `BulkActions`.  Several browser tabs that share local storage
are left out.

### UserSession

A request is `Arrive` (the middlewares and the guard's decision, in the order of
`AppModule.configure`), `CacheRead` and `Acquired` or `NotAcquired` (the refresh, over
two awaits), then `Answered` or `Refused` with the cookie written iff the session copy
changed.  Time is discrete, counted down from constants that stand for the code's five
minutes, thirty minutes and one minute; `Tick` waits for requests that are as old as
`MaxDuration`.  MSAL, cookie-session and the identity provider are external: the cache is in
memory and lost by `Restart`; answers to a page that was left are ignored by the browser;
static assets are part of the page.  A session without a token is stamped too, and its cookie
may replace one that holds a token; a cookie of a stamp alone counts as none, and whether its
stamp is due is left open (`Changes`).  `excused` remembers what lies outside the promise:
a failed refresh, a restart, an idle user.

### The detail pages

`Toolbar` keeps for each button whether it is shown and enabled (`bar`), and what waits for the
two permission checks; `initButtons` and `updateButtonStates` are its two writers.  The pages
call it as the code does: the instance page on each instance it shows, the definition page
when details are loaded, the batch page when the batch is read or toggled.

`InstancePage`: `requests` are loads under way with the loads of the page that wait for them
("first", "reload", "stray"), `memo` and `memoAge` the memo of `getProcessInstance`, one creation
date for all entries.  `DefinitionPage`: `detailLoads` and the diagram from XML over import to the
overlays (`drawing`, `importing`, `rendered`, `tokens`).  `BatchPage`: the two requests of
`getBatch`, the spinner, actions, and the callback 200 ms after success that toggles what is
shown; the engine may carry out an action whose answer is an error, after which the page
loads nothing (`BatchFailed`).  `VariablesTab`: `rows` against `values` in the engine, the dialog by row index, saves in
parallel, the memo.  `HeatmapLayer`: `heatTicks` are the timers of 0 ms in order,
`heatResize` the one of 100 ms.  `DeploymentPage`: `selectedResource` is the subject that
outlives the page, `delayed` its values under way to the page.  `ActivityFilter`: five copies
of the filtered activity and the counts of the badges.

Auxiliary variables (so marked) remember why a state is an exception of a property: an
answer was overtaken, another user acted, a load failed.  Each exception of a property names
such a cause, so that the property still says everything about behaviours without it.

Decisions.  A navigation within one page takes microtasks only and ends before the next
event.  A page stays where it is while a dialog is open.  Tabs of a page load as in
`DetailTab`; `ActivityFilter` keeps of rows the activity they were asked by.  Page reuse for
another item is in `InstancePage`, `DefinitionPage` and `DetailTab`, not in `ActivityFilter`.

### Services

`BulkActions`: `asking` is the dialog, `runs` the confirmed actions with their requests (sets of
rows, one row or all), in what order they are sent (two at a time, all at once, one after the
other) and how they end at an error; `lists` are the uncancelled loads.  Four pages: batch
list, jobs and failed jobs tabs, instance list.  The engine may carry out a request
whose answer is an error.  The jobs tab's wait for the diagram is in `DetailTab`.
`ConfirmDialog`: options, reason, number, the date in selector and text with two parsers.
`Permissions`: the code's tables of what each action and each toolbar asks for, as trees of
`AllOf` and `OneOf`; the session's cache by user and tenant, the memo of two seconds by
permission alone, grants that change over the day.  A request may take longer than the memo
lasts: who waits for it goes on waiting (`late`) while others ask anew.  The constants choose
which of the actions (`Checked`), toolbars (`Toolbars`) and item ids an instance asks about; the
run lets two checks of the deepest specification or of a list's buttons overlap, toolbars (flat
specifications of one pair) are left to the proof.
`HistoryCache`: `withCache` over `fetchAll`.  `OAuthToken`: one tick of the clock is five minutes.

### Widgets

`DashboardWidget`: slices are functions of their labels; sorting, colours and hovering are left
out.  `SequenceFlows` holds both the engine, which moves a token and keeps the history, and
the rule of the page, which colours flows from that history alone; one token, moved by hand
only from states that wait.  `ColumnState`: grid, saved columns, merge over two releases; the
batch list's two states are left out.  `DateRange`: days, and of the time of a day only what
tells the code's cases apart; the input outside the popover and its mask are left out.
`MigrateModal`, `SubmitForm`: requests outlive their dialog, and the next dialog may hear of them;
selected instances and request options are left out, and markers of other editors.
`VariableDialog`: a value is a spelling; integers have three widths.  `DiagramMarks`: overlays by
activity and kind, markers by activity, for the instance page, its history and the definition page; one drawing
per page, no positions, colours or labels.  `HeatmapPoints`: values are fractions, distances
are squared, averages are rounded.  `TabRows`: the reads of one answer are
apart, and the engine works in between.  `ListQuery`: tables of columns as records, the
request built from URL and tables (`RequestFor`), and what the engine makes of a parameter
(`EngineFields` and what follows, taken from the request types and the engine's interface).

## 3. Runs

| Run | Instance | Distinct states | Shows |
|---|---|---|---|
| `token_editing` | 2 instances of one definition, 2 elements, 1 modification at a time | 125 000 | one edit history; menu, overlays and toolbar agree with it |
| `token_apply` | the same, 2 modifications | | **violated**: the saving flag is not always reset |
| `detail_tab` | 2 items, 2 filter models, 2 pages, 2 subscriptions | 358 000 | settled tabs, refinement, the spinner ends |
| `jobs_tab` | the same, `KeepsSubscription = FALSE` | | **violated**: an earlier answer is shown |
| `list_page` | 1 list with default filter and toggle, 1 other filter value (''), 2 pages, 2 requests, 1 ghost | 1 227 000 | a settled list shows its URL; restoring asks what was saved |
| `list_stays` | the same | | **violated**: a bare list that never loads |
| `list_left_early` | 2 lists | | **violated**: a list left early writes into the URL of the next |
| `user_session` | 4 token names, 2 requests at a time, `Life` 14, `RefreshWindow` 9, `SessionTimeout` 4 | 336 000 | an active user stays; forwarded tokens are valid |
| `user_session_end` | 3 token names, 2 requests, short times | 8 700 | liveness: an expired session reaches a login |
| `detail_pages` | 2 ids, 2 values or timelines, 5 gestures, 2 requests of each kind, 4 files, 2 filtered tabs and a plain one | 1 195 000 | each detail page at rest is right |
| `services` | 3 rows and 2 actions; 2 dates and 5 inputs; 2 tenants, 2 resources; pages of 2; 1 action with its toolbar and 1 item; tokens of life 2, 3 or without end | 2 800 000 | what is told, sent, granted and served |
| `widgets` | see `Widgets.cfg`; 2 to 7 gestures for each machine | 1 750 000 | what is shown fits what is kept, sent and was told |

Why the bounds are enough.

- `token_editing`: the interesting cases are two commands in either order, one undone,
  a menu open over a change, and a modification that settles after more was done.  Two
  elements give them, each with at most one command.
  Everything is also proved for any number.
- `detail_tab`: a late answer needs two subscriptions (which a mutant keeps), a filter race two handlers, reuse
  two items.  Three items (1.04 million states) find nothing more.
- `list_page`: an overtaken answer needs two requests, the pager a second page; two
  filter values (3.4 million states) find nothing more.  Both properties are also
  proved for any number.
- `user_session`: nine units stand for the five minutes of the refresh window, so that a unit
  is some 33 s, a request lasts at most two units and an active user sends one every unit or
  two.  Nine is the least for which `ActiveUserStays` is proved (`TimesFit`, section 4) when a
  request and a pause take one unit; with two requests at a time eight still suffice and seven
  violate it, as does a cookie of three; with five token names the states are the same.  The
  cookie's time is shorter against the window than the code's thirty minutes against five,
  the harder case.
- `detail_pages`: an overtaken answer needs two requests and two ids; the
  causes of the exceptions take one or two gestures on an open page, so five hold a cause and
  what follows it.  All nine invariants are also proved, for any number of each.
- `services`: three rows give a chunk of two requests and a late one; `PageSize` 2 with
  `MaxTotal` 5 gives a short page, a short chunk and a limit that is no multiple; tenant, resource
  and turn are two where answers have to differ; `MaxTime` 6 lets a token of life 3 expire and be renewed
  twice.  All invariants are also proved, for any number of each.
- `widgets`: two of each thing that has to be told apart, and as many gestures as the longest
  cause needs plus one or two; `SequenceFlows` has a loop in a loop and up to eight activity
  instances, integers have two, three and four bits, and `ListQuery` starts from each of the seven lists
  with all of its columns; a fourth gesture there finds nothing more.
  All twelve invariants are also proved, for any number of each.

What each property is for:

- `NoElementTwice`: the guard against a second command on an element is a flag computed
  when the menu was filled, not when it is clicked.
- `EditorAgreesWithStack`: overlays, menu and toolbar follow the stack although they only hear of
  it through emissions, some of them before the arrays change.  That every pending
  command has its overlay does not hold: a redraw removes overlays.
- `WarningExactOnFlatTrees`: the warning compares two counts; what is not loaded counts as one.
- `HistoryImplemented`: two arrays and four operations are one log with a cursor.
- `SettledTabShowsItsState`, `LastAnswerWins`, `SpinnerEnds`: see `LatestLoad`.
- `SettledListShowsItsUrl`, `OpenedAgainAsksTheSame`: rows, URL and storage agree.
- `ActiveUserStays`, `ForwardedTokenIsValid`, `ExpiredLeadsToLogin`: the session.
- `PageAtRestFitsItsInstance`, `DefinitionAtRestShowsItsVersion`, `BatchAtRestIsTrue`,
  `HeatmapAtRestIsRight`, `DeploymentAtRestShowsItsFile`: when nothing is under way, page, toolbar,
  diagram and URL speak of one item in its present state, or the property says what came between.
- `SpinnerMeansWork`: whatever path an action takes, something will stop the spinner.
- `SavesWhatWasShown`, `RowsCatchUp`: edits by index, and saves that are answered in any order.
- `FilterIsOneEverywhere`: five copies of one value, written by two sides.
- `ToastsTellTheTruth`, `ChangesGetShown`, and the spinner of the batch list: partial success,
  replaced streams, reloads after a delay.
- `ConfirmsWhatIsShown`: two parsers and a debounce write one date.
- `PermissionsAccountedFor`: answers of several times and tenants meet in one walk.
- `HistoryServedIsWhole`, `OAuthTokenIsFit`: loads that race to fill one entry.
- `DashboardTellsOneStory`: chart, legend, count and link after any drill, hide and late answer.
- `ColouredFlowsWereTaken`: the rule against the token, as long as times tell apart what it compares.
- `ColumnsComeBack`, `ListAsksWhatItShows`: what is saved, shown and asked of a list.
- `RangeSentIsShown`, `MigrateDialogIsTrue`, `FormsSubmitWhatIsChecked`, `VariableDialogIsTrue`: dialogs.
- `DiagramShowsWhatIsKnown`, `HeatTellsTheHistory`: nothing of an earlier answer stays on the diagram,
  but for the cases the properties name.
- `HistoryRowsAreWhole`, `CalledRowsAreCounted`: rows made of several answers.

Deadlock is checked in every run but `detail_pages`, `services` and `widgets`, whose bounds on
gestures are used up in the end: there a user who does nothing more is no deadlock.

Fairness.  `DetailTab`: the browser answers each request or fails it, promises settle,
and the permission check never rejects since `PermissionService` catches; nothing is
assumed of the user or of the diagram, and so the spinner may stay while a diagram is
missing.  `UserSession`: requests under way are answered, a page that loads sends its
requests, and the timer of the dialog runs; nothing is assumed of time, of the identity
provider or of the user.  The other modules state safety only; "at rest" in them means that
no request, timer or callback is under way, so that what must come in the end is said of the
states in which all has come.

Findings.  `PROJECT.json` quotes the comment or test that each violated property comes
from.  In short: `execute()` leaves `isApplyingChanges$` true when an error has no body or
the stack was emptied; the jobs tab ends a subscription it never keeps; a list whose
saved settings are all empty waits for a navigation that changes nothing; `init()` of a
list subscribes after `ngOnDestroy`.

### Seen while modelling

No doc or test of the repository says otherwise of these, so no run claims them; the models
contain them, and most are the exceptions the properties name.

- Lists: the filter of a job's priority has no effect (its comparators are not the keys of its
  parameters); a filter with two comparators shows the first one after the page is opened again while the
  request uses the saved one; a text that settles after `latestVersion` was switched on is
  refused by the engine, and disables the toggle beside the filter until one is reset; active
  batches restored with the sorting of completed ones are refused, and switching batches asks
  once by the old filters; the incident list's spinner stays after a failure.
- Tabs: Reset grid loads before its navigation ends; a filter typed on a tab without activity
  column clears the URL's activity; the job definitions tab hears its activity filter from the URL
  only; each `init()` subscribes once more; the pager shows page 1 after navigations that keep the
  rows' page; a new variable's name is compared with the loaded rows only.
- Token editing: commands given while a modification is under way or in the 200 ms after it are
  dropped; commands of one instance are posted to another if a link leads there in between.
- Deployment page: a failed info section leaves an earlier deployment's file selected; versions
  of decisions are lost when processes answer last; one unreadable file hides the whole deployment.
- Dialogs: an instance started by a dialog that was closed is told to nobody; a request of the
  migration may name a version chosen while it was under way, and marks stay wrong when the source
  is rendered after the target; Enter confirms in spite of a disabled button; an empty text is
  taken for a number, and so is hexadecimal notation; unformatted XML counts as changed.
- Diagrams: on the page of a definition suspensions are drawn twice while tokens are shown, and a
  rendering draws tokens that are switched off; what is drawn on an activity that only waits is
  drawn again at each load and not removed; a flow both of whose ends ran is heated though it was not taken.
- Server: the query string "false" of `getAllResults` is taken for true; the limit of the history is
  rounded up to whole pages, and its cache knows neither sorting nor tenant.
- Called instances: with an activity and another filter the badge ignores the other filter.

## 4. Proofs

All theorems are checked by TLAPS for every value of the constants that satisfies
the `ASSUME`s of the module (values are pairwise of different kinds where the code's
types are; bounds are naturals).

- `TokenEditing_proofs`: `Invariant`, by `IInv = TypeOK /\ MenuInv /\ StackInv`.  No
  property is inductive alone.  `NoElementTwice` depends on the open menu being for a
  free element, which depends on what closes menus; the toolbar's flags start from
  those of a page that was left, so that leaving has to clean up, hence `NothingOffPage`; a move
  between the stacks keeps elements distinct only if the two together are distinct
  (`StacksDistinct`).  From it follow `TypeCorrect`, `OneCommandPerElement`, `EditorIsCurrent`.
  `WarningExact` counts: with one command for each element, the removals inject into the active
  activities, and equal numbers make that a bijection.
  `ImplementsHistory` shows that every step maps to a step of `EditHistory` or a stutter, by
  lemmas on the timeline (pending commands, then undone ones in reverse).  `CursorInLog` and
  `ElementsDistinct` are about `EditHistory` with a log of its own.
- `DetailTab_proofs`, for tabs that keep their subscription: `TypeCorrect`, `SettledTab`,
  `ImplementsLatestLoad`.  `IInv = TypeOK /\ LiveInv /\ RowsInv /\ AskedInv`: at most the last
  question is subscribed to; and while the last question is not the one the state asks,
  some handler is under way that holds filters different from the current ones, and will
  therefore load when it goes on.  That last part is why comparing after the `await` is
  correct at all.
- `ListPage_proofs`: `Invariant`, `TypeCorrect`, `SettledList`, `OpenedAgain`.  `FollowsUrl`: what a subscribed list
  parsed last is what its URL says now (every path that changes the URL goes through the
  router).  `LastIsMine`: the last request, or the rows when none is under way, are of that
  question.  `RowsAreParsed`: a list with rows has parsed something, so that a bulk action
  reloads the right question.  `SavedAsAsked`: what a list saved is what it asked last, in
  the URL's spelling of "nothing", also for a list that was left and saves late; hence
  the action property `OpenedAgainAsksTheSame`.
- `UserSession_proofs`: `ActiveUserStaysHolds`, `ForwardedTokenHolds`, for any number of requests
  and all times with `TimesFit`: the refresh window exceeds five times the duration of a request
  and three pauses of the user, a token lives two pauses and three durations longer than the
  window, the cookie outlives a refresh interval, a pause and a duration.  The code's times (5, 60,
  30 and 1 minutes) fit as long as requests take less than half a minute and an active user
  pauses less than 45 seconds.  The cookie is written by whichever answer comes last, so the
  invariant (`UserInv`) bounds the age of every token somebody may still write: it was good
  when it was read, or it is the account's, which the next request adopts, or the account
  has a newer one.  `CookieInv` adds that the cookie was looked at a short while ago, or a
  request is under way that writes it.

The three composed proof modules are about the specification of the run: `OnePageMoves`,
`OneMachineMoves`, `OneWidgetMoves` say that each of its steps is a step of one machine that leaves the others
alone, so an invariant of a machine is one of the run.

- `DetailPages_proofs`, all nine invariants of the run.
  - Process instance page (`PageFits`): only the load that subscribed last can be a reload, and it
    asks for the instance of the URL; what the memo takes for asked is asked by a request whose
    answer it keeps; a foreign instance is shown only while a load waits.  The toolbar's lemmas
    (`BarOK`) say what one update leaves: a bar that fits the state, or one that waits for a check
    that makes it fit.
  - Definition page (`DefinitionShown`): whatever the order of loads, renderings and switches, no
    token of another version stays, and a diagram drawn after the last switch has its tokens.
  - Batch page (`SpinnerWorks`, `BatchTrue`): it never loads again, so `DueInv` follows each
    toggle of a visit: the engine is ahead of the page exactly while its callback is due, until
    one of the causes `batchForeign` marks: others act, the batch ends during the read, toggles
    overlap, or the answer of an action that was carried out is lost.
  - Variables tab (`SavesShown`, `RowsTrue`): until the rows move, the row of the dialog's index is
    the one it showed; each save makes the next load ask anew, unless the memo is fresh.
  - Heatmap (`HeatmapRight`): `HeardInv` says how far the page is in the parameters of the event
    bus, `CanvasInv` that a heatmap is drawn exactly if the newest data are some.
  - Deployment page (`DeploymentShown`) and activity filter (`FilterIsOne`): where each copy of the
    file, or of the activity, still has to travel, and that the last question was asked by it.
- `Services_proofs`, all invariants of the run.
  - Bulk actions (`ToastsTold`, `ChangesShown`, `SpinnerDone`): `RunFits` follows the requests of one
    action from the queue over the engine to the answers; `ShownInv` says what each change that
    is not shown yet waits for: its action's end, the delay, the last load, or a load sent
    after the one that failed.
  - Confirmation dialog (`ConfirmsShown`): the date is read from the shown text as long as there is
    a selector, also while it closes, and an enabled button vouches for date and number.  The
    default date is assumed to be a date, and no date one of the two marks for "none".
  - Permissions (`PermissionsAreAccountedFor`): where each answer a walk knows, the session keeps or the
    memo holds may come from, and that a walk over any of the code's specifications, nested as
    they are, says yes only of what its answers permit and no only of what they do not.
  - OAuth tokens (`TokenIsFit`): a cached token was young when it was cached, and what a waiting
    request found is at most a tick older than its lookup.  Every lifetime is assumed to exceed
    one tick, the time a request may wait, and the margin to be at least one.
  - History cache (`HistoryWhole`): a reader that nothing moved under (`ReaderFits`) holds pages of
    the history as it is; its chunks ask for each page once and its limit stops it no page early,
    so that the pages it joins are the history, or as much of it as the limit allows.
- `Widgets_proofs` and, for the lists, `Lists_proofs`: all twelve invariants of the run.
  - Start and evaluate dialogs (`FormsSubmit`): `ButtonInv` computes the button from markers, error and
    the requests under way; `PostsInv` ties each request to the dialog that sent it.
  - Date selector (`RangeIsShown`): `TypedInv` says what each text still has to become, `SentInv` what
    was sent of it, `OrderInv` that the first date is not the later one.
  - Migrate dialog (`MigrateDialog`): `RequestsInv` gives every request to one dialog.  `ViewersInv`:
    a viewer draws the version it was last told of, or the last import under way is of that version
    (`Aims`); the source is drawn once (`DrawnOnce`); so the marks are exact whenever both are drawn.
  - Dashboard (`DashboardStory`): `SlicesInv` for what the chart shows, `StoreInv` for what is kept.
  - Variable dialog (`VariableDialogTrue`): `ValueInv`, for integers of any width; the widths are assumed
    to be those of powers of two that are naturals.
  - History (`HistoryIsWhole`): what a request read is what the log held then (`AnswersInv`,
    `RequestsFit`); the log only grows, so that whole entries stay whole.
  - Called instances (`CalledRows`): `AnswerFits` says what a list, and `BadgeFits` what a count may be
    made of, in terms of the calls up to the moment it was read.
  - Coloured flows (`FlowsColoured`): `PathInv` reads the history as the path of the token, and
    `TimesGrow` says that its times never go back; with times that tell flows apart, the rule then finds
    of each gateway the step the token took.
  - Columns of lists and tabs (`ColumnsBack`): `SavedInv` says that what is saved has each column of
    the release it was saved under once, the pinned ones first, and `ShownInv` that the grid shows
    what is left of it; laying out, displaying and merging leave each other's work alone, each
    shown by appending one column after the other.
  - Requests of lists (`ListAsks`): `ListQueryInv` has one part for each way in which page and
    request could part.  `ChosenAsSet`: a filter has the comparator its floating filter is
    set to, but for one that came with the URL or is being typed; `ChosenTogether`: no filter is in
    force that another one or a toggle disables, unless a text slipped in; `AskedForThis`: the
    request is that of the present filters, toggles and sorting.  The rest is about the tables:
    each of the some sixty columns fits its list (`FitsTable`, one lemma for each list).
    `Behaved`: who disables it is disabled by it, and the key it sorts by leads back to it;
    `Understood`: the parameter and the form that each of its comparators becomes are what the engine
    reads as that comparison of that column (`FilterHeard`, `ToggleHeard`).  What the engine does not
    take together is then kept apart by the columns themselves (`ClashSlipped`).  One
    assumption: the mark for no sorting (`Absent`) is not a key the engine sorts by.
  - Heat of a diagram (`HeatTold`): `HeatInv` ties the listeners under the mouse to what was rendered
    last.  The rest is arithmetic for any sizes: normalised heat keeps the order of the values and
    stays within 0 and 100, the points of a shape lie evenly about its centre, and those of a flow,
    of any number of bends and length, lead from one end to the other.
  - Diagram marks (`DiagramShows`): since nothing holds what was drawn, each drawing is exact only if
    the one before was what the page takes it for (`TokensInv`, `ColoursInv`); of an instance this
    rests on histories that never become empty (`HistoryGrows`) and on answers that do not
    overtake one another (`OneAnswer`).

Where an operator computes over sequences or sets of any size, the library's induction theorems
are of no use, since they take an operator as a parameter.  The proofs do with the least
counterexample instead: a set of naturals has a least member, so what the first has, and each
has after one that has it, all have (`OneAfterTheOther`), and likewise for sequences that
grow at their end (`ByAppending`); the predicate is a set.  A local recursive function is a `CHOOSE`; the
proof names the function it should be and shows that no other one fits (`PicksOnce`,
`JoiningEnds`, `CumulativeFacts`).  No module has a `RECURSIVE` operator.

SANY and the prover group some prefix operators differently: `UNION A \union B` and
`SUBSET A \ B` are `(UNION A) \union B` and `(SUBSET A) \ B` to TLC, but `UNION (A \union B)`
and `SUBSET (A \ B)` to the prover.  The modules write the parentheses, so that both read the same.

Only model-checked: the liveness properties `SpinnerEnds` of the tab and `ExpiredLeadsToLogin`,
since fairness and `ENABLED` are out of the prover's reach.  Every invariant that a run checks is
proved.

## 5. What could come next

1. An abstract cache ("nothing older than its time, a flush is final") that `HistoryCache`, the
   session's cache of permissions and the memos implement.
2. Liveness of the spinners of list and batch pages under answers that come.

## 6. Not modelled, and why

- The engine: what it answers is any value, or what a small history of it allows; which
  parameters it knows and refuses (`ListQuery`) is taken from its interface.
- Drawing: positions, colours, the heat library, animation, layout, themes, formatting.
- Confirmed actions: delayed execution of job definitions and the checkbox that includes
  instances, which add a parameter to a request.
- Dialogs: the mask that completes a date, tooltips, downloads, the schema's content.
- Deployment page: deletion (as on the batch page), download, the code editor, subscriptions that
  BPMN tabs leave behind and whose results nobody sees; the decision pages, which show one request.
- Lists: the direction of a sorting and its further columns, dates without their end, columns that
  have no filter or are not listed; several browser tabs that share the storage.
- Server: start, shutdown with its timer, health, which aggregates independent checks;
  configuration, logging, tracing: read once, or pure output.
- The generated API client, shared types without behaviour, assets, and the tests, which are
  quoted where they state a property.
