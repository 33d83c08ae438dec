---------------------------- MODULE BulkActions ----------------------------
(***************************************************************************)
(* An action on selected rows, from the dialog to the reload: the          *)
(* confirm-action service, the requests of the job, batch and process      *)
(* instance services, and the pages that call them.  A run is one          *)
(* confirmed action; its requests are sets of rows, one row in most kinds  *)
(* and all of them in others.  The engine may carry a request out whose    *)
(* answer is an error, or whose run has ended before the answer.           *)
(***************************************************************************)
EXTENDS Parts

CONSTANTS Items,    \* rows of the page
          MaxRuns,  \* bound of the actions confirmed in one behaviour
          MaxLists, \* bound of the loads of the list under way at once
          MaxClicks \* bound of selections, reloads and failures

VARIABLES
  selectedRows, \* the rows picked in the grid
  asking,       \* the open dialog: [kind, rows], or Absent
  runs,         \* the confirmed actions, in order
  callbacks,    \* how many reloads DATA_RELOAD_DELAY holds back
  lists,        \* the loads of the list, in the order they were sent
  isLoading,    \* the spinner of the page
  dataShown,    \* whether the list has rows
  listFailed,   \* whether a load failed and none sent after it has answered
  unshown,      \* the rows whose change the page does not show
  abandoned,    \* those of them that no reload was meant to show
  overtaken,    \* those it did show, until an answer read before them came
  reloadedUnder \* whether the rows were replaced while the dialog was open

bulkVars == <<selectedRows, asking, runs, callbacks, lists, isLoading, dataShown, listFailed,
              unshown, abandoned, overtaken, reloadedUnder>>

KindsOf == [batchList    |-> {"suspendBatches", "deleteBatches", "retryBatches"},
            failedJobs   |-> {"deleteJobs", "retryJobs"},
            jobsTab      |-> {"each", "request", "jobRetries"},
            instanceList |-> {"instances"}]
ActionPages == DOMAIN KindsOf
Kinds == UNION {KindsOf[p] : p \in ActionPages}
Page == part

Subsets == (SUBSET Items) \ {{}}
Dialogs == [kind : Kinds, rows : SUBSET Items]

ASSUME BulkActionsAssumption ==
  /\ Items # {} /\ IsFiniteSet(Items)
  /\ MaxRuns \in Nat /\ MaxLists \in Nat /\ MaxLists > 0 /\ MaxClicks \in Nat
  /\ Absent \notin Dialogs

SuspendLimit == 2 \* mergeMap's second argument
Unlimited == Cardinality(Items)

\* How many requests of a run are under way at once
Limit(kind) == IF kind \in {"suspendBatches", "retryBatches", "deleteJobs", "retryJobs"}
               THEN SuspendLimit ELSE Unlimited

\* One request for each row, or one for all of them
Requests(kind, rows) == IF kind \in {"instances", "jobRetries", "request"}
                        THEN IF rows = {} THEN {} ELSE {rows}
                        ELSE {{i} : i \in rows}

\* The engine takes one request about several rows as a batch of its own,
\* and changes the rows some time later
Submitted(kind, rows) == kind \in {"instances", "jobRetries"} /\ Cardinality(rows) > 1

\* The runs that collect their errors and wait for every answer
Collects(kind) == kind \in {"each", "retryBatches"}
\* The list pages drop their rows before a load and have no handler for an
\* error; only the failed jobs tab ends the load under way for the next one
ListPages == {"batchList", "instanceList"}
CancellingPages == {"failedJobs"}

Running(r) == runs[r].told = "running"
ConfirmedRuns == {r \in DOMAIN runs : Running(r)}
Rows(requests) == UNION requests

\* loadData of the page, as the changes of the list it makes
LoadData ==
  /\ lists' = Append(IF Page \in CancellingPages THEN <<>> ELSE lists,
                     [read |-> FALSE, missing |-> {}, old |-> FALSE])
  /\ isLoading' = TRUE
  /\ IF Page \in ListPages
     THEN dataShown' = FALSE /\ selectedRows' = {}
     ELSE UNCHANGED <<dataShown, selectedRows>>
NoLoad == UNCHANGED <<lists, isLoading, dataShown, selectedRows>>
CanLoad == Len(lists) < MaxLists \/ Page \in CancellingPages

\* The engine changes rows: the page does not show it, and a load that has
\* been read already will not either
Changed(rows) ==
  /\ unshown' = unshown \union rows
  /\ lists' = [k \in DOMAIN lists |->
                 IF lists[k].read THEN [lists[k] EXCEPT !.missing = @ \union rows] ELSE lists[k]]
-----------------------------------------------------------------------------
BulkInit ==
  /\ selectedRows = {} /\ asking = Absent /\ runs = <<>> /\ callbacks = 0
  /\ lists = <<>> /\ isLoading = FALSE /\ dataShown = TRUE /\ listFailed = FALSE
  /\ unshown = {} /\ abandoned = {} /\ overtaken = {} /\ reloadedUnder = FALSE

\* The user picks rows of the list
SelectRows(rows) ==
  /\ Event(MaxClicks) /\ dataShown /\ asking = Absent /\ rows # selectedRows
  /\ selectedRows' = rows
  /\ UNCHANGED <<asking, runs, callbacks, lists, isLoading, dataShown, listFailed, unshown,
                 abandoned, overtaken, reloadedUnder>>

\* A button of the page opens the dialog of its action; most take the rows
\* now.  The batch list shows its spinner from here on
AskToConfirm(kind) ==
  /\ kind \in KindsOf[Page] \ {"retryJobs"}
  /\ asking = Absent /\ selectedRows # {} /\ Len(runs) < MaxRuns
  /\ kind = "request" => Cardinality(selectedRows) = 1
  /\ asking' = [kind |-> kind, rows |-> selectedRows]
  /\ reloadedUnder' = FALSE
  /\ isLoading' = (isLoading \/ Page = "batchList")
  /\ UNCHANGED <<selectedRows, runs, callbacks, lists, dataShown, listFailed, unshown, abandoned,
                 overtaken, events>>

\* Mutant: a cancelled dialog leaves the spinner on
DismissOnly ==
  /\ asking # Absent
  /\ asking' = Absent
  /\ UNCHANGED <<selectedRows, runs, callbacks, lists, isLoading, dataShown, listFailed, unshown,
                 abandoned, overtaken, reloadedUnder, events>>

\* The dialog is left: only the batch list has something to undo
DismissDialog ==
  /\ asking # Absent
  /\ asking' = Absent
  /\ isLoading' = (isLoading /\ Page # "batchList")
  /\ UNCHANGED <<selectedRows, runs, callbacks, lists, dataShown, listFailed, unshown, abandoned,
                 overtaken, reloadedUnder, events>>

\* Mutant: every page reads its selection when the dialog has been confirmed
ActedOnSelection(dialog) == selectedRows

\* The rows an action is carried out on: the failed jobs tab reads its
\* selection when the dialog has been confirmed
ActedOn(dialog) == IF dialog.kind = "deleteJobs" THEN selectedRows ELSE dialog.rows

\* A run whose first requests, as many as may be, are sent
NewRuns(kind, asked, rows) ==
  LET requests == Requests(kind, rows)
      first == {sent \in SUBSET requests :
                  \/ sent = requests /\ Cardinality(sent) <= Limit(kind)
                  \/ Cardinality(sent) = Limit(kind)}
  IN {[kind |-> kind, asked |-> asked, queue |-> requests \ sent, inflight |-> sent,
       performed |-> {}, answered |-> {}, failed |-> {}, told |-> "running"] : sent \in first}

\* A new run of the failed jobs tab ends the one under way, which is told
\* to nobody
Replaced(r) == IF Page = "failedJobs" /\ r.told = "running"
               THEN [r EXCEPT !.told = "replaced", !.queue = {}] ELSE r

Begin(kind, asked, rows) ==
  LET before == [k \in DOMAIN runs |-> Replaced(runs[k])] IN
  \E run \in NewRuns(kind, asked, rows) :
     /\ abandoned' = abandoned \union (unshown \intersect
                       UNION {Rows(runs[k].performed) : k \in {k \in DOMAIN runs : before[k] # runs[k]}})
     /\ IF run.inflight = {}
        THEN \* nothing to do: the stream completes at once
             /\ runs' = Append(before, [run EXCEPT !.told = "success"])
             /\ LoadData
        ELSE runs' = Append(before, run) /\ NoLoad

Confirm ==
  /\ asking # Absent
  /\ Begin(asking.kind, [rows |-> asking.rows, reloadedUnder |-> reloadedUnder], ActedOn(asking))
  /\ asking' = Absent
  /\ UNCHANGED <<callbacks, listFailed, unshown, overtaken, reloadedUnder, events>>

\* The failed jobs tab retries without asking
SetRetries ==
  /\ Page = "failedJobs" /\ asking = Absent /\ selectedRows # {} /\ Len(runs) < MaxRuns
  /\ Begin("retryJobs", [rows |-> selectedRows, reloadedUnder |-> FALSE], selectedRows)
  /\ UNCHANGED <<asking, callbacks, listFailed, unshown, overtaken, reloadedUnder, events>>
-----------------------------------------------------------------------------
\* The engine carries a request out.  A run that has ended already will not
\* show it; a batch of the engine's own is under way and shown by nobody
Perform(r, q) ==
  /\ q \in runs[r].inflight \ runs[r].performed
  /\ Changed(q)
  /\ runs' = [runs EXCEPT ![r].performed = @ \union {q}]
  /\ abandoned' = IF Running(r) /\ ~Submitted(runs[r].kind, q) THEN abandoned
                  ELSE abandoned \union q
  /\ UNCHANGED <<selectedRows, asking, callbacks, isLoading, dataShown, listFailed, overtaken,
                 reloadedUnder, events>>

\* What a run tells at its end, and whether a reload follows: none, one
\* when the delay has passed, or one at once
Outcome(run) ==
  IF run.kind = "retryBatches" THEN "success" \* the failures are in a result nobody reads
  ELSE IF run.failed = {} THEN IF Submitted(run.kind, Rows(run.answered)) THEN "submitted" ELSE "success"
  ELSE IF run.kind = "each" /\ run.answered # {} THEN "both" ELSE "error"

\* Mutant: a partial success is treated as a failure
ReloadUnlessAllFine(run) ==
  IF run.kind # "instances" /\ run.told \in {"error", "both"} THEN "none"
  ELSE IF run.kind \in {"instances", "deleteJobs", "retryJobs"} THEN "now" ELSE "later"

\* No reload is meant to follow; of the instances an error was made an answer
GivesUp(run) == run.told = "error" /\ run.kind # "instances"

Reload(run) ==
  IF GivesUp(run) THEN "none"
  ELSE IF run.kind \in {"instances", "deleteJobs", "retryJobs"} THEN "now" ELSE "later"

Tell(run) ==
  /\ \/ Reload(run) = "now" /\ LoadData /\ UNCHANGED callbacks
     \/ Reload(run) = "later" /\ callbacks' = callbacks + 1 /\ NoLoad
     \/ /\ Reload(run) = "none" \* callbacks.error of the batch list ends the spinner
        /\ isLoading' = (isLoading /\ Page # "batchList")
        /\ UNCHANGED <<callbacks, lists, dataShown, selectedRows>>
  /\ abandoned' = IF GivesUp(run)
                  THEN abandoned \union (unshown \intersect Rows(run.performed)) ELSE abandoned

\* An answer moves the queue on; the last one, or an error that ends the
\* stream, ends the run
After(run, q, ok, next) ==
  LET noted == [run EXCEPT !.inflight = @ \ {q},
                           !.answered = IF ok THEN @ \union {q} ELSE @,
                           !.failed = IF ok THEN @ ELSE @ \union {q}]
      moved == [noted EXCEPT !.inflight = @ \union next, !.queue = @ \ next]
      stopped == ~ok /\ ~Collects(run.kind)
  IN IF stopped THEN [noted EXCEPT !.queue = {}, !.told = Outcome(noted)]
     ELSE IF moved.inflight = {} THEN [moved EXCEPT !.told = Outcome(moved)] ELSE moved

Waiting(run) == IF run.queue = {} THEN {{}} ELSE {{n} : n \in run.queue}

Answer(r, q, ok) ==
  /\ Running(r) /\ q \in runs[r].inflight
  /\ ok => q \in runs[r].performed
  /\ CanLoad
  /\ \E next \in Waiting(runs[r]) :
     LET run == After(runs[r], q, ok, next)
     IN /\ runs' = [runs EXCEPT ![r] = run]
        /\ IF run.told = "running"
           THEN NoLoad /\ UNCHANGED <<callbacks, abandoned>> ELSE Tell(run)
  /\ reloadedUnder' = (reloadedUnder \/ (asking # Absent /\ selectedRows' # selectedRows))
  /\ UNCHANGED <<asking, listFailed, unshown, overtaken>>

RequestAnswered(r, q) == Answer(r, q, TRUE) /\ UNCHANGED events
RequestFailed(r, q) == Answer(r, q, FALSE) /\ Event(MaxClicks)

\* A request nobody waits for is gone
RequestDropped(r, q) ==
  /\ ~Running(r) /\ q \in runs[r].inflight
  /\ runs' = [runs EXCEPT ![r].inflight = @ \ {q}]
  /\ UNCHANGED <<selectedRows, asking, callbacks, lists, isLoading, dataShown, listFailed, unshown,
                 abandoned, overtaken, reloadedUnder, events>>
-----------------------------------------------------------------------------
\* DATA_RELOAD_DELAY is over: the callback of the page loads the list
DelayOver ==
  /\ callbacks > 0 /\ CanLoad
  /\ callbacks' = callbacks - 1
  /\ LoadData
  /\ reloadedUnder' = (reloadedUnder \/ (asking # Absent /\ selectedRows' # selectedRows))
  /\ UNCHANGED <<asking, runs, listFailed, unshown, abandoned, overtaken, events>>

\* The user has the list loaded again: the toggle, a filter, a sort, a page
UserReload ==
  /\ Event(MaxClicks) /\ asking = Absent /\ CanLoad
  /\ LoadData
  /\ UNCHANGED <<asking, runs, callbacks, listFailed, unshown, abandoned, overtaken, reloadedUnder>>

\* The engine reads the rows for a load
ListRead(k) ==
  /\ ~lists[k].read
  /\ lists' = [lists EXCEPT ![k].read = TRUE]
  /\ UNCHANGED <<selectedRows, asking, runs, callbacks, isLoading, dataShown, listFailed, unshown,
                 abandoned, overtaken, reloadedUnder, events>>

\* onDataLoad: new rows, none of them picked
ListAnswered(k) ==
  /\ lists[k].read
  /\ lists' = RemoveAt(lists, k)
  /\ isLoading' = FALSE /\ dataShown' = TRUE /\ selectedRows' = {}
  /\ listFailed' = (listFailed /\ lists[k].old)
  /\ unshown' = lists[k].missing
  /\ abandoned' = abandoned \intersect lists[k].missing
  /\ overtaken' = lists[k].missing \ (unshown \ overtaken)
  /\ reloadedUnder' = (asking # Absent)
  /\ UNCHANGED <<asking, runs, callbacks, events>>

\* A load fails
ListFailed(k) ==
  /\ Event(MaxClicks)
  /\ lists' = RemoveAt([j \in DOMAIN lists |->
                          IF j < k THEN [lists[j] EXCEPT !.old = TRUE] ELSE lists[j]], k)
  /\ listFailed' = TRUE
  /\ IF Page \in ListPages THEN UNCHANGED <<isLoading, dataShown, selectedRows>>
     ELSE isLoading' = FALSE /\ dataShown' = FALSE /\ selectedRows' = {}
  /\ reloadedUnder' = (reloadedUnder \/ (asking # Absent /\ selectedRows' # selectedRows))
  /\ UNCHANGED <<asking, runs, callbacks, unshown, abandoned, overtaken>>
-----------------------------------------------------------------------------
BulkNext ==
  \/ \E rows \in Subsets : SelectRows(rows)
  \/ \E kind \in Kinds : AskToConfirm(kind)
  \/ DismissDialog \/ Confirm \/ SetRetries
  \/ \E r \in DOMAIN runs : \E q \in runs[r].inflight :
       Perform(r, q) \/ RequestAnswered(r, q) \/ RequestFailed(r, q) \/ RequestDropped(r, q)
  \/ DelayOver \/ UserReload
  \/ \E k \in DOMAIN lists : ListRead(k) \/ ListAnswered(k) \/ ListFailed(k)
-----------------------------------------------------------------------------
\* Nothing is under way that could still change what the page shows
Quiet ==
  /\ asking = Absent /\ callbacks = 0 /\ lists = <<>>
  /\ \A r \in DOMAIN runs : runs[r].inflight = {} /\ ~Running(r)

\* A toast tells what happened: success is told when every row the dialog
\* listed was done, an error when something failed and never when it all
\* went through.  Two places lie: the retries of batches, and the failed
\* jobs tab when its rows were replaced under its dialog.
\* Why: the rows are counted in the dialog, the requests go out two at a
\* time or all at once, and three different ways end the stream.
ToastsTellTheTruth ==
  \A r \in DOMAIN runs :
    LET run == runs[r] IN
    /\ run.told \in {"success", "submitted"} =>
         \/ Rows(run.performed) = run.asked.rows
         \/ run.kind = "retryBatches" /\ run.failed # {}
         \/ run.kind = "deleteJobs" /\ run.asked.reloadedUnder
    /\ run.told \in {"error", "both"} => run.failed # {}
    /\ run.told = "both" => run.performed # {}

\* When nothing is under way, the page shows every change the engine made
\* for it, except those of runs that failed, were replaced or were handed to
\* a batch of the engine, and except what an older answer brought back.
\* Why: the reload is asked for by a callback 200 ms after the last answer,
\* while a second action runs, and three kinds reload on other conditions.
ChangesGetShown == Quiet /\ ~listFailed => unshown \subseteq abandoned \union overtaken

\* When nothing is under way, no spinner is left, but where a load failed.
\* Why: the batch list starts it before the dialog and six callbacks end it.
SpinnerEnds == Quiet /\ isLoading => listFailed
=============================================================================
