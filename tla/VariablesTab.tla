----------------------------- MODULE VariablesTab -----------------------------
(***************************************************************************)
(* The variables tab of an active instance (VariablesTabComponent): rows   *)
(* that are loaded again by sorting, filtering, paging, reloads and the    *)
(* tab's own saves, and a dialog that edits one of them by its index.      *)
(* Nothing but the dialog keeps the user from acting while requests are    *)
(* under way, and nothing keeps a load from coming while a dialog is open. *)
(*                                                                         *)
(* An answer carries some of the variables, in some order (the page, the   *)
(* filter and the sorting that were asked for), as they were at one moment *)
(* of the request.  Requests pass through a memo of two seconds; of its    *)
(* entries only the one of the last question is modelled, and it may       *)
(* expire at any time.                                                     *)
(***************************************************************************)
EXTENDS DetailPages

CONSTANTS Values,   \* of variables
          MaxSaves  \* bound

ASSUME VariablesTabAssumption == Absent \notin Values /\ MaxSaves \in Nat

VARIABLES
  tabOpen,
  values,       \* value of each variable in the engine, Absent if there is none
  rows,         \* data
  rowsLoading,  \* a load is under way; a new one replaces it
  rowsAnswer,   \* the rows the last request read, Absent before
  memoFresh,    \* a load of the same question shares that request
  varDialog,    \* kind and row of the open dialog, the variable it shows and
                \* the names it refuses; Absent if none is open
  varSent,      \* saves and deletions under way
  isSaving,
  rowsMoved,    \* auxiliary: the rows have changed since the dialog opened
  misdirected,  \* auxiliary: what was sent is not about the dialog's variable,
                \* though the rows had not moved
  rowsForeign   \* auxiliary: the rows may differ from the engine because others
                \* acted, an answer was lost, or since the last change no
                \* new request was made

loadVars == <<rows, rowsLoading, rowsAnswer, memoFresh>>
variablesVars == <<tabOpen, values, loadVars, varDialog, varSent,
                   isSaving, rowsMoved, misdirected, rowsForeign>>

VariablesInit ==
  /\ tabOpen = FALSE /\ rows = <<>> /\ rowsLoading = FALSE
  /\ rowsAnswer = Absent /\ memoFresh = FALSE
  /\ values \in [Ids -> Values \union {Absent}]
  /\ varDialog = Absent /\ varSent = <<>> /\ isSaving = FALSE
  /\ rowsMoved = FALSE /\ misdirected = FALSE /\ rowsForeign = FALSE

Row(id) == [id |-> id, value |-> values[id]]

\* Answers of the engine
RowLists == UNION {SetToSeqs({Row(id) : id \in S}) : S \in SUBSET {id \in Ids : values[id] # Absent}}

-----------------------------------------------------------------------------
\* loadData, of the same question as before or of another one
AskRows(same) ==
  /\ rowsLoading' = TRUE /\ memoFresh' = TRUE
  /\ IF same /\ memoFresh
     THEN UNCHANGED rowsAnswer
     ELSE rowsAnswer' = Absent

\* Opening the tab, sorting, filtering, paging, and reloads of the page
LoadRows(same) ==
  /\ Event
  /\ tabOpen' = TRUE
  /\ AskRows(same)
  /\ rowsForeign' = (rowsForeign /\ same /\ memoFresh)
  /\ UNCHANGED <<values, rows, varDialog, varSent, isSaving, rowsMoved,
                 misdirected>>

\* The engine reads the variables.
RowsRead ==
  /\ rowsAnswer = Absent /\ rowsLoading
  /\ rowsAnswer' \in RowLists
  /\ UNCHANGED <<tabOpen, values, rows, rowsLoading, memoFresh, varDialog,
                 varSent, isSaving, rowsMoved, misdirected, rowsForeign,
                 events>>

\* onDataLoad
RowsLoaded ==
  /\ rowsLoading /\ rowsAnswer # Absent
  /\ rows' = rowsAnswer
  /\ rowsLoading' = FALSE
  /\ rowsMoved' = (rowsMoved \/ rows' # rows)
  /\ UNCHANGED <<tabOpen, values, rowsAnswer, memoFresh, varDialog, varSent,
                 isSaving, misdirected, rowsForeign, events>>

\* onDataLoadFailed
RowsFailed ==
  /\ Event /\ rowsLoading /\ rowsAnswer = Absent
  /\ rows' = <<>> /\ rowsLoading' = FALSE /\ memoFresh' = FALSE
  /\ rowsMoved' = (rowsMoved \/ rows # <<>>)
  /\ UNCHANGED <<tabOpen, values, rowsAnswer, varDialog, varSent, isSaving,
                 misdirected, rowsForeign>>

MemoExpires ==
  /\ memoFresh
  /\ memoFresh' = FALSE
  /\ UNCHANGED <<tabOpen, values, rows, rowsLoading, rowsAnswer, varDialog,
                 varSent, isSaving, rowsMoved, misdirected, rowsForeign,
                 events>>

\* ngOnDestroy dismisses the dialog and aborts the requests, which may have
\* reached the engine.
CloseVariablesTab ==
  /\ Event /\ tabOpen
  /\ tabOpen' = FALSE /\ rows' = <<>> /\ rowsLoading' = FALSE
  /\ values' \in {v \in [Ids -> Values \union {Absent}] :
                   \A id \in Ids : v[id] = values[id] \/ [id |-> id, value |-> v[id]] \in Range(varSent)}
  /\ varDialog' = Absent /\ varSent' = <<>> /\ isSaving' = FALSE
  /\ rowsMoved' = FALSE /\ rowsForeign' = (rowsForeign \/ varSent # <<>>)
  /\ UNCHANGED <<rowsAnswer, memoFresh, misdirected>>

-----------------------------------------------------------------------------
RowNames == {rows[r].id : r \in DOMAIN rows}

OpenRowDialog(kind, row) ==
  /\ Event /\ varDialog = Absent
  /\ varDialog' = [kind |-> kind, row |-> row, id |-> rows[row].id, refused |-> RowNames]
  /\ rowsMoved' = FALSE
  /\ UNCHANGED <<tabOpen, values, loadVars, varSent, isSaving, misdirected,
                 rowsForeign>>

\* addNewVariable.  The dialog refuses the names of the rows.
OpenAddDialog ==
  /\ Event /\ varDialog = Absent /\ tabOpen
  /\ varDialog' = [kind |-> "Add", row |-> 0, id |-> Absent, refused |-> RowNames]
  /\ rowsMoved' = FALSE
  /\ UNCHANGED <<tabOpen, values, loadVars, varSent, isSaving, misdirected,
                 rowsForeign>>

DismissVariable ==
  /\ varDialog # Absent
  /\ varDialog' = Absent
  /\ UNCHANGED <<tabOpen, values, loadVars, varSent, isSaving, rowsMoved,
                 misdirected, rowsForeign, events>>

\* Mutant: a deletion goes by the index of the row, counted from 0.
TargetByIndex(d, name) ==
  CASE d.kind = "Add" -> {name} \ d.refused
    [] d.kind = "Edit" -> {rows[r].id : r \in {d.row} \intersect DOMAIN rows}
    [] d.kind = "Delete" -> {rows[r].id : r \in {d.row + 1} \intersect DOMAIN rows}

\* The variable a confirmed dialog acts on: an edit takes the row that has
\* the index now (there may be none: a TypeError, and nothing happens), a
\* deletion the variable of the row that was clicked.
Target(d, name) ==
  CASE d.kind = "Add" -> {name} \ d.refused
    [] d.kind = "Edit" -> {rows[r].id : r \in {d.row} \intersect DOMAIN rows}
    [] d.kind = "Delete" -> {d.id}

\* saveVariables sends what differs from the rows there are now.
IsNews(id, value) == \A r \in DOMAIN rows : rows[r] # [id |-> id, value |-> value]

SaveVariable(name, value) ==
  /\ varDialog # Absent
  /\ varDialog.kind = "Delete" <=> value = Absent
  /\ LET d == varDialog
     IN \/ \E id \in Target(d, name) :
             /\ IF value = Absent \/ IsNews(id, value)
                THEN /\ Len(varSent) < MaxSaves
                     /\ varSent' = Append(varSent, [id |-> id, value |-> value])
                     /\ isSaving' = (isSaving \/ value # Absent)
                ELSE isSaving' = FALSE /\ UNCHANGED varSent
             /\ misdirected' = (misdirected \/ (~rowsMoved /\ d.id \notin {Absent, id}))
        \/ Target(d, name) = {} /\ d.kind # "Add" /\ UNCHANGED <<varSent, isSaving, misdirected>>
  /\ varDialog' = Absent
  /\ UNCHANGED <<tabOpen, values, loadVars, rowsMoved, rowsForeign, events>>

\* The server sets or deletes the one variable a request names
Modified(i) == [values EXCEPT ![varSent[i].id] = varSent[i].value]

\* Mutant: a request that succeeded does not load the rows again.
SavedSilently(i) ==
  /\ values' = Modified(i)
  /\ varSent' = RemoveAt(varSent, i)
  /\ isSaving' = (isSaving /\ varSent[i].value = Absent)
  /\ UNCHANGED <<tabOpen, loadVars, varDialog, rowsMoved, misdirected,
                 rowsForeign, events>>

\* next: loadData.  Only a save ends the spinner of saving.
VariableSaved(i) ==
  /\ values' = Modified(i)
  /\ varSent' = RemoveAt(varSent, i)
  /\ AskRows(TRUE)
  /\ rowsForeign' = memoFresh
  /\ isSaving' = (isSaving /\ varSent[i].value = Absent)
  /\ UNCHANGED <<tabOpen, rows, varDialog, rowsMoved, misdirected, events>>

\* error: a toast.  The engine may have done it all the same.
VariableRefused(i, done) ==
  /\ values' = IF done THEN Modified(i) ELSE values
  /\ varSent' = RemoveAt(varSent, i)
  /\ isSaving' = (isSaving /\ varSent[i].value = Absent)
  /\ rowsForeign' = (rowsForeign \/ done)
  /\ UNCHANGED <<tabOpen, loadVars, varDialog, rowsMoved, misdirected, events>>

\* The instance, or another user, sets or removes a variable.
VariableMoves(id) ==
  /\ Event
  /\ \E v \in (Values \union {Absent}) \ {values[id]} : values' = [values EXCEPT ![id] = v]
  /\ rowsForeign' = TRUE
  /\ UNCHANGED <<tabOpen, loadVars, varDialog, varSent, isSaving, rowsMoved,
                 misdirected>>

VariablesNext ==
  \/ \E same \in BOOLEAN : LoadRows(same)
  \/ RowsRead \/ RowsLoaded \/ RowsFailed \/ MemoExpires \/ CloseVariablesTab
  \/ \E kind \in {"Edit", "Delete"}, row \in DOMAIN rows : OpenRowDialog(kind, row)
  \/ OpenAddDialog \/ DismissVariable
  \/ \E name \in Ids, value \in Values \union {Absent} : SaveVariable(name, value)
  \/ \E i \in DOMAIN varSent : VariableSaved(i) \/ \E done \in BOOLEAN : VariableRefused(i, done)
  \/ \E id \in Ids : VariableMoves(id)

-----------------------------------------------------------------------------
\* What is sent is about the variable the dialog showed, unless the rows
\* moved under the dialog (variables-tab.component.ts:235).
SavesWhatWasShown == ~misdirected

\* When nothing is under way the rows show what the engine has: each of the
\* tab's own saves and deletions, in whatever order they were answered, is
\* followed by rows that were read after it, unless others acted, an answer
\* was lost, or the memo had a request of the two seconds before
\* (variables-tab.component.ts:124, 189, variable.service.ts:20).
RowsCatchUp ==
  tabOpen /\ ~rowsLoading /\ varSent = <<>> /\ ~rowsForeign =>
    \A r \in DOMAIN rows : rows[r] = Row(rows[r].id)
=============================================================================
