---------------------------- MODULE ColumnState ----------------------------
(***************************************************************************)
(* The columns of a list or a tab, which the user drags, widens and pins   *)
(* and the browser keeps: the grid, what is saved of it, and the merge of  *)
(* what was saved with the columns the application defines by now.  The    *)
(* batch list, which keeps two of these with one flag, is left out.        *)
(***************************************************************************)
EXTENDS Parts

CONSTANTS Releases,    \* of the application, in order: the sequence of its columns
          FlexColumns, \* the columns that take the space there is
          PinnedFirst, \* the columns defined as pinned
          MaxDrags     \* bound of what the user does

\* Widths are relative to the one a column is defined with
DefinedWidth == 1
Widths == {DefinedWidth, 2}
MinUnpinnedAreaWidth == 1

\* ColumnState of the grid
ColumnStates ==
  [colId : UNION {Range(Releases[n]) : n \in DOMAIN Releases}, width : Widths, pinned : BOOLEAN]

ASSUME ColumnStateAssumption ==
  /\ MaxDrags \in Nat
  /\ 1 \in DOMAIN Releases
  /\ \A n \in DOMAIN Releases :
       Releases[n] \in Seq(Range(Releases[n])) /\ IsInjective(Releases[n])
  \* the pinned columns of a release are its first
  /\ \A n \in DOMAIN Releases : \A i, j \in DOMAIN Releases[n] :
       i < j /\ Releases[n][j] \in PinnedFirst => Releases[n][i] \in PinnedFirst
  /\ Absent \notin DOMAIN Releases
  /\ Absent \notin [columnState : Seq(ColumnStates), under : DOMAIN Releases]

VARIABLES
  release,   \* which is loaded, Absent when the page is closed
  newest,    \* the newest there is
  columns,   \* of the grid, as they are displayed: colId, width, pinned
  saved,     \* columnState and the release it was saved under, Absent before
  different, \* differentThanDefaults
  deviated,  \* hasListViewStateDeviatedFromDefault: whether the reset is offered
  unsaved    \* whether the columns changed with no drag ending

columnVars == <<release, newest, columns, saved, different, deviated, unsaved>>

\* The states that are wanted, in their order
Only(states, wanted) ==
  LET upTo[n \in 0 .. Len(states)] ==
        IF n = 0 THEN <<>>
        ELSE IF states[n] \in wanted THEN Append(upTo[n - 1], states[n]) ELSE upTo[n - 1]
  IN upTo[Len(states)]
OfColumns(colIds) == {c \in ColumnStates : c.colId \in colIds}
Pinned == {c \in ColumnStates : c.pinned}

ColIds(states) == [n \in DOMAIN states |-> states[n].colId]
\* getDefaultListViewState, ListViewState.getColumnStates
ColumnDefinition(colId) ==
  [colId |-> colId, width |-> DefinedWidth, pinned |-> colId \in PinnedFirst]
DefaultState(n) == [i \in DOMAIN Releases[n] |-> ColumnDefinition(Releases[n][i])]

\* A column that takes the space there is does not keep the width it was dragged to
Laid(states) ==
  [n \in DOMAIN states |->
     IF states[n].colId \in FlexColumns THEN [states[n] EXCEPT !.width = DefinedWidth] ELSE states[n]]
\* The grid displays the pinned columns first
Displayed(states) == Only(states, Pinned) \o Only(states, ColumnStates \ Pinned)

\* haveColumnStatesDiverged
Diverged(states, defaults) ==
  \/ ColIds(states) # ColIds(defaults)
  \/ \E n \in DOMAIN defaults :
       \/ states[n].pinned # defaults[n].pinned
       \/ defaults[n].colId \notin FlexColumns /\ states[n].width # defaults[n].width

\* Mutant: the columns that are no longer defined are kept
SyncNewColumns(states, defaults) ==
  states \o Only(defaults, ColumnStates \ OfColumns(Range(ColIds(states))))
\* syncNewOrRemovedColumns: what was saved in its order, then what is new
SyncNewOrRemovedColumns(states, defaults) ==
  Only(states \o Only(defaults, ColumnStates \ OfColumns(Range(ColIds(states)))),
       OfColumns(Range(ColIds(defaults))))

\* mergeSavedListViewStateWithSuppliedColumnDefinitions
MergeSaved(states, defaults) == SyncNewOrRemovedColumns(states, defaults)

PinnedWidth(states) ==
  LET pinned == Only(states, Pinned)
  IN SumFunction([n \in DOMAIN pinned |-> pinned[n].width])
Unpinnable(states) ==
  SelectSeq([n \in DOMAIN states |-> n], LAMBDA n : states[n].pinned)
\* onProcessUnpinnedColumns: from the left, until there is room for the others
ColumnsToUnpin(states, viewportWidth) ==
  LET candidates == Unpinnable(states)
      WidthOf(n) == SumFunction([i \in 1 .. n |-> states[candidates[i]].width])
      widthToFree == PinnedWidth(states) - (viewportWidth - MinUnpinnedAreaWidth)
      enough == {n \in DOMAIN candidates : WidthOf(n) >= widthToFree}
      last == IF enough = {} THEN Len(candidates) ELSE Min(enough)
  IN {candidates[i] : i \in 1 .. last}

\* updateColumnPreferences and columnPrefsUpdated: what the grid displays is compared and saved
Save(states) ==
  /\ columns' = states
  /\ deviated' = Diverged(states, DefaultState(release))
  /\ different' = deviated'
  /\ saved' = [columnState |-> states, under |-> release]
  /\ unsaved' = FALSE
-----------------------------------------------------------------------------
ColumnInit ==
  /\ release = Absent /\ newest = 1 /\ columns = <<>> /\ saved = Absent
  /\ different = FALSE /\ deviated = FALSE /\ unsaved = FALSE

\* The constructor of the list, initialisation of the tab, and the grid's first columns
Open ==
  /\ release = Absent /\ release' = newest
  /\ columns' = Displayed(IF saved = Absent THEN DefaultState(newest)
                          ELSE Laid(MergeSaved(saved.columnState, DefaultState(newest))))
  /\ deviated' = (IF saved = Absent THEN FALSE ELSE different)
  /\ UNCHANGED <<newest, saved, different, unsaved, events>>

Close ==
  /\ Event(MaxDrags) /\ release # Absent /\ release' = Absent
  /\ columns' = <<>> /\ deviated' = FALSE /\ unsaved' = FALSE
  /\ UNCHANGED <<newest, saved, different>>

\* Another release is rolled out, or the last rolled back
RollOut ==
  /\ Event(MaxDrags) /\ newest' \in DOMAIN Releases \ {newest}
  /\ UNCHANGED <<release, columns, saved, different, deviated, unsaved>>

\* onColumnDragStopped
DragColumn(from, to) ==
  /\ Event(MaxDrags) /\ from \in DOMAIN columns /\ to \in DOMAIN columns \ {from}
  /\ Save(Displayed(InsertAt(RemoveAt(columns, from), to, columns[from])))
  /\ UNCHANGED <<release, newest>>

DragEdge(n, width) ==
  /\ Event(MaxDrags) /\ n \in DOMAIN columns /\ columns[n].width # width
  /\ Save([columns EXCEPT ![n].width = width])
  /\ UNCHANGED <<release, newest>>

\* The menu of a column pins and unpins it; no drag stops
TogglePinned(n) ==
  /\ Event(MaxDrags) /\ n \in DOMAIN columns
  /\ columns' = Displayed([columns EXCEPT ![n].pinned = ~@])
  /\ unsaved' = TRUE
  /\ UNCHANGED <<release, newest, saved, different, deviated>>

\* The pinned columns do not fit the window: the grid unpins what it is told
ProcessUnpinnedColumns(viewportWidth) ==
  LET toUnpin == ColumnsToUnpin(columns, viewportWidth) IN
  /\ Event(MaxDrags) /\ toUnpin # {}
  /\ PinnedWidth(columns) > viewportWidth - MinUnpinnedAreaWidth
  /\ columns' = Displayed([n \in DOMAIN columns |->
                             [columns[n] EXCEPT !.pinned = @ /\ n \notin toUnpin]])
  /\ unsaved' = TRUE
  /\ UNCHANGED <<release, newest, saved, different, deviated>>

\* resetColumnDefs: the definitions, the state they are applied with, and what was saved
ResetColumns ==
  /\ Event(MaxDrags) /\ release # Absent
  /\ Save(Displayed(DefaultState(release)))
  /\ UNCHANGED <<release, newest>>

ColumnNext ==
  \/ Open \/ Close \/ RollOut \/ ResetColumns
  \/ \E n, to \in DOMAIN columns : DragColumn(n, to)
  \/ \E n \in DOMAIN columns : TogglePinned(n) \/ \E width \in Widths : DragEdge(n, width)
  \/ \E viewportWidth \in 1 .. 2 : ProcessUnpinnedColumns(viewportWidth)
-----------------------------------------------------------------------------
Merged == saved # Absent /\ saved.under # release

\* Whatever was saved, and under whichever release: the grid has each of the
\* columns of its release once, and those that were saved are as wide, pinned
\* and ordered as they were; only the menu of a column and the window undo
\* that (list-utils.ts, items-table.component.ts).  The reset is offered just
\* when the columns differ from the default, unless another release merged
\* them (haveColumnStatesDiverged, differentThanDefaults).
ColumnsComeBack ==
  release # Absent =>
    /\ Range(ColIds(columns)) = Range(Releases[release]) /\ IsInjective(ColIds(columns))
    /\ ~unsaved =>
         LET kept == IF saved = Absent THEN DefaultState(release)
                     ELSE Only(saved.columnState, OfColumns(Range(Releases[release])))
         IN Only(Laid(columns), OfColumns(Range(ColIds(kept)))) = Displayed(Laid(kept))
    /\ ~unsaved /\ ~Merged => (deviated <=> Laid(columns) # DefaultState(release))
=============================================================================
