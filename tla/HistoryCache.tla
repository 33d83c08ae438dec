---------------------------- MODULE HistoryCache ----------------------------
(***************************************************************************)
(* The history of a process definition on the server: withCache over       *)
(* fetchAll, which asks for the count, then for the pages, a few at a time *)
(* and in no order, while activities start and the engine cleans up.  The  *)
(* pages are sorted by start, the newest first.  An activity is the number *)
(* of its start.                                                           *)
(***************************************************************************)
EXTENDS Parts, FiniteSetsExt

CONSTANTS PageSize, MaxConcurrency, MaxTotal, \* of fetchAll
          MaxStarts,   \* bound of the activities started
          MaxReaders,  \* bound of the requests under way at once
          MaxReads,    \* bound of the requests
          MaxChanges,  \* bound of starts, removals, clearings and failures
          CacheTTL     \* how many ticks an entry lives

ASSUME HistoryCacheAssumption ==
  /\ PageSize \in Nat \ {0} /\ MaxConcurrency \in Nat \ {0} /\ MaxTotal \in Nat \ {0}
  /\ MaxStarts \in Nat /\ MaxReaders \in Nat /\ MaxReads \in Nat
  /\ MaxChanges \in Nat /\ CacheTTL \in Nat

VARIABLES
  activities, \* the history, newest first
  started,    \* how many activities have started
  readers,    \* the requests that load, in the order they came
  cached,     \* the entry: the load it came from and its age, or Absent
  answer,     \* what the last request was answered with, Absent at first
  reads

historyVars == <<activities, started, readers, cached, answer, reads>>

Ceil(n, k) == (n + k - 1) \div k
CountedPages(total) == IF total > MaxTotal THEN Ceil(MaxTotal, PageSize) ELSE Ceil(total, PageSize)
PageOf(list, k) == SubSeq(list, (k - 1) * PageSize + 1,
                          IF k * PageSize < Len(list) THEN k * PageSize ELSE Len(list))

\* Mutant: a page more than fits is left out
FlooredPages(total) == IF total > MaxTotal THEN MaxTotal \div PageSize ELSE total \div PageSize
PagesOf(total) == CountedPages(total)

\* The chunk of pages a reader is at: the next one starts when all of it is there
Chunk(reader) == LET n == Cardinality(DOMAIN reader.pages)
                     first == (n \div MaxConcurrency) * MaxConcurrency
                 IN (first + 1)..(IF first + MaxConcurrency < reader.count
                                  THEN first + MaxConcurrency ELSE reader.count)
Missing(reader) == Chunk(reader) \ DOMAIN reader.pages
AllPagesThere(reader) == reader.count # Absent /\ DOMAIN reader.pages = 1..reader.count
Result(reader) == FlattenSeq([k \in 1..reader.count |-> reader.pages[k]])
-----------------------------------------------------------------------------
HistoryInit ==
  /\ started \in 0..MaxStarts
  /\ activities = [k \in 1..started |-> started + 1 - k]
  /\ readers = <<>> /\ cached = Absent /\ answer = Absent /\ reads = 0

\* withCache: the entry is the answer, or the request loads
ReadHistory ==
  /\ reads < MaxReads /\ reads' = reads + 1
  /\ IF cached # Absent
     THEN answer' = cached /\ UNCHANGED readers
     ELSE /\ Len(readers) < MaxReaders
          /\ readers' = Append(readers, [count |-> Absent, pages |-> <<>>,
                                         before |-> <<>>, shifted |-> FALSE])
          /\ UNCHANGED answer
  /\ UNCHANGED <<activities, started, cached, events>>

\* The engine answers the count
CountAnswered(r) ==
  /\ readers[r].count = Absent
  /\ readers' = [readers EXCEPT ![r].before = activities, ![r].shifted = FALSE,
                                      ![r].count = PagesOf(Len(activities))]
  /\ UNCHANGED <<activities, started, cached, answer, reads, events>>

\* The engine answers one of the pages asked for
PageAnswered(r, k) ==
  /\ readers[r].count # Absent /\ k \in Missing(readers[r])
  /\ readers' = [readers EXCEPT ![r].pages =
                   [j \in DOMAIN @ \union {k} |-> IF j = k THEN PageOf(activities, k) ELSE @[j]]]
  /\ UNCHANGED <<activities, started, cached, answer, reads, events>>

\* The last page is there: the entry is set, and the request answered
HistoryLoaded(r) ==
  /\ AllPagesThere(readers[r])
  /\ cached' = [history |-> Result(readers[r]), before |-> readers[r].before,
                shifted |-> readers[r].shifted, age |-> 0]
  /\ answer' = cached'
  /\ readers' = RemoveAt(readers, r)
  /\ UNCHANGED <<activities, started, reads, events>>

\* One of the requests fails, and with it the whole load: nothing is kept
LoadFails(r) ==
  /\ Event(MaxChanges)
  /\ readers' = RemoveAt(readers, r)
  /\ UNCHANGED <<activities, started, cached, answer, reads>>
-----------------------------------------------------------------------------
AllShifted(list) == [r \in DOMAIN list |-> [list[r] EXCEPT !.shifted = TRUE]]

\* An activity starts and comes first
ActivityStarts ==
  /\ Event(MaxChanges) /\ started < MaxStarts
  /\ started' = started + 1
  /\ activities' = <<started + 1>> \o activities
  /\ readers' = AllShifted(readers)
  /\ UNCHANGED <<cached, answer, reads>>

\* The engine's clean-up removes the oldest
EngineCleansUp ==
  /\ Event(MaxChanges) /\ Len(activities) > 0
  /\ activities' = SubSeq(activities, 1, Len(activities) - 1)
  /\ readers' = AllShifted(readers)
  /\ UNCHANGED <<started, cached, answer, reads>>

\* Mutant: an entry does not end
HistoryTickNothingEnds ==
  /\ cached # Absent /\ cached.age <= CacheTTL
  /\ cached' = [cached EXCEPT !.age = @ + 1]
  /\ UNCHANGED <<activities, started, readers, answer, reads, events>>

\* Time passes; an entry at its end is gone
HistoryTick ==
  /\ cached # Absent
  /\ cached' = IF cached.age = CacheTTL THEN Absent ELSE [cached EXCEPT !.age = @ + 1]
  /\ UNCHANGED <<activities, started, readers, answer, reads, events>>

\* clearAll: the loads under way will fill the cache all the same
ClearCache ==
  /\ Event(MaxChanges) /\ cached # Absent
  /\ cached' = Absent
  /\ UNCHANGED <<activities, started, readers, answer, reads>>

HistoryNext ==
  \/ ReadHistory \/ ActivityStarts \/ EngineCleansUp \/ HistoryTick \/ ClearCache
  \/ \E r \in DOMAIN readers :
       \/ CountAnswered(r) \/ HistoryLoaded(r) \/ LoadFails(r)
       \/ readers[r].count # Absent /\ \E k \in Missing(readers[r]) : PageAnswered(r, k)
-----------------------------------------------------------------------------
\* What a request is answered with, fresh or from the cache, is at most
\* CacheTTL old and, when nothing started or was removed between the count
\* and the last page, is the newest part of the history as it was counted:
\* each activity once, none left out, all of it or at least MaxTotal.
\* Why: the pages come in any order, several loads fill one entry, the last
\* chunk and the last page are short, and the limit is rounded up to pages.
HistoryServedIsWhole ==
  answer # Absent =>
    /\ answer.age <= CacheTTL
    /\ answer.shifted
       \/ /\ IsPrefix(answer.history, answer.before)
          /\ Len(answer.history) >= Min({Len(answer.before), MaxTotal})
=============================================================================
