------------------------------ MODULE History -------------------------------
(***************************************************************************)
(* The call history: the table of finished calls, read a page at a time by *)
(* keyset, and the list that a dashboard keeps of it.  A page is a request *)
(* that the server answers from the table as it stands then and that the   *)
(* browser applies some time later, while calls go on finishing.           *)
(*                                                                         *)
(* A call is its place in the order of the list: newer calls are greater.  *)
(* They finish in any order, so rows appear anywhere.                      *)
(***************************************************************************)
EXTENDS Integers, Sequences, SequencesExt, Lists

CONSTANTS
  N,          \* number of calls
  PageSize,   \* PAGE_SIZE
  MaxPage,    \* MAX_PAGE_SIZE
  MaxChanges, \* bound on the changes of the table
  MaxInputs   \* bound on what the operator does to the view

ASSUME PagesAssumption ==
  PageSize \in Nat \ {0} /\ MaxPage \in Nat /\ PageSize <= MaxPage
ASSUME HistoryBounds == {N, MaxChanges, MaxInputs} \subseteq Nat

VARIABLES
  table,   \* the calls whose rows say that they are accepted or over
  matches, \* the calls that the search finds
  due,     \* a call.ended or contact.changed is on its way to the dashboard
  enabled, \* the view is open
  filters, \* what it lists: "all", or the calls the "search" finds
  loaded,  \* the rows it shows, the filters they answer, and the next page
  first,   \* the request for the first page that still counts, NoRequest if none
  older,   \* the request for an older page
  error,   \* an error is shown
  changes, \* changes of the table so far
  inputs,  \* inputs of the operator so far
  start,   \* history: rows there ever since the first page for these filters
  untold,  \* history: a change the dashboard is not told of came after the list
  patched  \* history: an older page answered before that first page was added

serverVars == <<table, matches, due, changes>>
viewVars == <<enabled, filters, loaded, first, older, error, inputs>>
historyVars == <<start, untold, patched>>
vars == <<serverVars, viewVars, historyVars>>

Calls == 1..N
Filters == {"all", "search"}
End == 0        \* no next page
NoRows == {0}   \* not answered yet

-----------------------------------------------------------------------------
(* Store.history.  `before' is a call, or End for the first page. *)

Matching(f) == IF f = "all" THEN table ELSE table \cap matches

NewestFirst == [i \in 1..N |-> N + 1 - i]
Newest(S) == Among(NewestFirst, S)

Behind(S, before) == IF before = End THEN S ELSE {c \in S : c < before}

\* A short page is the last one; a full one has a next, which may be empty.
Page(S, before, limit) ==
  LET rows == Newest(Behind(S, before))
  IN  IF Len(rows) < limit THEN [calls |-> rows, next |-> End]
      ELSE [calls |-> SubSeq(rows, 1, limit), next |-> rows[limit]]

-----------------------------------------------------------------------------
(* The server. *)

\* A change that the dashboards are told of, or not.
Changed(told) ==
  /\ changes < MaxChanges
  /\ changes' = changes + 1
  /\ due' = (due \/ told)
  /\ untold' = (untold \/ ~told)
  /\ first' = IF told \/ first.rows = NoRows THEN first
              ELSE [first EXCEPT !.missed = TRUE]
  /\ start' = {c \in start : /\ c \in table'
                             /\ loaded.filters = "search" => c \in matches'}
  /\ UNCHANGED <<enabled, filters, loaded, older, error, inputs, patched>>

\* The end of a call in play is told, that of an accepted one a second time;
\* an accept, the sweep and the close of a saved call are not.
Finish(c, told) ==
  /\ c \notin table \/ told
  /\ table' = table \cup {c}
  /\ UNCHANGED matches
  /\ Changed(told)

\* A speech result puts a call that the sweep ended back on hold.
Revive(c) ==
  /\ c \in table
  /\ table' = table \ {c}
  /\ UNCHANGED matches
  /\ Changed(FALSE)

\* Contacts are changed, or transcripts purged: the search finds other calls.
MatchOthers(c, told) ==
  /\ matches' = IF c \in matches THEN matches \ {c} ELSE matches \cup {c}
  /\ told \/ c \in matches
  /\ UNCHANGED table
  /\ Changed(told)

\* The event is lost with its socket, or dropped from a full queue.
EventLost ==
  /\ due
  /\ due' = FALSE /\ untold' = TRUE
  /\ first' = IF first.rows = NoRows THEN first ELSE [first EXCEPT !.missed = TRUE]
  /\ UNCHANGED <<table, matches, changes, enabled, filters, loaded, older, error,
                 inputs, start, patched>>

-----------------------------------------------------------------------------
(* The first page.  What a request for it missed is an untold change since   *)
(* its answer, and what one for an older page missed is a new list.         *)

Request(f, before, limit) ==
  [filters |-> f, before |-> before, limit |-> limit, rows |-> NoRows,
   missed |-> FALSE]
NoRequest == Request("none", End, 0)

Smaller(a, b) == IF a < b THEN a ELSE b

\* MUTANT of Limit: the server's cap is forgotten.
LimitUncapped(f) ==
  LET held == IF loaded.filters = f THEN Len(loaded.calls) ELSE 0
  IN  IF held < PageSize THEN PageSize ELSE held

\* As many rows as are held, within bounds.
Limit(f) ==
  LET held == IF loaded.filters = f THEN Len(loaded.calls) ELSE 0
  IN  Smaller(MaxPage, IF held < PageSize THEN PageSize ELSE held)

\* MUTANT of ReadFirst: a request under way is left to finish instead.
ReadUnlessLoading(f) ==
  first' = IF first # NoRequest THEN first ELSE Request(f, End, Limit(f))

\* A new request cancels the one before: its answer no longer counts.
ReadFirst(f) == first' = Request(f, End, Limit(f))

\* endedCount or contactsVersion ticks.
Tick ==
  /\ due
  /\ due' = FALSE
  /\ IF enabled THEN ReadFirst(filters) ELSE UNCHANGED first
  /\ UNCHANGED <<table, matches, changes, enabled, filters, loaded, older, error,
                 inputs, historyVars>>

\* MUTANT of MergeFirstPage: the rows paged to go, their cursor stays.
MergeCursor(held, page, f) ==
  LET kept == Among(held.calls, Behind(Calls, page.next))
  IN  [filters |-> f, calls |-> page.calls,
       next |-> IF held.filters = f /\ page.next # End /\ kept # <<>>
                  THEN held.next ELSE page.next]

\* mergeFirstPage: rows older than the fresh page's last one stay.
MergeFirstPage(held, page, f) ==
  LET kept == Among(held.calls, Behind(Calls, page.next))
  IN  IF held.filters = f /\ page.next # End /\ kept # <<>>
        THEN [filters |-> f, calls |-> page.calls \o kept, next |-> held.next]
        ELSE [filters |-> f, calls |-> page.calls, next |-> page.next]

AnswerFirst ==
  /\ first # NoRequest /\ first.rows = NoRows
  /\ first' = [first EXCEPT !.rows = Matching(first.filters)]
  /\ UNCHANGED <<serverVars, enabled, filters, loaded, older, error, inputs,
                 historyVars>>

FirstArrives ==
  LET f == first.filters
  IN  /\ first # NoRequest /\ first.rows # NoRows
      /\ loaded' = MergeFirstPage(loaded, Page(first.rows, End, first.limit), f)
      /\ error' = FALSE
      /\ start' = IF loaded.filters = f THEN start
                  ELSE first.rows \cap Matching(f)
      /\ untold' = first.missed
      /\ older' = IF loaded.filters = f \/ older.rows = NoRows THEN older
                  ELSE [older EXCEPT !.missed = TRUE]
      /\ patched' = (patched /\ loaded.filters = f)
      /\ first' = NoRequest
      /\ UNCHANGED <<serverVars, enabled, filters, inputs>>

FirstFails ==
  /\ first # NoRequest
  /\ error' = TRUE
  /\ first' = NoRequest
  /\ UNCHANGED <<serverVars, enabled, filters, loaded, older, inputs, historyVars>>

-----------------------------------------------------------------------------
(* Older pages. *)

HasMore == loaded.filters = filters /\ loaded.next # End

LoadOlder ==
  /\ enabled /\ HasMore /\ older = NoRequest
  /\ older' = Request(filters, loaded.next, PageSize)
  /\ UNCHANGED <<serverVars, enabled, filters, loaded, first, error, inputs,
                 historyVars>>

AnswerOlder ==
  /\ older # NoRequest /\ older.rows = NoRows
  /\ older' = [older EXCEPT !.rows = Matching(older.filters)]
  /\ UNCHANGED <<serverVars, enabled, filters, loaded, first, error, inputs,
                 historyVars>>

\* MUTANT of FollowsOn: a page is added for the filters it answers, wherever
\* the list ends by then.
SameFilters == loaded.filters = older.filters

\* Whether the page still follows on from the list.
FollowsOn == loaded.filters = older.filters /\ loaded.next = older.before

OlderArrives ==
  LET page == Page(older.rows, older.before, older.limit)
  IN  /\ older # NoRequest /\ older.rows # NoRows
      /\ loaded' = IF FollowsOn
                     THEN [loaded EXCEPT !.calls = @ \o page.calls, !.next = page.next]
                     ELSE loaded
      /\ patched' = (patched \/ (FollowsOn /\ older.missed))
      /\ older' = NoRequest
      /\ UNCHANGED <<serverVars, enabled, filters, first, error, inputs, start, untold>>

OlderFails ==
  /\ older # NoRequest
  /\ error' = TRUE
  /\ older' = NoRequest
  /\ UNCHANGED <<serverVars, enabled, filters, loaded, first, inputs, historyVars>>

-----------------------------------------------------------------------------
(* The operator.  Leaving the view, and every input, cancels the request    *)
(* for the first page; an open view starts another.                         *)

Input ==
  /\ inputs < MaxInputs
  /\ inputs' = inputs + 1
  /\ UNCHANGED <<serverVars, loaded, older, error, historyVars>>

\* MUTANT of Open: the list is shown as it was left.
OpenAsLeft ==
  /\ ~enabled
  /\ enabled' = TRUE
  /\ UNCHANGED <<filters, first>>
  /\ Input

Open ==
  /\ ~enabled
  /\ enabled' = TRUE
  /\ ReadFirst(filters)
  /\ UNCHANGED filters
  /\ Input

Close ==
  /\ enabled
  /\ enabled' = FALSE
  /\ first' = NoRequest
  /\ UNCHANGED filters
  /\ Input

\* A search, or the calls of one number, which may be asked for from elsewhere.
Choose(f) ==
  /\ f # filters
  /\ filters' = f
  /\ IF enabled THEN ReadFirst(f) ELSE UNCHANGED first
  /\ UNCHANGED enabled
  /\ Input

Refresh ==
  /\ enabled
  /\ ReadFirst(filters)
  /\ UNCHANGED <<enabled, filters>>
  /\ Input

-----------------------------------------------------------------------------
\* A dashboard that starts long after the service.
Init ==
  /\ table \in SUBSET Calls /\ matches \in SUBSET Calls
  /\ due = FALSE /\ changes = 0
  /\ enabled = FALSE /\ filters = "all"
  /\ loaded = [filters |-> "none", calls |-> <<>>, next |-> End]
  /\ first = NoRequest /\ older = NoRequest /\ error = FALSE /\ inputs = 0
  /\ start = {} /\ untold = FALSE /\ patched = FALSE

Requests ==
  \/ Tick \/ AnswerFirst \/ FirstArrives \/ FirstFails
  \/ AnswerOlder \/ OlderArrives \/ OlderFails

Next ==
  \/ \E c \in Calls, told \in BOOLEAN : Finish(c, told) \/ MatchOthers(c, told)
  \/ \E c \in Calls : Revive(c)
  \/ EventLost
  \/ Requests \/ LoadOlder
  \/ Open \/ Close \/ Refresh
  \/ \E f \in Filters : Choose(f)

Spec == Init /\ [][Next]_vars

\* Events that are not lost arrive, and every request is answered or fails.
Fairness == WF_vars(Tick) /\ WF_vars(AnswerFirst) /\ WF_vars(FirstArrives \/ FirstFails)

FairSpec == Spec /\ Fairness

-----------------------------------------------------------------------------
ListType == [filters : Filters \cup {"none"}, calls : Seq(Calls), next : 0..N]
RequestType ==
  [filters : Filters, before : 0..N, limit : 1..MaxPage,
   rows : (SUBSET Calls) \cup {NoRows}, missed : BOOLEAN]

\* Rows in order, none of them twice, whatever pages arrived in what order.
HistoryTypeOK ==
  /\ table \subseteq Calls /\ matches \subseteq Calls
  /\ {due, enabled, error, untold, patched} \subseteq BOOLEAN
  /\ filters \in Filters
  /\ loaded \in ListType
  /\ first \in RequestType \cup {NoRequest}
  /\ older \in RequestType \cup {NoRequest}
  /\ changes \in 0..MaxChanges /\ inputs \in 0..MaxInputs
  /\ start \subseteq Calls

\* "Keyset rather than offset, so a call finishing while an operator pages back
\* neither repeats a row nor skips one" (store.py:297).  No row is repeated, or
\* out of order.
Descending(rows) == \A i, j \in 1..Len(rows) : i < j => rows[i] > rows[j]
NoRowIsRepeated == Descending(loaded.calls)

\* Whether call c is shown, or on a page that can still be loaded.
InReach(c) ==
  c \in ToSet(loaded.calls) \/ (loaded.next # End /\ c < loaded.next)

\* And none is skipped that was there when the list was started: it is shown, or
\* still to come, through refetches, lost answers and other rows coming and going.
NoRowIsSkipped == \A c \in start : InReach(c)

\* That fails for an older page alone, one that was answered before the list was
\* started anew for the same filters and happens to follow on from it.
OnlyOldPagesSkip == patched \/ NoRowIsSkipped

\* Nothing that could change the list is under way, or was missed.
Settled ==
  /\ enabled /\ ~due /\ first = NoRequest /\ ~error /\ ~untold
  /\ loaded.filters = filters

\* "Guards against a slow response landing after a newer one"
\* (useCallHistory.ts:93): once everything has arrived, the top of the list is
\* the top of the table, unless a change came without an event.
FirstPageIsCurrent ==
  Settled =>
    IsPrefix(Page(Matching(filters), End, PageSize).calls, loaded.calls)

\* Anything newer than what was paged to "is answered by the fresh page alone"
\* (useCallHistory.ts:165), and no row is skipped (store.py:297).
NothingIsOutOfReach == Settled => \A c \in Matching(filters) : InReach(c)

\* "The list refreshes itself instead of polling" (useCallHistory.ts:47): an open
\* view that is told of what changes comes to show it, or an error.
HistoryCatchesUp ==
  <>[](enabled /\ ~untold) => <>[](Settled \/ error)

=============================================================================
