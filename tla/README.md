# A formal model of the call screener

This directory holds TLA+ models of the call screening service in `src/`, the
TLC configurations that check them on small instances, and proofs that TLAPS
checks for every value of the constants.

The service screens callers of a live show. Twilio posts webhooks about each
call; the backend (one Python process, one asyncio event loop) keeps the calls
in play in memory, saves every change in SQLite, and streams every change to the
operators' dashboards. Operators accept a caller (Twilio bridges them to the
host), reject one, block a number, or close the line.

The rule the design follows is in `docs/architecture.md`: *the dashboard must
never claim something the phone line didn't do*. Most of what is checked here
says, for some pair of parts, that they do not come apart: memory and table,
dashboard and phone line, dashboard and server, before and after a restart.

## The parts of the system

| Part | State | Operations | Talks to |
|---|---|---|---|
| Call registry (`services/call_registry.py`) | `_calls`, the calls in play; `_announced_warning` | register, set transcript, set status, end, end on air, apply contact, recover, sweep | the store and the broadcaster, synchronously |
| Store (`services/store.py`) | tables `calls` and `contacts`; `warning` | save, close, sweep, purge, look up, page through history; each statement may fail and never raises | SQLite |
| Webhooks (`api/routes/webhooks.py`) | none | incoming call, speech result, hold wait, queue exit, dial complete, call status | registry, line state; the answer instructs Twilio |
| Decisions (`services/decisions.py`, `api/routes/calls.py`) | the request in flight | accept, reject | Twilio first, then the registry |
| Closing the line (`services/drain.py`, `services/line_state.py`) | `is_open`; the hang-ups in flight | open, close, hang up on everyone, give up at a deadline, purge | Twilio, then the registry |
| Recovery at boot (`services/reconcile.py`, `main.py`) | what Twilio has answered so far | list the hold queue, fetch details, restore, sweep | Twilio, then the registry |
| Twilio client (`telephony/rest.py`) | none | strict command, lenient hang-up with a probe | Twilio |
| Dashboard stream (`services/broadcaster.py`, `api/routes/frontend.py`, `useCallStream.ts`, `websocket.ts`) | a bounded queue for each subscriber; the reducer's state; the socket | publish, subscribe with a snapshot, write, reduce, reconnect | registry to browser |
| Sessions (`services/sessions.py`, `api/auth.py`, `lib/auth.ts`) | the tokens, in memory | sign in, sign out, refuse | the stream and the API |
| Contacts (`api/routes/contacts.py`, contacts in the store, `ContactDialog.tsx`) | one row per number; the contact each call in play shows; the dialogs that are open | change, remove, block, hang up on the blocked, count refused rings | store, registry, Twilio |
| Call history (`Store.history`, `useCallHistory.ts`) | the pages a view holds; its requests under way | page, refetch, merge, cancel | store over HTTP; told of changes by the stream |
| Hold queue sizing (`services/hold_queue.py`) | none | create or resize Twilio's queue at boot | Twilio |
| Migrations (`services/migrations.py`) | the schema version | upgrade | SQLite |

Pure code with no state of its own (phone numbers, TwiML, signatures,
configuration, formatting, React components) is not modelled.

### What is hard here

Nothing runs in parallel in the backend, so everything between two `await`s is
atomic. The difficulties are elsewhere:

* Two decisions about one call each wait for Twilio, and record their outcome
  afterwards, whatever has happened meanwhile.
* A reply from Twilio may be lost after the command was carried out; a webhook
  may be posted twice, late, or never.
* A restart loses memory, but neither the table nor the calls on the phone line.
  Recovery asks Twilio who is holding and uses the answer several awaits later,
  while webhooks are already being served.
* A write may fail at any point of a sequence and the call carries on.
* A dashboard has a queue of limited length, a socket that breaks, and a token
  that a restart forgets.
* A block lists the open calls of a number once, and then hangs up on them one
  after the other while they are heard, accepted or gone. A contact is edited
  from dialogs that opened before others changed it.
* A page of history is answered from one table and applied to a list when the
  table, the list or the search may have changed.

`PROJECT.json` lists these line by line under `hazards`.

## The modules

```
              CallRegistry              the registry over the table: its methods
              /          \
      RegistryClient    Screening       every order of calls, with restarts
        /        \                      | the phone line, with decisions
   Contacts    implements
                  |                     contacts, dialogs and blocks
                InPlay                  what the registry promises
                  |
              Dashboard                 broadcaster, sockets, browsers, sessions

              History                   the table of finished calls, read by pages
```

`Dashboard` and `History` both use **`Lists`**, the filter of a list as a recursive
function: the built-in `SelectSeq` has no definition that a proof can unfold.

**`CallRegistry`** is translated from `call_registry.py` and the statements of
`store.py` it uses. `calls` is `_calls`, `rows` the table, `warning` is
`Store.warning` being set. One operator per method; a method includes everything
it calls (`_commit` saves, announces, and drops a call that has ended). A call is
reduced to the fields that the code branches on. `endedAt` records the status
that `ended_at` was stamped for rather than a time, which tells a stamp kept from
one replaced. A failing statement is a choice in `Outcomes` and `Reached`, for
the kinds of statement in `StoreFaults`: a read that fails looks like a missing
row (`Store._query` returns no rows), a write that fails changes nothing and sets
`warning`. The module has no next-state relation.

**`RegistryClient`** takes those steps in any order the callers of the registry
allow, from a restart at any moment to webhooks that arrive after the call has
finished. `past[c]` keeps what the backend has handled of a call, to respect the
two orders Twilio guarantees: there is a speech result only after a `<Gather>`
was answered, and only after an `<Enqueue>` can a call be in the hold queue. A
ring may come, or come again, at any time: `register_incoming` takes it for a
retry only if its call is in memory, and otherwise registers the call anew over
whatever its row says. That step has a name, `RungAnew`, and the properties that
it breaks name it as their exception.

**`Screening`** drives the same steps from a model of the phone line. `phase[c]`
is what Twilio is doing with a call, `posts[c]` the webhooks under way, `cmd[p]`
how far a request to Twilio has got: sent, carried out with the reply on its way,
without a reply, done. `boot` is the recovery, with an action for each stretch
between two awaits. Twilio is external and taken only as far as the code relies
on it: a command replaces what a live call is doing; the first answer that
arrives while a call waits for instructions is the one acted on.

**`InPlay`** is what the registry promises to whoever reads it: a call moves
forward from screening to on hold to accepted, and one whose row says that it is
decided or over is put back by nothing but a ring, restarts and failed writes
included. Each step changes what is in play and saves some of the calls it is
about (`Saving`), all of them unless a write fails. `RegistryClient!KeepsPromise`
states that the registry implements it, under the mapping `ShownStatus` (the
status in memory) and `ClosedCalls` (finished in the table).

**`Dashboard`** builds on `InPlay`. Each action of the server changes what is in
play and publishes the events of that commit, into the queue of each open
connection, oldest dropped first. `Connect` subscribes and takes the snapshot in
one step, as `frontend_stream` does with no await in between; `Write` and
`Receive` move messages in order; `Reduce` is the reducer of `useCallStream.ts`.
`view` is what the browser shows, in order of arrival, with the pruning of
finished calls. A restart closes sockets and forgets tokens; a dashboard that is
refused signs out.

**`Contacts`** puts contacts on top of `RegistryClient`: every one of its steps is
taken with what it does to the contact the call shows (`card`, which is
`Caller.contact`). `ChangeFields` is `change_contact` up to its first await: read,
merge, save, show on the calls in play, publish, list the calls to hang up on.
`HungUp` and `NotHungUp` are the hang-ups that follow, each in a step of its own
with anything in between. `form` is the contact a dialog opened with, against
which `ChangedFields` decides what is sent. `LetIn` and `TurnAwayBlocked` are the
start of `incoming_call`, which screens blocked numbers before the line and the
queue are looked at, late rings included. `Number` is `caller.number`: a recovery
knows it from the saved row or from Twilio's description of the call, and has
none if it finds neither; such a call shows no contact, and neither an edit nor a
block reaches it. `missed` and `meant` are history variables: the calls that a
block is excused for, and what operators last chose for each field.

**`History`** is a table of finished calls and one view of it. A call is its place
in the order of the list. `table` changes as calls finish, are revived and are
swept, `matches` as contacts and transcripts change what a search finds; each
change may or may not come with an event (`Finish(c, told)`), and events may be
lost. A request is sent (`ReadFirst`, `LoadOlder`), answered from the table as it
stands, and applied later or never. `start` holds the rows that were there when
the list was started and are there still; `untold` says that a change came which
the view has not been told of; `patched`, that an older page was appended which
was answered before the list was started anew. These three are history variables.

**The proofs** build on each other as the modules do:

```
   CallRegistryProofs --- RegistryClientProofs --- ContactsProofs
           \--- ScreeningProofs --- LineProofs

   ListProofs --- HistoryProofs
           \--- DashboardProofs
```

`MCRegistryClient`, `MCScreening` and `MCContacts` give the constants of the runs;
`Dashboard` and `History` are run as they are.

Definitions headed `MUTANT of X` are plausible bugs in `X`. No behaviour uses
them; each shows that some property would notice the bug.

## The runs

Bounds: `MaxRestarts` restarts; in `Dashboard` also `MaxBreaks` broken
connections and a queue of `QueueMax` events (250 in production); in `Contacts`
the count of refused rings stops at `MaxAttempts`; in `History` there are
`MaxChanges` changes of the table and `MaxInputs` inputs of the operator.
Everything else is finite by itself, since calls only move forward; there is no
bound on the number of steps.

| Run | What can happen | What it shows |
|---|---|---|
| `registry_faults` | one call, three restarts, its webhooks in any order and any number of times, late rings included; any write may fail | memory holds only calls in play and differs from the table only after a failed write; what is finished, settled or heard stays so until a late ring registers the call anew; after a recovery no row is open without its call; the registry implements `InPlay` |
| `contacts` | one contact with two calls of silent callers, one dialog, block and unblock buttons, a restart, late rings, recoveries without the number; reads of calls and writes of contacts may fail | calls show the contact of their number as saved; a blocked number has no call waiting that the block could reach; edits and counts stand |
| `screening_faults` | accept, reject, drain and hold limit crossing, lost requests, replies and webhooks, one restart | nobody holds unseen; nobody is said to be accepted who was not dialled; who was refused left no trace |
| `screening_retries` | two callers for one place, each webhook once or twice, rings later than the end of the call | holders stay on hold, with their words; never more open calls than places |
| `screening_leave` | accept, drain, hold limit, lost replies, one restart, fair delivery | the length of a conversation is saved; a call that is over leaves the dashboard for good |
| `history` | three calls, pages of one row, refetches of at most two, events lost or never sent, requests that fail, searches, closing and reopening | no row is repeated; none that was there is skipped, but by an older page that outlived its list; the top of the list is the top of the table; a view that is told of what changes gets there |
| `dashboard` | one call, a queue of two, failing writes, a restart, a broken socket, sign-ins and sign-outs, fair delivery | what is shown plus what is on its way is the server's state; announced failures are shown; a call that no longer waits leaves the queue of every dashboard |
| `screening_crossed`, `screening_retried_ring`, `registry_lost_words`, `history_gap`, `history_returned` | | each finds the disagreement described below |

Why the bounds are enough. One call is enough wherever a property concerns the
decisions, webhooks and restarts of a single call, which is everything in
`RegistryClient`, and in `Screening` all but the size of the queue: the registry
treats calls independently, and the theorems confirm it for any number. One
restart gives what a recovery puts back or sweeps, a second one what the first
recovery has saved, a third one what a late ring left behind in between. Two copies
of a webhook produce every overlap of an original with a retry. Two calls are the
least for a full queue that holds somebody else's call, and for a block that
reaches one call and misses the next. A second dialog adds nothing that the
buttons of the other dashboards do not do to the one that is open. The two calls
of `contacts` are alike, so the run takes them for interchangeable, and no property
of contacts looks at what was said or at most of a row, so `MCView` leaves that
out of what makes two states different.

For `Dashboard` and `History` the runs can be small because every safety property
they check is also proved, for any number of calls, any length of queue and any
size of page; what the run adds is the liveness. A queue of two events overflows
with the events of one call. Three calls on pages of one row, with a cap of two,
are the least for a list that is longer than what a refetch may ask for. Three
inputs open a view and then search and come back, or leave and reopen, and since
the first state may hold any rows the change of the table falls anywhere among
them. `history_gap` needs two changes and only two inputs.

### Fairness

`Screening!Fairness`: Twilio goes on delivering what it has posted and carries
out the requests it gets (or the client's timeout ends them); the event loop runs
every handler to its end; so does the recovery at boot. Callers, the host and the
operators are under no obligation. `Dashboard!Fairness`: an open socket's writer
writes, the browser handles what arrives, and a socket that is down reconnects
(`websocket.ts` retries without limit and its stall timer closes a dead socket).
Nobody has to sign in. Without the bounds on breaks and restarts `DecidedLeaves`
would need a socket that at some point stays up. `History!Fairness`: an event that
is not lost arrives, and a request for the first page is answered or fails. It
says nothing of older pages, which nobody has to load, nor of the operator.
`History` may stop for good once its bounds are used up, so the runs of that
module do not look for deadlocks.

## Where the code and its documentation disagree

* **A retry at the last place.** The cap is checked before the duplicate is
  recognised and counts the caller's own row, so the last caller who fits can be
  turned away by their own retry, although registered (`screening_retried_ring`).
* **Decisions that cross.** A hang-up carried out by Twilio just before an accept
  is carried out leaves a call filed as rejected or ended while the caller is
  being bridged (`screening_crossed`).
* **The mark of lost words.** The recovery saves a call whose words were lost as
  on hold with no transcript, which the next recovery reads as a caller who said
  nothing (`registry_lost_words`).
* **A gap in the history.** A refetched first page keeps the rows loaded earlier
  that are older than its last one, whether or not it reaches them. When more
  calls have finished since than the page holds, as while the view was closed or
  the socket down, those in between are on no page that can be loaded
  (`history_gap`).
* **An older page that returns.** A late older page is appended when the filters
  and the cursor are those it was requested with, which the code takes to mean that
  it still follows on. After a search and back they can be the same again although
  the list is another: a call that finished between the answer and the new list is
  then on neither (`history_returned`). `OnlyOldPagesSkip` states, and
  `HistorySkips` proves, that no row is skipped otherwise.

Seen while modelling, without a run of their own:

* `register_incoming` recognises a retry by the call in memory, never by its row,
  although it is documented as idempotent ("a retry must not duplicate the queue
  row"; `docs/architecture.md:244`). A retry of the ring that is handled after the
  call has left memory registers it anew: a caller who is gone is back on the
  dashboard, where nothing will end them, their row loses what it had settled, and
  one who was heard before a restart loses their words. `RegistryClient` and
  `Contacts` take that step as often as it can come. `FinishedStays` and
  `SettledStands` exempt it (`RungAnew`), `WordsSurvive` starts over with it, and
  in `InPlay` only `Ring` puts back a call whose row is closed. In `Screening` it
  comes with `LateRings`, and `CallsLeave` holds without.
* An accept whose reply is lost is reported as failed though the caller is
  bridged, and such a conversation is not counted by `times_on_air`.
* A drain that times out reports calls as still connected that it has hung up.
* A block hangs up on the calls that were waiting when it was saved, one after the
  other, so it may cut one that was accepted meanwhile, although "never one on
  air" (`contacts.py:80`); `HungUp` takes that step, and no property excludes it. A
  caller who was blocked just before a restart is put back on hold by the recovery.
* A read of a contact that fails looks like a number without one: the merge then
  saves the fields that were sent and wipes the others. A failed read of the
  history looks like an empty page.
* A failed purge at the end of `close_line` sets the storage warning without
  announcing it, so open dashboards learn of it only from the next failed write.
* A dashboard whose queue overflowed may show a call as waiting until it
  reconnects, which `NothingIsMissed` excludes by its condition.
* An accept, the sweep at boot and the close of a saved call change the history
  without an event, so that open views stay as they are until the next one.

## What is proved

### The registry

These are about `RegistryClient!Spec`, for any set of calls, any speech, any
number of restarts, from the assumptions named in `CallRegistry` (`None` is not a
call, a length or a status; the faults are reads and writes).

* `TypeCorrect`, `OnlyPlayInMemory`, `SavedIsMemory` hold whatever reads and
  writes fail. They follow from one inductive invariant, `RegistryInv`: the types,
  what an accepted call in memory looks like (`MemoryInPlay`), and rows equal to
  memory until a write failed (`SavedMatchesMemory`). The first is not inductive
  alone: the commit of a status stamps `endedAt` depending on the status before.
  `CallRegistryProofs` has one lemma for each method of the registry, and
  `RegistryClientProofs` one step for each action.
* `FinishedForGood` and `SettledForGood` are action properties, and assume that
  reads do not fail: a failed read looks like a missing row, so the code then
  revives a finished caller. Writes may fail. Both exempt the step that registers
  a call anew, and `SettledStands` what follows from it until the new call is
  saved: such a call settles its fate in memory while the old row still says
  another.
* `PromiseKept` is the refinement: as long as reads do not fail, every step of
  `RegistryClient` is a step of `InPlay` or changes neither `ShownStatus` nor
  `ClosedCalls`. The proof gives each method the step it implements (a ring, a
  hold, an accept, a leave, a settling of the row alone, a recovery, a loss of
  memory, a save without a change) and the rows that it saved: a row that was
  written says that its call is over exactly when nobody waits as it. Late rings
  are steps like any other here: a `Ring` does not ask whether the call is closed.
* `NoCallIsLost` and `NoWordsAreLost` assume that reads do not fail. The first
  says that rows in play have their calls in memory until a write fails: a sweep
  that cannot list the open rows would end none. The second needs no writes that
  work, because it speaks of words once they were saved: from then on they are in
  every row and every call in memory, until the call is registered anew.

### Contacts

About `ContactsSpec`, for any numbers, callers, names, standings and dialogs.

* `ContactsTypeCorrect` holds whatever fails.
* `CardsAlwaysCurrent`, `BlockedNeverHold`, `EditsAlwaysStand` and
  `AttemptsNeverFall` assume that contacts can be read: after a failed read the
  code does break them. Contact writes may fail, and so may every statement about
  calls. A call that a recovery could neither find in the table nor have described
  by Twilio has no number; the theorems say of it that it shows no contact, and do
  not count it among those of the blocked number it may be from. They share one
  invariant, `ContactsInv`, the conjunction of the types, `CardsAreCurrent`,
  `BlockedDontHold` and `EditsStand` over the invariant of the registry: each step
  either brings named calls into memory, or changes the contact of one number.
* `ContactsRunTheRegistry`: every step of `Contacts` is one of `RegistryClient`, or
  leaves it alone, as long as contact writes work (a failed one sets the warning,
  which the registry alone never does).
* `ContactsKeepPromise`: as long as calls can be read, `Contacts` implements
  `InPlay`, whatever contact statements do: a warning that they set is nothing
  that `InPlay` knows of.

### The phone line

About `Screening!Spec`, for any calls, any requests of operators, any size of
queue, any number of restarts, with or without a hold limit, lost replies, lost
webhooks and late rings. `ScreeningProofs` first says of every method of the
registry which calls it brings into memory, which it marks as accepted and which
it leaves as they are, and then never looks inside the methods again. Each
theorem has an invariant of its own, resting on `Typed` (the types, with
`RegistryInv`).

* `ScreeningTypeCorrect`: the types; no webhook is under way more than twice.
* `AcceptsWereDialled`: not inductive alone, since an accept is recorded several
  steps after the call was dialled. `DialledInv` adds that an accept which came
  back as carried out is about a call that was dialled.
* `LineInv`, on which all that follow rest: of a call that is new nothing is known,
  and while a call has not got further than the hold queue no webhook says that
  it is on its way out, nor has any request about it been carried out.
* `HoldersStayReady`, before the first restart and whatever fails: `HoldInv` adds
  that a call is in memory from the greeting on, and undecided as long as it
  rings, is heard or holds. Without the steps before the queue the property is
  not inductive: the speech result finds the call as those have left it.
* `QueueStaysWithinCap` assumes a store that works: with a failed write a finished
  caller can be revived past the cap. `QueueInv` adds that every call which may
  still be put in play has a row, and that a row in play has its call in memory,
  where it was counted when it rang.
* `RefusedStayUnregistered` assumes that each webhook is posted once
  (`Copies = {1}`); with retries it is false (`screening_retried_ring`).
  `RefusedInv` adds that nothing is under way that could register a call that was
  turned away.

`LineProofs` continues with what holds across restarts.

* `HoldersAlwaysShown` holds whatever fails, is lost or is retried. Before the
  first restart it follows from `HoldInv`; from a completed recovery on, from
  `ShownInv`: a call that has got no further than the queue is decided neither in
  memory nor in its row (a sweep is a guess, and decides nothing), so the recovery
  has no reason to pass it over; and whoever holds while Twilio's answers are
  awaited is in memory or on the list that the recovery goes through. A caller
  who reaches the queue after it was listed is in memory by then, because a speech
  result drops the words of finished calls only.
* `TalkedStaysTimed` assumes that the store works, that webhooks are neither lost
  nor posted twice, and that nobody rejects: a rejection on a call that has talked
  already stands, and the dial result that comes after it is dropped. `TimedInv`
  adds to `RefusedInv` that every call let in or asked about has a row, that no row
  is rejected, and that the length is either still on its way or in a row that is
  finished and out of memory. Such a row is never touched again except by a close
  or a sweep, and both leave lengths alone.

### The dashboards

About `Dashboard!Spec`, for any finite set of calls, any dashboards, any length of
the queue, any number of finished calls that a browser keeps, restarts and broken
sockets, with or without failing writes.

* `DashboardTypes`: the types, and with them that no queue is longer than
  `QueueMax`.
* `DashboardMissesNothing`: an open dashboard that has lost nothing shows, once it
  has read what is on its way, what the server has in play and whether the line is
  open; one that has lost events still does for each call with news in its queue.
* `DashboardShowsFailure`: a dashboard that has lost nothing shows a warning once
  one was announced, and none that is not the server's.

The properties speak of what a browser *will* show, which folds the reducer over
the queue, so none of them can be carried from step to step as it stands. The
invariant, `DashboardInv`, replaces the fold by the latest event: of each open
dashboard, the last event in the queue about a call (or the line) tells the server's
state of it, and if there is none and nothing was lost, then what has been written
to the socket already tells it. That is kept by publishing (the new event is the
latest; dropping the oldest leaves the latest, `PushAgrees`), by writing (the head
moves from the queue into what the socket has, `WriteKeeps`), by the commits of the
registry (`CommitsTell`), and by a snapshot. `ShowsIsLatest`, by induction over the
length of the queue, says that the reducer arrives at just that, its pruning of
finished calls included.

### The call history

About `History!Spec`, for any number of calls, any size of page and cap, any number
of changes and inputs.

* `HistoryTypes`: the types.
* `HistoryOrder`: the list stays in the order of the table, so no row is repeated,
  through refetches, appended pages and rows that come and go.
* `HistorySkips`: a row that was there when the list was started and has stayed is
  shown or on a page still to come, unless an older page was appended that was
  answered before the list was started anew (see above).
* `HistoryCurrent`: once all that the view was told of has arrived, the top of the
  list is the first page of the table.

They share one invariant, `HistoryInv`. Beyond the properties it says that the list
is ahead of its cursor (`GoodList`); that only a request for an older page has a
cursor (`RequestsInv`); that every answer under way for these filters has all the
rows that were there ever since, but for an older page which outlived its list
(`StartInv`); and that when the table has moved on from an answer, either an event
is on its way or the change was one the view is not told of (`FreshInv`). The lemmas before it are about the
operators: what a page holds (`PageIsList`), that a page follows on from a list
(`PageFollows`), that joining and merging keep the order (`JoinIsOrdered`,
`MergeIsList`).

### How lists are proved about

The library states induction with an operator for a parameter, which cannot be used
here. `EveryNat` states it with a set: one that holds zero, and the successor of
each natural it holds, holds every natural. `ListProofs` derives it from the
well-foundedness of `<`, shows by it that the function which defines `Among` exists
(`FiltersExist`), and so what the filter of any list is (`AmongIsPart`): a list of
the kept elements, by an increasing map into the old one. `DashboardProofs` uses the
same way for the reducer. TLC checked both invariants on small instances first.

### Only model-checked

Liveness (`CallsLeave`, `DecidedLeaves`, `HistoryCatchesUp`), which is out of the
reach of TLAPS. Every invariant and every action property of a run that passes is
proved. `FiledIsOffTheLine`, `LostWordsAreMarked`, `NothingIsOutOfReach` and
`NoRowIsSkipped` state findings: TLC refutes them.

## What is left out of the models

* Twilio's own limit on the hold queue: a caller it drops (`queue-full`) leaves as
  one who gave up. The request at boot that sets the limit (`hold_queue.py`) never
  raises and touches nothing of the backend.
* Migrations: there is one, run with its version number in a single SQLite
  transaction, so nothing between two steps can be seen.
* Callers who withhold their number are `None` in `NumberOf`; a number that cannot
  be parsed is treated alike. How numbers are parsed is not modelled.
* The list of contacts (`useContacts.ts`) and the statistics of a caller
  (`times_on_air`): they are read from the table whenever they are shown.
* TwiML, signatures, configuration, presentation, the scripts: no state.
* A decision over the websocket: the same steps as over HTTP.
* Hang-ups of a drain that gave up at its deadline go on in the model only until
  then: the code cancels them.
* A hang-up answered with 404 and one answered otherwise and probed both come out
  as a call that is over.
* A redirect drops Twilio's pending action callback of the `<Dial>` or `<Enqueue>`
  it replaces. A hold is not redirected back into a queue.
* Times, apart from which of two events stamped first: `started_at` order, the
  hold limit's length, backoff and heartbeat intervals.
* `Store.open` falling back to a database in memory: from then on it behaves as
  one that started empty, with the warning set.
* Dashboards: what is selected, pending buttons, alerts, contact names.

## Plan

Done, in this order: `CallRegistry`, `RegistryClient` and their proofs; `InPlay`
and the refinement; `Screening`; `Dashboard`; `Contacts` with its proofs;
`History`; the proofs about `Screening`, those across restarts in `LineProofs`;
those about lists, `History` and `Dashboard`.

What would come next: that the server of `Dashboard` takes steps of `InPlay` and
that the registry under `Screening` takes steps of `RegistryClient`, so that what
is proved of the registry carries over by refinement.
