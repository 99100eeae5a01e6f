----------------------------- MODULE Dashboard ------------------------------
(***************************************************************************)
(* How the operators' dashboards follow the calls in play: the broadcaster *)
(* with a bounded queue for each connection, the snapshot a connection     *)
(* starts with, the reducer in the browser, the socket that reconnects and *)
(* the sessions a restart forgets.                                         *)
(*                                                                         *)
(* The registry is the one promised by InPlay.  A commit saves, announces  *)
(* a first failure and publishes without an await, so it is one action.    *)
(* What a socket buffers beyond the queue is one message, on the wire: the *)
(* writer waits until it is taken.                                         *)
(***************************************************************************)
EXTENDS InPlay, Integers, Sequences, FiniteSets, SequencesExt, Lists

CONSTANTS
  Dashboards,    \* the tabs operators have open
  QueueMax,      \* FRONTEND_QUEUE_MAX
  MaxRecent,     \* MAX_TERMINAL_CALLS
  WritesFail,    \* whether a write to the store may fail
  MaxRestarts,   \* bound on the number of restarts
  MaxBreaks      \* bound on the connections that break

ASSUME CallsAssumption == IsFiniteSet(Calls)
ASSUME SizesAssumption == QueueMax \in Nat \ {0} /\ MaxRecent \in Nat
ASSUME DashboardBounds == MaxRestarts \in Nat /\ MaxBreaks \in Nat
ASSUME WritesFailAssumption == WritesFail \in BOOLEAN

VARIABLES
  lineOpen,  \* LineState.is_open
  warning,   \* Store.warning is set
  announced, \* the dashboards have been told of it
  restarts,  \* restarts so far
  breaks,    \* connections broken so far
  link,      \* each socket: "out" (signed out), "down" or "open"
  known,     \* the dashboards whose token the server knows
  wire,      \* the message under way to each dashboard, Nothing if none is
  queue,     \* each subscriber's mailbox
  view,      \* what each dashboard shows
  lossy      \* history: events were dropped since the snapshot

serverVars == <<lineOpen, warning, announced, restarts>>
clientVars == <<breaks, link, known, wire, view>>
vars == <<inPlayVars, serverVars, clientVars, queue, lossy>>

-----------------------------------------------------------------------------
(* Messages. *)

CallEvent(c, status, ended) ==
  [kind |-> "call", call |-> c, status |-> status, ended |-> ended]
LineChanged(open) == [kind |-> "line", open |-> open]
StorageError == [kind |-> "storage"]
ContactChanged == [kind |-> "contact"]
Nothing == [kind |-> "nothing"]

\* The snapshot: the calls waiting, the line and the warning.
Snapshot ==
  [kind    |-> "snapshot",
   calls   |-> [c \in Calls |-> IF Waiting(shown[c]) THEN shown[c] ELSE "none"],
   open    |-> lineOpen,
   warning |-> warning]

-----------------------------------------------------------------------------
(* The reducer.  A dashboard keeps calls in order of arrival, and at most   *)
(* MaxRecent of those that are finished or on air.                          *)

Blank == [calls |-> [c \in Calls |-> "none"], order |-> <<>>,
          open |-> TRUE, warning |-> FALSE]

IsTerminal(s) == s \in {"accepted", "rejected", "ended"}

\* MUTANT of Upsert: a call already listed is listed again.
UpsertAgain(v, c, status) ==
  [v EXCEPT !.calls[c] = status, !.order = Append(@, c)]

Upsert(v, c, status) ==
  [v EXCEPT !.calls[c] = status,
            !.order = IF Contains(@, c) THEN @ ELSE Append(@, c)]

PruneTerminal(v) ==
  LET recent == Among(v.order, {c \in Calls : IsTerminal(v.calls[c])})
      drop == ToSet(SubSeq(recent, 1, Len(recent) - MaxRecent))
  IN  [v EXCEPT !.calls = [c \in Calls |-> IF c \in drop THEN "none" ELSE @[c]],
                !.order = Among(@, Calls \ drop)]

\* MUTANT of Replaced: a snapshot adds to what is shown.
Merged(v, m) ==
  LET shownCalls == [c \in Calls |-> IF m.calls[c] = "none" THEN v.calls[c]
                                     ELSE m.calls[c]]
  IN  [calls   |-> shownCalls,
       order   |-> SetToSeq({c \in Calls : shownCalls[c] # "none"}),
       open    |-> m.open,
       warning |-> m.warning]

\* A snapshot replaces what is shown.
Replaced(v, m) ==
  [calls   |-> m.calls,
   order   |-> SetToSeq({c \in Calls : m.calls[c] # "none"}),
   open    |-> m.open,
   warning |-> m.warning]

Reduce(v, m) ==
  CASE m.kind = "snapshot" -> Replaced(v, m)
    [] m.kind = "call" /\ m.ended -> PruneTerminal(Upsert(v, m.call, m.status))
    [] m.kind = "call" /\ ~m.ended -> Upsert(v, m.call, m.status)
    [] m.kind = "line" -> [v EXCEPT !.open = m.open]
    [] m.kind = "storage" -> [v EXCEPT !.warning = TRUE]
    [] OTHER -> v

-----------------------------------------------------------------------------
(* The broadcaster. *)

\* MUTANT of Pushed: the new events are the ones dropped.
PushedWhileRoom(q, events) ==
  LET all == q \o events
  IN  IF Len(all) > QueueMax THEN SubSeq(all, 1, QueueMax) ELSE all

\* A full queue drops its oldest event for each new one.
Pushed(q, events) ==
  LET all == q \o events
      over == Len(all) - QueueMax
  IN  IF over > 0 THEN SubSeq(all, over + 1, Len(all)) ELSE all

Publish(events) ==
  /\ queue' = [d \in Dashboards |->
       IF link[d] = "open" THEN Pushed(queue[d], events) ELSE queue[d]]
  /\ lossy' = lossy \cup
       {d \in Dashboards : /\ link[d] = "open"
                           /\ Len(queue[d]) + Len(events) > QueueMax}

\* MUTANT of Told: a failed write is never announced.
ToldNothing(events, k) == events

\* The events of a commit whose k-th write failed: a first failure is announced
\* ahead of the event itself.  k = 0 when every write succeeded.
Told(events, k) ==
  IF k = 0 \/ announced THEN events ELSE InsertAt(events, k, StorageError)

\* What committing each of S, in some order, tells the dashboards while the
\* writes of `failed' fail: `ended' for calls that leave memory.
Commits(S, status, ended, failed) ==
  {LET events == [i \in 1..Len(order) |->
                    CallEvent(order[i], status[order[i]], ended)]
       first  == {i \in 1..Len(order) :
                    /\ order[i] \in failed
                    /\ \A j \in 1..(i - 1) : order[j] \notin failed}
   IN  Told(events, IF first = {} THEN 0 ELSE CHOOSE i \in first : TRUE)
     : order \in SetToSeqs(S)}

Commit(S, status, ended, failed) ==
  /\ \E events \in Commits(S, status, ended, failed) : Publish(events)
  /\ warning' = (warning \/ failed # {})
  /\ announced' = (announced \/ failed # {})

Failures(S) == IF WritesFail THEN SUBSET S ELSE {{}}
All(status) == [c \in Calls |-> status]

-----------------------------------------------------------------------------
(* The server. *)

\* register_incoming and set_transcript, its retries included.
Arrive(c) ==
  /\ Ring(c) \/ Hold(c) \/ Resave({c})
  /\ \E failed \in Failures({c}) :
       Saving({c} \ failed) /\ Commit({c}, shown', FALSE, failed)
  /\ UNCHANGED <<lineOpen, restarts, clientVars>>

PutOnAir(c) ==
  /\ Accept(c)
  /\ \E failed \in Failures({c}) :
       Saving({c} \ failed) /\ Commit({c}, shown', FALSE, failed)
  /\ UNCHANGED <<lineOpen, restarts, clientVars>>

\* A rejection, an end, or the drain's hang-ups.
Finish(S, status) ==
  /\ S # {} /\ Leave(S)
  /\ \E failed \in Failures(S) :
       Saving(S \ failed) /\ Commit(S, All(status), TRUE, failed)
  /\ UNCHANGED <<lineOpen, restarts, clientVars>>

\* _close_saved: no dashboard is told.
FinishUnseen(c) ==
  /\ Settle(c) /\ Saving({c})
  /\ UNCHANGED <<serverVars, clientVars, queue, lossy>>

\* change_contact: an update of each call in play, then the contact.
ChangeContact(S) ==
  /\ Resave(S)
  /\ \E failed \in Failures(S) :
       /\ Saving(S \ failed)
       /\ \E events \in Commits(S, shown, FALSE, failed) :
            Publish(Append(events, ContactChanged))
       /\ warning' = (warning \/ failed # {})
       /\ announced' = (announced \/ failed # {})
  /\ UNCHANGED <<lineOpen, restarts, clientVars>>

\* reconcile_hold_queue: restore, then sweep, which also tells of a failure
\* nobody has been told of.
Reconcile(S) ==
  /\ Recover(S)
  /\ \E failed \in Failures(S), swept \in {TRUE, ~WritesFail} :
     /\ Saving(S \ failed)
     /\ \E events \in Commits(S, All("on-hold"), FALSE, failed) :
         LET untold == (warning \/ ~swept) /\ ~announced /\ failed = {}
         IN  /\ Publish(IF untold THEN Append(events, StorageError) ELSE events)
             /\ warning' = (warning \/ failed # {} \/ ~swept)
             /\ announced' = warning'
  /\ UNCHANGED <<lineOpen, restarts, clientVars>>

\* Any other write that fails: a contact's, a blocked attempt's, _close_saved's.
WriteFails ==
  /\ WritesFail
  /\ warning' = TRUE /\ announced' = TRUE
  /\ Publish(Told(<<>>, IF announced THEN 0 ELSE 1))
  /\ UNCHANGED <<inPlayVars, lineOpen, restarts, clientVars>>

\* purge_transcripts, at the end of close_line: nobody is told.
PurgeFails ==
  /\ WritesFail
  /\ ~lineOpen
  /\ warning' = TRUE
  /\ UNCHANGED <<inPlayVars, lineOpen, announced, restarts, clientVars, queue, lossy>>

\* LineState.set_open.
SetOpen(open) ==
  /\ lineOpen # open
  /\ lineOpen' = open
  /\ Publish(<<LineChanged(open)>>)
  /\ UNCHANGED <<inPlayVars, warning, announced, restarts, clientVars>>

Hangup(S) == [d \in Dashboards |-> IF d \in S /\ link[d] = "open" THEN "down" ELSE link[d]]
Emptied(S) == /\ wire' = [d \in Dashboards |-> IF d \in S THEN Nothing ELSE wire[d]]
              /\ queue' = [d \in Dashboards |-> IF d \in S THEN <<>> ELSE queue[d]]

\* The process is replaced: sockets close and tokens are forgotten.
Restart ==
  /\ restarts < MaxRestarts
  /\ restarts' = restarts + 1
  /\ Lose /\ UNCHANGED closed
  /\ lineOpen' = TRUE
  /\ warning' \in {FALSE, WritesFail} /\ announced' = warning'
  /\ known' = {}
  /\ link' = Hangup(Dashboards)
  /\ Emptied(Dashboards)
  /\ UNCHANGED <<breaks, view, lossy>>

-----------------------------------------------------------------------------
(* The dashboards. *)

\* frontend_stream: subscribe and take the snapshot, with no await between.
Connect(d) ==
  /\ link[d] = "down" /\ d \in known
  /\ link' = [link EXCEPT ![d] = "open"]
  /\ wire' = [wire EXCEPT ![d] = Snapshot]
  /\ queue' = [queue EXCEPT ![d] = <<>>]
  /\ lossy' = lossy \ {d}
  /\ UNCHANGED <<inPlayVars, serverVars, breaks, known, view>>

Out(d) ==
  /\ link' = [link EXCEPT ![d] = "out"]
  /\ known' = known \ {d}
  /\ view' = [view EXCEPT ![d] = Blank]
  /\ Emptied({d})
  /\ UNCHANGED <<inPlayVars, serverVars, breaks, lossy>>

\* A token the server has forgotten: closed with 4401, or a 401 to a request.
Refused(d) == link[d] = "down" /\ d \notin known /\ Out(d)

SignOut(d) == link[d] # "out" /\ Out(d)

\* A new token, and a new dashboard that has shown nothing yet.
SignIn(d) ==
  /\ link[d] = "out"
  /\ link' = [link EXCEPT ![d] = "down"]
  /\ known' = known \cup {d}
  /\ UNCHANGED <<inPlayVars, serverVars, breaks, wire, queue, view, lossy>>

\* _write_events.
Write(d) ==
  /\ link[d] = "open" /\ wire[d] = Nothing /\ queue[d] # <<>>
  /\ wire' = [wire EXCEPT ![d] = Head(queue[d])]
  /\ queue' = [queue EXCEPT ![d] = Tail(@)]
  /\ UNCHANGED <<inPlayVars, serverVars, breaks, link, known, view, lossy>>

\* onMessage, into the reducer.
Receive(d) ==
  /\ wire[d] # Nothing
  /\ view' = [view EXCEPT ![d] = Reduce(@, wire[d])]
  /\ wire' = [wire EXCEPT ![d] = Nothing]
  /\ UNCHANGED <<inPlayVars, serverVars, breaks, link, known, queue, lossy>>

\* The socket closes, or is closed as stalled, with what was under way.  The
\* dashboard shows what it showed until it has reconnected.
Break(d) ==
  /\ breaks < MaxBreaks
  /\ link[d] = "open"
  /\ breaks' = breaks + 1
  /\ link' = Hangup({d})
  /\ Emptied({d})
  /\ UNCHANGED <<inPlayVars, serverVars, known, view, lossy>>

-----------------------------------------------------------------------------
Init ==
  /\ InPlayInit
  /\ lineOpen = TRUE /\ warning = FALSE /\ announced = FALSE
  /\ restarts = 0 /\ breaks = 0
  /\ link = [d \in Dashboards |-> "out"]
  /\ known = {}
  /\ wire = [d \in Dashboards |-> Nothing]
  /\ queue = [d \in Dashboards |-> <<>>]
  /\ view = [d \in Dashboards |-> Blank]
  /\ lossy = {}

Server ==
  \/ \E c \in Calls : Arrive(c) \/ PutOnAir(c) \/ FinishUnseen(c)
  \/ \E S \in SUBSET Calls, status \in {"rejected", "ended"} : Finish(S, status)
  \/ \E S \in SUBSET Calls : ChangeContact(S) \/ Reconcile(S)
  \/ WriteFails \/ PurgeFails
  \/ \E open \in BOOLEAN : SetOpen(open)
  \/ Restart

Stream(d) == Connect(d) \/ Refused(d) \/ Write(d) \/ Receive(d)

Next ==
  \/ Server
  \/ \E d \in Dashboards : Stream(d) \/ SignIn(d) \/ SignOut(d) \/ Break(d)

Spec == Init /\ [][Next]_vars

\* A socket that is down reconnects, the writer writes what there is to write
\* and the browser handles what arrives.  Nobody has to sign in.
Fairness == \A d \in Dashboards : WF_vars(Stream(d))

FairSpec == Spec /\ Fairness

-----------------------------------------------------------------------------
ViewStatus == Status \cup {"rejected", "ended"}
Events ==
  [kind : {"call"}, call : Calls, status : ViewStatus \ {"none"}, ended : BOOLEAN]
    \cup [kind : {"line"}, open : BOOLEAN]
    \cup [kind : {"storage", "contact"}]
Messages ==
  Events \cup [kind : {"nothing"}]
    \cup [kind : {"snapshot"}, calls : [Calls -> Status], open : BOOLEAN,
          warning : BOOLEAN]

ViewType ==
  [calls : [Calls -> ViewStatus], order : Seq(Calls), open : BOOLEAN, warning : BOOLEAN]

TypeOK ==
  /\ shown \in [Calls -> Status] /\ closed \subseteq Calls
  /\ {lineOpen, warning, announced} \subseteq BOOLEAN
  /\ restarts \in 0..MaxRestarts /\ breaks \in 0..MaxBreaks
  /\ link \in [Dashboards -> {"out", "down", "open"}]
  /\ known \subseteq Dashboards /\ lossy \subseteq Dashboards
  /\ wire \in [Dashboards -> Messages]
  /\ queue \in [Dashboards -> Seq(Events)]
  /\ view \in [Dashboards -> ViewType]
  /\ \A d \in Dashboards :
       /\ Len(queue[d]) <= QueueMax
       /\ ToSet(view[d].order) = {c \in Calls : view[d].calls[c] # "none"}
       /\ IsInjective(view[d].order)

\* What d will show once everything under way has arrived.
Shows(v, q) ==
  LET after[i \in 0..Len(q)] == IF i = 0 THEN v ELSE Reduce(after[i - 1], q[i])
  IN  after[Len(q)]
Reading(d) == Shows(Reduce(view[d], wire[d]), queue[d])

\* How a call is listed, of those waiting.
Listed(statuses, c) == IF Waiting(statuses[c]) THEN statuses[c] ELSE "none"

HasNews(q, c) == \E m \in ToSet(q) : m.kind = "call" /\ m.call = c

\* "No code path can change a call without ... the dashboards hearing about it"
\* (call_registry.py:3): what an open dashboard shows and what is on its way to
\* it always come to the server's queue and line.  Where a full queue has
\* dropped events, that still holds of each call with news left in the queue.
NothingIsMissed ==
  \A d \in Dashboards : link[d] = "open" =>
    /\ d \notin lossy => Reading(d).open = lineOpen
    /\ \A c \in Calls :
         d \notin lossy \/ HasNews(queue[d], c)
           => Listed(Reading(d).calls, c) = Listed(shown, c)

\* "A failed write is ... shown on every dashboard" (architecture.md:418), once
\* announced, and none shows a warning of an earlier process.
FailureIsShown ==
  \A d \in Dashboards : link[d] = "open" /\ d \notin lossy =>
    /\ announced => Reading(d).warning
    /\ Reading(d).warning => warning

\* A call that stops waiting for good leaves the queue of every dashboard,
\* through broken sockets, restarts and sign-ins, unless its dashboard lost
\* events.
DecidedLeaves ==
  \A c \in Calls, d \in Dashboards :
    <>[](~Waiting(shown[c]) /\ d \notin lossy) => <>[](~Waiting(view[d].calls[c]))

=============================================================================
