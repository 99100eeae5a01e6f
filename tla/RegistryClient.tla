--------------------------- MODULE RegistryClient ---------------------------
(***************************************************************************)
(* Everyone who calls the registry: the webhooks, the operators' decisions,*)
(* the drain, contact changes and the recovery at boot, in any order and   *)
(* as often as they can come.  Webhooks may be retried, may arrive after   *)
(* the call has finished, and may find a process that has restarted.  A    *)
(* ring retried that late registers its call anew, over the row it has.    *)
(*                                                                         *)
(* Twilio contributes two facts: a speech result is posted only for a call *)
(* whose incoming webhook was answered with a <Gather>, and a call is in   *)
(* the hold queue only after its speech result was answered with an        *)
(* <Enqueue>.                                                              *)
(***************************************************************************)
EXTENDS CallRegistry

CONSTANTS
  MaxRestarts \* bound on the number of restarts

ASSUME RestartsAssumption == MaxRestarts \in Nat

VARIABLES
  past,        \* history: what the backend has handled of each call
  recovery,    \* the recovery of this boot: "pending", "done" or "failed"
  restarts     \* restarts so far

clientVars == <<past, recovery, restarts>>
vars == <<calls, rows, warning, past, recovery, restarts>>

\* "rung" and "heard" last.  Since the call was registered, "told" says that a
\* speech result came and no end, "saved" that the store took its words.
Milestones == {"rung", "heard", "told", "saved"}

Ended(S) ==
  /\ past' = [c \in Calls |-> IF c \in S THEN past[c] \ {"told"} ELSE past[c]]
  /\ UNCHANGED <<recovery, restarts>>

-----------------------------------------------------------------------------
Init ==
  /\ calls = [c \in Calls |-> None]
  /\ rows = [c \in Calls |-> None]
  /\ warning = FALSE
  /\ past = [c \in Calls |-> {}]
  /\ recovery = "pending"
  /\ restarts = 0

\* POST /webhook/incoming-call, from a caller who is let in, or its retry,
\* however late.  Only memory tells a retry.
IncomingCall(c) ==
  /\ RegisterIncoming(c)
  /\ past' = [past EXCEPT ![c] = (@ \cap {"heard"}) \cup {"rung"}]
  /\ UNCHANGED <<recovery, restarts>>

\* POST /webhook/speech-result, the first or a retry.
SpeechResult(c) ==
  /\ "rung" \in past[c]
  /\ SetTranscript(c)
  /\ past' = [past EXCEPT ![c] =
                @ \cup {"heard", "told"}
                  \cup (IF rows'[c] = calls'[c] THEN {"saved"} ELSE {})]
  /\ UNCHANGED <<recovery, restarts>>

\* An accept that Twilio has carried out.
Accept(c) == SetStatus({c}, "accepted") /\ UNCHANGED clientVars

\* A reject, or a block, that Twilio has carried out.
Reject(c) == SetStatus({c}, "rejected") /\ Ended({c})

\* The drain's hang-ups that Twilio has carried out.
Drain(S) == SetStatus(S, "ended") /\ Ended(S)

\* POST /webhook/dial-complete.
DialComplete(c, seconds) ==
  /\ "rung" \in past[c]
  /\ EndOnAir(c, seconds)
  /\ Ended({c})

\* POST /webhook/call-status or /webhook/queue-exit saying the call is over.
CallOver(c) ==
  /\ "rung" \in past[c]
  /\ End(c)
  /\ Ended({c})

\* PATCH /api/contacts/{number}, with calls in play from the number.
ChangeContact(S) ==
  /\ ApplyContact(S)
  /\ UNCHANGED clientVars

\* reconcile_hold_queue, when it takes `members' for everyone holding: what
\* Twilio listed and did not report as over, or nobody when there is no queue
\* yet or no credentials to ask with.
Reconcile(members) ==
  /\ recovery = "pending"
  /\ \A c \in members : "heard" \in past[c]
  /\ RestoreAndSweep(members)
  /\ recovery' = "done"
  /\ UNCHANGED <<past, restarts>>

\* Twilio could not say who is holding: no sweep either.
ReconcileFails ==
  /\ recovery = "pending"
  /\ recovery' = "failed"
  /\ UNCHANGED <<registryVars, past, restarts>>

\* A boot with RECONCILE_ON_STARTUP off.
SweepAtBoot ==
  /\ recovery = "pending"
  /\ SweepStale
  /\ recovery' = "done"
  /\ UNCHANGED <<past, restarts>>

\* The process is replaced, whatever it was in the middle of.
Reboot ==
  /\ restarts < MaxRestarts
  /\ Restart
  /\ restarts' = restarts + 1
  /\ recovery' = "pending"
  /\ UNCHANGED past

Next ==
  \/ \E c \in Calls : IncomingCall(c)
  \/ \E c \in Calls : SpeechResult(c)
  \/ \E c \in Calls : Accept(c)
  \/ \E c \in Calls : Reject(c)
  \/ \E S \in SUBSET Calls : Drain(S)
  \/ \E c \in Calls, seconds \in Seconds \cup {None} : DialComplete(c, seconds)
  \/ \E c \in Calls : CallOver(c)
  \/ \E S \in SUBSET Calls : ChangeContact(S)
  \/ \E members \in SUBSET Calls : Reconcile(members)
  \/ ReconcileFails
  \/ SweepAtBoot
  \/ Reboot

Spec == Init /\ [][Next]_vars

-----------------------------------------------------------------------------
ShownStatus == [c \in Calls |-> IF InMemory(c) THEN calls[c].status ELSE "none"]
ClosedCalls == {c \in Calls : Finished(rows[c])}

Promise == INSTANCE InPlay WITH shown <- ShownStatus, closed <- ClosedCalls

\* Every operation is one the operators were promised, failed writes included:
\* calls move forward only, and one whose row says that it was decided or ended,
\* even just before a restart, comes back only by a late retry of its ring
\* (call_registry.py:62, :90, :275).
KeepsPromise == Promise!InPlaySpec

TypeOK ==
  /\ calls \in [Calls -> Call \cup {None}]
  /\ rows \in [Calls -> Call \cup {None}]
  /\ warning \in BOOLEAN
  /\ past \in [Calls -> SUBSET Milestones]
  /\ recovery \in {"pending", "done", "failed"}
  /\ restarts \in 0..MaxRestarts

\* "Memory holds only the calls still in play" (call_registry.py:7), and one
\* on air was accepted and stamped as such, whatever path it took.
MemoryInPlay ==
  \A c \in Calls : InMemory(c) =>
    /\ calls[c].status \notin EndedStatuses
    /\ calls[c].status = "accepted" <=> calls[c].wasAccepted
    /\ calls[c].endedAt = IF calls[c].status = "accepted" THEN "accepted"
                          ELSE None

\* "No code path can change a call without it being stored" (call_registry.py:3):
\* until a write has failed, the row of a call in play is the call itself.
SavedMatchesMemory ==
  ~warning => \A c \in Calls : InMemory(c) => rows[c] = calls[c]

\* Once the boot's recovery is done, every row still in play belongs to a
\* call in memory (store.py:239, call_registry.py:236): a call that is neither
\* on the dashboard nor in history is lost to the operators.
OpenRowsAreInPlay ==
  recovery = "done" /\ ~warning =>
    \A c \in Calls :
      rows[c] # None /\ rows[c].status \notin EndedStatuses => InMemory(c)

\* The call is registered: nothing else constructs one that still screens.
RungAnew(c) == ~InMemory(c) /\ calls'[c] = NewCall

\* A row that says its call is decided or over, which nobody waits as.
Over(c) == Finished(rows[c]) /\ c \notin OpenCalls

\* A call that is over stays over, its row finished and not back in memory: a
\* late or retried speech result "must not put a finished caller back"
\* (call_registry.py:275), nor may the recovery.  A retried ring does.
FinishedStays ==
  [][\A c \in Calls : Over(c) /\ ~RungAnew(c) =>
       /\ Over(c)'
       /\ InMemory(c)' => InMemory(c)]_vars

\* What a call has settled, in memory or in its row.
Settled(call) ==
  <<call.endedAt, call.wasAccepted, call.onAir, call.status = "rejected">>

\* What a row has settled stands (store.py:262): the stamp of ended_at, having
\* been accepted, having been on air, a rejection.  It does not where a retried
\* ring registers the call anew, or has done so without being saved.
SettledStands ==
  [][\A c \in Calls :
       /\ rows[c] # None /\ ~RungAnew(c)
       /\ InMemory(c) => Settled(calls[c]) = Settled(rows[c])
       => /\ rows[c].endedAt # None => rows'[c].endedAt = rows[c].endedAt
          /\ rows[c].wasAccepted => rows'[c].wasAccepted
          /\ rows[c].onAir # None => rows'[c].onAir # None
          /\ rows[c].status = "rejected" => rows'[c].status = "rejected"]_vars

\* Words that were heard and saved stay with the call, through any restart,
\* sweep, recovery and failed write (call_registry.py:83), until it is
\* registered anew.
WordsSurvive ==
  \A c \in Calls :
    InMemory(c) /\ "saved" \in past[c] => calls[c].transcript = Speech[c]

\* Words that were heard and lost are marked as lost: otherwise the call "looks
\* identical to a caller who said nothing" (schemas/calls.py:148).
LostWordsAreMarked ==
  \A c \in Calls :
    InMemory(c) /\ "told" \in past[c] /\ calls[c].transcript # Speech[c]
    => calls[c].recovered

=============================================================================
