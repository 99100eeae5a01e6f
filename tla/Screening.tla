----------------------------- MODULE Screening ------------------------------
(***************************************************************************)
(* The registry at work: callers on the phone line, Twilio's webhooks, the *)
(* operators' decisions and the closing of the line, all at once.          *)
(*                                                                         *)
(* Twilio is external, and modelled from how the code uses it: each call   *)
(* is in one phase; where Twilio needs instructions it posts a webhook and *)
(* waits for the answer; a REST command replaces whatever a live call is   *)
(* doing.  A webhook may be posted twice (a retry); the first answer that  *)
(* arrives while the call waits is the one Twilio acts on.                 *)
(*                                                                         *)
(* The backend is one event loop, so the code between two awaits is one    *)
(* action.  A decision is three of them: the request is sent, Twilio       *)
(* carries it out, the reply is handled.                                   *)
(***************************************************************************)
EXTENDS CallRegistry, FiniteSets

CONSTANTS
  Accepts,     \* accept requests that can be under way at once
  Rejects,     \* reject requests that can be under way at once
  Drain,       \* the one command of closing the line
  Copies,      \* how often Twilio may post a webhook: {1}, or {1, 2}
  MaxSize,     \* HOLD_QUEUE_MAX_SIZE
  HoldLimit,   \* whether MAX_HOLD_MINUTES is set
  LostReplies, \* whether a request to Twilio, or its reply, may be lost
  LostPosts,   \* whether a webhook that finds the backend down is lost
  LateRings,   \* whether a ring, or its retry, may come after the call is over
  MaxRestarts  \* bound on the number of restarts

Commands == Accepts \cup Rejects \cup {Drain}

ASSUME CommandsAssumption ==
  Accepts \cap Rejects = {} /\ Drain \notin Accepts \cup Rejects
ASSUME CopiesAssumption == Copies \subseteq {1, 2} /\ 1 \in Copies
ASSUME BoundsAssumption ==
  /\ MaxSize \in Nat \ {0} /\ MaxRestarts \in Nat
  /\ {HoldLimit, LostReplies, LostPosts, LateRings} \subseteq BOOLEAN

VARIABLES
  lineOpen, \* LineState.is_open
  cmd,      \* cmd[p][c]: how far request p has got with call c
  boot,     \* the recovery of this boot: how far, and what Twilio has said
  restarts, \* restarts so far
  phase,    \* what Twilio is doing with each call
  posts,    \* webhooks on their way, of each call and kind
  dialled,  \* history: calls whose leg Twilio has bridged towards the host
  talked,   \* history: calls that have spoken with the host to the end
  refused   \* history: calls turned away at the ring

backendVars == <<lineOpen, cmd, boot, restarts>>
lineVars == <<phase, posts, dialled, talked, refused>>
vars == <<registryVars, backendVars, lineVars>>

-----------------------------------------------------------------------------
Kinds == {"incoming", "speech", "abandoned", "leave", "talked", "no-bridge",
          "status"}
Phases == {"none", "ringing", "greeting", "spoken", "queued", "leaving",
           "dialling", "on-air", "dial-done", "goodbye", "over"}
Steps == {"idle", "sent", "unknown", "ok", "failed"}

Live(c) == phase[c] \notin {"none", "over"}

\* The calls request p is at work on, and whether it is free.
At(p, step) == {c \in Calls : cmd[p][c] = step}
Free(p) == At(p, "idle") = Calls

NoPosts == [k \in Kinds |-> 0]
NoCommands == [p \in Commands |-> [c \in Calls |-> "idle"]]
NotAsked == [at |-> "listing", members |-> {}]

Init ==
  /\ calls = [c \in Calls |-> None]
  /\ rows = [c \in Calls |-> None]
  /\ warning = FALSE
  /\ lineOpen = TRUE
  /\ cmd = NoCommands
  /\ boot = NotAsked
  /\ restarts = 0
  /\ phase = [c \in Calls |-> "none"]
  /\ posts = [c \in Calls |-> NoPosts]
  /\ dialled = {} /\ talked = {} /\ refused = {}

-----------------------------------------------------------------------------
(* The line.  Enter moves a call to a phase and posts webhooks about it.    *)

Enter(c, to, kinds) ==
  /\ phase' = [phase EXCEPT ![c] = to]
  /\ \E n \in [kinds -> Copies] :
       posts' = [posts EXCEPT ![c] =
                   [k \in Kinds |-> IF k \in kinds THEN n[k] ELSE @[k]]]

\* What a hang-up is reported as, beside the end of the call.
PartingPosts(c) ==
  {"status"} \cup (CASE phase[c] = "queued"   -> {"abandoned"}
                     [] phase[c] = "dialling" -> {"no-bridge"}
                     [] phase[c] = "on-air"   -> {"talked"}
                     [] OTHER                 -> {})

OnAirOf(c) == IF phase[c] = "on-air" THEN {c} ELSE {}

CallerDials(c) ==
  /\ phase[c] = "none"
  /\ Enter(c, "ringing", {"incoming"})
  /\ UNCHANGED <<registryVars, backendVars, dialled, talked, refused>>

CallerSpeaks(c) ==
  /\ phase[c] = "greeting"
  /\ Enter(c, "spoken", {"speech"})
  /\ UNCHANGED <<registryVars, backendVars, dialled, talked, refused>>

CallerHangsUp(c) ==
  /\ Live(c)
  /\ Enter(c, "over", PartingPosts(c))
  /\ talked' = talked \cup OnAirOf(c)
  /\ UNCHANGED <<registryVars, backendVars, dialled, refused>>

HostAnswers(c) ==
  /\ phase[c] = "dialling"
  /\ Enter(c, "on-air", {})
  /\ UNCHANGED <<registryVars, backendVars, dialled, talked, refused>>

\* The bridge ends, or never connected.
DialEnds(c) ==
  /\ phase[c] \in {"dialling", "on-air"}
  /\ Enter(c, "dial-done",
           {IF phase[c] = "on-air" THEN "talked" ELSE "no-bridge"})
  /\ talked' = talked \cup OnAirOf(c)
  /\ UNCHANGED <<registryVars, backendVars, dialled, refused>>

GoodbyeEnds(c) ==
  /\ phase[c] = "goodbye"
  /\ Enter(c, "over", {"status"})
  /\ UNCHANGED <<registryVars, backendVars, dialled, talked, refused>>

-----------------------------------------------------------------------------
(* The webhooks. *)

\* One copy of a webhook is handled, and answered with instructions.  A call
\* that no longer waits in `from' ignores them; if another copy is under way,
\* this answer may also be the one that got lost.
Answer(c, kind, from, to, kinds) ==
  /\ posts[c][kind] > 0
  /\ LET left == posts[c][kind] - 1
     IN  \/ /\ phase[c] = from
            /\ phase' = [phase EXCEPT ![c] = to]
            /\ posts' = [posts EXCEPT ![c] =
                 [k \in Kinds |-> IF k = kind THEN left
                                  ELSE IF k \in kinds THEN 1 ELSE @[k]]]
         \/ /\ phase[c] # from \/ left > 0
            /\ posts' = [posts EXCEPT ![c][kind] = left]
            /\ UNCHANGED phase

\* One copy of a webhook is handled whose answer Twilio does not act on.
Handled(c, kind) ==
  /\ posts[c][kind] > 0
  /\ posts' = [posts EXCEPT ![c][kind] = @ - 1]
  /\ UNCHANGED phase

\* MUTANT of TurnAway: the call is registered before it is turned away.
RegisterAndTurnAway(c) ==
  /\ ~lineOpen \/ Cardinality(OpenCalls) >= MaxSize
  /\ Answer(c, "incoming", "ringing", "over", {"status"})
  /\ RegisterIncoming(c)
  /\ refused' = refused \cup (IF phase'[c] # phase[c] THEN {c} ELSE {})
  /\ UNCHANGED <<backendVars, dialled, talked>>

\* incoming_call: busy, whether or not the call is one already registered.
TurnAway(c) ==
  /\ ~lineOpen \/ Cardinality(OpenCalls) >= MaxSize
  /\ Answer(c, "incoming", "ringing", "over", {"status"})
  /\ refused' = refused \cup (IF phase'[c] # phase[c] THEN {c} ELSE {})
  /\ UNCHANGED <<registryVars, backendVars, dialled, talked>>

\* MUTANT of LetIn: one caller too many.
LetInOneMore(c) ==
  /\ lineOpen /\ Cardinality(OpenCalls) <= MaxSize
  /\ Answer(c, "incoming", "ringing", "greeting", {})
  /\ RegisterIncoming(c) \/ (InMemory(c) /\ UNCHANGED registryVars)
  /\ UNCHANGED <<backendVars, dialled, talked, refused>>

\* incoming_call: let in, and asked for the reason.
LetIn(c) ==
  /\ lineOpen /\ Cardinality(OpenCalls) < MaxSize
  /\ Answer(c, "incoming", "ringing", "greeting", {})
  /\ \/ RegisterIncoming(c)
     \/ InMemory(c) /\ UNCHANGED registryVars
  /\ UNCHANGED <<backendVars, dialled, talked, refused>>

\* speech_result: the words may be dropped, the caller is enqueued regardless.
SpeechResult(c) ==
  /\ Answer(c, "speech", "spoken", "queued", {})
  /\ \/ SetTranscript(c)
     \/ ~InMemory(c) /\ Finished(rows[c]) /\ UNCHANGED registryVars
  /\ UNCHANGED <<backendVars, dialled, talked, refused>>

\* hold_wait, past the limit: <Leave>, so Twilio posts the queue exit.
HoldWait(c) ==
  /\ HoldLimit
  /\ phase[c] = "queued"
  /\ Enter(c, "leaving", {"leave"})
  /\ UNCHANGED <<registryVars, backendVars, dialled, talked, refused>>

\* queue_exit for a hold that timed out: ended, then told so and hung up on.
QueueLeft(c) ==
  /\ Answer(c, "leave", "leaving", "goodbye", {})
  /\ End(c)
  /\ UNCHANGED <<backendVars, dialled, talked, refused>>

\* queue_exit for a caller who gave up.
QueueAbandoned(c) ==
  /\ Handled(c, "abandoned")
  /\ End(c)
  /\ UNCHANGED <<backendVars, dialled, talked, refused>>

\* dial_complete: a length if they talked.  The answer hangs up the caller.
DialComplete(c, kind, seconds) ==
  /\ Answer(c, kind, "dial-done", "over", {"status"})
  /\ EndOnAir(c, seconds)
  /\ UNCHANGED <<backendVars, dialled, talked, refused>>

\* call_status, terminal.
CallOver(c) ==
  /\ LateRings \/ posts[c]["incoming"] = 0
  /\ Handled(c, "status")
  /\ End(c)
  /\ UNCHANGED <<backendVars, dialled, talked, refused>>

-----------------------------------------------------------------------------
(* The commands.  Accepts are strict, the others lenient: rest.py.          *)

\* accept_call and reject_call, up to the request to Twilio.
Decide(p, c) ==
  /\ p # Drain
  /\ Free(p) /\ InMemory(c)
  /\ cmd' = [cmd EXCEPT ![p][c] = "sent"]
  /\ UNCHANGED <<registryVars, lineOpen, boot, restarts, lineVars>>

OpenLine ==
  /\ lineOpen' = TRUE
  /\ UNCHANGED <<registryVars, cmd, boot, restarts, lineVars>>

\* close_line, up to the drain's requests.
CloseLine ==
  /\ Free(Drain)
  /\ lineOpen' = FALSE
  /\ cmd' = [cmd EXCEPT ![Drain] =
               [c \in Calls |-> IF c \in OpenCalls THEN "sent" ELSE "idle"]]
  /\ UNCHANGED <<registryVars, boot, restarts, lineVars>>

\* Twilio gets the request.  A live call does as told; one that is over makes
\* it a failure for an accept and a success for a hang-up.
CarryOut(p, c) ==
  /\ cmd[p][c] = "sent"
  /\ \/ /\ Live(c)
        /\ \E reply \in {"ok"} \cup (IF LostReplies THEN {"unknown"} ELSE {}) :
             cmd' = [cmd EXCEPT ![p][c] = reply]
        /\ Enter(c, IF p \in Accepts THEN "dialling" ELSE "goodbye", {})
        /\ dialled' = dialled \cup (IF p \in Accepts THEN {c} ELSE {})
     \/ /\ ~Live(c)
        /\ cmd' = [cmd EXCEPT ![p][c] = IF p \in Accepts THEN "failed" ELSE "ok"]
        /\ UNCHANGED <<phase, posts, dialled>>
  /\ UNCHANGED <<registryVars, lineOpen, boot, restarts, talked, refused>>

\* The request does not get there, or is refused.
Undelivered(p, c) ==
  /\ LostReplies
  /\ cmd[p][c] = "sent"
  /\ cmd' = [cmd EXCEPT ![p][c] = "unknown"]
  /\ UNCHANGED <<registryVars, lineOpen, boot, restarts, lineVars>>

\* MUTANT of Probe: Twilio is not asked, no reply is as good as a yes.
ProbeNothing(p, c) ==
  /\ cmd[p][c] = "unknown"
  /\ cmd' = [cmd EXCEPT ![p][c] = "ok"]
  /\ UNCHANGED <<registryVars, lineOpen, boot, restarts, lineVars>>

\* No reply.  For an accept that is a failure; end_call asks Twilio whether the
\* call is over, and only a yes makes it a success.
Probe(p, c) ==
  /\ cmd[p][c] = "unknown"
  /\ \E outcome \in {"failed"} \cup
                    (IF p \in Accepts \/ Live(c) THEN {} ELSE {"ok"}) :
       cmd' = [cmd EXCEPT ![p][c] = outcome]
  /\ UNCHANGED <<registryVars, lineOpen, boot, restarts, lineVars>>

\* set_status where Twilio did as told; a call that is gone by then, or in that
\* status already, stays as it is.
Settle(S, status) ==
  \/ SetStatus(S, status)
  \/ /\ \A c \in S : InMemory(c) => calls[c].status = status
     /\ UNCHANGED registryVars

\* The rest of accept_call and reject_call.
Decided(p, c) ==
  /\ p # Drain
  /\ cmd[p][c] \in {"ok", "failed"}
  /\ Settle(At(p, "ok"), IF p \in Accepts THEN "accepted" ELSE "rejected")
  /\ cmd' = [cmd EXCEPT ![p][c] = "idle"]
  /\ UNCHANGED <<lineOpen, boot, restarts, lineVars>>

\* MUTANT of Drained: the calls that are open by then are recorded.
DrainedAll ==
  /\ ~Free(Drain)
  /\ At(Drain, "sent") \cup At(Drain, "unknown") = {}
  /\ Settle(OpenCalls, "ended")
  /\ cmd' = [cmd EXCEPT ![Drain] = NoCommands[Drain]]
  /\ UNCHANGED <<lineOpen, boot, restarts, lineVars>>

\* The rest of hang_up_holders, once every request has come back.
Drained ==
  /\ ~Free(Drain)
  /\ At(Drain, "sent") \cup At(Drain, "unknown") = {}
  /\ Settle(At(Drain, "ok"), "ended")
  /\ cmd' = [cmd EXCEPT ![Drain] = NoCommands[Drain]]
  /\ UNCHANGED <<lineOpen, boot, restarts, lineVars>>

\* hang_up_holders at its deadline: nothing is recorded of any request.
DrainTimesOut ==
  /\ LostReplies
  /\ At(Drain, "sent") \cup At(Drain, "unknown") # {}
  /\ cmd' = [cmd EXCEPT ![Drain] = NoCommands[Drain]]
  /\ UNCHANGED <<registryVars, lineOpen, boot, restarts, lineVars>>

-----------------------------------------------------------------------------
(* Restarts, and the recovery at boot. *)

\* The process is replaced.  Twilio gives up on the webhooks of `lost' calls
\* that found nobody home: a call waiting for an answer is dropped.
Reboot(lost) ==
  /\ restarts < MaxRestarts
  /\ restarts' = restarts + 1
  /\ Restart
  /\ lineOpen' = TRUE
  /\ cmd' = NoCommands
  /\ boot' = NotAsked
  /\ posts' = [c \in Calls |-> IF c \in lost THEN NoPosts ELSE posts[c]]
  /\ phase' = [c \in Calls |->
       IF c \in lost /\ phase[c] \in {"ringing", "spoken", "leaving", "dial-done"}
         THEN "over" ELSE phase[c]]
  /\ UNCHANGED <<dialled, talked, refused>>

\* _reconcile asks who is in the hold queue.
ListQueue ==
  /\ boot.at = "listing"
  /\ boot' = [at |-> "fetching", members |-> {c \in Calls : phase[c] = "queued"}]
  /\ UNCHANGED <<registryVars, lineOpen, cmd, restarts, lineVars>>

\* _fetch_all finds that some of them are over; a failed lookup finds nothing.
FetchDetails ==
  /\ boot.at = "fetching"
  /\ \E gone \in SUBSET {c \in boot.members : ~Live(c)} :
       boot' = [at |-> "answered", members |-> boot.members \ gone]
  /\ UNCHANGED <<registryVars, lineOpen, cmd, restarts, lineVars>>

\* The rest of reconcile_hold_queue.
Recover ==
  /\ boot.at = "answered"
  /\ RestoreAndSweep(boot.members)
  /\ boot' = [at |-> "done", members |-> {}]
  /\ UNCHANGED <<lineOpen, cmd, restarts, lineVars>>

\* Twilio could not say who is holding.
RecoverFails ==
  /\ LostReplies
  /\ boot.at = "listing"
  /\ boot' = [at |-> "failed", members |-> {}]
  /\ UNCHANGED <<registryVars, lineOpen, cmd, restarts, lineVars>>

-----------------------------------------------------------------------------
Line(c) == \/ CallerDials(c) \/ CallerSpeaks(c) \/ CallerHangsUp(c)
           \/ HostAnswers(c) \/ DialEnds(c) \/ GoodbyeEnds(c)

DialCompletes(c) ==
  \/ \E seconds \in Seconds : DialComplete(c, "talked", seconds)
  \/ DialComplete(c, "no-bridge", None)

Webhooks(c) == \/ TurnAway(c) \/ LetIn(c) \/ SpeechResult(c) \/ HoldWait(c)
               \/ QueueLeft(c) \/ QueueAbandoned(c) \/ DialCompletes(c)
               \/ CallOver(c)

Request(p, c) == \/ CarryOut(p, c) \/ Undelivered(p, c) \/ Probe(p, c)
                 \/ Decided(p, c)

Recovery == ListQueue \/ FetchDetails \/ Recover \/ RecoverFails

Next ==
  \/ \E c \in Calls : Line(c) \/ Webhooks(c)
  \/ \E p \in Commands, c \in Calls : Decide(p, c) \/ Request(p, c)
  \/ OpenLine \/ CloseLine \/ Drained \/ DrainTimesOut
  \/ Recovery
  \/ \E lost \in IF LostPosts THEN SUBSET Calls ELSE {{}} : Reboot(lost)

Spec == Init /\ [][Next]_vars

\* Twilio delivers what it posts and carries out what it gets, the event loop
\* runs every handler to its end, and so does the recovery.  Nobody has to hang
\* up, decide or pick up.
Fairness ==
  /\ \A c \in Calls : WF_vars(Webhooks(c))
  /\ \A p \in Commands, c \in Calls : WF_vars(Request(p, c))
  /\ WF_vars(Drained)
  /\ WF_vars(Recovery)

FairSpec == Spec /\ Fairness

-----------------------------------------------------------------------------
TypeOK ==
  /\ calls \in [Calls -> Call \cup {None}]
  /\ rows \in [Calls -> Call \cup {None}]
  /\ warning \in BOOLEAN
  /\ lineOpen \in BOOLEAN
  /\ cmd \in [Commands -> [Calls -> Steps]]
  /\ boot \in [at : {"listing", "fetching", "answered", "done", "failed"},
               members : SUBSET Calls]
  /\ restarts \in 0..MaxRestarts
  /\ phase \in [Calls -> Phases]
  /\ posts \in [Calls -> [Kinds -> 0..2]]
  /\ dialled \subseteq Calls /\ talked \subseteq Calls /\ refused \subseteq Calls

\* "A caller we failed to reach stays visible" (drain.py:53): nobody holds
\* unseen, whatever decisions, drains, timeouts and retries cross on the way,
\* and after a restart once the recovery is done.
HoldersAreShown ==
  \A c \in Calls :
    phase[c] = "queued" /\ (restarts = 0 \/ boot.at = "done") => InMemory(c)

\* What is shown of them is what they said, and that they wait: a retried ring
\* or speech result neither starts a call over nor takes its decision back.
HoldersAreReady ==
  \A c \in Calls : phase[c] = "queued" /\ restarts = 0 =>
    InMemory(c) /\ calls[c].status = "on-hold" /\ calls[c].transcript = Speech[c]

\* "The dashboard must never claim something the phone line didn't do": a call
\* said to be accepted was bridged towards the host, in memory and in history.
AcceptedWasDialled ==
  \A c \in Calls :
    \/ InMemory(c) /\ calls[c].wasAccepted
    \/ rows[c] # None /\ rows[c].wasAccepted
    => c \in dialled

\* The same for the other decisions: a call filed as rejected or ended is not
\* still holding or on air, "invisible and billed" (decisions.py:7).
FiledIsOffTheLine ==
  \A c \in Calls :
    rows[c] # None /\ ~InMemory(c) /\ Finished(rows[c])
                   /\ rows[c].status \in EndedStatuses
    => phase[c] \notin {"queued", "dialling", "on-air"}

\* Each call let in "is about to join the queue" (webhooks.py:192), so the open
\* calls never outgrow it, except by those a restart brings back.
QueueWithinCap == restarts = 0 => Cardinality(OpenCalls) <= MaxSize

\* A caller turned away "does not belong in the queue or in history"
\* (webhooks.py:172): the two outcomes of a ring exclude each other.
RefusedIsUnregistered ==
  \A c \in refused : ~InMemory(c) /\ rows[c] = None

\* Nothing is under way about call c.
Quiet(c) == /\ phase[c] = "over" /\ posts[c] = NoPosts
            /\ \A p \in Commands : cmd[p][c] = "idle"

\* The length of a conversation, "the only place" it exists being the dial
\* result (webhooks.py:362), ends up in history in whatever order that result,
\* the status callback, the accept's reply and a restart come.
TalkedIsTimed ==
  \A c \in talked : Quiet(c) => rows[c] # None /\ rows[c].onAir # None

\* A call that is over leaves the dashboard, and does not come back.
CallsLeave ==
  \A c \in Calls : phase[c] = "over" ~> [](~InMemory(c))

=============================================================================
