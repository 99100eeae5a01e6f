----------------------------- MODULE LineProofs -----------------------------
(***************************************************************************)
(* More of what holds on the phone line, across restarts: nobody holds     *)
(* unseen, and no conversation goes without its length.  Both are about    *)
(* what is not decided too early: a caller who has not got further than    *)
(* the hold queue is not filed as decided, and a call that is over with    *)
(* its length in history stays so.                                         *)
(***************************************************************************)
EXTENDS ScreeningProofs

-----------------------------------------------------------------------------
(* What the methods of the registry leave undecided. *)

Unfinished(c) == (InMemory(c) => IsOpen(calls[c])) /\ ~Finished(rows[c])

\* Of a step: it decides nothing about calls, those of S apart.
Spares(S) == \A x \in Calls : x \notin S /\ Unfinished(x) => Unfinished(x)'

LEMMA CommitSpares ==
  ASSUME NEW D \in SUBSET Calls, NEW new, DOMAIN new = D, Commit(new), NEW S,
         \A x \in D : x \notin S /\ Unfinished(x) => IsOpen(new[x])
  PROVE  Spares(S)
<1>1. PICK saved \in Reached("write", D) :
        rows' = RowsAfter(new, saved) /\ calls' = CallsAfter(new)
  BY DEF Commit
<1>2. saved \subseteq D
  BY <1>1, ReachedSome
<1> SUFFICES ASSUME NEW x \in Calls, x \notin S, Unfinished(x)
             PROVE  Unfinished(x)'
  BY DEF Spares
<1>3. CASE x \notin D
  BY <1>1, <1>2, <1>3 DEF RowsAfter, CallsAfter, Unfinished, InMemory
<1>4. CASE x \in D
  <2>1. IsOpen(new[x]) /\ ~Finished(new[x])
    BY <1>4 DEF IsOpen, Finished, TerminalStatuses
  <2>2. rows'[x] = new[x] \/ rows'[x] = rows[x]
    BY <1>1, <1>2, <1>4 DEF RowsAfter
  <2>3. calls'[x] = new[x]
    BY <1>1, <1>4, <2>1 DEF CallsAfter, IsOpen, TerminalStatuses, EndedStatuses
  <2> QED
    BY <2>1, <2>2, <2>3 DEF Unfinished, InMemory
<1> QED
  BY <1>3, <1>4

LEMMA CommitOneSpares ==
  ASSUME NEW c \in Calls, NEW call, CommitOne(c, call), NEW S,
         c \notin S /\ Unfinished(c) => IsOpen(call)
  PROVE  Spares(S)
<1> DEFINE new == [x \in {c} |-> call]
<1>1. DOMAIN new = {c} /\ {c} \in SUBSET Calls /\ Commit(new) /\ new[c] = call
  BY DEF CommitOne
<1> HIDE DEF new
<1> QED
  BY <1>1, CommitSpares

LEMMA NothingSpares ==
  ASSUME UNCHANGED registryVars, NEW S
  PROVE  Spares(S)
  BY DEF registryVars, Spares, Unfinished, InMemory

LEMMA RegisterIncomingSpares ==
  ASSUME NEW c \in Calls, RegisterIncoming(c)
  PROVE  Spares({})
<1>1. IsOpen(NewCall)
  BY DEF NewCall, IsOpen, TerminalStatuses
<1> QED
  BY <1>1, CommitOneSpares DEF RegisterIncoming

LEMMA SetTranscriptSpares ==
  ASSUME RegistryInv, NEW c \in Calls, SetTranscript(c)
  PROVE  Spares({})
<1>1. PICK readable \in Outcomes("read") :
        LET row  == GetCall(c, readable)
            call == IF InMemory(c) THEN calls[c] ELSE Revived(row)
        IN  CommitOne(c, [call EXCEPT
              !.transcript = Speech[c],
              !.status     = IF @ = "screening" THEN "on-hold" ELSE @])
  BY DEF SetTranscript
<1> DEFINE row == GetCall(c, readable)
           call == IF InMemory(c) THEN calls[c] ELSE Revived(row)
           heard == [call EXCEPT
              !.transcript = Speech[c],
              !.status     = IF @ = "screening" THEN "on-hold" ELSE @]
<1>2. row \in Call \cup {None}
  BY GetCallSound DEF Outcomes
<1>3. ASSUME Unfinished(c)
      PROVE  call \in Call /\ IsOpen(call)
  <2>1. CASE InMemory(c)
    BY <1>3, <2>1, InMemoryInPlay DEF Unfinished
  <2>2. CASE ~InMemory(c)
    BY <1>2, <2>2 DEF Revived, NewCall, Call, CallStatus, Texts, IsOpen, TerminalStatuses
  <2> QED
    BY <2>1, <2>2
<1>4. CommitOne(c, heard)
  BY <1>1
<1> HIDE DEF call
<1>5. Unfinished(c) => IsOpen(heard)
  BY <1>3 DEF Call, IsOpen, TerminalStatuses
<1> QED
  BY <1>4, <1>5, CommitOneSpares

LEMMA EndSpares ==
  ASSUME NEW c \in Calls, NEW seconds, EndOnAir(c, seconds) \/ End(c)
  PROVE  Spares({c})
<1>1. ASSUME NEW length, CloseSaved(c, length)
      PROVE  Spares({c})
  BY <1>1 DEF CloseSaved, CloseCall, Spares, Unfinished, InMemory
<1> QED
  BY <1>1, CommitOneSpares DEF EndOnAir, End

LEMMA SettleSpares ==
  ASSUME NEW S \in SUBSET Calls, NEW status, Settle(S, status)
  PROVE  Spares(S)
<1>1. CASE UNCHANGED registryVars
  BY <1>1, NothingSpares
<1>2. CASE SetStatus(S, status)
  <2> DEFINE moved == {c \in S : InMemory(c) /\ calls[c].status # status}
             new == [c \in moved |-> Moved(calls[c], status)]
  <2>1. DOMAIN new = moved /\ moved \in SUBSET Calls /\ Commit(new) /\ moved \subseteq S
    BY <1>2 DEF SetStatus
  <2> HIDE DEF moved, new
  <2> QED
    BY <2>1, CommitSpares
<1> QED
  BY <1>1, <1>2 DEF Settle

\* The recovery decides nothing either: a sweep is a guess.  And it puts back
\* every member of the queue that is undecided.
LEMMA RestoreAndSweepSpares ==
  ASSUME RegistryInv, NEW members \in SUBSET Calls, RestoreAndSweep(members)
  PROVE  /\ Spares({})
         /\ \A c \in members : Unfinished(c) => InMemory(c)'
<1>1. PICK readable \in Reached("read", members), described \in SUBSET members :
        LET restored == Restorable(members, readable)
            new == [c \in restored |-> Recovered(GetCall(c, c \in readable), c \in described)]
        IN  \E saved \in Reached("write", restored) :
              /\ calls' = CallsAfter(new)
              /\ Sweep(RowsAfter(new, saved), CallsAfter(new),
                       warning \/ saved # restored)
  BY DEF RestoreAndSweep
<1> DEFINE restored == Restorable(members, readable)
           new == [c \in restored |-> Recovered(GetCall(c, c \in readable), c \in described)]
<1>2. restored \in SUBSET Calls
  BY DEF Restorable
<1>3. PICK saved \in Reached("write", restored) :
        /\ calls' = CallsAfter(new)
        /\ Sweep(RowsAfter(new, saved), CallsAfter(new), warning \/ saved # restored)
  BY <1>1
<1>4. saved \subseteq restored
  BY <1>3, ReachedSome
<1>5. ASSUME NEW c \in restored
      PROVE  /\ new[c] \in Call /\ Sound(new[c]) /\ new[c] # None
             /\ new[c].status = "on-hold" /\ new[c].endedAt = None
  <2>1. GetCall(c, c \in readable) \in Call \cup {None}
    <3>1. c \in Calls /\ (c \in readable) \in BOOLEAN
      BY <1>2
    <3> QED
      BY <3>1, GetCallSound
  <2>2. /\ new[c] = Recovered(GetCall(c, c \in readable), c \in described)
        /\ (c \in described) \in BOOLEAN
    OBVIOUS
  <2>3. new[c] \in Call
    BY <2>1, <2>2, RecoveredCommittable DEF Committable
  <2> QED
    BY <2>2, <2>3, NoneIsNoCall DEF Recovered, NewCall, Sound
<1>6. \A c \in members : ~InMemory(c) /\ Unfinished(c) => c \in restored
  BY DEF Restorable, GetCall, Unfinished, Finished
<1>7. DOMAIN new = restored
  OBVIOUS
<1> HIDE DEF restored, new
<1> DEFINE rs == RowsAfter(new, saved)
           mem == CallsAfter(new)
<1>8. \A c \in Calls : rs[c] = IF c \in saved THEN new[c] ELSE rows[c]
  BY DEF RowsAfter
<1>9. \A c \in Calls : mem[c] = IF c \in restored THEN new[c] ELSE calls[c]
  BY <1>5, <1>7 DEF CallsAfter, EndedStatuses
<1>10. \E stale \in SUBSET Stale(rs, mem) : rows' = MarkEndedDuringRestart(rs, stale)
  <2>1. rs = MarkEndedDuringRestart(rs, {})
    BY DEF MarkEndedDuringRestart, RowsAfter
  <2>2. PICK listed \in Outcomes("read"), ok \in Outcomes("write") :
          LET stale == IF listed THEN Stale(rs, mem) ELSE {}
          IN  rows' = IF ok THEN MarkEndedDuringRestart(rs, stale) ELSE rs
    BY <1>3 DEF Sweep
  <2> QED
    BY <2>1, <2>2
<1> HIDE DEF rs, mem
<1>11. ASSUME NEW x \in Calls, Unfinished(x)
       PROVE  ~Finished(rs[x]) /\ (rs[x] # None => rs[x] \in Call /\ Sound(rs[x]))
  <2>1. CASE x \in saved
    BY <1>4, <1>5, <1>8, <2>1 DEF Finished
  <2>2. CASE x \notin saved
    BY <1>8, <1>11, <2>2 DEF Unfinished, RegistryInv, RegistryTypeOK
  <2> QED
    BY <2>1, <2>2
<1>12. ASSUME NEW x \in Calls, Unfinished(x)
       PROVE  ~Finished(rows'[x])
  <2>1. PICK stale \in SUBSET Stale(rs, mem) : rows' = MarkEndedDuringRestart(rs, stale)
    BY <1>10
  <2>2. CASE x \notin stale
    BY <1>11, <1>12, <2>1, <2>2 DEF MarkEndedDuringRestart
  <2>3. CASE x \in stale
    <3>1. rs[x] # None /\ rs[x].status \notin EndedStatuses
      BY <2>3 DEF Stale
    <3>2. rs[x] \in Call /\ Sound(rs[x]) /\ rs[x].status # "accepted"
      BY <1>11, <1>12, <3>1 DEF Finished
    <3>3. rs[x].endedAt = None
      BY <3>1, <3>2 DEF Sound, Call, CallStatus, EndedStatuses
    <3>4. rows'[x] = [rs[x] EXCEPT !.status = "ended"]
      BY <2>1, <2>3 DEF MarkEndedDuringRestart
    <3> QED
      BY <3>2, <3>3, <3>4 DEF Finished, Call
  <2> QED
    BY <2>2, <2>3
<1>13. ASSUME NEW x \in Calls, Unfinished(x), calls'[x] # None
       PROVE  IsOpen(calls'[x])
  BY <1>3, <1>5, <1>9, <1>13 DEF mem, Unfinished, InMemory, IsOpen, TerminalStatuses
<1>14. \A c \in members : Unfinished(c) => calls'[c] # None
  BY <1>3, <1>5, <1>6, <1>9 DEF mem, InMemory
<1> QED
  BY <1>12, <1>13, <1>14 DEF Spares, Unfinished, InMemory

-----------------------------------------------------------------------------
(* Nobody holds unseen, until the first restart and after every recovery.    *)

\* A call that has got no further than the hold queue is not decided; one that
\* was in the queue when the recovery listed it is in memory or on the list.
Undecided(c) == phase[c] \in Early => Unfinished(c)

Awaited(c) ==
  phase[c] = "queued" =>
    /\ boot.at \in {"fetching", "answered"} => InMemory(c) \/ c \in boot.members
    /\ boot.at = "done" => InMemory(c)

ShownInv == LineInv /\ \A c \in Calls : Undecided(c) /\ Awaited(c)

\* A call that a step neither decides nor moves in the queue.
LEMMA StaysShown ==
  ASSUME NEW S, Spares(S), NEW T, Touches(T), boot' = boot,
         NEW c \in Calls, Undecided(c), Awaited(c),
         phase'[c] \in Early => phase[c] \in Early /\ c \notin S,
         phase'[c] = "queued" => phase[c] = "queued" /\ c \notin T
  PROVE  Undecided(c)' /\ Awaited(c)'
<1>1. Undecided(c)'
  BY DEF Undecided, Spares
<1>2. phase'[c] = "queued" /\ InMemory(c) => InMemory(c)'
  BY DEF Touches, InMemory
<1> QED
  BY <1>1, <1>2 DEF Awaited

LEMMA ShownLine ==
  ASSUME ShownInv, NEW d \in Calls, Line(d), NEW c \in Calls
  PROVE  Undecided(c)' /\ Awaited(c)'
<1>1. Typed /\ Undecided(c) /\ Awaited(c)
  BY DEF ShownInv, LineInv
<1>2. UNCHANGED <<registryVars, boot>>
  BY DEF Line, CallerDials, CallerSpeaks, CallerHangsUp, HostAnswers, DialEnds,
         GoodbyeEnds, backendVars
<1>3. Spares({}) /\ Touches({})
  BY <1>2, NothingSpares, NothingTouches DEF registryVars
<1>4. /\ phase'[d] \in Early => phase[d] \in Early
      /\ phase'[d] # "queued"
  BY <1>1, EnterApart
     DEF Line, CallerDials, CallerSpeaks, CallerHangsUp, HostAnswers, DialEnds,
         GoodbyeEnds, Typed, Early
<1>5. c # d => phase'[c] = phase[c]
  BY <1>1, LineApart DEF Apart
<1> QED
  BY <1>1, <1>2, <1>3, <1>4, <1>5, StaysShown

\* A speech result puts a caller in the queue only with the call in memory: it
\* drops the words of a finished call alone.
LEMMA ShownSpeech ==
  ASSUME ShownInv, NEW d \in Calls, SpeechResult(d)
  PROVE  Undecided(d)' /\ Awaited(d)'
<1>1. Typed /\ Undecided(d) /\ Awaited(d)
  BY DEF ShownInv, LineInv
<1>2. boot' = boot
  BY DEF SpeechResult, backendVars
<1>3. \/ phase'[d] = phase[d]
      \/ phase[d] = "spoken" /\ phase'[d] = "queued"
  BY <1>1, AnswerApart DEF SpeechResult, Typed, Kinds
<1>4. CASE phase'[d] \notin Early
  BY <1>4 DEF Undecided, Awaited, Early
<1>5. CASE phase'[d] \in Early
  <2>1. Unfinished(d)
    BY <1>1, <1>3, <1>5 DEF Undecided, Early
  <2>2. CASE SetTranscript(d)
    <3>1. Unfinished(d)'
      BY <1>1, <2>1, <2>2, SetTranscriptSpares DEF Spares, Typed
    <3>2. calls'[d] # None
      BY <1>1, <2>1, <2>2, SetTranscriptHeld DEF Unfinished, Typed
    <3> QED
      BY <1>2, <3>1, <3>2 DEF Undecided, Awaited, InMemory
  <2> QED
    BY <2>1, <2>2 DEF SpeechResult, Unfinished
<1> QED
  BY <1>4, <1>5

LEMMA ShownWebhooks ==
  ASSUME ShownInv, NEW d \in Calls, Webhooks(d), NEW c \in Calls
  PROVE  Undecided(c)' /\ Awaited(c)'
<1>1. Typed /\ Undecided(c) /\ Awaited(c) /\ Coming(d)
  BY DEF ShownInv, LineInv
<1> USE <1>1 DEF Typed
<1>2. boot' = boot
  BY DEF Webhooks, TurnAway, LetIn, SpeechResult, HoldWait, QueueLeft,
         QueueAbandoned, DialCompletes, DialComplete, CallOver, backendVars
<1>3. c # d => phase'[c] = phase[c]
  BY WebhooksApart DEF Apart
<1>4. CASE TurnAway(d)
  <2>1. Spares({}) /\ Touches({})
    BY <1>4, NothingSpares, NothingTouches DEF TurnAway, registryVars
  <2>2. phase'[d] = phase[d] \/ phase'[d] = "over"
    BY <1>4, AnswerApart DEF TurnAway, Kinds
  <2> QED
    BY <1>2, <1>3, <2>1, <2>2, StaysShown DEF Early
<1>5. CASE LetIn(d)
  <2>1. Spares({}) /\ Touches({})
    BY <1>5, NothingSpares, NothingTouches, RegisterIncomingSpares,
       RegisterIncomingTouches DEF LetIn, registryVars
  <2>2. phase'[d] = phase[d] \/ (phase[d] = "ringing" /\ phase'[d] = "greeting")
    BY <1>5, AnswerApart DEF LetIn, Kinds
  <2> QED
    BY <1>2, <1>3, <2>1, <2>2, StaysShown DEF Early
<1>6. CASE SpeechResult(d)
  <2>1. CASE c = d
    BY <1>6, <2>1, ShownSpeech
  <2>2. CASE c # d
    <3>1. Spares({})
      BY <1>6, NothingSpares, SetTranscriptSpares DEF SpeechResult
    <3>2. Touches({d})
      BY <1>6, NothingTouches, SetTranscriptTouches DEF SpeechResult, registryVars
    <3> QED
      BY <1>2, <1>3, <2>2, <3>1, <3>2, StaysShown
  <2> QED
    BY <2>1, <2>2
<1>7. CASE HoldWait(d) \/ QueueLeft(d) \/ QueueAbandoned(d) \/ DialCompletes(d) \/ CallOver(d)
  <2>1. Spares({d}) /\ Touches({d})
    <3>1. UNCHANGED registryVars \/ \E seconds \in Seconds \cup {None} :
                                      EndOnAir(d, seconds) \/ End(d)
      BY <1>7 DEF HoldWait, QueueLeft, QueueAbandoned, DialCompletes, DialComplete, CallOver
    <3> QED
      BY <3>1, NothingSpares, NothingTouches, EndSpares, EndTouches DEF registryVars
  <2>2. phase'[d] \notin Early
    <3>1. CASE HoldWait(d)
      BY <3>1, EnterApart DEF HoldWait, Early
    <3>2. CASE QueueLeft(d)
      BY <3>2, AnswerApart DEF QueueLeft, Kinds, Parting, Coming, Early
    <3>3. CASE QueueAbandoned(d)
      BY <3>3, HandledApart DEF QueueAbandoned, Kinds, Parting, Coming, Early
    <3>4. CASE DialCompletes(d)
      <4>1. PICK kind \in {"talked", "no-bridge"} : \E seconds : DialComplete(d, kind, seconds)
        BY <3>4 DEF DialCompletes
      <4> QED
        BY <4>1, AnswerApart DEF DialComplete, Kinds, Parting, Coming, Early
    <3>5. CASE CallOver(d)
      BY <3>5, HandledApart DEF CallOver, Kinds, Parting, Coming, Early
    <3> QED
      BY <1>7, <3>1, <3>2, <3>3, <3>4, <3>5
  <2> QED
    BY <1>2, <1>3, <2>1, <2>2, StaysShown DEF Early
<1> QED
  BY <1>4, <1>5, <1>6, <1>7 DEF Webhooks

\* What a request settles is a call that Twilio has taken out of the queue.
LEMMA ShownCommand ==
  ASSUME ShownInv, NEW p \in Commands, NEW d \in Calls, Decide(p, d) \/ Request(p, d),
         NEW c \in Calls
  PROVE  Undecided(c)' /\ Awaited(c)'
<1>1. Typed /\ Undecided(c) /\ Awaited(c) /\ Coming(c)
  BY DEF ShownInv, LineInv
<1>2. boot' = boot
  BY DEF Decide, Request, CarryOut, Undelivered, Probe, Decided
<1>3. Spares(At(p, "ok")) /\ Touches(At(p, "ok"))
  <2>1. CASE UNCHANGED registryVars
    BY <2>1, NothingSpares, NothingTouches DEF registryVars
  <2>2. CASE Decided(p, d)
    <3>1. At(p, "ok") \in SUBSET Calls /\ \E status : Settle(At(p, "ok"), status)
      BY <2>2 DEF At, Decided
    <3> QED
      BY <3>1, SettleSpares, SettleTouches
  <2> QED
    BY <2>1, <2>2 DEF Decide, Request, CarryOut, Undelivered, Probe, Decided
<1>4. phase'[c] = phase[c] \/ phase'[c] \in {"dialling", "goodbye"}
  <2>1. \/ UNCHANGED phase
        \/ \E to \in {"dialling", "goodbye"} : Enter(d, to, {})
    BY DEF Decide, Request, CarryOut, Undelivered, Probe, Decided, lineVars
  <2> QED
    BY <1>1, <2>1, EnterApart DEF Typed
<1>5. phase[c] \in Early => c \notin At(p, "ok")
  BY <1>1 DEF At, Coming
<1> QED
  BY <1>1, <1>2, <1>3, <1>4, <1>5, StaysShown DEF Early

LEMMA ShownClosing ==
  ASSUME ShownInv, OpenLine \/ CloseLine \/ Drained \/ DrainTimesOut, NEW c \in Calls
  PROVE  Undecided(c)' /\ Awaited(c)'
<1>1. Typed /\ Undecided(c) /\ Awaited(c) /\ Coming(c) /\ Drain \in Commands
  BY DEF ShownInv, LineInv, Commands
<1>2. phase' = phase /\ boot' = boot
  BY DEF OpenLine, CloseLine, Drained, DrainTimesOut, lineVars
<1>3. Spares(At(Drain, "ok")) /\ Touches(At(Drain, "ok"))
  <2>1. CASE UNCHANGED registryVars
    BY <2>1, NothingSpares, NothingTouches DEF registryVars
  <2>2. CASE Drained
    <3>1. At(Drain, "ok") \in SUBSET Calls /\ Settle(At(Drain, "ok"), "ended")
      BY <2>2 DEF At, Drained
    <3> QED
      BY <3>1, SettleSpares, SettleTouches
  <2> QED
    BY <2>1, <2>2 DEF OpenLine, CloseLine, Drained, DrainTimesOut
<1>4. phase[c] \in Early => c \notin At(Drain, "ok")
  BY <1>1 DEF At, Coming
<1> QED
  BY <1>1, <1>2, <1>3, <1>4, StaysShown DEF Early

\* The recovery asks about everyone in the queue, drops who is no longer on the
\* line, and puts back the others unless they are decided, which nobody is.
LEMMA ShownRecovery ==
  ASSUME ShownInv, Recovery, NEW c \in Calls
  PROVE  Undecided(c)' /\ Awaited(c)'
<1>1. Typed /\ Undecided(c) /\ Awaited(c)
  BY DEF ShownInv, LineInv
<1>2. phase' = phase
  BY DEF Recovery, ListQueue, FetchDetails, Recover, RecoverFails, lineVars
<1>3. CASE Recover
  <2>1. boot.members \in SUBSET Calls /\ RestoreAndSweep(boot.members)
    BY <1>1, <1>3 DEF Typed, BackendType, Recover
  <2>2. /\ Spares({}) /\ Touches({})
        /\ \A x \in boot.members : Unfinished(x) => InMemory(x)'
    BY <1>1, <2>1, RestoreAndSweepSpares, RestoreAndSweepTouches DEF Typed
  <2>3. Undecided(c)'
    BY <1>1, <1>2, <2>2 DEF Undecided, Spares
  <2>4. InMemory(c) => InMemory(c)'
    BY <2>2 DEF Touches, InMemory
  <2>5. phase[c] = "queued" => InMemory(c)'
    BY <1>1, <1>3, <2>2, <2>4 DEF Recover, Awaited, Undecided, Early
  <2> QED
    BY <1>2, <2>3, <2>5 DEF Awaited
<1>4. CASE ListQueue \/ FetchDetails \/ RecoverFails
  <2>1. Undecided(c)' /\ (InMemory(c)' <=> InMemory(c))
    BY <1>1, <1>2, <1>4
       DEF ListQueue, FetchDetails, RecoverFails, registryVars, Undecided, Unfinished,
           InMemory
  <2>2. CASE ListQueue
    BY <1>2, <2>1, <2>2 DEF ListQueue, Awaited
  <2>3. CASE FetchDetails
    BY <1>1, <1>2, <2>1, <2>3 DEF FetchDetails, Awaited, Live
  <2>4. CASE RecoverFails
    BY <2>1, <2>4 DEF RecoverFails, Awaited
  <2> QED
    BY <1>4, <2>2, <2>3, <2>4
<1> QED
  BY <1>3, <1>4 DEF Recovery

LEMMA ShownReboot ==
  ASSUME ShownInv, NEW lost, Reboot(lost), NEW c \in Calls
  PROVE  Undecided(c)' /\ Awaited(c)'
<1>1. Typed /\ Undecided(c)
  BY DEF ShownInv, LineInv
<1>2. calls'[c] = None /\ rows' = rows /\ boot'.at = "listing"
  BY DEF Reboot, Restart, NotAsked
<1>3. phase'[c] \in Early => phase[c] \in Early
  BY <1>1 DEF Reboot, Typed, PhaseType, Early
<1> QED
  BY <1>1, <1>2, <1>3 DEF Undecided, Unfinished, Awaited, InMemory

LEMMA NextShown == ShownInv /\ [Next]_vars => ShownInv'
<1> SUFFICES ASSUME ShownInv, [Next]_vars
             PROVE  ShownInv'
  OBVIOUS
<1>1. LineInv'
  BY NextLine DEF ShownInv
<1>2. CASE UNCHANGED vars
  BY <1>1, <1>2
     DEF vars, registryVars, backendVars, lineVars, ShownInv, Undecided, Awaited,
         Unfinished, InMemory, IsOpen
<1> QED
  BY <1>1, <1>2, ShownLine, ShownWebhooks, ShownCommand, ShownClosing, ShownRecovery,
     ShownReboot DEF Next, ShownInv

\* "A caller we failed to reach stays visible": before the first restart, and
\* from every completed recovery on, whoever is in the hold queue is on the
\* dashboard, whatever the store loses, Twilio retries or the operators do while
\* the recovery waits for its answers.
THEOREM HoldersAlwaysShown == Spec => []HoldersAreShown
<1>1. Init => HoldInv /\ ShownInv
  BY InitLine
     DEF Init, HoldInv, ShownInv, Held, Heard, Undecided, Awaited, Unfinished, Finished,
         InMemory
<1>2. HoldInv /\ ShownInv /\ [Next]_vars => HoldInv' /\ ShownInv'
  BY NextHold, NextShown
<1>3. HoldInv /\ ShownInv => HoldersAreShown
  BY DEF HoldInv, ShownInv, Held, Heard, Awaited, HoldersAreShown
<1> QED
  BY <1>1, <1>2, <1>3, PTL DEF Spec

-----------------------------------------------------------------------------
(* No conversation goes without its length, as long as the store and Twilio  *)
(* lose nothing, Twilio retries nothing, and nobody rejects.                 *)

\* The call is over in history, with a length.
Done(c) ==
  ~InMemory(c) /\ rows[c] # None /\ rows[c].onAir # None /\ Finished(rows[c])

Unrejected(c) ==
  /\ InMemory(c) => calls[c].status # "rejected"
  /\ rows[c] # None => rows[c].status # "rejected"

\* Of a step: what is done stays done, and nothing is rejected.
Keeps ==
  /\ \A x \in Calls : Done(x) => Done(x)'
  /\ \A x \in Calls : Unrejected(x) => Unrejected(x)'

LEMMA CommitKeeps ==
  ASSUME NEW D \in SUBSET Calls, NEW new, DOMAIN new = D, Commit(new),
         \A x \in D : ~Done(x) /\ new[x].status # "rejected"
  PROVE  Keeps
<1>1. PICK saved \in Reached("write", D) :
        rows' = RowsAfter(new, saved) /\ calls' = CallsAfter(new)
  BY DEF Commit
<1>2. saved \subseteq D
  BY <1>1, ReachedSome
<1>3. \A x \in Calls : rows'[x] = IF x \in saved THEN new[x] ELSE rows[x]
  BY <1>1 DEF RowsAfter
<1>4. \A x \in Calls : calls'[x] = IF x \notin D THEN calls[x]
                                   ELSE IF new[x].status \in EndedStatuses THEN None
                                   ELSE new[x]
  BY <1>1 DEF CallsAfter
<1>5. \A x \in Calls : Done(x) => Done(x)'
  BY <1>2, <1>3, <1>4 DEF Done, InMemory
<1>6. \A x \in Calls : Unrejected(x) => Unrejected(x)'
  BY <1>2, <1>3, <1>4 DEF Unrejected, InMemory
<1> QED
  BY <1>5, <1>6 DEF Keeps

LEMMA CommitOneKeeps ==
  ASSUME NEW c \in Calls, NEW call, CommitOne(c, call), ~Done(c),
         call.status # "rejected"
  PROVE  Keeps
<1> DEFINE new == [x \in {c} |-> call]
<1>1. DOMAIN new = {c} /\ {c} \in SUBSET Calls /\ Commit(new) /\ new[c] = call
  BY DEF CommitOne
<1> HIDE DEF new
<1> QED
  BY <1>1, CommitKeeps

LEMMA NothingKeeps ==
  ASSUME UNCHANGED registryVars
  PROVE  Keeps
  BY DEF registryVars, Keeps, Done, Unrejected, InMemory

LEMMA RegisterIncomingKeeps ==
  ASSUME NEW c \in Calls, RegisterIncoming(c), ~Done(c)
  PROVE  Keeps
<1>1. NewCall.status # "rejected"
  BY DEF NewCall
<1> QED
  BY <1>1, CommitOneKeeps DEF RegisterIncoming

\* The words for a call that is over are dropped: its row can be read.
LEMMA SetTranscriptKeeps ==
  ASSUME RegistryInv, StoreFaults = {}, NEW c \in Calls, SetTranscript(c)
  PROVE  Keeps
<1> DEFINE call == IF InMemory(c) THEN calls[c] ELSE Revived(rows[c])
           heard == [call EXCEPT
              !.transcript = Speech[c],
              !.status     = IF @ = "screening" THEN "on-hold" ELSE @]
<1>1. (InMemory(c) \/ ~Finished(rows[c])) /\ CommitOne(c, heard)
  BY DEF SetTranscript, Outcomes, GetCall
<1>2. ~Done(c)
  BY <1>1 DEF Done
<1>3. call \in Call /\ call.status # "rejected"
  <2>1. CASE InMemory(c)
    BY <2>1, InMemoryInPlay DEF InPlay, EndedStatuses
  <2>2. CASE ~InMemory(c)
    <3>1. rows[c] \in Call \cup {None} /\ NewCall \in Call
      BY NewCallCommittable DEF RegistryInv, RegistryTypeOK, Committable
    <3> QED
      BY <2>2, <3>1 DEF Revived, Call, CallStatus
  <2> QED
    BY <2>1, <2>2
<1> HIDE DEF call
<1>4. heard.status # "rejected"
  BY <1>3 DEF Call
<1> QED
  BY <1>1, <1>2, <1>4, CommitOneKeeps

LEMMA SettleKeeps ==
  ASSUME RegistryInv, NEW S \in SUBSET Calls, NEW status \in {"accepted", "ended"},
         Settle(S, status)
  PROVE  Keeps
<1>1. CASE UNCHANGED registryVars
  BY <1>1, NothingKeeps
<1>2. CASE SetStatus(S, status)
  <2> DEFINE moved == {c \in S : InMemory(c) /\ calls[c].status # status}
             new == [c \in moved |-> Moved(calls[c], status)]
  <2>1. DOMAIN new = moved /\ moved \in SUBSET Calls /\ Commit(new)
    BY <1>2 DEF SetStatus
  <2>2. ASSUME NEW x \in moved
        PROVE  ~Done(x) /\ new[x].status # "rejected"
    <3>1. x \in Calls /\ InMemory(x) /\ calls[x] \in Call
      BY InMemoryInPlay
    <3> QED
      BY <3>1 DEF Done, Moved, Call
  <2> HIDE DEF moved, new
  <2> QED
    BY <2>1, <2>2, CommitKeeps
<1> QED
  BY <1>1, <1>2 DEF Settle

\* Closing a saved row fills in a length, and takes none away.
LEMMA CloseSavedKeeps ==
  ASSUME RegistryInv, StoreFaults = {}, NEW c \in Calls,
         NEW seconds \in Seconds \cup {None}, CloseSaved(c, seconds)
  PROVE  /\ Keeps
         /\ rows[c] # None /\ Unrejected(c) /\ seconds # None => Done(c)'
<1>1. calls' = calls /\ ~InMemory(c) /\ rows' = CloseCall(c, seconds)
  BY DEF CloseSaved, Outcomes
<1>2. CASE rows[c] = None \/ rows[c].status = "rejected"
  <2>1. rows' = rows
    BY <1>1, <1>2 DEF CloseCall
  <2> QED
    BY <1>1, <1>2, <2>1 DEF Keeps, Done, Unrejected, InMemory
<1>3. CASE rows[c] # None /\ rows[c].status # "rejected"
  <2> DEFINE row == ClosedRow(rows[c], seconds)
  <2>1. rows[c] \in Call /\ Sound(rows[c])
    BY <1>3 DEF RegistryInv, RegistryTypeOK
  <2>2. row \in Call
    BY <2>1, ClosedRowSound
  <2>3. /\ row.status = "ended" /\ row.endedAt # None
        /\ row.onAir = IF seconds = None THEN rows[c].onAir ELSE seconds
    BY <2>1, NoneIsNoStamp DEF ClosedRow, Call, TerminalStatuses
  <2>4. \A x \in Calls : rows'[x] = IF x = c THEN row ELSE rows[x]
    BY <1>1, <1>3 DEF CloseCall, RegistryInv, RegistryTypeOK
  <2> HIDE DEF row
  <2>5. row # None
    BY <2>2, NoneIsNoCall
  <2> QED
    BY <1>1, <2>3, <2>4, <2>5 DEF Keeps, Done, Unrejected, Finished, InMemory
<1> QED
  BY <1>2, <1>3

LEMMA EndKeeps ==
  ASSUME RegistryInv, StoreFaults = {}, NEW c \in Calls, End(c)
  PROVE  Keeps
<1>1. CASE InMemory(c) /\ CommitOne(c, Closed(calls[c]))
  <2>1. ~Done(c) /\ Closed(calls[c]).status # "rejected"
    BY <1>1, InMemoryInPlay DEF Done, Closed, Call, InPlay, EndedStatuses
  <2> QED
    BY <1>1, <2>1, CommitOneKeeps
<1> QED
  BY <1>1, CloseSavedKeeps DEF End

\* The dial result, in memory or in the table, completes its call.
LEMMA EndOnAirKeeps ==
  ASSUME RegistryInv, StoreFaults = {}, NEW c \in Calls,
         NEW seconds \in Seconds \cup {None}, EndOnAir(c, seconds)
  PROVE  /\ Keeps
         /\ rows[c] # None /\ Unrejected(c) /\ seconds # None => Done(c)'
<1>1. CASE InMemory(c) /\ CommitOne(c, Moved([calls[c] EXCEPT !.onAir = seconds], "ended"))
  <2> DEFINE call == Moved([calls[c] EXCEPT !.onAir = seconds], "ended")
             new == [x \in {c} |-> call]
  <2>1. calls[c] \in Call /\ InPlay(calls[c])
    BY <1>1, InMemoryInPlay
  <2>2. call.status = "ended" /\ call.endedAt # None /\ call.onAir = seconds
    BY <2>1, NoneIsNoStamp DEF Moved, Call, TerminalStatuses
  <2>3. call # None
    BY <2>1, OffAirCommittable, NoneIsNoCall DEF Committable
  <2>4. rows' = RowsAfter(new, {c}) /\ calls' = CallsAfter(new)
    BY <1>1 DEF CommitOne, Commit, Reached
  <2>5. new[c] = call /\ DOMAIN new = {c}
    OBVIOUS
  <2> HIDE DEF new, call
  <2>6. rows'[c] = call /\ calls'[c] = None
    BY <2>2, <2>4, <2>5 DEF RowsAfter, CallsAfter, EndedStatuses
  <2>7. Keeps
    BY <1>1, <2>2, CommitOneKeeps DEF Done, call
  <2> QED
    BY <2>2, <2>3, <2>6, <2>7 DEF Done, Finished, InMemory
<1> QED
  BY <1>1, CloseSavedKeeps DEF EndOnAir

\* The recovery puts no call back that is done, and the sweep leaves lengths and
\* stamps alone.
LEMMA RestoreAndSweepKeeps ==
  ASSUME RegistryInv, StoreFaults = {}, NEW members \in SUBSET Calls,
         RestoreAndSweep(members)
  PROVE  Keeps
<1> DEFINE restored == Restorable(members, members)
           New(described) ==
             [c \in restored |-> Recovered(GetCall(c, c \in members), c \in described)]
<1>0. PICK described \in SUBSET members :
        LET rs == RowsAfter(New(described), restored)
            mem == CallsAfter(New(described))
        IN  calls' = mem /\ rows' = MarkEndedDuringRestart(rs, Stale(rs, mem))
  BY DEF RestoreAndSweep, Reached, Sweep, Outcomes
<1> DEFINE new == New(described)
           rs == RowsAfter(new, restored)
           mem == CallsAfter(new)
<1>1. calls' = mem /\ rows' = MarkEndedDuringRestart(rs, Stale(rs, mem))
  BY <1>0
<1>2. restored \subseteq Calls /\ \A c \in restored : ~Finished(rows[c])
  BY DEF Restorable, GetCall
<1>3. \A c \in restored : new[c].status = "on-hold"
  BY DEF Recovered, NewCall
<1>4. DOMAIN new = restored
  OBVIOUS
<1> HIDE DEF restored, new
<1>5. \A c \in Calls : rs[c] = IF c \in restored THEN new[c] ELSE rows[c]
  BY DEF RowsAfter
<1>6. \A c \in Calls : mem[c] = IF c \in restored THEN new[c] ELSE calls[c]
  BY <1>3, <1>4 DEF CallsAfter, EndedStatuses
<1> HIDE DEF rs, mem
<1>7. \A c \in Calls : rows'[c] = IF c \in Stale(rs, mem) THEN [rs[c] EXCEPT !.status = "ended"]
                                  ELSE rs[c]
  BY <1>1 DEF MarkEndedDuringRestart
<1>8. ASSUME NEW x \in Calls, Done(x)
      PROVE  Done(x)'
  <2>1. x \notin restored /\ rs[x] = rows[x] /\ mem[x] = None
    BY <1>2, <1>5, <1>6, <1>8 DEF Done, InMemory
  <2>2. x \in Stale(rs, mem) => rows[x] \in Call /\ rows[x].endedAt # None
    BY <1>8, <2>1
       DEF Done, Finished, Stale, EndedStatuses, RegistryInv, RegistryTypeOK, Sound
  <2>3. CASE x \notin Stale(rs, mem)
    BY <1>1, <1>7, <1>8, <2>1, <2>3 DEF Done, InMemory
  <2>4. CASE x \in Stale(rs, mem)
    <3>1. rows'[x] = [rows[x] EXCEPT !.status = "ended"]
      BY <1>7, <2>1, <2>4
    <3>2. rows'[x] \in Call
      BY <2>2, <2>4, <3>1 DEF Call, CallStatus
    <3>3. rows'[x].status = "ended" /\ rows'[x].endedAt # None /\ rows'[x].onAir # None
      BY <1>8, <2>2, <2>4, <3>1 DEF Done, Call
    <3> QED
      BY <1>1, <2>1, <3>2, <3>3, NoneIsNoCall DEF Done, Finished, InMemory
  <2> QED
    BY <2>3, <2>4
<1>9. ASSUME NEW x \in Calls, Unrejected(x)
      PROVE  Unrejected(x)'
  <2>1. mem[x] # None => mem[x].status # "rejected"
    BY <1>3, <1>6, <1>9 DEF Unrejected, InMemory
  <2>2. CASE x \notin Stale(rs, mem)
    BY <1>1, <1>3, <1>5, <1>7, <1>9, <2>1, <2>2 DEF Unrejected, InMemory
  <2>3. CASE x \in Stale(rs, mem)
    <3>1. x \notin restored /\ rs[x] = rows[x] /\ rows[x] \in Call
      BY <1>3, <1>5, <1>6, <2>3, NoneIsNoCall
         DEF Stale, RegistryInv, RegistryTypeOK, new
    <3>2. rows'[x].status = "ended"
      BY <1>7, <2>3, <3>1 DEF Call
    <3> QED
      BY <1>1, <2>1, <3>2 DEF Unrejected, InMemory
  <2> QED
    BY <2>2, <2>3
<1> QED
  BY <1>8, <1>9 DEF Keeps

\* The call is past the ring.
Inside(c) == phase[c] \notin {"none", "ringing", "over"}

\* A call that was let in, or asked about, has a row; the length of one that
\* talked is on its way or in that row for good.
Lasting(c) ==
  /\ \/ Inside(c) \/ InMemory(c) \/ posts[c]["talked"] > 0 \/ c \in talked
     \/ \E p \in Commands : cmd[p][c] # "idle"
     => rows[c] # None
  /\ Unrejected(c)
  /\ c \in talked => posts[c]["talked"] > 0 \/ Done(c)

TimedInv == RefusedInv /\ \A c \in Calls : ~warning /\ Lasting(c)

\* With no warning, what is in memory is in the table.
LEMMA InMemoryIsSaved ==
  ASSUME RegistryInv, ~warning, NEW c \in Calls, InMemory(c)
  PROVE  rows[c] # None
  BY DEF RegistryInv, InMemory

\* What a step may do to a call for its length to last.
LEMMA StaysLasting ==
  ASSUME RegistryInv', ~warning', Keeps, NEW c \in Calls, Lasting(c),
         rows[c] # None => rows'[c] # None,
         Inside(c)' => Inside(c) \/ InMemory(c)' \/ rows[c] # None,
         posts'[c]["talked"] > 0 => posts[c]["talked"] > 0 \/ Inside(c),
         \A p \in Commands : cmd'[p][c] # "idle" => cmd[p][c] # "idle" \/ InMemory(c),
         c \in talked' => \/ c \in talked /\ posts'[c]["talked"] = posts[c]["talked"]
                          \/ posts'[c]["talked"] > 0 /\ rows[c] # None
                          \/ Done(c)'
  PROVE  Lasting(c)'
<1>1. Unrejected(c)'
  BY DEF Keeps, Lasting
<1>2. c \in talked' => posts'[c]["talked"] > 0 \/ Done(c)'
  BY DEF Keeps, Lasting
<1>3. InMemory(c)' => rows'[c] # None
  BY DEF RegistryInv, InMemory
<1>4. \/ Inside(c)' \/ InMemory(c)' \/ posts'[c]["talked"] > 0 \/ c \in talked'
      \/ \E p \in Commands : cmd'[p][c] # "idle"
      => rows'[c] # None
  BY <1>3 DEF Lasting, Done, InMemory
<1> QED
  BY <1>1, <1>2, <1>4 DEF Lasting

LEMMA TimedLine ==
  ASSUME TimedInv, NEW d \in Calls, Line(d), NEW c \in Calls
  PROVE  ~warning' /\ Lasting(c)'
<1>1. Typed /\ Lasting(c) /\ Lasting(d) /\ ~warning /\ RegistryInv'
  BY LineTyped DEF TimedInv, RefusedInv, LineInv, Typed
<1>2. UNCHANGED <<registryVars, cmd>>
  BY DEF Line, CallerDials, CallerSpeaks, CallerHangsUp, HostAnswers, DialEnds,
         GoodbyeEnds, backendVars
<1>3. Keeps /\ ~warning' /\ rows' = rows
  BY <1>1, <1>2, NothingKeeps DEF registryVars
<1>4. CASE c # d
  <2>1. phase'[c] = phase[c] /\ posts'[c] = posts[c]
    BY <1>1, <1>4, LineApart DEF Apart
  <2>2. c \in talked' <=> c \in talked
    BY <1>4 DEF Line, CallerDials, CallerSpeaks, CallerHangsUp, HostAnswers, DialEnds,
                GoodbyeEnds, OnAirOf
  <2>3. Inside(c)' <=> Inside(c)
    BY <2>1 DEF Inside
  <2> QED
    BY <1>1, <1>2, <1>3, <2>1, <2>2, <2>3, StaysLasting
<1>5. ASSUME phase'[d] # "none",
             Inside(d)' => Inside(d),
             posts'[d]["talked"] > 0 => posts[d]["talked"] > 0 \/ Inside(d),
             d \in talked' => \/ d \in talked /\ posts'[d]["talked"] = posts[d]["talked"]
                              \/ posts'[d]["talked"] > 0 /\ Inside(d)
      PROVE  Lasting(d)'
  BY <1>1, <1>2, <1>3, <1>5, StaysLasting DEF Lasting
<1>6. CASE CallerDials(d) \/ CallerSpeaks(d) \/ HostAnswers(d) \/ GoodbyeEnds(d)
  <2>1. /\ posts'[d]["talked"] = posts[d]["talked"] /\ talked' = talked
        /\ phase'[d] # "none" /\ (Inside(d)' => Inside(d))
    BY <1>1, <1>6, EnterApart
       DEF CallerDials, CallerSpeaks, HostAnswers, GoodbyeEnds, Typed, Kinds, Inside
  <2> QED
    BY <1>3, <1>4, <1>5, <2>1
<1>7. CASE CallerHangsUp(d) \/ DialEnds(d)
  <2>1. PICK to \in {"over", "dial-done"}, kinds \in SUBSET Kinds :
          /\ Enter(d, to, kinds) /\ talked' = talked \cup OnAirOf(d)
          /\ "talked" \in kinds <=> phase[d] = "on-air"
          /\ Live(d) /\ (to = "dial-done" => Inside(d))
    <3>1. CASE CallerHangsUp(d)
      <4>1. "talked" \in PartingPosts(d) <=> phase[d] = "on-air"
        BY DEF PartingPosts
      <4> QED
        BY <3>1, <4>1, PartingKinds DEF CallerHangsUp
    <3>2. CASE DialEnds(d)
      BY <3>2 DEF DialEnds, Kinds, Live, Inside
    <3> QED
      BY <1>7, <3>1, <3>2
  <2>2. phase'[d] = to
    BY <1>1, <2>1, EnterApart DEF Typed
  <2>3. CASE phase[d] # "on-air"
    <3>1. posts'[d]["talked"] = posts[d]["talked"] /\ talked' = talked
      BY <1>1, <2>1, <2>3, EnterApart DEF Typed, Kinds, OnAirOf
    <3> QED
      BY <1>3, <1>4, <1>5, <2>1, <2>2, <3>1 DEF Inside
  <2>4. CASE phase[d] = "on-air"
    <3>1. PICK n \in [kinds -> Copies] :
            posts' = [posts EXCEPT ![d] =
                        [k \in Kinds |-> IF k \in kinds THEN n[k] ELSE @[k]]]
      BY <2>1 DEF Enter
    <3>2. posts'[d]["talked"] \in {1, 2}
      BY <1>1, <2>1, <2>4, <3>1, CopiesAssumption DEF Typed, PostsType, Kinds
    <3> QED
      BY <1>3, <1>4, <1>5, <2>1, <2>2, <2>4, <3>2 DEF Inside
  <2> QED
    BY <2>3, <2>4
<1> QED
  BY <1>6, <1>7 DEF Line

\* The dial result of a conversation, whatever it finds of the call, leaves it
\* done; no other webhook takes that back.
LEMMA TimedWebhooks ==
  ASSUME TimedInv, StoreFaults = {}, Copies = {1}, NEW d \in Calls, Webhooks(d),
         NEW c \in Calls
  PROVE  ~warning' /\ Lasting(c)'
<1>1. /\ Typed /\ Typed' /\ RegistryInv' /\ Lasting(c) /\ Lasting(d) /\ ~warning
      /\ Fresh(d) /\ Untold(d)
  BY WebhooksTyped DEF TimedInv, RefusedInv, LineInv, Typed
<1> USE DEF Typed
<1>2. Effects({d}, {})
  BY <1>1, WebhooksEffects
<1>3. UNCHANGED <<cmd, talked>>
  BY DEF Webhooks, TurnAway, LetIn, SpeechResult, HoldWait, QueueLeft,
         QueueAbandoned, DialCompletes, DialComplete, CallOver, backendVars
<1>4. ~warning' /\ (rows[c] # None => rows'[c] # None)
  BY <1>1, <1>2 DEF Effects
<1>5. Keeps
  <2>1. CASE LetIn(d)
    <3>1. ~Done(d)
      BY <1>1, <2>1 DEF LetIn, Answer, Untold, Untouched, Unregistered, Done
    <3> QED
      BY <2>1, <3>1, NothingKeeps, RegisterIncomingKeeps DEF LetIn
  <2>2. CASE SpeechResult(d)
    BY <1>1, <2>2, NothingKeeps, SetTranscriptKeeps DEF SpeechResult
  <2>3. CASE ~LetIn(d) /\ ~SpeechResult(d)
    <3>1. UNCHANGED registryVars \/ \E seconds \in Seconds \cup {None} :
                                      EndOnAir(d, seconds) \/ End(d)
      BY <2>3 DEF Webhooks, TurnAway, HoldWait, QueueLeft, QueueAbandoned,
                  DialCompletes, DialComplete, CallOver
    <3> QED
      BY <1>1, <3>1, NothingKeeps, EndKeeps, EndOnAirKeeps
  <2> QED
    BY <2>1, <2>2, <2>3
<1>6. CASE c # d
  <2>1. phase'[c] = phase[c] /\ posts'[c] = posts[c]
    BY <1>1, <1>6, WebhooksApart DEF Apart
  <2> QED
    BY <1>1, <1>3, <1>4, <1>5, <2>1, StaysLasting DEF Inside
<1>7. ASSUME Inside(d)' => Inside(d) \/ InMemory(d)',
             posts'[d]["talked"] > 0 => posts[d]["talked"] > 0,
             posts'[d]["talked"] = posts[d]["talked"] \/ (d \in talked => Done(d)'),
             c = d
      PROVE  Lasting(c)'
  BY <1>1, <1>3, <1>4, <1>5, <1>7, StaysLasting
<1>8. \A k \in Kinds : posts[d][k] > 0 => phase[d] # "none"
  BY <1>1 DEF Fresh, NoPosts
<1>9. CASE TurnAway(d)
  BY <1>1, <1>4, <1>6, <1>7, <1>9, AnswerApart DEF TurnAway, Kinds, Inside
<1>10. CASE LetIn(d)
  <2>1. /\ posts'[d]["talked"] = posts[d]["talked"]
        /\ phase'[d] = phase[d] \/ phase'[d] = "greeting"
    BY <1>1, <1>10, AnswerApart DEF LetIn, Kinds
  <2>2. InMemory(d)'
    <3>1. CASE RegisterIncoming(d)
      <4>1. calls'[d] = NewCall
        BY <3>1 DEF RegisterIncoming, CommitOne, Commit, CallsAfter, NewCall, EndedStatuses
      <4> QED
        BY <4>1, NewCallCommittable, NoneIsNoCall DEF InMemory, Committable
    <3> QED
      BY <1>10, <3>1 DEF LetIn, InMemory, registryVars
  <2> QED
    BY <1>4, <1>6, <1>7, <2>1, <2>2 DEF Inside
<1>11. CASE SpeechResult(d)
  BY <1>1, <1>4, <1>6, <1>7, <1>11, AnswerApart DEF SpeechResult, Kinds, Inside
<1>12. CASE HoldWait(d)
  BY <1>1, <1>4, <1>6, <1>7, <1>12, EnterApart DEF HoldWait, Kinds, Inside
<1>13. CASE QueueLeft(d)
  BY <1>1, <1>4, <1>6, <1>7, <1>13, AnswerApart DEF QueueLeft, Kinds, Inside
<1>14. CASE QueueAbandoned(d) \/ CallOver(d)
  BY <1>1, <1>4, <1>6, <1>7, <1>14, HandledApart
     DEF QueueAbandoned, CallOver, Kinds, Inside
<1>15. CASE DialComplete(d, "no-bridge", None)
  BY <1>1, <1>4, <1>6, <1>7, <1>15, AnswerApart DEF DialComplete, Kinds, Inside
<1>16. CASE \E seconds \in Seconds : DialComplete(d, "talked", seconds)
  <2>1. PICK seconds \in Seconds : DialComplete(d, "talked", seconds)
    BY <1>16
  <2>2. /\ posts[d]["talked"] > 0 /\ posts'[d]["talked"] = posts[d]["talked"] - 1
        /\ phase'[d] = phase[d] \/ phase'[d] = "over"
    BY <1>1, <2>1, AnswerApart DEF DialComplete, Kinds
  <2>3. rows[d] # None /\ Unrejected(d) /\ seconds # None
    BY <1>1, <2>2, NoneAssumption DEF Lasting
  <2>4. Done(d)'
    BY <1>1, <2>1, <2>3, EndOnAirKeeps DEF DialComplete
  <2> QED
    BY <1>4, <1>6, <1>7, <2>2, <2>4 DEF Inside
<1> QED
  BY <1>9, <1>10, <1>11, <1>12, <1>13, <1>14, <1>15, <1>16 DEF Webhooks, DialCompletes

LEMMA TimedCommand ==
  ASSUME TimedInv, StoreFaults = {}, Rejects = {}, NEW p \in Commands, NEW d \in Calls,
         Decide(p, d) \/ Request(p, d), NEW c \in Calls
  PROVE  ~warning' /\ Lasting(c)'
<1>1. /\ Typed /\ RegistryInv' /\ Lasting(c) /\ Lasting(d) /\ ~warning
  BY CommandTyped DEF TimedInv, RefusedInv, LineInv, Typed
<1>2. ~warning' /\ (rows[c] # None => rows'[c] # None)
  BY <1>1, CommandEffects DEF Effects
<1>3. Keeps
  <2>1. CASE UNCHANGED registryVars
    BY <2>1, NothingKeeps
  <2>2. CASE Decided(p, d)
    <3>1. p \in Accepts
      BY <2>2 DEF Decided, Commands
    <3>2. Settle(At(p, "ok"), "accepted") /\ At(p, "ok") \in SUBSET Calls
      BY <2>2, <3>1 DEF Decided, At
    <3> QED
      BY <1>1, <3>2, SettleKeeps DEF Typed
  <2> QED
    BY <2>1, <2>2 DEF Decide, Request, CarryOut, Undelivered, Probe, Decided
<1>4. talked' = talked
  BY DEF Decide, Request, CarryOut, Undelivered, Probe, Decided, lineVars
<1>5. CASE c # d
  <2>1. phase'[c] = phase[c] /\ posts'[c] = posts[c] /\ \A q \in Commands : cmd'[q][c] = cmd[q][c]
    BY <1>1, <1>5, CommandApart DEF Apart
  <2> QED
    BY <1>1, <1>2, <1>3, <1>4, <2>1, StaysLasting DEF Inside
<1>6. CASE c = d
  <2>1. \A q \in Commands : cmd'[q][d] # "idle" => cmd[q][d] # "idle" \/ InMemory(d)
    <3>1. PICK step : /\ cmd' = [cmd EXCEPT ![p][d] = step]
                      /\ step # "idle" => cmd[p][d] # "idle" \/ InMemory(d)
      BY DEF Decide, Request, CarryOut, Undelivered, Probe, Decided
    <3> QED
      BY <1>1, <3>1, CmdApart DEF Typed
  <2>2. posts'[d]["talked"] = posts[d]["talked"] /\ (Inside(d)' => Inside(d) \/ rows[d] # None)
    <3>1. CASE CarryOut(p, d)
      <4>1. rows[d] # None
        BY <1>1, <3>1 DEF CarryOut, Lasting
      <4>2. UNCHANGED posts \/ \E to : Enter(d, to, {})
        BY <3>1 DEF CarryOut
      <4> QED
        BY <1>1, <4>1, <4>2, EnterApart DEF Typed, Kinds
    <3>2. CASE UNCHANGED <<phase, posts>>
      BY <3>2 DEF Inside
    <3> QED
      BY <3>1, <3>2 DEF Decide, Request, Undelivered, Probe, Decided, lineVars
  <2> QED
    BY <1>1, <1>2, <1>3, <1>4, <1>6, <2>1, <2>2, StaysLasting
<1> QED
  BY <1>5, <1>6

LEMMA TimedClosing ==
  ASSUME TimedInv, StoreFaults = {}, OpenLine \/ CloseLine \/ Drained \/ DrainTimesOut,
         NEW c \in Calls
  PROVE  ~warning' /\ Lasting(c)'
<1>1. Typed /\ RegistryInv' /\ Lasting(c) /\ ~warning
  BY ClosingTyped DEF TimedInv, RefusedInv, LineInv, Typed
<1>2. ~warning' /\ (rows[c] # None => rows'[c] # None)
  BY <1>1, ClosingEffects DEF Effects
<1>3. Keeps
  <2>1. CASE UNCHANGED registryVars
    BY <2>1, NothingKeeps
  <2>2. CASE Drained
    <3>1. Settle(At(Drain, "ok"), "ended") /\ At(Drain, "ok") \in SUBSET Calls
      BY <2>2 DEF Drained, At
    <3> QED
      BY <1>1, <3>1, SettleKeeps DEF Typed
  <2> QED
    BY <2>1, <2>2 DEF OpenLine, CloseLine, Drained, DrainTimesOut
<1>4. UNCHANGED <<phase, posts, talked>>
  BY DEF OpenLine, CloseLine, Drained, DrainTimesOut, lineVars
<1>5. \A q \in Commands : cmd'[q][c] # "idle" => cmd[q][c] # "idle" \/ InMemory(c)
  <2>1. \A q \in Commands \ {Drain} : cmd'[q] = cmd[q]
    BY <1>1 DEF OpenLine, CloseLine, Drained, DrainTimesOut, Typed, BackendType
  <2>2. cmd'[Drain][c] # cmd[Drain][c] => cmd'[Drain][c] = "idle" \/ InMemory(c)
    BY <1>1, DrainIsCommand
       DEF OpenLine, CloseLine, Drained, DrainTimesOut, Typed, BackendType, OpenCalls,
           NoCommands
  <2> QED
    BY <2>1, <2>2
<1> QED
  BY <1>1, <1>2, <1>3, <1>4, <1>5, StaysLasting DEF Inside

LEMMA TimedRecovery ==
  ASSUME TimedInv, StoreFaults = {}, Recovery, NEW c \in Calls
  PROVE  ~warning' /\ Lasting(c)'
<1>1. Typed /\ RegistryInv' /\ Lasting(c) /\ ~warning
  BY BootTyped DEF TimedInv, RefusedInv, LineInv, Typed
<1>2. Keeps /\ ~warning' /\ (rows[c] # None => rows'[c] # None)
  <2>1. CASE Recover
    <3>1. RestoreAndSweep(boot.members) /\ boot.members \in SUBSET Calls
      BY <1>1, <2>1 DEF Recover, Typed, BackendType
    <3>2. Effects(boot.members, {})
      BY <1>1, <3>1, RestoreAndSweepEffects DEF Typed
    <3> QED
      BY <1>1, <3>1, <3>2, RestoreAndSweepKeeps DEF Typed, Effects
  <2>2. CASE UNCHANGED registryVars
    BY <1>1, <2>2, NothingKeeps DEF registryVars
  <2> QED
    BY <2>1, <2>2 DEF Recovery, ListQueue, FetchDetails, RecoverFails
<1>3. UNCHANGED <<phase, posts, talked, cmd>>
  BY DEF Recovery, ListQueue, FetchDetails, Recover, RecoverFails, lineVars
<1> QED
  BY <1>1, <1>2, <1>3, StaysLasting DEF Inside

\* A restart that no webhook falls into: the table stays, and the webhooks are
\* still on their way.
LEMMA TimedReboot ==
  ASSUME TimedInv, Reboot({}), NEW c \in Calls
  PROVE  ~warning' /\ Lasting(c)'
<1>1. Typed /\ RegistryInv' /\ Lasting(c)
  BY BootTyped DEF TimedInv, RefusedInv, LineInv, Typed
<1>2. rows' = rows /\ calls'[c] = None /\ ~warning' /\ talked' = talked
  BY DEF Reboot, Restart
<1>3. Keeps
  BY DEF Reboot, Restart, Keeps, Done, Unrejected, InMemory
<1>4. phase'[c] = phase[c] /\ posts'[c] = posts[c]
  BY DEF Reboot
<1>5. \A q \in Commands : cmd'[q][c] = "idle"
  BY DEF Reboot, NoCommands
<1> QED
  BY <1>1, <1>2, <1>3, <1>4, <1>5, StaysLasting DEF Inside

LEMMA NextTimed ==
  ASSUME StoreFaults = {}, Copies = {1}, Rejects = {}, LostPosts = FALSE,
         TimedInv, [Next]_vars
  PROVE  TimedInv'
<1>1. RefusedInv'
  BY NextRefused DEF TimedInv
<1>2. CASE UNCHANGED vars
  BY <1>1, <1>2
     DEF vars, registryVars, backendVars, lineVars, TimedInv, Lasting, Inside, Done,
         Unrejected, InMemory
<1>3. ASSUME Next, NEW c \in Calls
      PROVE  ~warning' /\ Lasting(c)'
  BY <1>3, TimedLine, TimedWebhooks, TimedCommand, TimedClosing, TimedRecovery,
     TimedReboot DEF Next
<1> QED
  BY <1>1, <1>2, <1>3 DEF TimedInv

\* With a store and a Twilio that lose and retry nothing, and operators who do not
\* reject, whoever has talked to the host has the length of it in history once
\* nothing is under way about the call: whether the dial result finds it still
\* on hold, already accepted, ended by the status callback or by the drain, or
\* swept by a restart, and whatever follows.
THEOREM TalkedStaysTimed ==
  ASSUME StoreFaults = {}, Copies = {1}, Rejects = {}, LostPosts = FALSE
  PROVE  Spec => []TalkedIsTimed
<1>1. Init => TimedInv
  BY InitLine
     DEF Init, TimedInv, RefusedInv, Untold, Lasting, Inside, Unrejected, InMemory,
         NoCommands, NoPosts, Kinds
<1>2. TimedInv /\ [Next]_vars => TimedInv'
  BY NextTimed
<1>3. TimedInv => TalkedIsTimed
  <2> SUFFICES ASSUME TimedInv, NEW c \in talked, Quiet(c)
               PROVE  rows[c] # None /\ rows[c].onAir # None
    BY DEF TalkedIsTimed
  <2>1. c \in Calls /\ Lasting(c)
    BY DEF TimedInv, RefusedInv, LineInv, Typed, MarksType
  <2>2. posts[c]["talked"] = 0
    BY DEF Quiet, NoPosts, Kinds
  <2> QED
    BY <2>1, <2>2 DEF Lasting, Done
<1> QED
  BY <1>1, <1>2, <1>3, PTL DEF Spec

=============================================================================
