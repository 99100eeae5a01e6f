-------------------------- MODULE ScreeningProofs ---------------------------
(***************************************************************************)
(* What holds of the registry at work on the phone line, for every set of  *)
(* calls, any number of operators' requests, every size of the queue, any  *)
(* number of restarts, with or without lost replies, lost webhooks and a   *)
(* hold limit.                                                             *)
(*                                                                         *)
(* Each theorem has an inductive invariant of its own, which says how far  *)
(* a call can be on the line while it is new, heard or refused.  What the  *)
(* registry contributes is said once, of every method: which calls it      *)
(* registers, which it marks as accepted, and that it loses none.          *)
(***************************************************************************)
EXTENDS Screening, CallRegistryProofs, FiniteSetTheorems

-----------------------------------------------------------------------------
(* Types. *)

BackendType ==
  /\ lineOpen \in BOOLEAN
  /\ cmd \in [Commands -> [Calls -> Steps]]
  /\ boot \in [at : {"listing", "fetching", "answered", "done", "failed"},
               members : SUBSET Calls]
  /\ restarts \in 0..MaxRestarts

PhaseType == phase \in [Calls -> Phases]
PostsType == posts \in [Calls -> [Kinds -> 0..2]]
MarksType == dialled \subseteq Calls /\ talked \subseteq Calls /\ refused \subseteq Calls

\* What every other invariant rests on.
Typed == RegistryInv /\ BackendType /\ PhaseType /\ PostsType /\ MarksType

LEMMA TypedIsTypeOK == Typed => TypeOK
  BY DEF Typed, RegistryInv, RegistryTypeOK, BackendType, PhaseType, PostsType,
         MarksType, TypeOK

LEMMA EnterType ==
  ASSUME PhaseType, PostsType, NEW c \in Calls, NEW to \in Phases,
         NEW kinds \in SUBSET Kinds, Enter(c, to, kinds)
  PROVE  PhaseType' /\ PostsType'
<1>1. PhaseType'
  BY DEF Enter, PhaseType
<1>2. PICK n \in [kinds -> Copies] :
        posts' = [posts EXCEPT ![c] =
                    [k \in Kinds |-> IF k \in kinds THEN n[k] ELSE @[k]]]
  BY DEF Enter
<1>3. \A k \in kinds : n[k] \in 0..2
  <2>1. \A k \in kinds : n[k] \in {1, 2}
    BY CopiesAssumption
  <2> QED
    BY <2>1
<1>4. [k \in Kinds |-> IF k \in kinds THEN n[k] ELSE posts[c][k]] \in [Kinds -> 0..2]
  BY <1>3 DEF PostsType
<1> QED
  BY <1>1, <1>2, <1>4 DEF PostsType

LEMMA AnswerType ==
  ASSUME PhaseType, PostsType, NEW c \in Calls, NEW kind \in Kinds, NEW from,
         NEW to \in Phases, NEW kinds, Answer(c, kind, from, to, kinds)
  PROVE  PhaseType' /\ PostsType'
<1>1. posts[c][kind] - 1 \in 0..2
  BY DEF Answer, PostsType
<1> DEFINE answered == [k \in Kinds |-> IF k = kind THEN posts[c][kind] - 1
                                        ELSE IF k \in kinds THEN 1 ELSE posts[c][k]]
<1>2. answered \in [Kinds -> 0..2]
  BY <1>1 DEF PostsType
<1>3. \/ /\ phase' = [phase EXCEPT ![c] = to]
         /\ posts' = [posts EXCEPT ![c] = answered]
      \/ /\ posts' = [posts EXCEPT ![c][kind] = posts[c][kind] - 1]
         /\ UNCHANGED phase
  BY DEF Answer
<1> HIDE DEF answered
<1> QED
  BY <1>1, <1>2, <1>3 DEF PhaseType, PostsType

LEMMA HandledType ==
  ASSUME PhaseType, PostsType, NEW c \in Calls, NEW kind \in Kinds, Handled(c, kind)
  PROVE  PhaseType' /\ PostsType'
  BY DEF Handled, PhaseType, PostsType

LEMMA PartingKinds ==
  ASSUME NEW c
  PROVE  PartingPosts(c) \in SUBSET Kinds
  BY DEF PartingPosts, Kinds

\* One request of one command gets on.
LEMMA CmdType ==
  ASSUME BackendType, NEW p \in Commands, NEW c \in Calls, NEW step \in Steps,
         cmd' = [cmd EXCEPT ![p][c] = step]
  PROVE  cmd' \in [Commands -> [Calls -> Steps]]
  BY DEF BackendType

LEMMA NoCommandsType == NoCommands \in [Commands -> [Calls -> Steps]]
  BY DEF NoCommands, Steps

\* The drain begins or ends.
LEMMA DrainType ==
  ASSUME BackendType, NEW f \in [Calls -> Steps], cmd' = [cmd EXCEPT ![Drain] = f]
  PROVE  cmd' \in [Commands -> [Calls -> Steps]]
  BY DEF BackendType

LEMMA DrainIsCommand == Drain \in Commands /\ NoCommands[Drain] \in [Calls -> Steps]
  BY DEF Commands, NoCommands, Steps

\* The registry after a settled decision.
LEMMA SettleInv ==
  ASSUME RegistryInv, NEW S \in SUBSET Calls, NEW status \in TerminalStatuses,
         Settle(S, status)
  PROVE  RegistryInv'
<1>1. CASE UNCHANGED registryVars
  BY <1>1 DEF registryVars, RegistryInv, RegistryTypeOK, InMemory
<1> QED
  BY <1>1, SetStatusInv DEF Settle

LEMMA UnchangedInv ==
  ASSUME RegistryInv, UNCHANGED registryVars
  PROVE  RegistryInv'
  BY DEF registryVars, RegistryInv, RegistryTypeOK, InMemory

\* Every step of the line.
LEMMA LineTyped ==
  ASSUME Typed, NEW c \in Calls, Line(c)
  PROVE  Typed'
<1> USE DEF Typed
<1>1. RegistryInv' /\ BackendType'
  BY UnchangedInv
     DEF Line, CallerDials, CallerSpeaks, CallerHangsUp, HostAnswers, DialEnds,
         GoodbyeEnds, backendVars, BackendType
<1>2. MarksType'
  BY DEF Line, CallerDials, CallerSpeaks, CallerHangsUp, HostAnswers, DialEnds,
         GoodbyeEnds, MarksType, OnAirOf
<1>3. \E to \in Phases, kinds \in SUBSET Kinds : Enter(c, to, kinds)
  <2>1. CASE CallerDials(c)
    BY <2>1 DEF CallerDials, Phases, Kinds
  <2>2. CASE CallerSpeaks(c)
    BY <2>2 DEF CallerSpeaks, Phases, Kinds
  <2>3. CASE CallerHangsUp(c)
    BY <2>3, PartingKinds DEF CallerHangsUp, Phases
  <2>4. CASE HostAnswers(c)
    BY <2>4 DEF HostAnswers, Phases
  <2>5. CASE DialEnds(c)
    BY <2>5 DEF DialEnds, Phases, Kinds
  <2>6. CASE GoodbyeEnds(c)
    BY <2>6 DEF GoodbyeEnds, Phases, Kinds
  <2> QED
    BY <2>1, <2>2, <2>3, <2>4, <2>5, <2>6 DEF Line
<1>4. PhaseType' /\ PostsType'
  BY <1>3, EnterType
<1> QED
  BY <1>1, <1>2, <1>4

\* Every webhook.
LEMMA WebhooksTyped ==
  ASSUME Typed, NEW c \in Calls, Webhooks(c)
  PROVE  Typed'
<1> USE DEF Typed
<1>1. BackendType'
  BY DEF Webhooks, TurnAway, LetIn, SpeechResult, HoldWait, QueueLeft,
         QueueAbandoned, DialCompletes, DialComplete, CallOver, backendVars, BackendType
<1>2. MarksType'
  BY DEF Webhooks, TurnAway, LetIn, SpeechResult, HoldWait, QueueLeft,
         QueueAbandoned, DialCompletes, DialComplete, CallOver, MarksType
<1>3. CASE TurnAway(c)
  BY <1>1, <1>2, <1>3, UnchangedInv, AnswerType DEF TurnAway, Phases, Kinds
<1>4. CASE LetIn(c)
  <2>1. RegistryInv'
    BY <1>4, UnchangedInv, RegisterIncomingInv DEF LetIn
  <2> QED
    BY <1>1, <1>2, <1>4, <2>1, AnswerType DEF LetIn, Phases, Kinds
<1>5. CASE SpeechResult(c)
  <2>1. RegistryInv'
    BY <1>5, UnchangedInv, SetTranscriptInv DEF SpeechResult
  <2> QED
    BY <1>1, <1>2, <1>5, <2>1, AnswerType DEF SpeechResult, Phases, Kinds
<1>6. CASE HoldWait(c)
  BY <1>1, <1>2, <1>6, UnchangedInv, EnterType DEF HoldWait, Phases, Kinds
<1>7. CASE QueueLeft(c)
  BY <1>1, <1>2, <1>7, EndInv, AnswerType DEF QueueLeft, Phases, Kinds
<1>8. CASE QueueAbandoned(c)
  BY <1>1, <1>2, <1>8, EndInv, HandledType DEF QueueAbandoned, Kinds
<1>9. CASE DialCompletes(c)
  <2>1. PICK kind \in Kinds, seconds \in Seconds \cup {None} :
          DialComplete(c, kind, seconds)
    BY <1>9 DEF DialCompletes, Kinds
  <2> QED
    BY <1>1, <1>2, <2>1, EndOnAirInv, AnswerType DEF DialComplete, Phases
<1>10. CASE CallOver(c)
  BY <1>1, <1>2, <1>10, EndInv, HandledType DEF CallOver, Kinds
<1> QED
  BY <1>3, <1>4, <1>5, <1>6, <1>7, <1>8, <1>9, <1>10 DEF Webhooks

\* Every step of a command.
LEMMA CommandTyped ==
  ASSUME Typed, NEW p \in Commands, NEW c \in Calls, Decide(p, c) \/ Request(p, c)
  PROVE  Typed'
<1> USE DEF Typed
<1>1. CASE Decide(p, c)
  <2>1. cmd' \in [Commands -> [Calls -> Steps]]
    BY <1>1, CmdType DEF Decide, Steps
  <2> QED
    BY <1>1, <2>1, UnchangedInv
       DEF Decide, lineVars, BackendType, PhaseType, PostsType, MarksType
<1>2. CASE CarryOut(p, c)
  <2>1. cmd' \in [Commands -> [Calls -> Steps]]
    BY <1>2, CmdType DEF CarryOut, Steps
  <2>2. PhaseType' /\ PostsType'
    BY <1>2, EnterType DEF CarryOut, Phases, Kinds, PhaseType, PostsType
  <2> QED
    BY <1>2, <2>1, <2>2, UnchangedInv DEF CarryOut, BackendType, MarksType
<1>3. CASE Undelivered(p, c)
  <2>1. cmd' \in [Commands -> [Calls -> Steps]]
    BY <1>3, CmdType DEF Undelivered, Steps
  <2> QED
    BY <1>3, <2>1, UnchangedInv
       DEF Undelivered, lineVars, BackendType, PhaseType, PostsType, MarksType
<1>4. CASE Probe(p, c)
  <2>1. cmd' \in [Commands -> [Calls -> Steps]]
    BY <1>4, CmdType DEF Probe, Steps
  <2> QED
    BY <1>4, <2>1, UnchangedInv
       DEF Probe, lineVars, BackendType, PhaseType, PostsType, MarksType
<1>5. CASE Decided(p, c)
  <2>1. cmd' \in [Commands -> [Calls -> Steps]]
    BY <1>5, CmdType DEF Decided, Steps
  <2>2. RegistryInv'
    BY <1>5, SettleInv DEF Decided, At, TerminalStatuses
  <2> QED
    BY <1>5, <2>1, <2>2
       DEF Decided, lineVars, BackendType, PhaseType, PostsType, MarksType
<1> QED
  BY <1>1, <1>2, <1>3, <1>4, <1>5 DEF Request

\* Opening and closing the line.
LEMMA ClosingTyped ==
  ASSUME Typed, OpenLine \/ CloseLine \/ Drained \/ DrainTimesOut
  PROVE  Typed'
<1> USE DEF Typed
<1>1. PhaseType' /\ PostsType' /\ MarksType'
  BY DEF OpenLine, CloseLine, Drained, DrainTimesOut, lineVars, PhaseType,
         PostsType, MarksType
<1>2. RegistryInv'
  BY UnchangedInv, SettleInv
     DEF OpenLine, CloseLine, Drained, DrainTimesOut, At, TerminalStatuses
<1>3. cmd' \in [Commands -> [Calls -> Steps]]
  <2>1. CASE OpenLine
    BY <2>1 DEF OpenLine, BackendType
  <2>2. CASE CloseLine
    <3>1. [c \in Calls |-> IF c \in OpenCalls THEN "sent" ELSE "idle"] \in [Calls -> Steps]
      BY DEF Steps
    <3> QED
      BY <2>2, <3>1, DrainType DEF CloseLine
  <2>3. CASE Drained \/ DrainTimesOut
    BY <2>3, DrainType, DrainIsCommand DEF Drained, DrainTimesOut
  <2> QED
    BY <2>1, <2>2, <2>3
<1> QED
  BY <1>1, <1>2, <1>3
     DEF OpenLine, CloseLine, Drained, DrainTimesOut, BackendType

\* The recovery, and the restart before it.
LEMMA BootTyped ==
  ASSUME Typed, NEW lost, Recovery \/ Reboot(lost)
  PROVE  Typed'
<1> USE DEF Typed
<1>1. CASE ListQueue \/ FetchDetails \/ RecoverFails
  <2>1. boot' \in [at : {"listing", "fetching", "answered", "done", "failed"},
                   members : SUBSET Calls]
    BY <1>1 DEF ListQueue, FetchDetails, RecoverFails, BackendType
  <2> QED
    BY <1>1, <2>1, UnchangedInv
       DEF ListQueue, FetchDetails, RecoverFails, lineVars, BackendType, PhaseType,
           PostsType, MarksType
<1>2. CASE Recover
  <2>1. RegistryInv'
    BY <1>2, RestoreAndSweepInv DEF Recover, BackendType
  <2> QED
    BY <1>2, <2>1 DEF Recover, lineVars, BackendType, PhaseType, PostsType, MarksType
<1>3. CASE Reboot(lost)
  <2>1. RegistryInv' /\ MarksType'
    BY <1>3, RestartInv DEF Reboot, MarksType
  <2>2. BackendType'
    <3>1. restarts' \in 0..MaxRestarts
      BY <1>3, BoundsAssumption DEF Reboot, BackendType
    <3> QED
      BY <1>3, <3>1, NoCommandsType DEF Reboot, BackendType, NotAsked
  <2>3. PhaseType' /\ PostsType'
    BY <1>3 DEF Reboot, PhaseType, PostsType, Phases, NoPosts
  <2> QED
    BY <2>1, <2>2, <2>3
<1> QED
  BY <1>1, <1>2, <1>3 DEF Recovery

LEMMA NextTyped == Typed /\ [Next]_vars => Typed'
<1> SUFFICES ASSUME Typed, [Next]_vars
             PROVE  Typed'
  OBVIOUS
<1>1. CASE UNCHANGED vars
  BY <1>1, UnchangedInv
     DEF Typed, vars, backendVars, lineVars, BackendType, PhaseType, PostsType, MarksType
<1> QED
  BY <1>1, LineTyped, WebhooksTyped, CommandTyped, ClosingTyped, BootTyped DEF Next

LEMMA InitTyped == Init => Typed
<1> SUFFICES ASSUME Init
             PROVE  Typed
  OBVIOUS
<1>1. RegistryInv
  BY EmptyInv DEF Init
<1>2. BackendType
  BY NoCommandsType, BoundsAssumption DEF Init, BackendType, NotAsked
<1>3. PhaseType /\ PostsType /\ MarksType
  BY DEF Init, PhaseType, PostsType, MarksType, Phases, NoPosts
<1> QED
  BY <1>1, <1>2, <1>3 DEF Typed

\* Every variable of the registry, the backend and the line keeps its type: no
\* webhook is ever under way more often than Twilio posts it.
THEOREM ScreeningTypeCorrect == Spec => []TypeOK
  BY InitTyped, NextTyped, TypedIsTypeOK, PTL DEF Spec

-----------------------------------------------------------------------------
(* What each method of the registry registers, marks and keeps. *)

\* Said to be accepted, in memory or in history.
Marked(c) ==
  \/ InMemory(c) /\ calls[c].wasAccepted
  \/ rows[c] # None /\ rows[c].wasAccepted

\* The registry has never heard of the call, or has nothing of it left.
Unregistered(c) == ~InMemory(c) /\ rows[c] = None

\* A call in play that only its row knows of.
Lost(c) == rows[c] # None /\ ~InMemory(c) /\ ~Finished(rows[c])

\* Of a step: it registers at most the calls of S, marks at most those of T, and,
\* as long as the store works, loses none and sets no warning.
Effects(S, T) ==
  /\ \A x \in Calls : x \notin S /\ Unregistered(x) => Unregistered(x)'
  /\ \A x \in Calls : x \notin T /\ Marked(x)' => Marked(x)
  /\ \A x \in Calls : rows[x] # None => rows'[x] # None
  /\ StoreFaults = {} => \A x \in Calls : Lost(x)' => Lost(x)
  /\ StoreFaults = {} /\ ~warning => ~warning'

LEMMA CommitEffects ==
  ASSUME RegistryInv, NEW D \in SUBSET Calls, NEW new \in [D -> Committable],
         Commit(new), NEW S, NEW T,
         \A x \in D : x \notin S => ~Unregistered(x),
         \A x \in D : x \notin T /\ new[x].wasAccepted => Marked(x),
         \A x \in D : new[x].status \in EndedStatuses => Finished(new[x])
  PROVE  Effects(S, T)
<1>1. DOMAIN new = D
  OBVIOUS
<1>2. PICK saved \in Reached("write", D) :
           /\ rows' = RowsAfter(new, saved)
           /\ calls' = CallsAfter(new)
           /\ warning' = (warning \/ saved # D)
  BY <1>1 DEF Commit
<1>3. saved \subseteq D /\ (StoreFaults = {} => saved = D)
  BY <1>2, ReachedSome DEF Reached
<1>4. \A x \in D : new[x] # None
  BY NoneIsNoCall DEF Committable
<1>5. \A x \in Calls : rows'[x] = IF x \in saved THEN new[x] ELSE rows[x]
  BY <1>2 DEF RowsAfter
<1>6. \A x \in Calls : calls'[x] = IF x \notin D THEN calls[x]
                                   ELSE IF new[x].status \in EndedStatuses THEN None
                                   ELSE new[x]
  BY <1>1, <1>2 DEF CallsAfter
<1>7. \A x \in Calls : x \notin S /\ Unregistered(x) => Unregistered(x)'
  BY <1>3, <1>5, <1>6 DEF Unregistered, InMemory
<1>8. \A x \in Calls : x \notin T /\ Marked(x)' => Marked(x)
  BY <1>3, <1>5, <1>6 DEF Marked, InMemory
<1>9. \A x \in Calls : rows[x] # None => rows'[x] # None
  BY <1>3, <1>4, <1>5
<1>10. StoreFaults = {} => \A x \in Calls : Lost(x)' => Lost(x)
  BY <1>3, <1>4, <1>5, <1>6 DEF Lost, InMemory
<1>11. StoreFaults = {} /\ ~warning => ~warning'
  BY <1>2, <1>3
<1> QED
  BY <1>7, <1>8, <1>9, <1>10, <1>11 DEF Effects

LEMMA CommitOneEffects ==
  ASSUME RegistryInv, NEW c \in Calls, NEW call \in Committable, CommitOne(c, call),
         NEW S, NEW T,
         c \notin S => ~Unregistered(c),
         c \notin T /\ call.wasAccepted => Marked(c),
         call.status \in EndedStatuses => Finished(call)
  PROVE  Effects(S, T)
<1> DEFINE new == [x \in {c} |-> call]
<1>1. new \in [{c} -> Committable] /\ {c} \in SUBSET Calls /\ Commit(new)
  BY DEF CommitOne
<1>2. \A x \in {c} : new[x] = call
  OBVIOUS
<1> HIDE DEF new
<1> QED
  BY <1>1, <1>2, CommitEffects

\* A step that leaves the registry alone.
LEMMA NoEffects ==
  ASSUME UNCHANGED registryVars
  PROVE  Effects({}, {}) /\ Brings({})
  BY DEF registryVars, Effects, Unregistered, Marked, Lost, InMemory, Brings

LEMMA RegisterIncomingEffects ==
  ASSUME RegistryInv, NEW c \in Calls, RegisterIncoming(c)
  PROVE  Effects({c}, {})
<1>1. ~NewCall.wasAccepted /\ NewCall.status \notin EndedStatuses
  BY DEF NewCall, EndedStatuses
<1> QED
  BY <1>1, NewCallCommittable, CommitOneEffects DEF RegisterIncoming

LEMMA SetTranscriptEffects ==
  ASSUME RegistryInv, NEW c \in Calls, SetTranscript(c)
  PROVE  Effects({c}, {})
<1>1. PICK readable \in Outcomes("read") :
        LET row  == GetCall(c, readable)
            call == IF InMemory(c) THEN calls[c] ELSE Revived(row)
        IN  /\ InMemory(c) \/ ~Finished(row)
            /\ CommitOne(c, [call EXCEPT
                 !.transcript = Speech[c],
                 !.status     = IF @ = "screening" THEN "on-hold" ELSE @])
  BY DEF SetTranscript
<1> DEFINE call == IF InMemory(c) THEN calls[c] ELSE Revived(GetCall(c, readable))
           heard == [call EXCEPT
              !.transcript = Speech[c],
              !.status     = IF @ = "screening" THEN "on-hold" ELSE @]
<1>2. readable \in BOOLEAN
  BY DEF Outcomes
<1>3. /\ call \in Call /\ InPlay(call)
      /\ call.wasAccepted => Marked(c)
  <2>1. CASE InMemory(c)
    BY <2>1, InMemoryInPlay DEF Marked
  <2>2. CASE ~InMemory(c)
    <3>1. call \in Call /\ InPlay(call) /\ call = Revived(GetCall(c, readable))
      BY <1>1, <1>2, <2>2, GetCallSound, RevivedInPlay
    <3>2. call.status = "on-hold"
      <4>1. GetCall(c, readable) \in Call \cup {None}
        BY <1>2, GetCallSound
      <4> QED
        BY <3>1, <4>1 DEF Revived, NewCall, Call
    <3> QED
      BY <3>1, <3>2 DEF InPlay
  <2> QED
    BY <2>1, <2>2
<1>4. CommitOne(c, heard)
  BY <1>1
<1> HIDE DEF call
<1>5. /\ heard \in Committable
      /\ heard.wasAccepted = call.wasAccepted
      /\ heard.status \notin EndedStatuses
  BY <1>3, HeardCommittable DEF Texts, Call, InPlay, EndedStatuses
<1> QED
  BY <1>3, <1>4, <1>5, CommitOneEffects

\* set_status registers nothing, and marks only what it accepts.
LEMMA SetStatusEffects ==
  ASSUME RegistryInv, NEW S \in SUBSET Calls,
         NEW status \in TerminalStatuses, SetStatus(S, status)
  PROVE  Effects({}, IF status = "accepted" THEN S ELSE {})
<1> DEFINE moved == {c \in S : InMemory(c) /\ calls[c].status # status}
           new == [c \in moved |-> Moved(calls[c], status)]
           T == IF status = "accepted" THEN S ELSE {}
<1>1. moved \in SUBSET Calls /\ new \in [moved -> Committable] /\ Commit(new)
  BY InMemoryInPlay, MovedCommittable DEF SetStatus
<1>2. ASSUME NEW x \in moved
      PROVE  /\ ~Unregistered(x)
             /\ x \notin T /\ new[x].wasAccepted => Marked(x)
             /\ new[x].status \in EndedStatuses => Finished(new[x])
  <2>1. InMemory(x) /\ calls[x] \in Call /\ InPlay(calls[x]) /\ x \in S /\ x \in Calls
    BY InMemoryInPlay
  <2>2. /\ new[x].wasAccepted = (calls[x].wasAccepted \/ status = "accepted")
        /\ new[x].status = status
        /\ new[x].endedAt = IF calls[x].endedAt = None THEN status ELSE calls[x].endedAt
    BY <2>1 DEF Moved, Call, TerminalStatuses
  <2>3. new[x].endedAt # None
    BY <2>2, NoneIsNoStamp
  <2>4. new[x] # None
    BY <1>1, NoneIsNoCall DEF Committable
  <2>5. x \notin T /\ new[x].wasAccepted => calls[x].wasAccepted
    BY <2>1, <2>2
  <2> QED
    BY <2>1, <2>2, <2>3, <2>4, <2>5 DEF Unregistered, Marked, Finished, EndedStatuses
<1> HIDE DEF moved, new, T
<1>3. Effects({}, T)
  BY <1>1, <1>2, CommitEffects
<1> QED
  BY <1>3 DEF T

LEMMA SettleEffects ==
  ASSUME RegistryInv, NEW S \in SUBSET Calls,
         NEW status \in TerminalStatuses, Settle(S, status)
  PROVE  Effects({}, IF status = "accepted" THEN S ELSE {}) /\ Brings({})
<1>1. CASE UNCHANGED registryVars
  BY <1>1, NoEffects DEF Effects
<1>2. CASE SetStatus(S, status)
  BY <1>2, SetStatusEffects, SetStatusBrings
<1> QED
  BY <1>1, <1>2 DEF Settle

\* Closing a saved row.
LEMMA CloseSavedEffects ==
  ASSUME RegistryInv, NEW c \in Calls, NEW seconds \in Seconds \cup {None},
         CloseSaved(c, seconds)
  PROVE  Effects({}, {})
<1>1. PICK ok \in Outcomes("write") :
        /\ rows' = IF ok THEN CloseCall(c, seconds) ELSE rows
        /\ warning' = (warning \/ ~ok)
  BY DEF CloseSaved
<1>2. calls' = calls /\ (StoreFaults = {} => ok)
  BY <1>1 DEF CloseSaved, Outcomes
<1>3. \/ rows' = rows
      \/ rows[c] # None /\ rows' = [rows EXCEPT ![c] = ClosedRow(rows[c], seconds)]
  BY <1>1 DEF CloseCall
<1>4. CASE rows' = rows
  BY <1>1, <1>2, <1>4 DEF Effects, Unregistered, Marked, Lost, InMemory
<1>5. CASE rows[c] # None /\ rows' = [rows EXCEPT ![c] = ClosedRow(rows[c], seconds)]
  <2> DEFINE row == ClosedRow(rows[c], seconds)
  <2>1. rows[c] \in Call /\ Sound(rows[c])
    BY <1>5 DEF RegistryInv, RegistryTypeOK
  <2>2. /\ row # None /\ row.status = "ended" /\ row.endedAt # None
        /\ row.wasAccepted = rows[c].wasAccepted
    <3>1. row \in Call
      BY <2>1, ClosedRowSound
    <3>2. /\ row.status = "ended" /\ row.wasAccepted = rows[c].wasAccepted
          /\ row.endedAt = IF rows[c].endedAt = None THEN "ended" ELSE rows[c].endedAt
      BY <2>1 DEF ClosedRow, Call
    <3> QED
      BY <3>1, <3>2, NoneIsNoCall, NoneIsNoStamp DEF TerminalStatuses
  <2>3. \A x \in Calls : rows'[x] = IF x = c THEN row ELSE rows[x]
    BY <1>5 DEF RegistryInv, RegistryTypeOK
  <2> HIDE DEF row
  <2> QED
    BY <1>1, <1>2, <1>5, <2>2, <2>3
       DEF Effects, Unregistered, Marked, Lost, Finished, InMemory
<1> QED
  BY <1>3, <1>4, <1>5

\* The ways a call ends.
LEMMA EndEffects ==
  ASSUME RegistryInv, NEW c \in Calls, NEW seconds \in Seconds \cup {None},
         EndOnAir(c, seconds) \/ End(c)
  PROVE  Effects({}, {}) /\ Brings({})
<1>1. ASSUME InMemory(c)
      PROVE  calls[c] \in Call /\ InPlay(calls[c])
  BY <1>1, InMemoryInPlay
<1>2. ASSUME InMemory(c), NEW call \in Committable, CommitOne(c, call),
             call.wasAccepted = calls[c].wasAccepted,
             call.status = "ended", call.endedAt # None
      PROVE  Effects({}, {})
  <2>1. Finished(call)
    BY <1>2, NoneIsNoCall DEF Committable, Finished
  <2> QED
    BY <1>2, <2>1, CommitOneEffects DEF Unregistered, Marked
<1>3. ASSUME InMemory(c), CommitOne(c, Moved([calls[c] EXCEPT !.onAir = seconds], "ended"))
      PROVE  Effects({}, {})
  <2> DEFINE call == Moved([calls[c] EXCEPT !.onAir = seconds], "ended")
  <2>1. /\ call.wasAccepted = calls[c].wasAccepted
        /\ call.status = "ended" /\ call.endedAt # None
    BY <1>1, <1>3, NoneIsNoStamp DEF Moved, Call, TerminalStatuses
  <2>2. call \in Committable
    BY <1>1, <1>3, OffAirCommittable
  <2> QED
    BY <1>2, <1>3, <2>1, <2>2
<1>4. ASSUME InMemory(c), CommitOne(c, Closed(calls[c]))
      PROVE  Effects({}, {})
  <2>1. /\ Closed(calls[c]).wasAccepted = calls[c].wasAccepted
        /\ Closed(calls[c]).status = "ended" /\ Closed(calls[c]).endedAt # None
    BY <1>1, <1>4, NoneIsNoStamp DEF Closed, Call, InPlay, EndedStatuses, TerminalStatuses
  <2>2. Closed(calls[c]) \in Committable
    BY <1>1, <1>4, ClosedCommittable
  <2> QED
    BY <1>2, <1>4, <2>1, <2>2
<1>5. ASSUME CloseSaved(c, seconds) \/ CloseSaved(c, None)
      PROVE  Effects({}, {})
  BY <1>5, CloseSavedEffects
<1>6. Brings({})
  BY EndBrings
<1> QED
  BY <1>3, <1>4, <1>5, <1>6 DEF EndOnAir, End

\* The recovery registers only members of the queue, and marks nothing.
LEMMA RestoreAndSweepEffects ==
  ASSUME RegistryInv, NEW members \in SUBSET Calls, RestoreAndSweep(members)
  PROVE  Effects(members, {})
<1>1. PICK readable \in Reached("read", members), described \in SUBSET members :
        LET restored == Restorable(members, readable)
            new == [c \in restored |-> Recovered(GetCall(c, c \in readable), c \in described)]
        IN  \E saved \in Reached("write", restored) :
              /\ calls' = CallsAfter(new)
              /\ Sweep(RowsAfter(new, saved), CallsAfter(new),
                       warning \/ saved # restored)
  BY DEF RestoreAndSweep
<1> DEFINE restored == Restorable(members, readable)
           new == [c \in restored |-> Recovered(GetCall(c, c \in readable), c \in described)]
<1>2. restored \subseteq members /\ restored \in SUBSET Calls
  BY DEF Restorable
<1>3. PICK saved \in Reached("write", restored) :
        /\ calls' = CallsAfter(new)
        /\ Sweep(RowsAfter(new, saved), CallsAfter(new), warning \/ saved # restored)
  BY <1>1
<1>4. saved \subseteq restored /\ (StoreFaults = {} => saved = restored)
  BY <1>3, ReachedSome DEF Reached
<1>5. \A c \in restored : /\ new[c] \in Call /\ new[c] # None
                          /\ ~new[c].wasAccepted /\ new[c].status = "on-hold"
  <2> SUFFICES ASSUME NEW c \in restored
               PROVE  /\ new[c] \in Call /\ new[c] # None
                      /\ ~new[c].wasAccepted /\ new[c].status = "on-hold"
    OBVIOUS
  <2>1. GetCall(c, c \in readable) \in Call \cup {None}
    <3>1. c \in Calls /\ (c \in readable) \in BOOLEAN
      BY <1>2
    <3> QED
      BY <3>1, GetCallSound
  <2>2. /\ new[c] = Recovered(GetCall(c, c \in readable), c \in described)
        /\ (c \in described) \in BOOLEAN
    OBVIOUS
  <2>3. new[c] \in Call
    BY <2>1, <2>2, RecoveredCommittable DEF Committable
  <2> QED
    BY <2>2, <2>3, NoneIsNoCall DEF Recovered, NewCall
<1>6. DOMAIN new = restored
  OBVIOUS
<1> HIDE DEF restored, new
<1> DEFINE rs == RowsAfter(new, saved)
           mem == CallsAfter(new)
<1>7. \A c \in Calls : rs[c] = IF c \in saved THEN new[c] ELSE rows[c]
  BY DEF RowsAfter
<1>8. \A c \in Calls : mem[c] = IF c \in restored THEN new[c] ELSE calls[c]
  BY <1>5, <1>6 DEF CallsAfter, EndedStatuses
<1>9. PICK listed \in Outcomes("read"), ok \in Outcomes("write") :
        LET stale == IF listed THEN Stale(rs, mem) ELSE {}
        IN  /\ rows' = IF ok THEN MarkEndedDuringRestart(rs, stale) ELSE rs
            /\ warning' = ((warning \/ saved # restored) \/ (stale # {} /\ ~ok))
  BY <1>3 DEF Sweep
<1> DEFINE ended == IF listed /\ ok THEN Stale(rs, mem) ELSE {}
<1>10. \A c \in Calls : rows'[c] = IF c \in ended THEN [rs[c] EXCEPT !.status = "ended"]
                                   ELSE rs[c]
  <2>1. CASE ok
    BY <1>9, <2>1 DEF MarkEndedDuringRestart
  <2>2. CASE ~ok
    BY <1>9, <2>2
  <2> QED
    BY <2>1, <2>2
<1>11. \A c \in Calls : rs[c] # None => rs[c] \in Call /\ Sound(rs[c])
  <2>1. \A c \in restored : Sound(new[c])
    BY <1>5 DEF Recovered, NewCall, Sound, new
  <2> QED
    BY <1>2, <1>4, <1>5, <1>7, <2>1 DEF RegistryInv, RegistryTypeOK
<1>12. \A c \in ended : /\ c \in Calls /\ rs[c] # None /\ mem[c] = None
                        /\ rs[c].status \notin EndedStatuses
  BY DEF Stale
<1> HIDE DEF rs, mem, ended
<1>13. \A c \in ended : /\ rows'[c] # None
                        /\ rows'[c].wasAccepted = rs[c].wasAccepted
                        /\ rows'[c].status = "ended"
                        /\ rows'[c].endedAt = rs[c].endedAt
  <2> SUFFICES ASSUME NEW c \in ended
               PROVE  /\ rows'[c] \in Call
                      /\ rows'[c].wasAccepted = rs[c].wasAccepted
                      /\ rows'[c].status = "ended"
                      /\ rows'[c].endedAt = rs[c].endedAt
    BY NoneIsNoCall
  <2>1. rs[c] \in Call /\ rows'[c] = [rs[c] EXCEPT !.status = "ended"]
    BY <1>10, <1>11, <1>12
  <2> QED
    BY <2>1 DEF Call, CallStatus
<1>14. \A x \in Calls : x \notin members /\ Unregistered(x) => Unregistered(x)'
  BY <1>2, <1>3, <1>4, <1>7, <1>8, <1>10, <1>12 DEF Unregistered, InMemory, mem
<1>15. \A x \in Calls : Marked(x)' => Marked(x)
  <2> SUFFICES ASSUME NEW x \in Calls, Marked(x)'
               PROVE  Marked(x)
    OBVIOUS
  <2>1. CASE calls'[x] # None /\ calls'[x].wasAccepted
    BY <1>3, <1>5, <1>8, <2>1 DEF Marked, InMemory, mem
  <2>2. CASE rows'[x] # None /\ rows'[x].wasAccepted
    <3>1. rs[x] # None /\ rs[x].wasAccepted
      BY <1>10, <1>12, <1>13, <2>2
    <3> QED
      BY <1>4, <1>5, <1>7, <3>1 DEF Marked
  <2> QED
    BY <2>1, <2>2 DEF Marked, InMemory
<1>16. \A x \in Calls : rows[x] # None => rows'[x] # None
  BY <1>4, <1>5, <1>7, <1>10, <1>13
<1>17. StoreFaults = {} => \A x \in Calls : Lost(x)' => Lost(x)
  <2> SUFFICES ASSUME StoreFaults = {}, NEW x \in Calls, Lost(x)'
               PROVE  Lost(x)
    OBVIOUS
  <2>1. mem[x] = None /\ x \notin restored /\ calls[x] = None
    BY <1>3, <1>5, <1>8 DEF Lost, InMemory, mem
  <2>2. rs[x] = rows[x]
    BY <1>4, <1>7, <2>1
  <2>3. CASE x \notin ended
    BY <1>10, <2>1, <2>2, <2>3 DEF Lost, InMemory
  <2>4. CASE x \in ended
    <3>1. rows[x] # None /\ rows[x].endedAt = None
      BY <1>10, <1>12, <1>13, <2>2, <2>4 DEF Lost, Finished
    <3>2. rows[x].status \notin {"accepted", "rejected", "ended"}
      BY <1>11, <1>12, <2>2, <2>4, <3>1 DEF Sound, EndedStatuses
    <3> QED
      BY <2>1, <3>1, <3>2 DEF Lost, Finished, InMemory
  <2> QED
    BY <2>3, <2>4
<1>18. StoreFaults = {} /\ ~warning => ~warning'
  BY <1>4, <1>9 DEF Outcomes
<1> QED
  BY <1>14, <1>15, <1>16, <1>17, <1>18 DEF Effects

\* Of a step: calls in memory stay as they are, those of S apart.
Touches(S) == \A x \in Calls : x \notin S /\ InMemory(x) => calls'[x] = calls[x]

LEMMA CommitTouches ==
  ASSUME NEW D \in SUBSET Calls, NEW new, DOMAIN new = D, Commit(new)
  PROVE  Touches(D)
<1>1. calls' = CallsAfter(new)
  BY DEF Commit
<1> QED
  BY <1>1 DEF CallsAfter, Touches

LEMMA CommitOneTouches ==
  ASSUME NEW c \in Calls, NEW call, CommitOne(c, call)
  PROVE  Touches({c})
<1> DEFINE new == [x \in {c} |-> call]
<1>1. DOMAIN new = {c} /\ {c} \in SUBSET Calls /\ Commit(new)
  BY DEF CommitOne
<1> HIDE DEF new
<1> QED
  BY <1>1, CommitTouches

LEMMA NothingTouches ==
  ASSUME UNCHANGED calls, NEW S
  PROVE  Touches(S)
  BY DEF Touches

LEMMA RegisterIncomingTouches ==
  ASSUME NEW c \in Calls, RegisterIncoming(c)
  PROVE  Touches({})
<1>1. Touches({c}) /\ ~InMemory(c)
  BY CommitOneTouches DEF RegisterIncoming
<1> QED
  BY <1>1 DEF Touches

LEMMA SetTranscriptTouches ==
  ASSUME NEW c \in Calls, SetTranscript(c)
  PROVE  Touches({c})
  BY CommitOneTouches DEF SetTranscript

LEMMA SettleTouches ==
  ASSUME NEW S \in SUBSET Calls, NEW status, Settle(S, status)
  PROVE  Touches(S)
<1>1. CASE UNCHANGED registryVars
  BY <1>1, NothingTouches DEF registryVars
<1>2. CASE SetStatus(S, status)
  <2> DEFINE moved == {c \in S : InMemory(c) /\ calls[c].status # status}
             new == [c \in moved |-> Moved(calls[c], status)]
  <2>1. DOMAIN new = moved /\ moved \in SUBSET Calls /\ Commit(new) /\ moved \subseteq S
    BY <1>2 DEF SetStatus
  <2> HIDE DEF moved, new
  <2>2. Touches(moved)
    BY <2>1, CommitTouches
  <2> QED
    BY <2>1, <2>2 DEF Touches
<1> QED
  BY <1>1, <1>2 DEF Settle

LEMMA EndTouches ==
  ASSUME NEW c \in Calls, NEW seconds, EndOnAir(c, seconds) \/ End(c)
  PROVE  Touches({c})
  BY CommitOneTouches, NothingTouches DEF EndOnAir, End, CloseSaved

LEMMA RestoreAndSweepTouches ==
  ASSUME NEW members \in SUBSET Calls, RestoreAndSweep(members)
  PROVE  Touches({})
<1>1. PICK readable \in Reached("read", members), described \in SUBSET members :
        calls' = CallsAfter([c \in Restorable(members, readable) |->
                               Recovered(GetCall(c, c \in readable), c \in described)])
  BY DEF RestoreAndSweep
<1>2. \A c \in Calls : InMemory(c) => c \notin Restorable(members, readable)
  BY DEF Restorable
<1> QED
  BY <1>1, <1>2 DEF CallsAfter, Touches

-----------------------------------------------------------------------------
(* A step about one call leaves the others alone. *)

\* Nothing moves about call c on the line or in the requests.
Apart(c) ==
  /\ phase'[c] = phase[c] /\ posts'[c] = posts[c]
  /\ \A p \in Commands : cmd'[p][c] = cmd[p][c]
  /\ c \in refused' <=> c \in refused
  /\ c \in boot'.members <=> c \in boot.members
  /\ restarts' = restarts

LEMMA EnterApart ==
  ASSUME PhaseType, PostsType, NEW d \in Calls, NEW to, NEW kinds, Enter(d, to, kinds)
  PROVE  /\ phase'[d] = to
         /\ \A k \in Kinds \ kinds : posts'[d][k] = posts[d][k]
         /\ \A c \in Calls \ {d} : phase'[c] = phase[c] /\ posts'[c] = posts[c]
<1>1. PICK n \in [kinds -> Copies] :
        posts' = [posts EXCEPT ![d] =
                    [k \in Kinds |-> IF k \in kinds THEN n[k] ELSE posts[d][k]]]
  BY DEF Enter
<1>2. phase' = [phase EXCEPT ![d] = to]
  BY DEF Enter
<1> QED
  BY <1>1, <1>2 DEF PhaseType, PostsType

LEMMA AnswerApart ==
  ASSUME PhaseType, PostsType, NEW d \in Calls, NEW kind \in Kinds, NEW from, NEW to,
         NEW kinds, Answer(d, kind, from, to, kinds)
  PROVE  /\ posts[d][kind] > 0
         /\ posts'[d][kind] = posts[d][kind] - 1
         /\ \A k \in Kinds \ (kinds \cup {kind}) : posts'[d][k] = posts[d][k]
         /\ \/ phase[d] = from /\ phase'[d] = to
            \/ /\ phase'[d] = phase[d] /\ (phase[d] # from \/ posts[d][kind] > 1)
               /\ \A k \in Kinds \ {kind} : posts'[d][k] = posts[d][k]
         /\ \A c \in Calls \ {d} : phase'[c] = phase[c] /\ posts'[c] = posts[c]
<1>1. posts[d][kind] \in 0..2
  BY DEF PostsType
<1>2. CASE /\ phase[d] = from
           /\ phase' = [phase EXCEPT ![d] = to]
           /\ posts' = [posts EXCEPT ![d] =
                [k \in Kinds |-> IF k = kind THEN posts[d][kind] - 1
                                 ELSE IF k \in kinds THEN 1 ELSE posts[d][k]]]
  BY <1>2 DEF Answer, PhaseType, PostsType
<1>3. CASE /\ phase[d] # from \/ posts[d][kind] - 1 > 0
           /\ posts' = [posts EXCEPT ![d][kind] = posts[d][kind] - 1]
           /\ UNCHANGED phase
  BY <1>1, <1>3 DEF Answer, PhaseType, PostsType
<1> QED
  BY <1>2, <1>3 DEF Answer

LEMMA HandledApart ==
  ASSUME PhaseType, PostsType, NEW d \in Calls, NEW kind \in Kinds, Handled(d, kind)
  PROVE  /\ posts[d][kind] > 0
         /\ posts'[d][kind] = posts[d][kind] - 1
         /\ \A k \in Kinds \ {kind} : posts'[d][k] = posts[d][k]
         /\ phase' = phase
         /\ \A c \in Calls \ {d} : posts'[c] = posts[c]
  BY DEF Handled, PostsType

LEMMA CmdApart ==
  ASSUME BackendType, NEW p \in Commands, NEW d \in Calls, NEW step,
         cmd' = [cmd EXCEPT ![p][d] = step]
  PROVE  /\ cmd'[p][d] = step
         /\ \A q \in Commands, c \in Calls : q # p \/ c # d => cmd'[q][c] = cmd[q][c]
  BY DEF BackendType

LEMMA LineApart ==
  ASSUME Typed, NEW d \in Calls, Line(d), NEW c \in Calls \ {d}
  PROVE  Apart(c)
<1>1. UNCHANGED <<cmd, boot, restarts, refused>>
  BY DEF Line, CallerDials, CallerSpeaks, CallerHangsUp, HostAnswers, DialEnds,
         GoodbyeEnds, backendVars
<1>2. \E to, kinds : Enter(d, to, kinds)
  BY DEF Line, CallerDials, CallerSpeaks, CallerHangsUp, HostAnswers, DialEnds, GoodbyeEnds
<1> QED
  BY <1>1, <1>2, EnterApart DEF Typed, Apart

LEMMA WebhooksApart ==
  ASSUME Typed, NEW d \in Calls, Webhooks(d), NEW c \in Calls \ {d}
  PROVE  Apart(c)
<1>1. UNCHANGED <<cmd, boot, restarts>> /\ (c \in refused' <=> c \in refused)
  BY DEF Webhooks, TurnAway, LetIn, SpeechResult, HoldWait, QueueLeft,
         QueueAbandoned, DialCompletes, DialComplete, CallOver, backendVars
<1>2. \/ \E to, kinds : Enter(d, to, kinds)
      \/ \E kind \in Kinds : \E from, to, kinds : Answer(d, kind, from, to, kinds)
      \/ \E kind \in Kinds : Handled(d, kind)
  BY DEF Webhooks, TurnAway, LetIn, SpeechResult, HoldWait, QueueLeft,
         QueueAbandoned, DialCompletes, DialComplete, CallOver, Kinds
<1> QED
  BY <1>1, <1>2, EnterApart, AnswerApart, HandledApart DEF Typed, Apart

LEMMA CommandApart ==
  ASSUME Typed, NEW p \in Commands, NEW d \in Calls, Decide(p, d) \/ Request(p, d),
         NEW c \in Calls \ {d}
  PROVE  Apart(c)
<1>1. UNCHANGED <<boot, restarts, refused>>
  BY DEF Decide, Request, CarryOut, Undelivered, Probe, Decided, lineVars
<1>2. \E step : cmd' = [cmd EXCEPT ![p][d] = step]
  BY DEF Decide, Request, CarryOut, Undelivered, Probe, Decided
<1>3. UNCHANGED <<phase, posts>> \/ \E to, kinds : Enter(d, to, kinds)
  BY DEF Decide, Request, CarryOut, Undelivered, Probe, Decided, lineVars
<1> QED
  BY <1>1, <1>2, <1>3, CmdApart, EnterApart DEF Typed, Apart

\* What the webhooks of a call do to the registry.
LEMMA WebhooksEffects ==
  ASSUME Typed, NEW d \in Calls, Webhooks(d)
  PROVE  Effects({d}, {}) /\ Touches({d}) /\ Brings({d})
<1> USE DEF Typed
<1>1. ASSUME UNCHANGED registryVars \/ \E seconds \in Seconds \cup {None} :
                                          EndOnAir(d, seconds) \/ End(d)
      PROVE  Effects({d}, {}) /\ Touches({d}) /\ Brings({d})
  BY <1>1, NoEffects, NothingTouches, EndEffects, EndTouches
     DEF Effects, Brings, registryVars
<1>2. ASSUME RegisterIncoming(d)
      PROVE  Effects({d}, {}) /\ Touches({d}) /\ Brings({d})
  BY <1>2, RegisterIncomingEffects, RegisterIncomingTouches, RegisterIncomingBrings
     DEF Touches
<1>3. ASSUME SetTranscript(d)
      PROVE  Effects({d}, {}) /\ Touches({d}) /\ Brings({d})
  BY <1>3, SetTranscriptEffects, SetTranscriptTouches, SetTranscriptBrings DEF Brings
<1>4. \/ UNCHANGED registryVars \/ \E seconds \in Seconds \cup {None} :
                                      EndOnAir(d, seconds) \/ End(d)
      \/ RegisterIncoming(d) \/ SetTranscript(d)
  BY DEF Webhooks, TurnAway, LetIn, SpeechResult, HoldWait, QueueLeft,
         QueueAbandoned, DialCompletes, DialComplete, CallOver
<1> QED
  BY <1>1, <1>2, <1>3, <1>4

\* What a request does to it.
LEMMA CommandEffects ==
  ASSUME Typed, NEW p \in Commands, NEW d \in Calls, Decide(p, d) \/ Request(p, d)
  PROVE  /\ Effects({}, IF p \in Accepts THEN At(p, "ok") ELSE {})
         /\ Touches(At(p, "ok")) /\ Brings({})
<1>1. CASE UNCHANGED registryVars
  BY <1>1, NoEffects, NothingTouches DEF Effects, registryVars
<1>2. CASE Decided(p, d)
  <2> DEFINE status == IF p \in Accepts THEN "accepted" ELSE "rejected"
  <2>1. Settle(At(p, "ok"), status) /\ At(p, "ok") \in SUBSET Calls
    BY <1>2 DEF Decided, At
  <2>2. status \in TerminalStatuses /\ (status = "accepted" <=> p \in Accepts)
    BY DEF TerminalStatuses
  <2> HIDE DEF status
  <2> QED
    BY <2>1, <2>2, SettleEffects, SettleTouches DEF Typed
<1> QED
  BY <1>1, <1>2 DEF Decide, Request, CarryOut, Undelivered, Probe

\* And the steps that close the line.
LEMMA ClosingEffects ==
  ASSUME Typed, OpenLine \/ CloseLine \/ Drained \/ DrainTimesOut
  PROVE  Effects({}, {}) /\ Touches(At(Drain, "ok")) /\ Brings({})
<1>1. CASE UNCHANGED registryVars
  BY <1>1, NoEffects, NothingTouches DEF registryVars
<1>2. CASE Drained
  <2>1. Settle(At(Drain, "ok"), "ended") /\ At(Drain, "ok") \in SUBSET Calls
    BY <1>2 DEF Drained, At
  <2> QED
    BY <2>1, SettleEffects, SettleTouches DEF TerminalStatuses, Typed
<1> QED
  BY <1>1, <1>2 DEF OpenLine, CloseLine, DrainTimesOut

-----------------------------------------------------------------------------
(* Nobody is said to be accepted who was not dialled. *)

\* An accept that Twilio has confirmed has dialled its call.
ConfirmedIsDialled == \A p \in Accepts, c \in Calls : cmd[p][c] = "ok" => c \in dialled

DialledInv == Typed /\ ConfirmedIsDialled /\ AcceptedWasDialled

\* Only a confirmed accept marks a call.
LEMMA MarkedDialled ==
  ASSUME DialledInv, NEW T, Effects({}, T), T \subseteq dialled, dialled \subseteq dialled'
  PROVE  AcceptedWasDialled'
<1>1. \A c \in Calls : Marked(c) => c \in dialled
  BY DEF DialledInv, AcceptedWasDialled, Marked
<1>2. \A c \in Calls : Marked(c)' => c \in dialled'
  BY <1>1 DEF Effects
<1> QED
  BY <1>2 DEF AcceptedWasDialled, Marked

LEMMA NextDialled == DialledInv /\ [Next]_vars => DialledInv'
<1> SUFFICES ASSUME DialledInv, [Next]_vars
             PROVE  DialledInv'
  OBVIOUS
<1>0. Typed /\ Typed'
  BY NextTyped DEF DialledInv
<1>1. ASSUME NEW S, Effects(S, {}), UNCHANGED <<cmd, dialled>>
      PROVE  DialledInv'
  <2>1. \A c \in Calls : Marked(c)' => Marked(c)
    BY <1>1 DEF Effects
  <2> QED
    BY <1>0, <1>1, <2>1
       DEF DialledInv, ConfirmedIsDialled, AcceptedWasDialled, Marked
<1>2. ASSUME NEW c \in Calls, Line(c)
      PROVE  DialledInv'
  <2>1. UNCHANGED <<registryVars, cmd, dialled>>
    BY <1>2 DEF Line, CallerDials, CallerSpeaks, CallerHangsUp, HostAnswers, DialEnds,
                GoodbyeEnds, backendVars
  <2> QED
    BY <1>1, <2>1, NoEffects
<1>3. ASSUME NEW c \in Calls, Webhooks(c)
      PROVE  DialledInv'
  <2>1. UNCHANGED <<cmd, dialled>>
    BY <1>3 DEF Webhooks, TurnAway, LetIn, SpeechResult, HoldWait, QueueLeft,
                QueueAbandoned, DialCompletes, DialComplete, CallOver, backendVars
  <2> QED
    BY <1>0, <1>1, <1>3, <2>1, WebhooksEffects
<1>4. ASSUME NEW p \in Commands, NEW c \in Calls, Decide(p, c) \/ Request(p, c)
      PROVE  DialledInv'
  <2> DEFINE T == IF p \in Accepts THEN At(p, "ok") ELSE {}
  <2>1. Effects({}, T)
    BY <1>0, <1>4, CommandEffects
  <2>2. T \subseteq dialled
    BY DEF At, DialledInv, ConfirmedIsDialled
  <2>3. dialled \subseteq dialled'
    BY <1>4 DEF Decide, Request, CarryOut, Undelivered, Probe, Decided, lineVars
  <2> HIDE DEF T
  <2>4. AcceptedWasDialled'
    BY <2>1, <2>2, <2>3, MarkedDialled
  <2>5. ASSUME NEW q \in Accepts, NEW x \in Calls, cmd'[q][x] = "ok"
        PROVE  x \in dialled'
    <3>1. CASE cmd[q][x] = "ok"
      BY <2>3, <3>1 DEF DialledInv, ConfirmedIsDialled
    <3>2. CASE cmd[q][x] # "ok"
      <4>1. q = p /\ x = c
        <5>1. \E step : cmd' = [cmd EXCEPT ![p][c] = step]
          BY <1>4 DEF Decide, Request, CarryOut, Undelivered, Probe, Decided
        <5> QED
          BY <1>0, <2>5, <3>2, <5>1, CmdApart DEF Typed, Commands
      <4>2. CarryOut(p, c)
        BY <1>0, <1>4, <2>5, <3>2, <4>1, CmdApart
           DEF Decide, Request, Undelivered, Probe, Decided, Typed
      <4> QED
        BY <1>0, <2>5, <4>1, <4>2, CmdApart DEF CarryOut, Typed
    <3> QED
      BY <3>1, <3>2
  <2> QED
    BY <1>0, <2>4, <2>5 DEF DialledInv, ConfirmedIsDialled
<1>5. ASSUME OpenLine \/ CloseLine \/ Drained \/ DrainTimesOut
      PROVE  DialledInv'
  <2>1. UNCHANGED dialled
    BY <1>5 DEF OpenLine, CloseLine, Drained, DrainTimesOut, lineVars
  <2>2. \A q \in Accepts : cmd'[q] = cmd[q]
    BY <1>0, <1>5, CommandsAssumption
       DEF OpenLine, CloseLine, Drained, DrainTimesOut, Typed, BackendType, Commands
  <2>3. AcceptedWasDialled'
    BY <1>0, <1>5, <2>1, ClosingEffects, MarkedDialled
  <2> QED
    BY <1>0, <2>1, <2>2, <2>3 DEF DialledInv, ConfirmedIsDialled
<1>6. CASE Recovery
  <2>1. UNCHANGED <<cmd, dialled>>
    BY <1>6 DEF Recovery, ListQueue, FetchDetails, Recover, RecoverFails, lineVars
  <2>2. CASE Recover
    BY <1>0, <1>1, <2>1, <2>2, RestoreAndSweepEffects DEF Recover, Typed, BackendType
  <2>3. CASE UNCHANGED registryVars
    BY <1>1, <2>1, <2>3, NoEffects
  <2> QED
    BY <1>6, <2>2, <2>3 DEF Recovery, ListQueue, FetchDetails, RecoverFails
<1>7. ASSUME NEW lost, Reboot(lost)
      PROVE  DialledInv'
  <2>1. \A c \in Calls : Marked(c)' => Marked(c)
    BY <1>7 DEF Reboot, Restart, Marked, InMemory
  <2>2. \A p \in Accepts, c \in Calls : cmd'[p][c] # "ok"
    BY <1>7 DEF Reboot, NoCommands, Commands
  <2> QED
    BY <1>0, <1>7, <2>1, <2>2
       DEF Reboot, DialledInv, ConfirmedIsDialled, AcceptedWasDialled, Marked
<1>8. CASE UNCHANGED vars
  BY <1>1, <1>8, NoEffects DEF vars, backendVars, lineVars
<1> QED
  BY <1>2, <1>3, <1>4, <1>5, <1>6, <1>7, <1>8 DEF Next

\* "The dashboard must never claim something the phone line didn't do": a call
\* said to be accepted, in memory or in history, was bridged towards the host,
\* whatever crosses, fails, is lost or restarts.
THEOREM AcceptsWereDialled == Spec => []AcceptedWasDialled
<1>1. Init => DialledInv
  BY InitTyped DEF Init, DialledInv, ConfirmedIsDialled, AcceptedWasDialled,
                   InMemory, NoCommands, Commands
<1>2. DialledInv => AcceptedWasDialled
  BY DEF DialledInv
<1> QED
  BY <1>1, <1>2, NextDialled, PTL DEF Spec

-----------------------------------------------------------------------------
(* Calls that have not rung yet, and calls that have got no further than the *)
(* hold queue.                                                               *)

\* Nothing has been heard of the call, or asked about it.
Untouched(c) ==
  /\ Unregistered(c)
  /\ c \notin boot.members /\ c \notin refused
  /\ \A p \in Commands : cmd[p][c] = "idle"

Fresh(c) == phase[c] = "none" => Untouched(c) /\ posts[c] = NoPosts

Early == {"none", "ringing", "greeting", "spoken", "queued"}
Parting == {"abandoned", "leave", "talked", "no-bridge", "status"}

\* No webhook says that the call is over or on its way out, and no request about
\* it has been carried out.
Coming(c) ==
  phase[c] \in Early =>
    /\ \A k \in Parting : posts[c][k] = 0
    /\ \A p \in Commands : cmd[p][c] # "ok"

LineInv == Typed /\ \A c \in Calls : Fresh(c) /\ Coming(c)

\* A call that a step is not about.
LEMMA ApartComing ==
  ASSUME LineInv, NEW c \in Calls, Apart(c), Unregistered(c) => Unregistered(c)'
  PROVE  Fresh(c)' /\ Coming(c)'
  BY DEF LineInv, Apart, Fresh, Untouched, Coming

LEMMA LineLine ==
  ASSUME LineInv, NEW d \in Calls, Line(d)
  PROVE  \A c \in Calls : Fresh(c)' /\ Coming(c)'
<1>1. Typed /\ Fresh(d) /\ Coming(d)
  BY DEF LineInv
<1>2. UNCHANGED <<registryVars, cmd>>
  BY DEF Line, CallerDials, CallerSpeaks, CallerHangsUp, HostAnswers, DialEnds,
         GoodbyeEnds, backendVars
<1>3. \A c \in Calls \ {d} : Fresh(c)' /\ Coming(c)'
  BY <1>1, <1>2, LineApart, ApartComing DEF registryVars, Unregistered, InMemory
<1>4. phase'[d] # "none"
  BY <1>1, EnterApart
     DEF Line, CallerDials, CallerSpeaks, CallerHangsUp, HostAnswers, DialEnds,
         GoodbyeEnds, Typed
<1>5. CASE CallerDials(d)
  <2>1. /\ \A k \in Kinds \ {"incoming"} : posts'[d][k] = posts[d][k]
        /\ phase[d] = "none"
    BY <1>1, <1>5, EnterApart DEF CallerDials, Typed
  <2>2. Coming(d)'
    BY <1>1, <1>2, <2>1 DEF Coming, Fresh, Untouched, NoPosts, Parting, Kinds, Early
  <2> QED
    BY <1>3, <1>4, <2>2 DEF Fresh
<1>6. CASE CallerSpeaks(d)
  <2>1. /\ \A k \in Kinds \ {"speech"} : posts'[d][k] = posts[d][k]
        /\ phase[d] = "greeting"
    BY <1>1, <1>6, EnterApart DEF CallerSpeaks, Typed
  <2>2. Coming(d)'
    BY <1>1, <1>2, <2>1 DEF Coming, Parting, Kinds, Early
  <2> QED
    BY <1>3, <1>4, <2>2 DEF Fresh
<1>7. CASE CallerHangsUp(d) \/ HostAnswers(d) \/ DialEnds(d) \/ GoodbyeEnds(d)
  <2>1. phase'[d] \notin Early
    BY <1>1, <1>7, EnterApart
       DEF CallerHangsUp, HostAnswers, DialEnds, GoodbyeEnds, Typed, Early
  <2> QED
    BY <1>3, <2>1 DEF Fresh, Coming, Early
<1> QED
  BY <1>5, <1>6, <1>7 DEF Line

LEMMA LineWebhooks ==
  ASSUME LineInv, NEW d \in Calls, Webhooks(d)
  PROVE  \A c \in Calls : Fresh(c)' /\ Coming(c)'
<1>1. Typed /\ Fresh(d) /\ Coming(d)
  BY DEF LineInv
<1>2. UNCHANGED cmd
  BY DEF Webhooks, TurnAway, LetIn, SpeechResult, HoldWait, QueueLeft,
         QueueAbandoned, DialCompletes, DialComplete, CallOver, backendVars
<1>3. \A c \in Calls \ {d} : Fresh(c)' /\ Coming(c)'
  <2>1. Effects({d}, {})
    BY <1>1, WebhooksEffects
  <2>2. \A c \in Calls \ {d} : Unregistered(c) => Unregistered(c)'
    BY <2>1 DEF Effects
  <2> QED
    BY <1>1, <2>2, WebhooksApart, ApartComing
<1>4. /\ phase[d] # "none" /\ phase'[d] # "none"
      /\ phase'[d] \in Early => phase[d] \in Early
      /\ \A k \in Parting : posts[d][k] = 0 /\ phase'[d] \in Early => posts'[d][k] = 0
  <2> USE <1>1 DEF Typed
  <2>1. \A k \in Kinds : NoPosts[k] = 0 /\ (posts[d][k] > 0 => phase[d] # "none")
    BY DEF Fresh, NoPosts
  <2>2. CASE TurnAway(d)
    BY <2>1, <2>2, AnswerApart DEF TurnAway, Kinds, Parting, Early
  <2>3. CASE LetIn(d)
    BY <2>1, <2>3, AnswerApart DEF LetIn, Kinds, Parting, Early
  <2>4. CASE SpeechResult(d)
    BY <2>1, <2>4, AnswerApart DEF SpeechResult, Kinds, Parting, Early
  <2>5. CASE HoldWait(d)
    BY <2>5, EnterApart DEF HoldWait, Early
  <2>6. CASE QueueLeft(d)
    BY <2>1, <2>6, AnswerApart DEF QueueLeft, Kinds, Parting, Early
  <2>7. CASE QueueAbandoned(d)
    BY <2>1, <2>7, HandledApart DEF QueueAbandoned, Kinds, Parting, Early
  <2>8. CASE DialCompletes(d)
    <3>1. PICK kind \in {"talked", "no-bridge"} : \E seconds : DialComplete(d, kind, seconds)
      BY <2>8 DEF DialCompletes
    <3> QED
      BY <2>1, <3>1, AnswerApart DEF DialComplete, Kinds, Parting, Early
  <2>9. CASE CallOver(d)
    BY <2>1, <2>9, HandledApart DEF CallOver, Kinds, Parting, Early
  <2> QED
    BY <2>2, <2>3, <2>4, <2>5, <2>6, <2>7, <2>8, <2>9 DEF Webhooks
<1>5. Fresh(d)' /\ Coming(d)'
  BY <1>1, <1>2, <1>4 DEF Fresh, Coming
<1> QED
  BY <1>3, <1>5

LEMMA LineCommand ==
  ASSUME LineInv, NEW p \in Commands, NEW d \in Calls, Decide(p, d) \/ Request(p, d)
  PROVE  \A c \in Calls : Fresh(c)' /\ Coming(c)'
<1>1. Typed /\ Fresh(d) /\ Coming(d)
  BY DEF LineInv
<1>2. \A c \in Calls : Unregistered(c) => Unregistered(c)'
  BY <1>1, CommandEffects DEF Effects
<1>3. \A c \in Calls \ {d} : Fresh(c)' /\ Coming(c)'
  BY <1>1, <1>2, CommandApart, ApartComing
<1>4. phase[d] # "none"
  BY <1>1 DEF Decide, Request, CarryOut, Undelivered, Probe, Decided, Fresh, Untouched,
              Unregistered
<1>5. CASE CarryOut(p, d) /\ Live(d)
  <2>1. phase'[d] \notin Early
    BY <1>1, <1>5, EnterApart DEF CarryOut, Typed, Early
  <2> QED
    BY <1>3, <2>1 DEF Fresh, Coming, Early
<1>6. CASE CarryOut(p, d) /\ ~Live(d)
  <2>1. phase'[d] = phase[d] /\ phase[d] \notin Early
    BY <1>4, <1>6 DEF CarryOut, Live, Early
  <2> QED
    BY <1>3, <2>1 DEF Fresh, Coming, Early
<1>7. CASE Decide(p, d) \/ Undelivered(p, d) \/ Probe(p, d) \/ Decided(p, d)
  <2>1. phase'[d] = phase[d] /\ posts'[d] = posts[d]
    BY <1>7 DEF Decide, Undelivered, Probe, Decided, lineVars
  <2>2. PICK step : cmd' = [cmd EXCEPT ![p][d] = step] /\ (step = "ok" => ~Live(d))
    BY <1>7 DEF Decide, Undelivered, Probe, Decided
  <2>3. \A q \in Commands : cmd'[q][d] = "ok" => cmd[q][d] = "ok" \/ ~Live(d)
    BY <1>1, <2>2, CmdApart DEF Typed
  <2> QED
    BY <1>1, <1>3, <1>4, <2>1, <2>3 DEF Fresh, Coming, Live, Early
<1> QED
  BY <1>5, <1>6, <1>7 DEF Request

LEMMA LineClosing ==
  ASSUME LineInv, OpenLine \/ CloseLine \/ Drained \/ DrainTimesOut, NEW c \in Calls
  PROVE  Fresh(c)' /\ Coming(c)'
<1>1. Typed /\ Fresh(c) /\ Coming(c)
  BY DEF LineInv
<1>2. Unregistered(c) => Unregistered(c)'
  BY <1>1, ClosingEffects DEF Effects
<1>3. phase' = phase /\ posts' = posts /\ boot' = boot /\ refused' = refused
  BY DEF OpenLine, CloseLine, Drained, DrainTimesOut, lineVars
<1>4. \A q \in Commands \ {Drain} : cmd'[q] = cmd[q]
  BY <1>1 DEF OpenLine, CloseLine, Drained, DrainTimesOut, Typed, BackendType
<1>5. cmd'[Drain][c] # cmd[Drain][c] =>
        cmd'[Drain][c] = "idle" \/ (cmd'[Drain][c] = "sent" /\ InMemory(c))
  BY <1>1, DrainIsCommand
     DEF OpenLine, CloseLine, Drained, DrainTimesOut, Typed, BackendType, OpenCalls,
         NoCommands
<1> QED
  BY <1>1, <1>2, <1>3, <1>4, <1>5 DEF Fresh, Coming, Untouched, Unregistered

LEMMA LineBoot ==
  ASSUME LineInv, NEW lost, Recovery \/ Reboot(lost), NEW c \in Calls
  PROVE  Fresh(c)' /\ Coming(c)'
<1>1. Typed /\ Fresh(c) /\ Coming(c)
  BY DEF LineInv
<1>2. CASE Recovery
  <2>1. phase' = phase /\ posts' = posts /\ cmd' = cmd /\ refused' = refused
    BY <1>2 DEF Recovery, ListQueue, FetchDetails, Recover, RecoverFails, lineVars
  <2>2. phase[c] = "none" /\ c \notin boot.members => c \notin boot'.members
    BY <1>2 DEF Recovery, ListQueue, FetchDetails, Recover, RecoverFails
  <2>3. c \notin boot.members /\ Unregistered(c) => Unregistered(c)'
    <3>1. CASE Recover
      BY <1>1, <3>1, RestoreAndSweepEffects DEF Recover, Effects, Typed, BackendType
    <3>2. CASE UNCHANGED registryVars
      BY <3>2 DEF registryVars, Unregistered, InMemory
    <3> QED
      BY <1>2, <3>1, <3>2 DEF Recovery, ListQueue, FetchDetails, RecoverFails
  <2> QED
    BY <1>1, <2>1, <2>2, <2>3 DEF Fresh, Coming, Untouched
<1>3. CASE Reboot(lost)
  <2>1. \A p \in Commands : cmd'[p][c] = "idle"
    BY <1>3 DEF Reboot, NoCommands
  <2>2. Unregistered(c) => Unregistered(c)'
    BY <1>3 DEF Reboot, Restart, Unregistered, InMemory
  <2>3. phase'[c] = phase[c] \/ phase'[c] = "over"
    BY <1>1, <1>3 DEF Reboot, Typed, PhaseType
  <2>4. posts'[c] = posts[c] \/ posts'[c] = NoPosts
    BY <1>3 DEF Reboot
  <2>5. boot'.members = {} /\ refused' = refused
    BY <1>3 DEF Reboot, NotAsked
  <2> QED
    BY <1>1, <2>1, <2>2, <2>3, <2>4, <2>5
       DEF Fresh, Coming, Untouched, NoPosts, Early, Parting, Kinds
<1> QED
  BY <1>2, <1>3

LEMMA NextLine == LineInv /\ [Next]_vars => LineInv'
<1> SUFFICES ASSUME LineInv, [Next]_vars
             PROVE  LineInv'
  OBVIOUS
<1>1. Typed'
  BY NextTyped DEF LineInv
<1>2. CASE UNCHANGED vars
  BY <1>1, <1>2
     DEF vars, registryVars, backendVars, lineVars, LineInv, Fresh, Coming, Untouched,
         Unregistered, InMemory
<1> QED
  BY <1>1, <1>2, LineLine, LineWebhooks, LineCommand, LineClosing, LineBoot
     DEF Next, LineInv

LEMMA InitLine == Init => LineInv
  BY InitTyped
     DEF Init, LineInv, Fresh, Coming, Untouched, Unregistered, InMemory, NotAsked,
         NoCommands, NoPosts, Parting, Kinds

-----------------------------------------------------------------------------
(* Whoever waits in the hold queue is on the dashboard as waiting, with the  *)
(* words they said, until the first restart.                                 *)

Heard == {"greeting", "spoken", "queued"}

\* A call that is let in is in memory and undecided; by the time it is in the
\* hold queue, it is on hold with its words.
Held(c) ==
  /\ phase[c] \in Heard => InMemory(c)
  /\ phase[c] \in Heard \cup {"ringing"} /\ InMemory(c) => IsOpen(calls[c])
  /\ phase[c] = "queued" =>
       calls[c].status = "on-hold" /\ calls[c].transcript = Speech[c]

HoldInv == LineInv /\ (restarts = 0 => \A c \in Calls : Held(c))

\* A call in memory stays as it is; one that is not enters at most undecided.
Kept(c) == IF InMemory(c) THEN calls'[c] = calls[c]
           ELSE calls'[c] # None => IsOpen(calls'[c])

LEMMA KeptHeld ==
  ASSUME NEW c \in Calls, Held(c), Kept(c), phase'[c] = phase[c]
  PROVE  Held(c)'
  BY DEF Held, Kept, InMemory, Heard, IsOpen

LEMMA UntouchedKept ==
  ASSUME NEW S, NEW B, Touches(S), Brings(B), NEW c \in Calls \ S, c \notin B
  PROVE  Kept(c)
  BY DEF Touches, Brings, Kept

LEMMA RestoreAndSweepKept ==
  ASSUME NEW members \in SUBSET Calls, RestoreAndSweep(members), NEW c \in Calls
  PROVE  Kept(c)
<1>1. PICK readable \in Reached("read", members), described \in SUBSET members :
        calls' = CallsAfter([x \in Restorable(members, readable) |->
                               Recovered(GetCall(x, x \in readable), x \in described)])
  BY DEF RestoreAndSweep
<1>2. InMemory(c) => c \notin Restorable(members, readable)
  BY DEF Restorable
<1>3. IsOpen(Recovered(GetCall(c, c \in readable), c \in described))
  BY DEF Recovered, NewCall, IsOpen, TerminalStatuses
<1> QED
  BY <1>1, <1>2, <1>3 DEF CallsAfter, Kept, InMemory

\* A speech result makes an undecided call an answered one.
LEMMA SetTranscriptHeld ==
  ASSUME RegistryInv, NEW c \in Calls, SetTranscript(c), InMemory(c) => IsOpen(calls[c])
  PROVE  /\ calls'[c] # None /\ IsOpen(calls'[c])
         /\ calls'[c].status = "on-hold" /\ calls'[c].transcript = Speech[c]
<1>1. PICK readable \in Outcomes("read") :
        LET row  == GetCall(c, readable)
            call == IF InMemory(c) THEN calls[c] ELSE Revived(row)
        IN  CommitOne(c, [call EXCEPT
                 !.transcript = Speech[c],
                 !.status     = IF @ = "screening" THEN "on-hold" ELSE @])
  BY DEF SetTranscript
<1> DEFINE call == IF InMemory(c) THEN calls[c] ELSE Revived(GetCall(c, readable))
           heard == [call EXCEPT
                       !.transcript = Speech[c],
                       !.status     = IF @ = "screening" THEN "on-hold" ELSE @]
           new == [x \in {c} |-> heard]
<1>2. call \in Call /\ call.status \in {"screening", "on-hold"}
  <2>1. CASE InMemory(c)
    BY <2>1, InMemoryInPlay DEF Call, CallStatus, IsOpen, TerminalStatuses
  <2>2. CASE ~InMemory(c)
    <3>1. readable \in BOOLEAN
      BY DEF Outcomes
    <3>2. GetCall(c, readable) \in Call \cup {None} /\ NewCall \in Call
      BY <3>1, GetCallSound, NewCallCommittable DEF Committable
    <3> HIDE DEF call
    <3>3. call = Revived(GetCall(c, readable))
      BY <2>2 DEF call
    <3> QED
      BY <3>2, <3>3 DEF Revived, Call, CallStatus
  <2> QED
    BY <2>1, <2>2
<1>3. heard \in Call /\ heard.status = "on-hold" /\ heard.transcript = Speech[c]
  BY <1>2 DEF Call, CallStatus, Texts
<1>4. calls' = CallsAfter(new)
  BY <1>1 DEF CommitOne, Commit
<1>5. new[c] = heard /\ DOMAIN new = {c}
  OBVIOUS
<1> HIDE DEF heard, new
<1>6. calls'[c] = heard
  BY <1>3, <1>4, <1>5 DEF CallsAfter, EndedStatuses
<1> QED
  BY <1>3, <1>6, NoneIsNoCall DEF IsOpen, TerminalStatuses

LEMMA HoldLine ==
  ASSUME HoldInv, restarts = 0, NEW d \in Calls, Line(d), NEW c \in Calls
  PROVE  Held(c)'
<1>1. Typed /\ Fresh(d) /\ Held(c) /\ Held(d)
  BY DEF HoldInv, LineInv
<1>2. calls' = calls
  BY DEF Line, CallerDials, CallerSpeaks, CallerHangsUp, HostAnswers, DialEnds,
         GoodbyeEnds, registryVars
<1>3. CASE c # d
  BY <1>1, <1>2, <1>3, LineApart, KeptHeld DEF Apart, Kept, InMemory
<1>4. CASE CallerDials(d)
  <2>1. phase[d] = "none" /\ phase'[d] = "ringing" /\ ~InMemory(d)
    BY <1>1, <1>4, EnterApart DEF CallerDials, Typed, Fresh, Untouched, Unregistered
  <2>2. Held(d)'
    BY <1>2, <2>1 DEF Held, Heard, InMemory
  <2> QED
    BY <1>3, <2>2
<1>5. CASE CallerSpeaks(d)
  <2>1. phase[d] = "greeting" /\ phase'[d] = "spoken"
    BY <1>1, <1>5, EnterApart DEF CallerSpeaks, Typed
  <2>2. Held(d)'
    BY <1>1, <1>2, <2>1 DEF Held, Heard, InMemory, IsOpen
  <2> QED
    BY <1>3, <2>2
<1>6. CASE CallerHangsUp(d) \/ HostAnswers(d) \/ DialEnds(d) \/ GoodbyeEnds(d)
  <2>1. phase'[d] \notin Heard \cup {"ringing"}
    BY <1>1, <1>6, EnterApart
       DEF CallerHangsUp, HostAnswers, DialEnds, GoodbyeEnds, Typed, Heard
  <2>2. Held(d)'
    BY <2>1 DEF Held, Heard
  <2> QED
    BY <1>3, <2>2
<1> QED
  BY <1>4, <1>5, <1>6 DEF Line

LEMMA HoldWebhooks ==
  ASSUME HoldInv, restarts = 0, NEW d \in Calls, Webhooks(d), NEW c \in Calls
  PROVE  Held(c)'
<1>1. Typed /\ Held(c) /\ Held(d) /\ Coming(d)
  BY DEF HoldInv, LineInv
<1> USE DEF Typed
<1>2. CASE c # d
  <2>1. Kept(c)
    BY <1>1, <1>2, WebhooksEffects, UntouchedKept
  <2> QED
    BY <1>1, <1>2, <2>1, WebhooksApart, KeptHeld DEF Apart
<1>3. CASE TurnAway(d)
  <2>1. calls' = calls /\ (phase'[d] = phase[d] \/ phase'[d] = "over")
    BY <1>1, <1>3, AnswerApart DEF TurnAway, registryVars, Kinds
  <2>2. Held(d)'
    BY <1>1, <2>1 DEF Held, Heard, InMemory, IsOpen
  <2> QED
    BY <1>2, <2>2
<1>4. CASE LetIn(d)
  <2>1. \/ phase'[d] = phase[d]
        \/ phase[d] = "ringing" /\ phase'[d] = "greeting"
    BY <1>1, <1>4, AnswerApart DEF LetIn, Kinds
  <2>2. CASE RegisterIncoming(d)
    <3>1. calls'[d] = NewCall /\ ~InMemory(d)
      BY <2>2 DEF RegisterIncoming, CommitOne, Commit, CallsAfter, NewCall, EndedStatuses
    <3>2. IsOpen(NewCall) /\ NewCall # None
      BY NewCallCommittable, NoneIsNoCall DEF NewCall, IsOpen, TerminalStatuses, Committable
    <3>3. Held(d)'
      BY <1>1, <2>1, <3>1, <3>2 DEF Held, Heard, InMemory, IsOpen
    <3> QED
      BY <1>2, <3>3
  <2>3. CASE InMemory(d) /\ UNCHANGED registryVars
    <3>1. Held(d)'
      BY <1>1, <2>1, <2>3 DEF Held, Heard, InMemory, IsOpen, registryVars
    <3> QED
      BY <1>2, <3>1
  <2> QED
    BY <1>4, <2>2, <2>3 DEF LetIn
<1>5. CASE SpeechResult(d)
  <2>1. \/ phase'[d] = phase[d]
        \/ phase[d] = "spoken" /\ phase'[d] = "queued"
    BY <1>1, <1>5, AnswerApart DEF SpeechResult, Kinds
  <2>2. CASE phase'[d] \notin Heard \cup {"ringing"}
    <3>1. Held(d)'
      BY <2>2 DEF Held, Heard
    <3> QED
      BY <1>2, <3>1
  <2>3. CASE phase'[d] \in Heard \cup {"ringing"}
    <3>1. CASE SetTranscript(d)
      <4>1. InMemory(d) => IsOpen(calls[d])
        BY <1>1, <2>1, <2>3 DEF Held, Heard
      <4>2. /\ calls'[d] # None /\ IsOpen(calls'[d])
            /\ calls'[d].status = "on-hold" /\ calls'[d].transcript = Speech[d]
        BY <1>1, <3>1, <4>1, SetTranscriptHeld
      <4>3. Held(d)'
        BY <4>2 DEF Held, InMemory, IsOpen
      <4> QED
        BY <1>2, <4>3
    <3>2. CASE ~InMemory(d) /\ UNCHANGED registryVars
      <4>1. Held(d)'
        BY <1>1, <2>1, <3>2 DEF Held, Heard, InMemory, registryVars
      <4> QED
        BY <1>2, <4>1
    <3> QED
      BY <1>5, <3>1, <3>2 DEF SpeechResult
  <2> QED
    BY <2>2, <2>3
<1>6. CASE HoldWait(d) \/ QueueLeft(d) \/ QueueAbandoned(d) \/ DialCompletes(d) \/ CallOver(d)
  <2>1. phase'[d] \notin Heard \cup {"ringing"}
    <3>1. CASE HoldWait(d)
      BY <1>1, <3>1, EnterApart DEF HoldWait, Heard
    <3>2. CASE QueueLeft(d)
      BY <1>1, <3>2, AnswerApart DEF QueueLeft, Kinds, Parting, Coming, Early, Heard
    <3>3. CASE QueueAbandoned(d)
      BY <1>1, <3>3, HandledApart DEF QueueAbandoned, Kinds, Parting, Coming, Early, Heard
    <3>4. CASE DialCompletes(d)
      <4>1. PICK kind \in {"talked", "no-bridge"} : \E seconds : DialComplete(d, kind, seconds)
        BY <3>4 DEF DialCompletes
      <4> QED
        BY <1>1, <4>1, AnswerApart DEF DialComplete, Kinds, Parting, Coming, Early, Heard
    <3>5. CASE CallOver(d)
      BY <1>1, <3>5, HandledApart DEF CallOver, Kinds, Parting, Coming, Early, Heard
    <3> QED
      BY <1>6, <3>1, <3>2, <3>3, <3>4, <3>5
  <2>2. Held(d)'
    BY <2>1 DEF Held, Heard
  <2> QED
    BY <1>2, <2>2
<1> QED
  BY <1>3, <1>4, <1>5, <1>6 DEF Webhooks

LEMMA HoldCommand ==
  ASSUME HoldInv, restarts = 0, NEW p \in Commands, NEW d \in Calls,
         Decide(p, d) \/ Request(p, d), NEW c \in Calls
  PROVE  Held(c)'
<1>1. Typed /\ Fresh(d) /\ Held(c) /\ Coming(c)
  BY DEF HoldInv, LineInv
<1>2. phase'[c] = phase[c] \/ phase'[c] \in {"dialling", "goodbye"}
  <2>1. \/ UNCHANGED phase
        \/ \E to \in {"dialling", "goodbye"} : Enter(d, to, {})
    BY DEF Decide, Request, CarryOut, Undelivered, Probe, Decided, lineVars
  <2> QED
    BY <1>1, <2>1, EnterApart DEF Typed
<1>3. CASE phase'[c] \notin Heard \cup {"ringing"}
  BY <1>3 DEF Held, Heard
<1>4. CASE phase'[c] \in Heard \cup {"ringing"}
  <2>1. phase'[c] = phase[c] /\ c \notin At(p, "ok")
    BY <1>1, <1>2, <1>4 DEF At, Coming, Early, Heard
  <2> QED
    BY <1>1, <2>1, CommandEffects, UntouchedKept, KeptHeld
<1> QED
  BY <1>3, <1>4

LEMMA HoldClosing ==
  ASSUME HoldInv, restarts = 0, OpenLine \/ CloseLine \/ Drained \/ DrainTimesOut,
         NEW c \in Calls
  PROVE  Held(c)'
<1>1. Typed /\ Held(c) /\ Coming(c) /\ Drain \in Commands
  BY DEF HoldInv, LineInv, Commands
<1>2. phase' = phase
  BY DEF OpenLine, CloseLine, Drained, DrainTimesOut, lineVars
<1>3. CASE phase[c] \notin Heard \cup {"ringing"}
  BY <1>2, <1>3 DEF Held, Heard
<1>4. CASE phase[c] \in Heard \cup {"ringing"}
  <2>1. c \notin At(Drain, "ok")
    BY <1>1, <1>4 DEF At, Coming, Early, Heard
  <2> QED
    BY <1>1, <1>2, <2>1, ClosingEffects, UntouchedKept, KeptHeld
<1> QED
  BY <1>3, <1>4

LEMMA HoldRecovery ==
  ASSUME HoldInv, restarts = 0, Recovery, NEW c \in Calls
  PROVE  Held(c)'
<1>1. Typed /\ Held(c)
  BY DEF HoldInv, LineInv
<1>2. phase' = phase
  BY DEF Recovery, ListQueue, FetchDetails, Recover, RecoverFails, lineVars
<1>3. Kept(c)
  <2>1. CASE Recover
    BY <1>1, <2>1, RestoreAndSweepKept DEF Recover, Typed, BackendType
  <2>2. CASE UNCHANGED registryVars
    BY <2>2 DEF registryVars, Kept, InMemory
  <2> QED
    BY <2>1, <2>2 DEF Recovery, ListQueue, FetchDetails, RecoverFails
<1> QED
  BY <1>1, <1>2, <1>3, KeptHeld

\* Every other step is of the same boot.
LEMMA OnlyRebootRestarts ==
  ASSUME [Next]_vars, ~\E lost : Reboot(lost)
  PROVE  restarts' = restarts
<1>1. CASE UNCHANGED vars
  BY <1>1 DEF vars, backendVars
<1>2. ASSUME NEW c \in Calls, Line(c)
      PROVE  restarts' = restarts
  BY <1>2 DEF Line, CallerDials, CallerSpeaks, CallerHangsUp, HostAnswers, DialEnds,
              GoodbyeEnds, backendVars
<1>3. ASSUME NEW c \in Calls, Webhooks(c)
      PROVE  restarts' = restarts
  BY <1>3 DEF Webhooks, TurnAway, LetIn, SpeechResult, HoldWait, QueueLeft,
              QueueAbandoned, DialCompletes, DialComplete, CallOver, backendVars
<1>4. ASSUME NEW p \in Commands, NEW c \in Calls, Decide(p, c) \/ Request(p, c)
      PROVE  restarts' = restarts
  BY <1>4 DEF Decide, Request, CarryOut, Undelivered, Probe, Decided
<1>5. CASE OpenLine \/ CloseLine \/ Drained \/ DrainTimesOut
  BY <1>5 DEF OpenLine, CloseLine, Drained, DrainTimesOut
<1>6. CASE Recovery
  BY <1>6 DEF Recovery, ListQueue, FetchDetails, Recover, RecoverFails
<1> QED
  BY <1>1, <1>2, <1>3, <1>4, <1>5, <1>6 DEF Next

LEMMA NextHold == HoldInv /\ [Next]_vars => HoldInv'
<1> SUFFICES ASSUME HoldInv, [Next]_vars
             PROVE  HoldInv'
  OBVIOUS
<1>1. LineInv'
  BY NextLine DEF HoldInv
<1>2. CASE \E lost : Reboot(lost)
  <2>1. restarts' # 0
    BY <1>2 DEF Reboot, HoldInv, LineInv, Typed, BackendType
  <2> QED
    BY <1>1, <2>1 DEF HoldInv
<1>3. CASE ~\E lost : Reboot(lost)
  <2>1. restarts' = restarts
    BY <1>3, OnlyRebootRestarts
  <2>2. ASSUME restarts = 0, NEW c \in Calls
        PROVE  Held(c)'
    <3>1. CASE UNCHANGED vars
      BY <2>2, <3>1 DEF HoldInv, Held, InMemory, IsOpen, vars, registryVars, lineVars
    <3>2. CASE \E d \in Calls : Line(d) \/ Webhooks(d)
      BY <2>2, <3>2, HoldLine, HoldWebhooks
    <3>3. CASE \E p \in Commands, d \in Calls : Decide(p, d) \/ Request(p, d)
      BY <2>2, <3>3, HoldCommand
    <3>4. CASE OpenLine \/ CloseLine \/ Drained \/ DrainTimesOut
      BY <2>2, <3>4, HoldClosing
    <3>5. CASE Recovery
      BY <2>2, <3>5, HoldRecovery
    <3> QED
      BY <1>3, <3>1, <3>2, <3>3, <3>4, <3>5 DEF Next
  <2> QED
    BY <1>1, <2>1, <2>2 DEF HoldInv
<1> QED
  BY <1>2, <1>3

\* Until the first restart, whoever is in the hold queue is on the dashboard, as
\* waiting and with the words they said: a retried ring or speech result starts
\* nothing over, and no decision, drain, hold limit or lost reply that crosses on
\* the way leaves anyone holding unseen.
THEOREM HoldersStayReady == Spec => []HoldersAreReady
<1>1. Init => HoldInv
  BY InitLine DEF Init, HoldInv, Held, Heard, InMemory
<1>2. HoldInv => HoldersAreReady
  BY DEF HoldInv, HoldersAreReady, Held, Heard
<1> QED
  BY <1>1, <1>2, NextHold, PTL DEF Spec

-----------------------------------------------------------------------------
(* The open calls fit the hold queue, until the first restart.              *)

\* A call that a step may still put in play has a row, and none is out of memory
\* with a row in play: what is not in memory has finished, and stays out.
Known(c) ==
  /\ ~Lost(c)
  /\ posts[c]["speech"] > 0 \/ c \in boot.members => rows[c] # None

Fits == IsFiniteSet(OpenCalls) /\ Cardinality(OpenCalls) <= MaxSize

QueueInv ==
  /\ HoldInv
  /\ restarts = 0 => Fits /\ ~warning /\ \A c \in Calls : Known(c)

\* A step that brings nothing leaves room.
LEMMA NothingFits ==
  ASSUME Fits, Brings({})
  PROVE  Fits'
<1>1. OpenCalls' \subseteq OpenCalls
  BY DEF Brings, OpenCalls, InMemory
<1> HIDE DEF OpenCalls
<1>2. IsFiniteSet(OpenCalls') /\ Cardinality(OpenCalls') <= Cardinality(OpenCalls)
  BY <1>1, FS_Subset DEF Fits
<1>3. Cardinality(OpenCalls) \in Nat /\ Cardinality(OpenCalls') \in Nat
  BY <1>2, FS_CardinalityType DEF Fits
<1> QED
  BY <1>2, <1>3, BoundsAssumption DEF Fits

\* One that brings a call takes room that was there.
LEMMA OneFits ==
  ASSUME Fits, NEW d \in Calls, Brings({d}), Cardinality(OpenCalls) < MaxSize
  PROVE  Fits'
<1>1. OpenCalls' \subseteq OpenCalls \cup {d}
  BY DEF Brings, OpenCalls, InMemory
<1> HIDE DEF OpenCalls
<1>2. /\ IsFiniteSet(OpenCalls \cup {d}) /\ Cardinality(OpenCalls) \in Nat
      /\ Cardinality(OpenCalls \cup {d}) <= Cardinality(OpenCalls) + 1
  BY FS_AddElement, FS_CardinalityType DEF Fits
<1>3. /\ IsFiniteSet(OpenCalls')
      /\ Cardinality(OpenCalls') <= Cardinality(OpenCalls \cup {d})
  BY <1>1, <1>2, FS_Subset
<1>4. Cardinality(OpenCalls \cup {d}) \in Nat /\ Cardinality(OpenCalls') \in Nat
  BY <1>2, <1>3, FS_CardinalityType
<1> QED
  BY <1>2, <1>3, <1>4, BoundsAssumption DEF Fits

LEMMA KnownStays ==
  ASSUME StoreFaults = {}, NEW S, NEW T, Effects(S, T), ~warning,
         NEW c \in Calls, Known(c),
         posts'[c]["speech"] > 0 => posts[c]["speech"] > 0 \/ rows[c] # None,
         c \in boot'.members => c \in boot.members \/ rows[c] # None
  PROVE  ~warning' /\ Known(c)'
  BY DEF Effects, Known

\* A call that was let in has a row.
LEMMA HeardHasRow ==
  ASSUME Typed, ~warning, NEW c \in Calls, Held(c), phase[c] \in Heard
  PROVE  rows[c] # None
  BY DEF Typed, RegistryInv, Held, InMemory

\* With a store that works, a speech result finds its call in memory.
LEMMA SpeechBringsNothing ==
  ASSUME Typed, StoreFaults = {}, NEW d \in Calls, Known(d), SpeechResult(d)
  PROVE  Brings({})
<1>1. CASE UNCHANGED registryVars
  BY <1>1, NoEffects
<1>2. CASE SetTranscript(d)
  <2>1. rows[d] # None
    BY DEF SpeechResult, Answer, Known
  <2>2. InMemory(d)
    <3>1. InMemory(d) \/ ~Finished(GetCall(d, TRUE))
      BY <1>2 DEF SetTranscript, Outcomes
    <3> QED
      BY <2>1, <3>1 DEF Known, Lost, GetCall
  <2> QED
    BY <1>2, <2>2, SetTranscriptBrings DEF Typed
<1> QED
  BY <1>1, <1>2 DEF SpeechResult

\* And so does the recovery of the first boot.
LEMMA RecoverBringsNothing ==
  ASSUME Typed, StoreFaults = {}, \A c \in Calls : Known(c), Recover
  PROVE  Brings({})
<1>1. RestoreAndSweep(boot.members) /\ boot.members \in SUBSET Calls
  BY DEF Recover, Typed, BackendType
<1>2. PICK readable \in Reached("read", boot.members), described \in SUBSET boot.members :
        calls' = CallsAfter([c \in Restorable(boot.members, readable) |->
                               Recovered(GetCall(c, c \in readable), c \in described)])
  BY <1>1 DEF RestoreAndSweep
<1>3. readable = boot.members
  BY <1>2 DEF Reached
<1>4. Restorable(boot.members, readable) = {}
  BY <1>1, <1>3 DEF Restorable, GetCall, Known, Lost
<1>5. \A x \in Calls : calls'[x] = calls[x]
  BY <1>2, <1>4 DEF CallsAfter
<1> QED
  BY <1>5 DEF Brings, InMemory

LEMMA QueueLine ==
  ASSUME QueueInv, StoreFaults = {}, restarts = 0, NEW d \in Calls, Line(d)
  PROVE  Fits' /\ ~warning' /\ \A c \in Calls : Known(c)'
<1>1. Typed /\ Held(d) /\ Fits /\ ~warning /\ \A c \in Calls : Known(c)
  BY DEF QueueInv, HoldInv, LineInv
<1>2. UNCHANGED <<registryVars, boot>>
  BY DEF Line, CallerDials, CallerSpeaks, CallerHangsUp, HostAnswers, DialEnds,
         GoodbyeEnds, backendVars
<1>3. Effects({}, {}) /\ Brings({})
  BY <1>2, NoEffects
<1>4. posts'[d]["speech"] > 0 => posts[d]["speech"] > 0 \/ rows[d] # None
  <2>1. CASE CallerSpeaks(d)
    BY <1>1, <2>1, HeardHasRow DEF CallerSpeaks, Heard
  <2>2. CASE CallerDials(d)
    BY <1>1, <2>2, EnterApart DEF CallerDials, Typed, Kinds
  <2>3. CASE CallerHangsUp(d)
    <3>1. "speech" \in Kinds \ PartingPosts(d)
      BY DEF PartingPosts, Kinds
    <3> QED
      BY <1>1, <2>3, <3>1, EnterApart DEF CallerHangsUp, Typed
  <2>4. CASE HostAnswers(d) \/ DialEnds(d) \/ GoodbyeEnds(d)
    BY <1>1, <2>4, EnterApart DEF HostAnswers, DialEnds, GoodbyeEnds, Typed, Kinds
  <2> QED
    BY <2>1, <2>2, <2>3, <2>4 DEF Line
<1>5. ASSUME NEW c \in Calls
      PROVE  ~warning' /\ Known(c)'
  <2>1. c # d => posts'[c] = posts[c]
    BY <1>1, LineApart DEF Apart
  <2> QED
    BY <1>1, <1>2, <1>3, <1>4, <2>1, KnownStays
<1> QED
  BY <1>1, <1>3, <1>5, NothingFits

LEMMA QueueWebhooks ==
  ASSUME QueueInv, StoreFaults = {}, restarts = 0, NEW d \in Calls, Webhooks(d)
  PROVE  Fits' /\ ~warning' /\ \A c \in Calls : Known(c)'
<1>1. Typed /\ Fits /\ ~warning /\ \A c \in Calls : Known(c)
  BY DEF QueueInv, HoldInv, LineInv
<1>2. Effects({d}, {}) /\ Brings({d})
  BY <1>1, WebhooksEffects
<1>3. boot' = boot
  BY DEF Webhooks, TurnAway, LetIn, SpeechResult, HoldWait, QueueLeft,
         QueueAbandoned, DialCompletes, DialComplete, CallOver, backendVars
<1>4. posts'[d]["speech"] > 0 => posts[d]["speech"] > 0
  <2> USE <1>1 DEF Typed
  <2>1. posts[d]["speech"] \in Nat
    BY DEF PostsType, Kinds
  <2>2. CASE TurnAway(d)
    BY <2>2, AnswerApart DEF TurnAway, Kinds
  <2>3. CASE LetIn(d)
    BY <2>3, AnswerApart DEF LetIn, Kinds
  <2>4. CASE SpeechResult(d)
    BY <2>1, <2>4, AnswerApart DEF SpeechResult, Kinds
  <2>5. CASE HoldWait(d)
    BY <2>5, EnterApart DEF HoldWait, Kinds
  <2>6. CASE QueueLeft(d)
    BY <2>6, AnswerApart DEF QueueLeft, Kinds
  <2>7. CASE QueueAbandoned(d)
    BY <2>7, HandledApart DEF QueueAbandoned, Kinds
  <2>8. CASE DialCompletes(d)
    <3>1. PICK kind \in {"talked", "no-bridge"} : \E seconds : DialComplete(d, kind, seconds)
      BY <2>8 DEF DialCompletes
    <3> QED
      BY <3>1, AnswerApart DEF DialComplete, Kinds
  <2>9. CASE CallOver(d)
    BY <2>9, HandledApart DEF CallOver, Kinds
  <2> QED
    BY <2>2, <2>3, <2>4, <2>5, <2>6, <2>7, <2>8, <2>9 DEF Webhooks
<1>5. ASSUME NEW c \in Calls
      PROVE  ~warning' /\ Known(c)'
  <2>1. c # d => posts'[c] = posts[c]
    BY <1>1, WebhooksApart DEF Apart
  <2> QED
    BY <1>1, <1>2, <1>3, <1>4, <2>1, KnownStays
<1>6. Fits'
  <2>1. CASE LetIn(d)
    BY <1>1, <1>2, <2>1, OneFits DEF LetIn
  <2>2. CASE SpeechResult(d)
    BY <1>1, <2>2, SpeechBringsNothing, NothingFits
  <2>3. CASE ~LetIn(d) /\ ~SpeechResult(d)
    <3>1. UNCHANGED registryVars \/ \E seconds \in Seconds \cup {None} :
                                      EndOnAir(d, seconds) \/ End(d)
      BY <2>3 DEF Webhooks, TurnAway, HoldWait, QueueLeft, QueueAbandoned,
                  DialCompletes, DialComplete, CallOver
    <3> QED
      BY <1>1, <3>1, NoEffects, EndEffects, NothingFits DEF Typed
  <2> QED
    BY <2>1, <2>2, <2>3
<1> QED
  BY <1>1, <1>5, <1>6

\* Requests, and closing the line.
LEMMA QueueOperators ==
  ASSUME QueueInv, StoreFaults = {}, restarts = 0,
         \/ \E p \in Commands, d \in Calls : Decide(p, d) \/ Request(p, d)
         \/ OpenLine \/ CloseLine \/ Drained \/ DrainTimesOut
  PROVE  Fits' /\ ~warning' /\ \A c \in Calls : Known(c)'
<1>1. Typed /\ Fits /\ ~warning /\ \A c \in Calls : Known(c)
  BY DEF QueueInv, HoldInv, LineInv
<1>2. Brings({}) /\ \E T : Effects({}, T)
  BY <1>1, CommandEffects, ClosingEffects
<1>3. boot' = boot
  BY DEF Decide, Request, CarryOut, Undelivered, Probe, Decided, OpenLine, CloseLine,
         Drained, DrainTimesOut
<1>4. \A c \in Calls : posts'[c]["speech"] = posts[c]["speech"]
  <2>1. UNCHANGED posts \/ \E d \in Calls : \E to : Enter(d, to, {})
    BY DEF Decide, Request, CarryOut, Undelivered, Probe, Decided, OpenLine, CloseLine,
           Drained, DrainTimesOut, lineVars
  <2> QED
    BY <1>1, <2>1, EnterApart DEF Typed, Kinds
<1>5. ~warning'
  BY <1>1, <1>2 DEF Effects
<1>6. \A c \in Calls : Known(c)'
  BY <1>1, <1>2, <1>3, <1>4, KnownStays
<1> QED
  BY <1>1, <1>2, <1>5, <1>6, NothingFits

LEMMA QueueRecovery ==
  ASSUME QueueInv, StoreFaults = {}, restarts = 0, Recovery
  PROVE  Fits' /\ ~warning' /\ \A c \in Calls : Known(c)'
<1>1. /\ Typed /\ Fits /\ ~warning
      /\ \A c \in Calls : Known(c) /\ Held(c)
  BY DEF QueueInv, HoldInv, LineInv
<1>2. posts' = posts
  BY DEF Recovery, ListQueue, FetchDetails, Recover, RecoverFails, lineVars
<1>3. \A c \in Calls : c \in boot'.members => c \in boot.members \/ rows[c] # None
  BY <1>1, HeardHasRow DEF Recovery, ListQueue, FetchDetails, Recover, RecoverFails, Heard
<1>4. Brings({}) /\ \E S : Effects(S, {})
  <2>1. CASE Recover
    BY <1>1, <2>1, RecoverBringsNothing, RestoreAndSweepEffects
       DEF Recover, Typed, BackendType
  <2>2. CASE UNCHANGED registryVars
    BY <2>2, NoEffects
  <2> QED
    BY <2>1, <2>2 DEF Recovery, ListQueue, FetchDetails, RecoverFails
<1>5. ~warning'
  BY <1>1, <1>4 DEF Effects
<1>6. \A c \in Calls : Known(c)'
  BY <1>1, <1>2, <1>3, <1>4, KnownStays
<1> QED
  BY <1>1, <1>4, <1>5, <1>6, NothingFits

LEMMA NextQueue ==
  ASSUME StoreFaults = {}, QueueInv, [Next]_vars
  PROVE  QueueInv'
<1>1. HoldInv'
  BY NextHold DEF QueueInv
<1>2. restarts \in Nat
  BY BoundsAssumption DEF QueueInv, HoldInv, LineInv, Typed, BackendType
<1>3. CASE \E lost : Reboot(lost)
  <2>1. restarts' # 0
    BY <1>2, <1>3 DEF Reboot
  <2> QED
    BY <1>1, <2>1 DEF QueueInv
<1>4. CASE UNCHANGED vars
  BY <1>1, <1>4
     DEF QueueInv, Fits, OpenCalls, Known, Lost, InMemory, IsOpen, vars, registryVars,
         backendVars, lineVars
<1>5. CASE Next /\ ~\E lost : Reboot(lost)
  <2>1. restarts' = restarts
    BY <1>5, OnlyRebootRestarts
  <2>2. ASSUME restarts = 0
        PROVE  Fits' /\ ~warning' /\ \A c \in Calls : Known(c)'
    <3>1. CASE \E d \in Calls : Line(d) \/ Webhooks(d)
      BY <2>2, <3>1, QueueLine, QueueWebhooks
    <3>2. CASE Recovery
      BY <2>2, <3>2, QueueRecovery
    <3>3. CASE ~(\E d \in Calls : Line(d) \/ Webhooks(d)) /\ ~Recovery
      BY <1>5, <2>2, <3>3, QueueOperators DEF Next
    <3> QED
      BY <3>1, <3>2, <3>3
  <2> QED
    BY <1>1, <2>1, <2>2 DEF QueueInv
<1> QED
  BY <1>3, <1>4, <1>5

\* With a store that works, the open calls never outgrow the hold queue before
\* the first restart: the count is taken when a call rings, and the calls that
\* are let in later, heard or recovered meanwhile do not slip past it.
THEOREM QueueStaysWithinCap ==
  ASSUME StoreFaults = {}
  PROVE  Spec => []QueueWithinCap
<1>1. Init => QueueInv
  <2> SUFFICES ASSUME Init
               PROVE  QueueInv
    OBVIOUS
  <2>1. HoldInv
    BY InitLine DEF Init, HoldInv, Held, Heard, InMemory
  <2>2. OpenCalls = {}
    BY DEF Init, OpenCalls, InMemory
  <2>3. Fits
    BY <2>2, FS_EmptySet, BoundsAssumption DEF Fits
  <2>4. ~warning /\ \A c \in Calls : Known(c)
    BY DEF Init, Known, Lost, NotAsked, NoPosts, Kinds
  <2> QED
    BY <2>1, <2>3, <2>4 DEF QueueInv
<1>2. QueueInv /\ [Next]_vars => QueueInv'
  BY NextQueue
<1>3. QueueInv => QueueWithinCap
  BY DEF QueueInv, QueueWithinCap, Fits
<1> QED
  BY <1>1, <1>2, <1>3, PTL DEF Spec

-----------------------------------------------------------------------------
(* A caller turned away leaves no trace, as long as Twilio retries nothing.  *)

\* As long as its ring is unanswered, the backend knows nothing of a call; once
\* it has been turned away, nothing is left that could still register it.
Untold(c) ==
  /\ posts[c]["incoming"] > 0 =>
       /\ posts[c]["incoming"] = 1 /\ phase[c] \in {"ringing", "over"}
       /\ posts[c]["speech"] = 0 /\ Untouched(c)
  /\ c \in refused =>
       /\ posts[c]["incoming"] = 0 /\ phase[c] = "over"
       /\ posts[c]["speech"] = 0 /\ Unregistered(c) /\ c \notin boot.members

RefusedInv == LineInv /\ \A c \in Calls : Untold(c)

LEMMA ApartUntold ==
  ASSUME NEW c \in Calls, Untold(c), Apart(c), Unregistered(c) => Unregistered(c)'
  PROVE  Untold(c)'
  BY DEF Untold, Apart, Untouched

LEMMA RefusedLine ==
  ASSUME RefusedInv, Copies = {1}, NEW d \in Calls, Line(d), NEW c \in Calls
  PROVE  Untold(c)'
<1>1. Typed /\ Fresh(d) /\ Untold(c) /\ Untold(d)
  BY DEF RefusedInv, LineInv
<1>2. UNCHANGED <<registryVars, cmd, boot, refused>>
  BY DEF Line, CallerDials, CallerSpeaks, CallerHangsUp, HostAnswers, DialEnds,
         GoodbyeEnds, backendVars
<1>3. \A x \in Calls : Unregistered(x)' <=> Unregistered(x)
  BY <1>2 DEF registryVars, Unregistered, InMemory
<1>4. CASE c # d
  BY <1>1, <1>3, <1>4, LineApart, ApartUntold
<1>5. CASE CallerDials(d)
  <2>1. /\ phase[d] = "none" /\ phase'[d] = "ringing"
        /\ posts'[d]["speech"] = posts[d]["speech"]
    BY <1>1, <1>5, EnterApart DEF CallerDials, Typed, Kinds
  <2>2. posts'[d]["incoming"] = 1
    <3>1. PICK n \in [{"incoming"} -> Copies] :
            posts' = [posts EXCEPT ![d] =
                        [k \in Kinds |-> IF k \in {"incoming"} THEN n[k] ELSE @[k]]]
      BY <1>5 DEF CallerDials, Enter
    <3> QED
      BY <1>1, <3>1 DEF Typed, PostsType, Kinds
  <2>3. Untouched(d)' /\ posts'[d]["speech"] = 0 /\ d \notin refused'
    BY <1>1, <1>2, <1>3, <2>1 DEF Fresh, Untouched, NoPosts, Kinds
  <2>4. Untold(d)'
    BY <2>1, <2>2, <2>3 DEF Untold
  <2> QED
    BY <1>4, <2>4
<1>6. CASE CallerHangsUp(d)
  <2>1. {"speech", "incoming"} \subseteq Kinds \ PartingPosts(d)
    BY DEF PartingPosts, Kinds
  <2>2. /\ phase'[d] = "over" /\ phase[d] # "over"
        /\ posts'[d]["speech"] = posts[d]["speech"]
        /\ posts'[d]["incoming"] = posts[d]["incoming"]
    BY <1>1, <1>6, <2>1, EnterApart DEF CallerHangsUp, Typed, Live
  <2>3. Untold(d)'
    BY <1>1, <1>2, <1>3, <2>2 DEF Untold, Untouched
  <2> QED
    BY <1>4, <2>3
<1>7. CASE CallerSpeaks(d) \/ HostAnswers(d) \/ DialEnds(d) \/ GoodbyeEnds(d)
  <2>1. /\ phase[d] \notin {"ringing", "over"}
        /\ posts'[d]["incoming"] = posts[d]["incoming"]
    BY <1>1, <1>7, EnterApart
       DEF CallerSpeaks, HostAnswers, DialEnds, GoodbyeEnds, Typed, Kinds
  <2>2. Untold(d)'
    BY <1>1, <1>2, <2>1 DEF Untold
  <2> QED
    BY <1>4, <2>2
<1> QED
  BY <1>5, <1>6, <1>7 DEF Line

LEMMA RefusedWebhooks ==
  ASSUME RefusedInv, NEW d \in Calls, Webhooks(d), NEW c \in Calls
  PROVE  Untold(c)'
<1>1. Typed /\ Fresh(d) /\ Untold(c) /\ Untold(d)
  BY DEF RefusedInv, LineInv
<1> USE DEF Typed
<1>2. CASE c # d
  <2>1. Unregistered(c) => Unregistered(c)'
    BY <1>1, <1>2, WebhooksEffects DEF Effects
  <2> QED
    BY <1>1, <1>2, <2>1, WebhooksApart, ApartUntold
<1>3. UNCHANGED <<cmd, boot>>
  BY DEF Webhooks, TurnAway, LetIn, SpeechResult, HoldWait, QueueLeft,
         QueueAbandoned, DialCompletes, DialComplete, CallOver, backendVars
<1>4. CASE TurnAway(d)
  <2>1. /\ posts[d]["incoming"] = 1 /\ posts'[d]["incoming"] = 0
        /\ posts[d]["speech"] = 0 /\ posts'[d]["speech"] = posts[d]["speech"]
        /\ phase'[d] = "over" /\ Untouched(d)
    BY <1>1, <1>4, AnswerApart DEF TurnAway, Untold, Kinds
  <2>2. Unregistered(d)'
    BY <1>4, <2>1 DEF TurnAway, registryVars, Untouched, Unregistered, InMemory
  <2>3. Untold(d)'
    BY <1>3, <2>1, <2>2 DEF Untold, Untouched
  <2> QED
    BY <1>2, <2>3
<1>5. CASE LetIn(d)
  <2>1. /\ posts[d]["incoming"] = 1 /\ posts'[d]["incoming"] = 0
        /\ d \notin refused'
    BY <1>1, <1>5, AnswerApart DEF LetIn, Untold, Untouched, Kinds
  <2>2. Untold(d)'
    BY <2>1 DEF Untold
  <2> QED
    BY <1>2, <2>2
<1>6. CASE SpeechResult(d)
  <2>1. /\ posts[d]["speech"] > 0 /\ posts'[d]["incoming"] = posts[d]["incoming"]
        /\ refused' = refused
    BY <1>1, <1>6, AnswerApart DEF SpeechResult, Kinds
  <2>2. Untold(d)'
    BY <1>1, <2>1 DEF Untold
  <2> QED
    BY <1>2, <2>2
<1>7. CASE HoldWait(d) \/ QueueLeft(d) \/ QueueAbandoned(d) \/ DialCompletes(d) \/ CallOver(d)
  <2>1. Effects({}, {})
    <3>1. UNCHANGED registryVars \/ \E seconds \in Seconds \cup {None} :
                                      EndOnAir(d, seconds) \/ End(d)
      BY <1>7 DEF HoldWait, QueueLeft, QueueAbandoned, DialCompletes, DialComplete, CallOver
    <3> QED
      BY <1>1, <3>1, NoEffects, EndEffects
  <2>2. Unregistered(d) => Unregistered(d)'
    BY <2>1 DEF Effects
  <2>3. /\ posts'[d]["incoming"] = posts[d]["incoming"]
        /\ posts'[d]["speech"] = posts[d]["speech"]
        /\ phase[d] \in {"ringing", "over"} => phase'[d] = phase[d]
        /\ refused' = refused
    <3>1. CASE HoldWait(d)
      BY <1>1, <3>1, EnterApart DEF HoldWait, Kinds
    <3>2. CASE QueueLeft(d)
      BY <1>1, <3>2, AnswerApart DEF QueueLeft, Kinds
    <3>3. CASE QueueAbandoned(d)
      BY <1>1, <3>3, HandledApart DEF QueueAbandoned, Kinds
    <3>4. CASE DialCompletes(d)
      <4>1. PICK kind \in {"talked", "no-bridge"} : \E seconds : DialComplete(d, kind, seconds)
        BY <3>4 DEF DialCompletes
      <4> QED
        BY <1>1, <4>1, AnswerApart DEF DialComplete, Kinds
    <3>5. CASE CallOver(d)
      BY <1>1, <3>5, HandledApart DEF CallOver, Kinds
    <3> QED
      BY <1>7, <3>1, <3>2, <3>3, <3>4, <3>5
  <2>4. Untold(d)'
    BY <1>1, <1>3, <2>2, <2>3 DEF Untold, Untouched
  <2> QED
    BY <1>2, <2>4
<1> QED
  BY <1>4, <1>5, <1>6, <1>7 DEF Webhooks

LEMMA RefusedCommand ==
  ASSUME RefusedInv, NEW p \in Commands, NEW d \in Calls, Decide(p, d) \/ Request(p, d),
         NEW c \in Calls
  PROVE  Untold(c)'
<1>1. Typed /\ Untold(c) /\ Untold(d)
  BY DEF RefusedInv, LineInv
<1>2. \A x \in Calls : Unregistered(x) => Unregistered(x)'
  BY <1>1, CommandEffects DEF Effects
<1>3. CASE c # d
  BY <1>1, <1>2, <1>3, CommandApart, ApartUntold
<1>4. posts[d]["incoming"] = 0
  <2>1. ~Untouched(d)
    BY DEF Decide, Request, CarryOut, Undelivered, Probe, Decided, Untouched, Unregistered
  <2> QED
    BY <1>1, <2>1 DEF Untold, Typed, PostsType, Kinds
<1>5. UNCHANGED <<phase, posts>> \/ (phase[d] # "over" /\ \E to : Enter(d, to, {}))
  BY DEF Decide, Request, CarryOut, Undelivered, Probe, Decided, Live, lineVars
<1>6. /\ posts'[d]["incoming"] = posts[d]["incoming"]
      /\ posts'[d]["speech"] = posts[d]["speech"]
      /\ phase[d] = "over" => phase'[d] = "over"
  BY <1>1, <1>5, EnterApart DEF Typed, Kinds
<1>7. boot' = boot /\ refused' = refused
  BY DEF Decide, Request, CarryOut, Undelivered, Probe, Decided, lineVars
<1>8. Untold(d)'
  BY <1>1, <1>2, <1>4, <1>6, <1>7 DEF Untold
<1> QED
  BY <1>3, <1>8

LEMMA RefusedClosing ==
  ASSUME RefusedInv, OpenLine \/ CloseLine \/ Drained \/ DrainTimesOut, NEW c \in Calls
  PROVE  Untold(c)'
<1>1. Typed /\ Untold(c)
  BY DEF RefusedInv, LineInv
<1>2. Unregistered(c) => Unregistered(c)'
  BY <1>1, ClosingEffects DEF Effects
<1>3. UNCHANGED <<phase, posts, boot, refused>>
  BY DEF OpenLine, CloseLine, Drained, DrainTimesOut, lineVars
<1>4. Untouched(c) => Untouched(c)'
  <2>1. \A q \in Commands \ {Drain} : cmd'[q] = cmd[q]
    BY <1>1 DEF OpenLine, CloseLine, Drained, DrainTimesOut, Typed, BackendType
  <2>2. cmd'[Drain][c] # cmd[Drain][c] => cmd'[Drain][c] = "idle" \/ InMemory(c)
    BY <1>1, DrainIsCommand
       DEF OpenLine, CloseLine, Drained, DrainTimesOut, Typed, BackendType, OpenCalls,
           NoCommands
  <2> QED
    BY <1>2, <1>3, <2>1, <2>2 DEF Untouched, Unregistered
<1> QED
  BY <1>1, <1>2, <1>3, <1>4 DEF Untold

LEMMA RefusedBoot ==
  ASSUME RefusedInv, NEW lost, Recovery \/ Reboot(lost), NEW c \in Calls
  PROVE  Untold(c)'
<1>1. Typed /\ Untold(c)
  BY DEF RefusedInv, LineInv
<1>2. CASE Recovery
  <2>1. UNCHANGED <<phase, posts, cmd, refused>>
    BY <1>2 DEF Recovery, ListQueue, FetchDetails, Recover, RecoverFails, lineVars
  <2>2. c \notin boot.members /\ phase[c] # "queued" => c \notin boot'.members
    BY <1>2 DEF Recovery, ListQueue, FetchDetails, Recover, RecoverFails
  <2>3. c \notin boot.members /\ Unregistered(c) => Unregistered(c)'
    <3>1. CASE Recover
      BY <1>1, <3>1, RestoreAndSweepEffects DEF Recover, Effects, Typed, BackendType
    <3>2. CASE UNCHANGED registryVars
      BY <3>2 DEF registryVars, Unregistered, InMemory
    <3> QED
      BY <1>2, <3>1, <3>2 DEF Recovery, ListQueue, FetchDetails, RecoverFails
  <2> QED
    BY <1>1, <2>1, <2>2, <2>3 DEF Untold, Untouched
<1>3. CASE Reboot(lost)
  <2>1. /\ boot'.members = {} /\ refused' = refused
        /\ \A p \in Commands : cmd'[p][c] = "idle"
        /\ Unregistered(c) => Unregistered(c)'
    BY <1>3 DEF Reboot, Restart, NotAsked, NoCommands, Unregistered, InMemory
  <2>2. \/ phase'[c] = phase[c] /\ posts'[c] = posts[c]
        \/ posts'[c] = NoPosts /\ (phase[c] = "over" => phase'[c] = "over")
    BY <1>1, <1>3 DEF Reboot, Typed, PhaseType
  <2>3. NoPosts["incoming"] = 0 /\ NoPosts["speech"] = 0
    BY DEF NoPosts, Kinds
  <2> QED
    BY <1>1, <2>1, <2>2, <2>3 DEF Untold, Untouched
<1> QED
  BY <1>2, <1>3

LEMMA NextRefused ==
  ASSUME Copies = {1}, RefusedInv, [Next]_vars
  PROVE  RefusedInv'
<1>1. LineInv'
  BY NextLine DEF RefusedInv
<1>2. CASE UNCHANGED vars
  BY <1>1, <1>2
     DEF vars, registryVars, backendVars, lineVars, RefusedInv, Untold, Untouched,
         Unregistered, InMemory
<1> QED
  BY <1>1, <1>2, RefusedLine, RefusedWebhooks, RefusedCommand, RefusedClosing, RefusedBoot
     DEF Next, RefusedInv

\* As long as Twilio posts every webhook once, a caller who is turned away is
\* neither registered nor saved, then or later: not by a ring answered after they
\* hung up, not by a request, not by the recovery after a restart.
THEOREM RefusedStayUnregistered ==
  ASSUME Copies = {1}
  PROVE  Spec => []RefusedIsUnregistered
<1>1. Init => RefusedInv
  BY InitLine DEF Init, RefusedInv, Untold, NoPosts, Kinds
<1>2. RefusedInv /\ [Next]_vars => RefusedInv'
  BY NextRefused
<1>3. RefusedInv => RefusedIsUnregistered
  BY DEF RefusedInv, LineInv, Typed, MarksType, RefusedIsUnregistered, Untold, Unregistered
<1> QED
  BY <1>1, <1>2, <1>3, PTL DEF Spec

=============================================================================
