------------------------ MODULE RegistryClientProofs ------------------------
(***************************************************************************)
(* What the registry guarantees to the operators for every set of calls,   *)
(* every number of restarts and whatever statements of the store fail its  *)
(* invariants; and, as long as the store can be read, that a finished call *)
(* stays finished, that it implements InPlay, and that no call and no      *)
(* saved words are lost.                                                   *)
(***************************************************************************)
EXTENDS RegistryClient, CallRegistryProofs

\* The bookkeeping of the client has its types.
ClientTypeOK ==
  /\ past \in [Calls -> SUBSET Milestones]
  /\ recovery \in {"pending", "done", "failed"}
  /\ restarts \in 0..MaxRestarts

\* The inductive invariant.
ClientInv == RegistryInv /\ ClientTypeOK

\* It holds when the backend starts for the first time.
LEMMA InitInv == Init => ClientInv
<1> SUFFICES ASSUME Init
             PROVE  ClientInv
  OBVIOUS
<1>1. RegistryInv
  BY EmptyInv DEF Init
<1>2. ClientTypeOK
  BY RestartsAssumption DEF Init, ClientTypeOK
<1> QED
  BY <1>1, <1>2 DEF ClientInv

\* The end of some calls, noted.
LEMMA EndedType ==
  ASSUME ClientTypeOK, NEW S, Ended(S)
  PROVE  ClientTypeOK'
  BY DEF Ended, ClientTypeOK

\* It is preserved by every step.
LEMMA NextInv == ClientInv /\ [Next]_vars => ClientInv'
<1> SUFFICES ASSUME ClientInv, [Next]_vars
             PROVE  ClientInv'
  OBVIOUS
<1> USE DEF ClientInv
<1>1. ASSUME NEW c \in Calls, IncomingCall(c)
      PROVE  ClientInv'
  BY <1>1, RegisterIncomingInv DEF IncomingCall, ClientTypeOK, Milestones
<1>2. ASSUME NEW c \in Calls, SpeechResult(c)
      PROVE  ClientInv'
  BY <1>2, SetTranscriptInv DEF SpeechResult, ClientTypeOK, Milestones
<1>3. ASSUME NEW c \in Calls, Accept(c)
      PROVE  ClientInv'
  BY <1>3, SetStatusInv DEF Accept, clientVars, ClientTypeOK, TerminalStatuses
<1>4. ASSUME NEW c \in Calls, Reject(c)
      PROVE  ClientInv'
  BY <1>4, SetStatusInv, EndedType DEF Reject, TerminalStatuses
<1>5. ASSUME NEW S \in SUBSET Calls, Drain(S)
      PROVE  ClientInv'
  BY <1>5, SetStatusInv, EndedType DEF Drain, TerminalStatuses
<1>6. ASSUME NEW c \in Calls, NEW seconds \in Seconds \cup {None},
             DialComplete(c, seconds)
      PROVE  ClientInv'
  BY <1>6, EndOnAirInv, EndedType DEF DialComplete
<1>7. ASSUME NEW c \in Calls, CallOver(c)
      PROVE  ClientInv'
  BY <1>7, EndInv, EndedType DEF CallOver
<1>8. ASSUME NEW S \in SUBSET Calls, ChangeContact(S)
      PROVE  ClientInv'
  BY <1>8, ApplyContactInv DEF ChangeContact, clientVars, ClientTypeOK
<1>9. ASSUME NEW members \in SUBSET Calls, Reconcile(members)
      PROVE  ClientInv'
  BY <1>9, RestoreAndSweepInv DEF Reconcile, ClientTypeOK
<1>10. CASE ReconcileFails
  BY <1>10 DEF ReconcileFails, ClientTypeOK, RegistryInv, RegistryTypeOK,
               registryVars, InMemory
<1>11. CASE SweepAtBoot
  BY <1>11, SweepStaleInv DEF SweepAtBoot, ClientTypeOK
<1>12. CASE Reboot
  <2>1. restarts' \in 0..MaxRestarts
    BY <1>12, RestartsAssumption DEF Reboot, ClientTypeOK
  <2> QED
    BY <1>12, <2>1, RestartInv DEF Reboot, ClientTypeOK
<1>13. CASE UNCHANGED vars
  BY <1>13 DEF vars, ClientTypeOK, RegistryInv, RegistryTypeOK, InMemory
<1> QED
  BY <1>1, <1>2, <1>3, <1>4, <1>5, <1>6, <1>7, <1>8, <1>9, <1>10, <1>11, <1>12, <1>13
     DEF Next

\* So it always holds.
THEOREM Invariance == Spec => []ClientInv
  BY InitInv, NextInv, PTL DEF Spec

\* Every variable keeps its type, whatever fails.
THEOREM TypeCorrect == Spec => []TypeOK
<1>1. ClientInv => TypeOK
  BY DEF ClientInv, ClientTypeOK, RegistryInv, RegistryTypeOK, TypeOK
<1> QED
  BY <1>1, Invariance, PTL

\* "Memory holds only the calls still in play" (call_registry.py:7), and what
\* is on air there was accepted and stamped so, whatever fails.
THEOREM OnlyPlayInMemory == Spec => []MemoryInPlay
<1>1. ClientInv => MemoryInPlay
  BY DEF ClientInv, RegistryInv, MemoryInPlay, InPlay
<1> QED
  BY <1>1, Invariance, PTL

\* "No code path can change a call without it being stored" (call_registry.py:3):
\* a row differs from its call in memory only after a write has failed.
THEOREM SavedIsMemory == Spec => []SavedMatchesMemory
<1>1. ClientInv => SavedMatchesMemory
  BY DEF ClientInv, RegistryInv, SavedMatchesMemory
<1> QED
  BY <1>1, Invariance, PTL

-----------------------------------------------------------------------------
(* A call that is over stays over, and what its row has settled stands, as *)
(* long as the store can be read: writes may fail at will.  The two are    *)
(* action properties, and the invariant of the registry is all they need   *)
(* to know of the state.  Only a registration is exempt.                   *)

\* Of a step: c stays over.
StaysOver(c) ==
  Over(c) /\ ~RungAnew(c) => Over(c)' /\ (InMemory(c)' => InMemory(c))

\* Of a step: what the row of c has settled stands.
StaysSettled(c) ==
  /\ rows[c] # None /\ ~RungAnew(c)
  /\ InMemory(c) => Settled(calls[c]) = Settled(rows[c])
  => /\ rows[c].endedAt # None => rows'[c].endedAt = rows[c].endedAt
     /\ rows[c].wasAccepted => rows'[c].wasAccepted
     /\ rows[c].onAir # None => rows'[c].onAir # None
     /\ rows[c].status = "rejected" => rows'[c].status = "rejected"

Respects == \A c \in Calls : StaysOver(c) /\ StaysSettled(c)

\* A later version of a call in play: its stamps stay, and it does not go off
\* the air without being over.
Advances(old, new) ==
  /\ old.endedAt # None => new.endedAt = old.endedAt
  /\ old.wasAccepted => new.wasAccepted
  /\ old.status = "accepted" => Finished(new)

\* What may be committed for c: a registration, a call put back whose row has
\* not finished, or a later version of the one in memory.
Proper(c, call) ==
  \/ ~InMemory(c) /\ (call = NewCall \/ ~Finished(rows[c]))
  \/ InMemory(c) /\ Advances(calls[c], call)

-----------------------------------------------------------------------------
\* A row with something settled is finished.
LEMMA UnfinishedIsUnsettled ==
  ASSUME NEW row \in Call, Sound(row), ~Finished(row)
  PROVE  /\ row.endedAt = None /\ ~row.wasAccepted /\ row.onAir = None
         /\ row.status # "rejected"
  BY NoneIsNoCall DEF Finished, Sound, Call, CallStatus

\* A finished call that may be in memory is on air.
LEMMA FinishedInPlay ==
  ASSUME NEW call \in Call, InPlay(call)
  PROVE  Finished(call) <=> call.status = "accepted"
  BY NoneIsNoCall DEF Finished, InPlay, EndedStatuses

\* Calls that have settled the same.
LEMMA SettledAlike ==
  ASSUME NEW call \in Call, NEW row \in Call, Settled(call) = Settled(row)
  PROVE  /\ call.endedAt = row.endedAt /\ call.wasAccepted = row.wasAccepted
         /\ call.onAir = row.onAir
         /\ call.status = "rejected" <=> row.status = "rejected"
  BY DEF Settled

\* A commit gives memory its calls, less those that are over, and the table
\* those that could be saved.
LEMMA CommitWrites ==
  ASSUME NEW D \in SUBSET Calls, NEW new \in [D -> Committable], Commit(new)
  PROVE  \E saved \in SUBSET D :
           \A c \in Calls :
             /\ rows'[c] = IF c \in saved THEN new[c] ELSE rows[c]
             /\ calls'[c] = IF c \notin D THEN calls[c]
                            ELSE IF new[c].status \in EndedStatuses THEN None
                            ELSE new[c]
<1>1. DOMAIN new = D
  OBVIOUS
<1>2. PICK saved \in Reached("write", D) :
           /\ rows' = RowsAfter(new, saved)
           /\ calls' = CallsAfter(new)
  BY <1>1 DEF Commit
<1>3. saved \in SUBSET D
  BY ReachedSome
<1> QED
  BY <1>1, <1>2, <1>3 DEF RowsAfter, CallsAfter

\* A commit of what may be committed respects what is over and settled.
LEMMA CommitRespects ==
  ASSUME RegistryInv,
         NEW D \in SUBSET Calls, NEW new \in [D -> Committable], Commit(new),
         \A c \in D : Proper(c, new[c])
  PROVE  Respects
<1>1. PICK saved \in SUBSET D :
        \A c \in Calls :
          /\ rows'[c] = IF c \in saved THEN new[c] ELSE rows[c]
          /\ calls'[c] = IF c \notin D THEN calls[c]
                         ELSE IF new[c].status \in EndedStatuses THEN None
                         ELSE new[c]
  BY CommitWrites
<1> SUFFICES ASSUME NEW c \in Calls
             PROVE  StaysOver(c) /\ StaysSettled(c)
  BY DEF Respects
<1>2. CASE c \notin D
  <2>1. rows'[c] = rows[c] /\ calls'[c] = calls[c]
    BY <1>1, <1>2
  <2> QED
    BY <2>1 DEF StaysOver, StaysSettled, Over, OpenCalls, InMemory
<1>3. CASE c \in D /\ ~InMemory(c) /\ new[c] = NewCall
  <2>1. NewCall.status \notin EndedStatuses
    BY DEF NewCall, EndedStatuses
  <2>2. calls'[c] = NewCall
    BY <1>1, <1>3, <2>1
  <2> QED
    BY <1>3, <2>2 DEF StaysOver, StaysSettled, RungAnew
<1>4. CASE ~InMemory(c) /\ ~Finished(rows[c])
  <2>1. rows[c] # None => rows[c] \in Call /\ Sound(rows[c])
    BY DEF RegistryInv, RegistryTypeOK
  <2> QED
    BY <1>4, <2>1, UnfinishedIsUnsettled DEF StaysOver, StaysSettled, Over
<1>5. CASE c \in D /\ InMemory(c) /\ Advances(calls[c], new[c])
  <2>1. /\ calls[c] \in Call /\ InPlay(calls[c])
        /\ new[c] \in Call /\ new[c] # None
    BY <1>5, InMemoryInPlay, NoneIsNoCall DEF Committable
  <2>2. StaysOver(c)
    <3> SUFFICES ASSUME Over(c)
                 PROVE  Over(c)'
      BY <1>5 DEF StaysOver
    <3>1. calls[c].status = "accepted"
      BY <1>5, <2>1
         DEF Over, OpenCalls, IsOpen, InPlay, TerminalStatuses, EndedStatuses
    <3>2. Finished(new[c])
      BY <1>5, <3>1 DEF Advances
    <3>3. Finished(rows'[c])
      BY <1>1, <3>2 DEF Over
    <3>4. calls'[c] # None => ~IsOpen(calls'[c])
      BY <1>1, <1>5, <3>2 DEF Finished, IsOpen, TerminalStatuses
    <3> QED
      BY <3>3, <3>4 DEF Over, OpenCalls, InMemory
  <2>3. StaysSettled(c)
    <3>1. CASE c \notin saved
      BY <1>1, <3>1 DEF StaysSettled
    <3>2. CASE c \in saved
      <4> SUFFICES ASSUME rows[c] # None, Settled(calls[c]) = Settled(rows[c])
                   PROVE  /\ rows[c].endedAt # None => new[c].endedAt = rows[c].endedAt
                          /\ rows[c].wasAccepted => new[c].wasAccepted
                          /\ rows[c].onAir = None /\ rows[c].status # "rejected"
        BY <1>1, <1>5, <3>2 DEF StaysSettled
      <4>1. rows[c] \in Call
        BY DEF RegistryInv, RegistryTypeOK
      <4>2. /\ calls[c].endedAt = rows[c].endedAt
            /\ calls[c].wasAccepted = rows[c].wasAccepted
            /\ calls[c].onAir = rows[c].onAir
            /\ calls[c].status = "rejected" <=> rows[c].status = "rejected"
        BY <2>1, <4>1, SettledAlike
      <4>3. calls[c].onAir = None /\ calls[c].status # "rejected"
        BY <2>1 DEF InPlay, EndedStatuses
      <4> QED
        BY <1>5, <4>2, <4>3 DEF Advances
    <3> QED
      BY <3>1, <3>2
  <2> QED
    BY <2>2, <2>3
<1> QED
  BY <1>2, <1>3, <1>4, <1>5 DEF Proper

LEMMA CommitOneRespects ==
  ASSUME RegistryInv, NEW c \in Calls, NEW call \in Committable,
         CommitOne(c, call), Proper(c, call)
  PROVE  Respects
<1> DEFINE new == [x \in {c} |-> call]
<1>1. new \in [{c} -> Committable] /\ {c} \in SUBSET Calls
  OBVIOUS
<1>2. Commit(new)
  BY DEF CommitOne
<1>3. \A x \in {c} : Proper(x, new[x])
  OBVIOUS
<1> HIDE DEF new
<1> QED
  BY <1>1, <1>2, <1>3, CommitRespects

\* What does not change is respected.
LEMMA StutterRespects ==
  ASSUME UNCHANGED <<calls, rows>>
  PROVE  Respects
  BY DEF Respects, StaysOver, StaysSettled, Over, OpenCalls, InMemory

\* Closing a saved row respects what it has settled.
LEMMA CloseSavedRespects ==
  ASSUME RegistryInv,
         NEW c \in Calls, NEW seconds \in Seconds \cup {None}, CloseSaved(c, seconds)
  PROVE  Respects
<1>1. PICK ok \in Outcomes("write") : rows' = IF ok THEN CloseCall(c, seconds) ELSE rows
  BY DEF CloseSaved
<1>2. calls' = calls /\ calls[c] = None
  BY DEF CloseSaved, InMemory
<1>3. \/ rows' = rows
      \/ /\ rows[c] # None /\ rows[c].status # "rejected"
         /\ rows' = [rows EXCEPT ![c] = ClosedRow(rows[c], seconds)]
  BY <1>1 DEF CloseCall
<1>4. CASE rows' = rows
  BY <1>2, <1>4, StutterRespects
<1>5. CASE /\ rows[c] # None /\ rows[c].status # "rejected"
           /\ rows' = [rows EXCEPT ![c] = ClosedRow(rows[c], seconds)]
  <2> DEFINE row == ClosedRow(rows[c], seconds)
  <2>1. rows[c] \in Call
    BY <1>5 DEF RegistryInv, RegistryTypeOK
  <2>2. /\ row \in Call /\ row.status = "ended"
        /\ row.endedAt = IF rows[c].endedAt = None THEN "ended" ELSE rows[c].endedAt
        /\ row.wasAccepted = rows[c].wasAccepted
        /\ row.onAir = IF seconds = None THEN rows[c].onAir ELSE seconds
    BY <2>1 DEF ClosedRow, Call, CallStatus, TerminalStatuses
  <2>3. Finished(row)
    BY <2>2, NoneIsNoCall, NoneIsNoStamp DEF Finished, TerminalStatuses
  <2>4. \A x \in Calls : rows'[x] = IF x = c THEN row ELSE rows[x]
    BY <1>5 DEF RegistryInv, RegistryTypeOK
  <2> HIDE DEF row
  <2>5. \A x \in Calls : StaysOver(x)
    BY <1>2, <2>3, <2>4 DEF StaysOver, Over, OpenCalls, InMemory
  <2>6. \A x \in Calls : StaysSettled(x)
    BY <1>5, <2>2, <2>4 DEF StaysSettled
  <2> QED
    BY <2>5, <2>6 DEF Respects
<1> QED
  BY <1>3, <1>4, <1>5

\* What the sweep makes of a row that is still in play: it finishes nothing.
LEMMA SweptRow ==
  ASSUME NEW row \in Call, Sound(row), row.status \notin EndedStatuses
  PROVE  LET swept == [row EXCEPT !.status = "ended"]
         IN  /\ Finished(swept) <=> Finished(row)
             /\ swept.endedAt = row.endedAt /\ swept.wasAccepted = row.wasAccepted
             /\ swept.onAir = row.onAir
<1> DEFINE swept == [row EXCEPT !.status = "ended"]
<1>1. /\ swept \in Call /\ swept.status = "ended"
      /\ swept.endedAt = row.endedAt /\ swept.wasAccepted = row.wasAccepted
      /\ swept.onAir = row.onAir
  BY DEF Call, CallStatus
<1>2. Finished(swept) <=> row.endedAt # None
  BY <1>1, NoneIsNoCall DEF Finished
<1>3. Finished(row) <=> row.endedAt # None
  BY NoneIsNoCall DEF Finished, Sound, EndedStatuses, Call, CallStatus
<1> QED
  BY <1>1, <1>2, <1>3

\* What a recovery does to a call: it is put back, swept or left alone.
LEMMA RecoveryWrites ==
  ASSUME RegistryInv,
         NEW restored \in SUBSET Calls, NEW new \in [restored -> Committable],
         \A c \in restored : ~InMemory(c) /\ new[c].status = "on-hold",
         NEW saved \in SUBSET restored, NEW warned,
         calls' = CallsAfter(new), Sweep(RowsAfter(new, saved), CallsAfter(new), warned)
  PROVE  \A c \in Calls :
           /\ calls'[c] = IF c \in restored THEN new[c] ELSE calls[c]
           /\ IF c \in saved THEN rows'[c] = new[c]
              ELSE \/ rows'[c] = rows[c]
                   \/ /\ ~InMemory(c) /\ rows[c] \in Call /\ Sound(rows[c])
                      /\ rows[c].status \notin EndedStatuses
                      /\ rows'[c] = [rows[c] EXCEPT !.status = "ended"]
<1> DEFINE rs == RowsAfter(new, saved)
           mem == CallsAfter(new)
<1>1. PICK listed \in Outcomes("read"), ok \in Outcomes("write") :
        LET stale == IF listed THEN Stale(rs, mem) ELSE {}
        IN  rows' = IF ok THEN MarkEndedDuringRestart(rs, stale) ELSE rs
  BY DEF Sweep
<1> DEFINE stale == IF ok /\ listed THEN Stale(rs, mem) ELSE {}
<1>2. \A c \in Calls : rows'[c] = IF c \in stale THEN [rs[c] EXCEPT !.status = "ended"]
                                  ELSE rs[c]
  <2>1. rs = [c \in Calls |-> rs[c]]
    BY DEF RowsAfter
  <2> QED
    BY <1>1, <2>1 DEF MarkEndedDuringRestart
<1>3. \A c \in Calls : rs[c] = IF c \in saved THEN new[c] ELSE rows[c]
  BY DEF RowsAfter
<1>4. \A c \in Calls : calls'[c] = IF c \in restored THEN new[c] ELSE calls[c]
  BY DEF CallsAfter, EndedStatuses
<1>5. \A c \in restored : new[c] # None
  BY NoneIsNoCall DEF Committable
<1>6. \A c \in stale : /\ c \in Calls /\ c \notin restored /\ ~InMemory(c)
                       /\ rows[c] # None /\ rows[c].status \notin EndedStatuses
  BY <1>3, <1>4, <1>5 DEF Stale, InMemory
<1> HIDE DEF stale, rs, mem
<1>7. \A c \in stale : /\ rows'[c] = [rows[c] EXCEPT !.status = "ended"]
                       /\ rows[c] \in Call /\ Sound(rows[c])
  BY <1>2, <1>3, <1>6 DEF RegistryInv, RegistryTypeOK
<1> QED
  BY <1>2, <1>3, <1>4, <1>6, <1>7

\* A recovered call holds, and has not finished.
LEMMA RecoveredUnfinished ==
  ASSUME NEW row, NEW described
  PROVE  /\ ~Finished(Recovered(row, described))
         /\ Recovered(row, described).status = "on-hold"
  BY DEF Finished, Recovered, NewCall

\* A recovery puts nobody back who had finished, and changes nothing settled.
LEMMA RecoveryRespects ==
  ASSUME RegistryInv,
         NEW restored \in SUBSET Calls, NEW new \in [restored -> Committable],
         \A c \in restored : /\ ~InMemory(c) /\ ~Finished(rows[c])
                             /\ new[c].status = "on-hold",
         NEW saved \in SUBSET restored, NEW warned,
         calls' = CallsAfter(new), Sweep(RowsAfter(new, saved), CallsAfter(new), warned)
  PROVE  Respects
<1>0. \A c \in restored : ~InMemory(c) /\ new[c].status = "on-hold"
  OBVIOUS
<1> SUFFICES ASSUME NEW c \in Calls
             PROVE  StaysOver(c) /\ StaysSettled(c)
  BY DEF Respects
<1>1. /\ calls'[c] = IF c \in restored THEN new[c] ELSE calls[c]
      /\ IF c \in saved THEN rows'[c] = new[c]
         ELSE \/ rows'[c] = rows[c]
              \/ /\ ~InMemory(c) /\ rows[c] \in Call /\ Sound(rows[c])
                 /\ rows[c].status \notin EndedStatuses
                 /\ rows'[c] = [rows[c] EXCEPT !.status = "ended"]
  BY <1>0, RecoveryWrites
<1>2. CASE c \in restored
  <2>1. rows[c] # None => rows[c] \in Call /\ Sound(rows[c])
    BY DEF RegistryInv, RegistryTypeOK
  <2> QED
    BY <1>2, <2>1, UnfinishedIsUnsettled DEF StaysOver, StaysSettled, Over
<1>3. CASE c \notin restored /\ rows'[c] = rows[c]
  BY <1>1, <1>3 DEF StaysOver, StaysSettled, Over, OpenCalls, InMemory
<1>4. CASE c \notin restored /\ rows'[c] # rows[c]
  <2> DEFINE swept == [rows[c] EXCEPT !.status = "ended"]
  <2>1. /\ ~InMemory(c) /\ rows'[c] = swept /\ calls'[c] = calls[c]
        /\ rows[c] \in Call /\ Sound(rows[c]) /\ rows[c].status \notin EndedStatuses
    BY <1>1, <1>4
  <2>2. /\ Finished(swept) <=> Finished(rows[c])
        /\ swept.endedAt = rows[c].endedAt /\ swept.wasAccepted = rows[c].wasAccepted
        /\ swept.onAir = rows[c].onAir
    BY <2>1, SweptRow
  <2> HIDE DEF swept
  <2>3. StaysOver(c)
    BY <2>1, <2>2 DEF StaysOver, Over, OpenCalls, InMemory
  <2>4. StaysSettled(c)
    BY <2>1, <2>2 DEF StaysSettled, EndedStatuses
  <2> QED
    BY <2>3, <2>4
<1> QED
  BY <1>2, <1>3, <1>4

-----------------------------------------------------------------------------
(* The methods. *)

LEMMA RegisterIncomingRespects ==
  ASSUME RegistryInv, NEW c \in Calls, RegisterIncoming(c)
  PROVE  Respects
  BY NewCallCommittable, CommitOneRespects DEF RegisterIncoming, Proper

\* What a speech result commits: a call that is revived, unless its row has
\* finished, or the one in memory.  This is where reads matter.
LEMMA SetTranscriptCommits ==
  ASSUME "read" \notin StoreFaults, RegistryInv, NEW c \in Calls, SetTranscript(c)
  PROVE  \E heard \in Committable :
           /\ CommitOne(c, heard)
           /\ heard.status \in {"on-hold", "accepted"}
           /\ heard.transcript = Speech[c]
           /\ InMemory(c) => /\ Advances(calls[c], heard)
                             /\ calls[c].status # "screening" =>
                                  heard.status = calls[c].status
           /\ ~InMemory(c) => ~Finished(rows[c]) /\ heard.status = "on-hold"
<1> DEFINE call == IF InMemory(c) THEN calls[c] ELSE Revived(rows[c])
           heard == [call EXCEPT
              !.transcript = Speech[c],
              !.status     = IF @ = "screening" THEN "on-hold" ELSE @]
<1>1. (InMemory(c) \/ ~Finished(rows[c])) /\ CommitOne(c, heard)
  BY DEF SetTranscript, Outcomes, GetCall
<1>2. call \in Call /\ InPlay(call)
  <2>1. CASE InMemory(c)
    BY <2>1, InMemoryInPlay
  <2>2. CASE ~InMemory(c)
    BY <1>1, <2>2, RevivedInPlay DEF RegistryInv, RegistryTypeOK
  <2> QED
    BY <2>1, <2>2
<1>3. /\ InMemory(c) => call = calls[c]
      /\ ~InMemory(c) => call.status = "on-hold"
  BY DEF Revived, NewCall, RegistryInv, RegistryTypeOK, Call
<1> HIDE DEF call
<1>4. heard \in Committable
  BY <1>2, HeardCommittable DEF Texts
<1>5. /\ heard.status = IF call.status = "screening" THEN "on-hold" ELSE call.status
      /\ heard.endedAt = call.endedAt /\ heard.wasAccepted = call.wasAccepted
      /\ heard # None /\ heard.transcript = Speech[c]
  BY <1>2, <1>4, NoneIsNoCall DEF Call, Committable
<1>6. heard.status \in {"on-hold", "accepted"}
  BY <1>2, <1>5 DEF InPlay, EndedStatuses, Call, CallStatus
<1> HIDE DEF heard
<1>7. Advances(call, heard)
  BY <1>5 DEF Advances, Finished
<1> QED
  BY <1>1, <1>3, <1>4, <1>5, <1>6, <1>7

LEMMA SetTranscriptRespects ==
  ASSUME "read" \notin StoreFaults, RegistryInv, NEW c \in Calls, SetTranscript(c)
  PROVE  Respects
<1>1. PICK heard \in Committable :
        /\ CommitOne(c, heard)
        /\ InMemory(c) => Advances(calls[c], heard)
        /\ ~InMemory(c) => ~Finished(rows[c])
  BY SetTranscriptCommits
<1> QED
  BY <1>1, CommitOneRespects DEF Proper

\* A call moved to a terminal status has finished, and keeps its stamp.
LEMMA MovedFinishes ==
  ASSUME NEW call \in Call, NEW status \in TerminalStatuses
  PROVE  /\ Finished(Moved(call, status))
         /\ Advances(call, Moved(call, status))
<1> DEFINE m == Moved(call, status)
<1>1. /\ m \in Call /\ m.status = status
      /\ m.endedAt = IF call.endedAt = None THEN status ELSE call.endedAt
      /\ m.wasAccepted = (call.wasAccepted \/ status = "accepted")
  BY DEF Moved, Call, CallStatus, TerminalStatuses
<1>2. m.endedAt # None /\ m # None
  BY <1>1, NoneIsNoStamp, NoneIsNoCall
<1>3. Finished(m)
  BY <1>1, <1>2 DEF Finished, TerminalStatuses
<1> QED
  BY <1>1, <1>3 DEF Advances

LEMMA ClosedFinishes ==
  ASSUME NEW call \in Call
  PROVE  Finished(Closed(call)) /\ Advances(call, Closed(call))
<1> DEFINE d == Closed(call)
<1>1. /\ d \in Call /\ d.status \in {"rejected", "ended"}
      /\ d.endedAt = IF call.endedAt = None THEN "ended" ELSE call.endedAt
      /\ d.wasAccepted = call.wasAccepted
  BY DEF Closed, Call, CallStatus, TerminalStatuses
<1>2. d.endedAt # None /\ d # None
  BY <1>1, NoneIsNoStamp, NoneIsNoCall DEF TerminalStatuses
<1>3. Finished(d)
  BY <1>1, <1>2 DEF Finished
<1> QED
  BY <1>1, <1>3 DEF Advances

LEMMA SetStatusRespects ==
  ASSUME RegistryInv, NEW S \in SUBSET Calls,
         NEW status \in TerminalStatuses, SetStatus(S, status)
  PROVE  Respects
<1> DEFINE moved == {c \in S : InMemory(c) /\ calls[c].status # status}
           new == [c \in moved |-> Moved(calls[c], status)]
<1>1. new \in [moved -> Committable]
  BY InMemoryInPlay, MovedCommittable
<1>2. Commit(new) /\ moved \in SUBSET Calls
  BY DEF SetStatus
<1>3. \A c \in moved : Proper(c, new[c])
  BY <1>2, InMemoryInPlay, MovedFinishes DEF Proper
<1> HIDE DEF moved, new
<1> QED
  BY <1>1, <1>2, <1>3, CommitRespects

\* What the dial result commits of a call in memory.
LEMMA OffAirFinishes ==
  ASSUME RegistryInv, NEW c \in Calls, NEW seconds \in Seconds \cup {None}, InMemory(c)
  PROVE  LET over == Moved([calls[c] EXCEPT !.onAir = seconds], "ended")
         IN  /\ over \in Committable /\ Finished(over) /\ over.status = "ended"
             /\ Advances(calls[c], over)
<1> DEFINE timed == [calls[c] EXCEPT !.onAir = seconds]
           over == Moved(timed, "ended")
<1>1. calls[c] \in Call /\ InPlay(calls[c])
  BY InMemoryInPlay
<1>2. over \in Committable
  BY <1>1, OffAirCommittable
<1>3. /\ timed \in Call /\ timed.endedAt = calls[c].endedAt
      /\ timed.wasAccepted = calls[c].wasAccepted /\ timed.status = calls[c].status
  BY <1>1 DEF Call
<1> HIDE DEF timed
<1>4. over.status = "ended" /\ Finished(over) /\ Advances(timed, over)
  BY <1>3, MovedFinishes DEF TerminalStatuses, Moved, Call
<1> HIDE DEF over
<1>5. Advances(calls[c], over)
  BY <1>3, <1>4 DEF Advances
<1> QED
  BY <1>2, <1>4, <1>5 DEF over, timed

LEMMA EndOnAirRespects ==
  ASSUME RegistryInv, NEW c \in Calls, NEW seconds \in Seconds \cup {None},
         EndOnAir(c, seconds)
  PROVE  Respects
<1>1. CASE CloseSaved(c, seconds)
  BY <1>1, CloseSavedRespects
<1>2. CASE InMemory(c)
           /\ CommitOne(c, Moved([calls[c] EXCEPT !.onAir = seconds], "ended"))
  BY <1>2, OffAirFinishes, CommitOneRespects DEF Proper
<1> QED
  BY <1>1, <1>2 DEF EndOnAir

LEMMA EndRespects ==
  ASSUME RegistryInv, NEW c \in Calls, End(c)
  PROVE  Respects
<1>1. CASE CloseSaved(c, None)
  BY <1>1, CloseSavedRespects
<1>2. CASE InMemory(c) /\ CommitOne(c, Closed(calls[c]))
  BY <1>2, InMemoryInPlay, ClosedCommittable, ClosedFinishes, CommitOneRespects
     DEF Proper
<1> QED
  BY <1>1, <1>2 DEF End

LEMMA ApplyContactRespects ==
  ASSUME RegistryInv, NEW S \in SUBSET Calls, ApplyContact(S)
  PROVE  Respects
<1> DEFINE new == [c \in S |-> calls[c]]
<1>1. new \in [S -> Committable] /\ Commit(new) /\ \A c \in S : InMemory(c)
  BY InMemoryInPlay, InPlayCommittable DEF ApplyContact
<1>2. \A c \in S : Advances(calls[c], calls[c])
  BY <1>1, InMemoryInPlay, FinishedInPlay DEF Advances
<1>3. \A c \in S : Proper(c, new[c])
  BY <1>1, <1>2 DEF Proper
<1> HIDE DEF new
<1> QED
  BY <1>1, <1>3, CommitRespects

\* Whom a recovery restores, when the store can be read.
LEMMA RestoreAndSweepRestores ==
  ASSUME "read" \notin StoreFaults, RegistryInv,
         NEW members \in SUBSET Calls, RestoreAndSweep(members)
  PROVE  \E restored \in SUBSET Calls :
         \E new \in [restored -> Committable], saved \in SUBSET restored :
           /\ \A c \in restored : /\ ~InMemory(c) /\ ~Finished(rows[c])
                                  /\ ~Finished(new[c]) /\ new[c].status = "on-hold"
                                  /\ rows[c] # None =>
                                       new[c].transcript = rows[c].transcript
           /\ calls' = CallsAfter(new)
           /\ Sweep(RowsAfter(new, saved), CallsAfter(new), warning \/ saved # restored)
<1> DEFINE restored == Restorable(members, members)
<1>1. \A c \in members : GetCall(c, c \in members) = rows[c]
  BY DEF GetCall
<1>2. PICK described \in SUBSET members :
        LET new == [c \in restored |->
                      Recovered(GetCall(c, c \in members), c \in described)]
        IN  \E saved \in Reached("write", restored) :
              /\ calls' = CallsAfter(new)
              /\ Sweep(RowsAfter(new, saved), CallsAfter(new),
                       warning \/ saved # restored)
  BY DEF RestoreAndSweep, Reached
<1> DEFINE new == [c \in restored |->
                     Recovered(GetCall(c, c \in members), c \in described)]
<1>3. PICK saved \in Reached("write", restored) :
        /\ calls' = CallsAfter(new)
        /\ Sweep(RowsAfter(new, saved), CallsAfter(new), warning \/ saved # restored)
  BY <1>2
<1>4. saved \in SUBSET restored
  BY ReachedSome
<1>5. restored \in SUBSET Calls /\ restored \subseteq members
  BY DEF Restorable
<1>6. new \in [restored -> Committable]
  <2> SUFFICES ASSUME NEW c \in restored
               PROVE  Recovered(GetCall(c, c \in members), c \in described)
                        \in Committable
    OBVIOUS
  <2>1. GetCall(c, c \in members) \in Call \cup {None} /\ (c \in described) \in BOOLEAN
    BY <1>1, <1>5 DEF RegistryInv, RegistryTypeOK
  <2> QED
    BY <2>1, RecoveredCommittable
<1>7. \A c \in restored : ~InMemory(c) /\ ~Finished(rows[c])
  BY <1>1, <1>5 DEF Restorable
<1>8. \A c \in restored : ~Finished(new[c]) /\ new[c].status = "on-hold"
  BY RecoveredUnfinished
<1>9. \A c \in restored : rows[c] # None => new[c].transcript = rows[c].transcript
  BY <1>1, <1>5 DEF Recovered, NewCall
<1> HIDE DEF restored, new
<1> QED
  BY <1>3, <1>4, <1>5, <1>6, <1>7, <1>8, <1>9

LEMMA RestoreAndSweepRespects ==
  ASSUME "read" \notin StoreFaults, RegistryInv,
         NEW members \in SUBSET Calls, RestoreAndSweep(members)
  PROVE  Respects
  BY RestoreAndSweepRestores, RecoveryRespects

\* A sweep is a recovery of nobody.
LEMMA SweepRecovers ==
  ASSUME RegistryInv, NEW new \in [{} -> Committable]
  PROVE  RowsAfter(new, {}) = rows /\ CallsAfter(new) = calls
<1>1. DOMAIN new = {}
  OBVIOUS
<1> QED
  BY <1>1 DEF RowsAfter, CallsAfter, RegistryInv, RegistryTypeOK

LEMMA SweepStaleRespects ==
  ASSUME RegistryInv, SweepStale
  PROVE  Respects
<1> DEFINE new == [c \in {} |-> NewCall]
<1>1. new \in [{} -> Committable]
  OBVIOUS
<1> HIDE DEF new
<1>2. Sweep(RowsAfter(new, {}), CallsAfter(new), warning) /\ calls' = CallsAfter(new)
  BY <1>1, SweepRecovers DEF SweepStale
<1> QED
  BY <1>1, <1>2, RecoveryRespects

LEMMA RestartRespects ==
  ASSUME Restart
  PROVE  Respects
  BY DEF Restart, Respects, StaysOver, StaysSettled, Over, OpenCalls, InMemory

-----------------------------------------------------------------------------
(* The client. *)

\* Every step of the client respects what is over and settled.
LEMMA NextRespects ==
  ASSUME "read" \notin StoreFaults, RegistryInv, [Next]_vars
  PROVE  Respects
<1>1. ASSUME NEW c \in Calls, IncomingCall(c)
      PROVE  Respects
  BY <1>1, RegisterIncomingRespects DEF IncomingCall
<1>2. ASSUME NEW c \in Calls, SpeechResult(c)
      PROVE  Respects
  BY <1>2, SetTranscriptRespects DEF SpeechResult
<1>3. ASSUME NEW c \in Calls, Accept(c) \/ Reject(c)
      PROVE  Respects
  BY <1>3, SetStatusRespects DEF Accept, Reject, TerminalStatuses
<1>4. ASSUME NEW S \in SUBSET Calls, Drain(S)
      PROVE  Respects
  BY <1>4, SetStatusRespects DEF Drain, TerminalStatuses
<1>5. ASSUME NEW c \in Calls, NEW seconds \in Seconds \cup {None},
             DialComplete(c, seconds)
      PROVE  Respects
  BY <1>5, EndOnAirRespects DEF DialComplete
<1>6. ASSUME NEW c \in Calls, CallOver(c)
      PROVE  Respects
  BY <1>6, EndRespects DEF CallOver
<1>7. ASSUME NEW S \in SUBSET Calls, ChangeContact(S)
      PROVE  Respects
  BY <1>7, ApplyContactRespects DEF ChangeContact
<1>8. ASSUME NEW members \in SUBSET Calls, Reconcile(members)
      PROVE  Respects
  BY <1>8, RestoreAndSweepRespects DEF Reconcile
<1>9. CASE ReconcileFails \/ UNCHANGED vars
  BY <1>9, StutterRespects DEF ReconcileFails, vars, registryVars
<1>10. CASE SweepAtBoot
  BY <1>10, SweepStaleRespects DEF SweepAtBoot
<1>11. CASE Reboot
  BY <1>11, RestartRespects DEF Reboot
<1> QED
  BY <1>1, <1>2, <1>3, <1>4, <1>5, <1>6, <1>7, <1>8, <1>9, <1>10, <1>11 DEF Next

\* A call that is over stays over, its row finished and not back in memory, as
\* long as the store can be read, but for a ring retried late: no speech result
\* and no recovery "must ... put a finished caller back" (call_registry.py:275).
THEOREM FinishedForGood == "read" \notin StoreFaults => (Spec => FinishedStays)
<1> SUFFICES ASSUME "read" \notin StoreFaults
             PROVE  Spec => FinishedStays
  OBVIOUS
<1>1. ClientInv /\ [Next]_vars =>
        [\A c \in Calls : Over(c) /\ ~RungAnew(c) =>
           /\ Over(c)'
           /\ InMemory(c)' => InMemory(c)]_vars
  BY NextRespects DEF ClientInv, Respects, StaysOver
<1> QED
  BY <1>1, Invariance, PTL DEF Spec, FinishedStays

\* What a row has settled stands (store.py:262), as long as the store can be
\* read: the stamp of ended_at, was_accepted, a length, a rejection.  Not where
\* a retried ring registers the call anew, or has done so without being saved.
THEOREM SettledForGood == "read" \notin StoreFaults => (Spec => SettledStands)
<1> SUFFICES ASSUME "read" \notin StoreFaults
             PROVE  Spec => SettledStands
  OBVIOUS
<1>1. ClientInv /\ [Next]_vars =>
        [\A c \in Calls :
           /\ rows[c] # None /\ ~RungAnew(c)
           /\ InMemory(c) => Settled(calls[c]) = Settled(rows[c])
           => /\ rows[c].endedAt # None => rows'[c].endedAt = rows[c].endedAt
              /\ rows[c].wasAccepted => rows'[c].wasAccepted
              /\ rows[c].onAir # None => rows'[c].onAir # None
              /\ rows[c].status = "rejected" => rows'[c].status = "rejected"]_vars
  BY NextRespects DEF ClientInv, Respects, StaysSettled
<1> QED
  BY <1>1, Invariance, PTL DEF Spec, SettledStands

-----------------------------------------------------------------------------
(* The registry keeps its promise as long as the store can be read: every  *)
(* step of RegistryClient is a step of InPlay, or changes nothing that     *)
(* InPlay talks of.                                                        *)

\* The status a call is shown with once it is committed.
Shown(call) == IF call.status \in EndedStatuses THEN "none" ELSE call.status

\* Of a step: it was promised.
Promised == [Promise!InPlayNext]_(Promise!inPlayVars)

\* What is shown of a call that may be in memory is its status.
LEMMA ShownInPlay ==
  ASSUME RegistryInv, NEW c \in Calls
  PROVE  /\ InMemory(c) => ShownStatus[c] \in {"screening", "on-hold", "accepted"}
         /\ InMemory(c) => ShownStatus[c] = calls[c].status
         /\ ~InMemory(c) => ShownStatus[c] = "none"
  BY InMemoryInPlay DEF ShownStatus, InPlay, Call, CallStatus, EndedStatuses

\* A step that concerns one call, or several.
LEMMA PromisedOne ==
  ASSUME NEW c \in Calls, NEW kept \in SUBSET {c}, Promise!Saving(kept),
         \/ Promise!Ring(c) \/ Promise!Hold(c)
         \/ Promise!Accept(c) \/ Promise!Settle(c)
  PROVE  Promised
  BY DEF Promised, Promise!InPlayNext

LEMMA PromisedSome ==
  ASSUME NEW S \in SUBSET Calls, NEW kept \in SUBSET S, Promise!Saving(kept),
         Promise!Leave(S) \/ Promise!Recover(S) \/ Promise!Resave(S)
  PROVE  Promised
  BY DEF Promised, Promise!InPlayNext

LEMMA PromisedNothing ==
  ASSUME UNCHANGED <<calls, rows>>
  PROVE  Promised
  BY DEF Promised, Promise!inPlayVars, ShownStatus, ClosedCalls, InMemory

-----------------------------------------------------------------------------
(* The methods. *)

\* A commit shows the calls it is given, and closes those of them that it saves
\* and that no longer wait.
LEMMA CommitShows ==
  ASSUME NEW D \in SUBSET Calls, NEW new \in [D -> Committable], Commit(new),
         \A c \in D : new[c].status \in EndedStatuses => Finished(new[c])
  PROVE  /\ \E kept \in SUBSET D : Promise!Saving(kept)
         /\ ShownStatus' = [c \in Calls |-> IF c \in D THEN Shown(new[c])
                                            ELSE ShownStatus[c]]
<1>1. PICK saved \in SUBSET D :
        \A c \in Calls :
          /\ rows'[c] = IF c \in saved THEN new[c] ELSE rows[c]
          /\ calls'[c] = IF c \notin D THEN calls[c]
                         ELSE IF new[c].status \in EndedStatuses THEN None
                         ELSE new[c]
  BY CommitWrites
<1>2. \A c \in D : new[c] # None /\ new[c] \in Call
  BY NoneIsNoCall DEF Committable
<1>3. ShownStatus' = [c \in Calls |-> IF c \in D THEN Shown(new[c])
                                      ELSE ShownStatus[c]]
  BY <1>1, <1>2 DEF ShownStatus, InMemory, Shown
<1>4. \A c \in D : Finished(new[c]) <=> ~Promise!Waiting(Shown(new[c]))
  BY <1>2 DEF Promise!Waiting, Shown, Finished, EndedStatuses, Call, CallStatus
<1>5. \A c \in Calls : c \in ClosedCalls' <=>
        IF c \in saved THEN ~Promise!Waiting(ShownStatus'[c]) ELSE c \in ClosedCalls
  BY <1>1, <1>3, <1>4 DEF ClosedCalls
<1>6. Promise!Saving(saved)
  BY <1>5 DEF Promise!Saving, ClosedCalls
<1> QED
  BY <1>3, <1>6

LEMMA CommitOneShows ==
  ASSUME NEW c \in Calls, NEW call \in Committable, CommitOne(c, call),
         call.status \in EndedStatuses => Finished(call)
  PROVE  /\ \E kept \in SUBSET {c} : Promise!Saving(kept)
         /\ ShownStatus' = [ShownStatus EXCEPT ![c] = Shown(call)]
<1> DEFINE new == [x \in {c} |-> call]
<1>1. new \in [{c} -> Committable] /\ {c} \in SUBSET Calls
  OBVIOUS
<1>2. Commit(new) /\ new[c] = call
  BY DEF CommitOne
<1> HIDE DEF new
<1>3. /\ \E kept \in SUBSET {c} : Promise!Saving(kept)
      /\ ShownStatus' = [x \in Calls |-> IF x \in {c} THEN Shown(new[x])
                                         ELSE ShownStatus[x]]
  BY <1>1, <1>2, CommitShows
<1> QED
  BY <1>2, <1>3 DEF ShownStatus

LEMMA RegisterIncomingPromise ==
  ASSUME RegistryInv, NEW c \in Calls, RegisterIncoming(c)
  PROVE  Promised
<1>1. ShownStatus[c] = "none"
  BY ShownInPlay DEF RegisterIncoming
<1>2. Shown(NewCall) = "screening" /\ NewCall.status \notin EndedStatuses
  BY DEF NewCall, Shown, EndedStatuses
<1>3. /\ \E kept \in SUBSET {c} : Promise!Saving(kept)
      /\ ShownStatus' = [ShownStatus EXCEPT ![c] = "screening"]
  BY <1>2, NewCallCommittable, CommitOneShows DEF RegisterIncoming
<1> QED
  BY <1>1, <1>3, PromisedOne DEF Promise!Ring

\* Whoever is heard holds by then, or is on air already.
LEMMA SetTranscriptPromise ==
  ASSUME "read" \notin StoreFaults, RegistryInv, NEW c \in Calls, SetTranscript(c)
  PROVE  Promised
<1>1. PICK heard \in Committable :
           /\ CommitOne(c, heard)
           /\ heard.status \in {"on-hold", "accepted"}
           /\ InMemory(c) => /\ Advances(calls[c], heard)
                             /\ calls[c].status # "screening" =>
                                  heard.status = calls[c].status
           /\ ~InMemory(c) => ~Finished(rows[c]) /\ heard.status = "on-hold"
  BY SetTranscriptCommits
<1>2. Shown(heard) = heard.status /\ heard.status \notin EndedStatuses
  BY <1>1 DEF Shown, EndedStatuses
<1>3. PICK kept \in SUBSET {c} : Promise!Saving(kept)
  BY <1>1, <1>2, CommitOneShows
<1>4. ShownStatus' = [ShownStatus EXCEPT ![c] = heard.status]
  BY <1>1, <1>2, CommitOneShows
<1>5. CASE ~InMemory(c)
  <2>1. ShownStatus[c] = "none" /\ c \notin ClosedCalls
    BY <1>1, <1>5, ShownInPlay DEF ClosedCalls
  <2> QED
    BY <1>1, <1>3, <1>4, <1>5, <2>1, PromisedOne DEF Promise!Hold
<1>6. CASE InMemory(c) /\ calls[c].status = "screening" /\ heard.status = "on-hold"
  <2>1. ShownStatus[c] = "screening"
    BY <1>6, ShownInPlay
  <2> QED
    BY <1>3, <1>4, <1>6, <2>1, PromisedOne DEF Promise!Hold
<1>7. CASE InMemory(c) /\ calls[c].status # "screening"
  <2>1. ShownStatus[c] = heard.status /\ ShownStatus[c] # "none"
    BY <1>1, <1>7, ShownInPlay
  <2>2. ShownStatus' = ShownStatus
    BY <1>4, <2>1 DEF ShownStatus
  <2> QED
    BY <1>3, <2>1, <2>2, PromisedSome DEF Promise!Resave
<1>8. CASE InMemory(c) /\ calls[c].status = "screening" /\ heard.status = "accepted"
  <2>1. ShownStatus[c] = "screening"
    BY <1>8, ShownInPlay
  <2> QED
    BY <1>3, <1>4, <1>8, <2>1, PromisedOne DEF Promise!Accept, Promise!Waiting
<1> QED
  BY <1>1, <1>5, <1>6, <1>7, <1>8

LEMMA AcceptPromise ==
  ASSUME RegistryInv, NEW c \in Calls, SetStatus({c}, "accepted")
  PROVE  Promised
<1> DEFINE call == Moved(calls[c], "accepted")
<1>1. InMemory(c) /\ calls[c].status # "accepted"
  BY DEF SetStatus
<1>2. {x \in {c} : InMemory(x) /\ calls[x].status # "accepted"} = {c}
  BY <1>1
<1>3. CommitOne(c, call)
  <2>1. Commit([x \in {c} |-> Moved(calls[x], "accepted")])
    BY <1>2 DEF SetStatus
  <2>2. [x \in {c} |-> Moved(calls[x], "accepted")] = [x \in {c} |-> call]
    OBVIOUS
  <2> QED
    BY <2>1, <2>2 DEF CommitOne
<1>4. calls[c] \in Call /\ InPlay(calls[c])
  BY <1>1, InMemoryInPlay
<1>5. call \in Committable /\ call.status = "accepted"
  BY <1>4, MovedCommittable DEF TerminalStatuses, Moved, Call
<1> HIDE DEF call
<1>6. Shown(call) = "accepted" /\ call.status \notin EndedStatuses
  BY <1>5 DEF Shown, EndedStatuses
<1>7. /\ \E kept \in SUBSET {c} : Promise!Saving(kept)
      /\ ShownStatus' = [ShownStatus EXCEPT ![c] = "accepted"]
  BY <1>3, <1>5, <1>6, CommitOneShows
<1>8. ShownStatus[c] \in {"screening", "on-hold"}
  BY <1>1, ShownInPlay
<1> QED
  BY <1>7, <1>8, PromisedOne DEF Promise!Accept, Promise!Waiting

\* Calls in play that are over leave, all at once.
LEMMA CommitLeaves ==
  ASSUME RegistryInv,
         NEW D \in SUBSET Calls, NEW new \in [D -> Committable], Commit(new),
         \A c \in D : InMemory(c),
         \A c \in D : new[c].status \in EndedStatuses /\ Finished(new[c])
  PROVE  Promised
<1>1. /\ \E kept \in SUBSET D : Promise!Saving(kept)
      /\ ShownStatus' = [c \in Calls |-> IF c \in D THEN Shown(new[c])
                                         ELSE ShownStatus[c]]
  BY CommitShows
<1>2. \A c \in D : ShownStatus[c] # "none"
  BY ShownInPlay
<1>3. ShownStatus' = [c \in Calls |-> IF c \in D THEN "none" ELSE ShownStatus[c]]
  BY <1>1 DEF Shown
<1> QED
  BY <1>1, <1>2, <1>3, PromisedSome DEF Promise!Leave

LEMMA CommitOneLeaves ==
  ASSUME RegistryInv, NEW c \in Calls,
         NEW call \in Committable, InMemory(c), CommitOne(c, call),
         call.status \in EndedStatuses, Finished(call)
  PROVE  Promised
<1> DEFINE new == [x \in {c} |-> call]
<1>1. new \in [{c} -> Committable] /\ {c} \in SUBSET Calls
  OBVIOUS
<1>2. Commit(new)
  BY DEF CommitOne
<1>3. \A x \in {c} : InMemory(x) /\ new[x] = call
  OBVIOUS
<1> HIDE DEF new
<1> QED
  BY <1>1, <1>2, <1>3, CommitLeaves

\* A rejection, or a drain.
LEMMA SetStatusPromise ==
  ASSUME RegistryInv, NEW S \in SUBSET Calls,
         NEW status \in EndedStatuses, SetStatus(S, status)
  PROVE  Promised
<1> DEFINE D == {c \in S : InMemory(c) /\ calls[c].status # status}
           new == [c \in D |-> Moved(calls[c], status)]
<1>1. status \in TerminalStatuses
  BY DEF EndedStatuses, TerminalStatuses
<1>2. new \in [D -> Committable]
  BY <1>1, InMemoryInPlay, MovedCommittable
<1>3. Commit(new) /\ D \in SUBSET Calls
  BY DEF SetStatus
<1>4. \A c \in D : new[c].status \in EndedStatuses /\ Finished(new[c])
  <2> SUFFICES ASSUME NEW c \in D
               PROVE  /\ Moved(calls[c], status).status \in EndedStatuses
                      /\ Finished(Moved(calls[c], status))
    OBVIOUS
  <2>1. calls[c] \in Call
    BY InMemoryInPlay
  <2>2. Moved(calls[c], status).status = status
    BY <2>1 DEF Moved, Call
  <2> QED
    BY <1>1, <2>1, <2>2, MovedFinishes
<1>5. \A c \in D : InMemory(c)
  OBVIOUS
<1> HIDE DEF D, new
<1> QED
  BY <1>2, <1>3, <1>4, <1>5, CommitLeaves

\* The end of a call that is not in memory settles its row, if it has one.
LEMMA CloseSavedPromise ==
  ASSUME RegistryInv, NEW c \in Calls,
         NEW seconds \in Seconds \cup {None}, CloseSaved(c, seconds)
  PROVE  Promised
<1>1. PICK ok \in Outcomes("write") : rows' = IF ok THEN CloseCall(c, seconds) ELSE rows
  BY DEF CloseSaved
<1>2. calls' = calls /\ ~InMemory(c)
  BY DEF CloseSaved
<1>3. ShownStatus' = ShownStatus /\ ShownStatus[c] = "none"
  BY <1>2, ShownInPlay DEF ShownStatus, InMemory
<1>4. CASE rows' = rows
  BY <1>2, <1>4, PromisedNothing
<1>5. CASE rows' # rows
  <2> DEFINE row == ClosedRow(rows[c], seconds)
  <2>1. /\ rows[c] # None /\ rows' = [rows EXCEPT ![c] = row]
        /\ rows[c] \in Call
    BY <1>1, <1>5 DEF CloseCall, RegistryInv, RegistryTypeOK
  <2>2. row \in Call /\ row.status = "ended" /\ row.endedAt # None
    BY <2>1, NoneIsNoStamp DEF ClosedRow, Call, CallStatus, TerminalStatuses
  <2>3. Finished(row)
    BY <2>2, NoneIsNoCall DEF Finished
  <2>4. \A x \in Calls : rows'[x] = IF x = c THEN row ELSE rows[x]
    BY <2>1 DEF RegistryInv, RegistryTypeOK
  <2> HIDE DEF row
  <2>5. Promise!Saving({c})
    BY <1>3, <2>3, <2>4 DEF Promise!Saving, Promise!Waiting, ClosedCalls
  <2> QED
    BY <1>3, <2>5, PromisedOne DEF Promise!Settle
<1> QED
  BY <1>4, <1>5

LEMMA EndOnAirPromise ==
  ASSUME RegistryInv, NEW c \in Calls,
         NEW seconds \in Seconds \cup {None}, EndOnAir(c, seconds)
  PROVE  Promised
<1>1. CASE CloseSaved(c, seconds)
  BY <1>1, CloseSavedPromise
<1>2. CASE InMemory(c)
           /\ CommitOne(c, Moved([calls[c] EXCEPT !.onAir = seconds], "ended"))
  BY <1>2, OffAirFinishes, CommitOneLeaves DEF EndedStatuses
<1> QED
  BY <1>1, <1>2 DEF EndOnAir

LEMMA EndPromise ==
  ASSUME RegistryInv, NEW c \in Calls, End(c)
  PROVE  Promised
<1> DEFINE over == Closed(calls[c])
<1>1. CASE CloseSaved(c, None)
  BY <1>1, CloseSavedPromise
<1>2. CASE InMemory(c) /\ CommitOne(c, over)
  <2>1. calls[c] \in Call /\ over \in Committable
    BY <1>2, InMemoryInPlay, ClosedCommittable
  <2>2. over.status \in EndedStatuses /\ Finished(over)
    BY <2>1, ClosedFinishes DEF Closed, Call, EndedStatuses
  <2> HIDE DEF over
  <2> QED
    BY <1>2, <2>1, <2>2, CommitOneLeaves
<1> QED
  BY <1>1, <1>2 DEF End

LEMMA ApplyContactPromise ==
  ASSUME RegistryInv, NEW S \in SUBSET Calls, ApplyContact(S)
  PROVE  Promised
<1> DEFINE new == [c \in S |-> calls[c]]
<1>1. \A c \in S : /\ InMemory(c) /\ new[c] = calls[c]
                   /\ calls[c] \in Call /\ InPlay(calls[c])
  BY InMemoryInPlay DEF ApplyContact
<1>2. new \in [S -> Committable] /\ Commit(new)
  BY InMemoryInPlay, InPlayCommittable DEF ApplyContact
<1> HIDE DEF new
<1>3. \A c \in S : /\ new[c].status \notin EndedStatuses
                   /\ Shown(new[c]) = ShownStatus[c] /\ ShownStatus[c] # "none"
  BY <1>1, ShownInPlay DEF InPlay, Shown
<1>4. /\ \E kept \in SUBSET S : Promise!Saving(kept)
      /\ ShownStatus' = [c \in Calls |-> IF c \in S THEN Shown(new[c])
                                         ELSE ShownStatus[c]]
  BY <1>2, <1>3, CommitShows
<1>5. ShownStatus' = ShownStatus
  BY <1>3, <1>4 DEF ShownStatus
<1> QED
  BY <1>3, <1>4, <1>5, PromisedSome DEF Promise!Resave

\* A recovery puts those back whom it restores.  The sweep after it changes
\* rows, and closes nobody: the rows it ends have no stamp.
LEMMA RecoveryPromise ==
  ASSUME RegistryInv,
         NEW restored \in SUBSET Calls, NEW new \in [restored -> Committable],
         \A c \in restored : /\ ~InMemory(c) /\ ~Finished(rows[c])
                             /\ ~Finished(new[c]) /\ new[c].status = "on-hold",
         NEW saved \in SUBSET restored, NEW warned,
         calls' = CallsAfter(new), Sweep(RowsAfter(new, saved), CallsAfter(new), warned)
  PROVE  Promised
<1>0. \A c \in restored : ~InMemory(c) /\ new[c].status = "on-hold"
  OBVIOUS
<1>1. \A c \in Calls :
        /\ calls'[c] = IF c \in restored THEN new[c] ELSE calls[c]
        /\ IF c \in saved THEN rows'[c] = new[c]
           ELSE \/ rows'[c] = rows[c]
                \/ /\ ~InMemory(c) /\ rows[c] \in Call /\ Sound(rows[c])
                   /\ rows[c].status \notin EndedStatuses
                   /\ rows'[c] = [rows[c] EXCEPT !.status = "ended"]
  BY <1>0, RecoveryWrites
<1>2. \A c \in restored : new[c] # None
  BY NoneIsNoCall DEF Committable
<1>3. ShownStatus' = [c \in Calls |-> IF c \in restored THEN "on-hold"
                                      ELSE ShownStatus[c]]
  <2>1. \A c \in Calls : calls'[c] = IF c \in restored THEN new[c] ELSE calls[c]
    BY <1>1
  <2>2. \A c \in restored : new[c].status = "on-hold"
    OBVIOUS
  <2> QED
    BY <1>2, <2>1, <2>2 DEF ShownStatus, InMemory
<1>4. \A c \in restored : ShownStatus[c] = "none" /\ c \notin ClosedCalls
  BY ShownInPlay DEF ClosedCalls
<1>5. \A c \in Calls : c \in ClosedCalls' <=> c \notin saved /\ c \in ClosedCalls
  <2> SUFFICES ASSUME NEW c \in Calls
               PROVE  Finished(rows'[c]) <=> c \notin saved /\ Finished(rows[c])
    BY DEF ClosedCalls
  <2>1. CASE c \in saved
    BY <1>1, <2>1
  <2>2. CASE c \notin saved /\ rows'[c] = rows[c]
    BY <2>2
  <2>3. CASE c \notin saved /\ rows'[c] # rows[c]
    <3> DEFINE swept == [rows[c] EXCEPT !.status = "ended"]
    <3>1. /\ rows'[c] = swept /\ rows[c] \in Call /\ Sound(rows[c])
          /\ rows[c].status \notin EndedStatuses
      BY <1>1, <2>3
    <3>2. Finished(swept) <=> Finished(rows[c])
      BY <3>1, SweptRow
    <3> HIDE DEF swept
    <3> QED
      BY <2>3, <3>1, <3>2
  <2> QED
    BY <2>1, <2>2, <2>3
<1>6. Promise!Saving(saved)
  BY <1>3, <1>5 DEF Promise!Saving, Promise!Waiting, ClosedCalls
<1> QED
  BY <1>3, <1>4, <1>6, PromisedSome DEF Promise!Recover

LEMMA RestoreAndSweepPromise ==
  ASSUME "read" \notin StoreFaults, RegistryInv,
         NEW members \in SUBSET Calls, RestoreAndSweep(members)
  PROVE  Promised
  BY RestoreAndSweepRestores, RecoveryPromise

LEMMA SweepStalePromise ==
  ASSUME RegistryInv, SweepStale
  PROVE  Promised
<1> DEFINE new == [c \in {} |-> NewCall]
<1>1. new \in [{} -> Committable]
  OBVIOUS
<1> HIDE DEF new
<1>2. Sweep(RowsAfter(new, {}), CallsAfter(new), warning) /\ calls' = CallsAfter(new)
  BY <1>1, SweepRecovers DEF SweepStale
<1> QED
  BY <1>1, <1>2, RecoveryPromise

\* After a restart, the rows say what they said.
LEMMA RestartPromise ==
  ASSUME Restart
  PROVE  Promised
<1>1. ShownStatus' = [c \in Calls |-> "none"] /\ ClosedCalls' = ClosedCalls
  BY DEF Restart, ShownStatus, ClosedCalls, InMemory
<1>2. Promise!Lose /\ Promise!Saving({})
  BY <1>1 DEF Promise!Lose, Promise!Saving, ClosedCalls
<1> QED
  BY <1>2 DEF Promised, Promise!InPlayNext

-----------------------------------------------------------------------------
(* The client. *)

LEMMA InitPromise == Init => Promise!InPlayInit
  BY DEF Init, Promise!InPlayInit, ShownStatus, ClosedCalls, InMemory, Finished

\* Every step of the client was promised.
LEMMA NextPromise ==
  ASSUME "read" \notin StoreFaults, RegistryInv, [Next]_vars
  PROVE  Promised
<1>1. ASSUME NEW c \in Calls, IncomingCall(c)
      PROVE  Promised
  BY <1>1, RegisterIncomingPromise DEF IncomingCall
<1>2. ASSUME NEW c \in Calls, SpeechResult(c)
      PROVE  Promised
  BY <1>2, SetTranscriptPromise DEF SpeechResult
<1>3. ASSUME NEW c \in Calls, Accept(c)
      PROVE  Promised
  BY <1>3, AcceptPromise DEF Accept
<1>4. ASSUME NEW c \in Calls, Reject(c)
      PROVE  Promised
  BY <1>4, SetStatusPromise DEF Reject, EndedStatuses
<1>5. ASSUME NEW S \in SUBSET Calls, Drain(S)
      PROVE  Promised
  BY <1>5, SetStatusPromise DEF Drain, EndedStatuses
<1>6. ASSUME NEW c \in Calls, NEW seconds \in Seconds \cup {None},
              DialComplete(c, seconds)
      PROVE  Promised
  BY <1>6, EndOnAirPromise DEF DialComplete
<1>7. ASSUME NEW c \in Calls, CallOver(c)
      PROVE  Promised
  BY <1>7, EndPromise DEF CallOver
<1>8. ASSUME NEW S \in SUBSET Calls, ChangeContact(S)
      PROVE  Promised
  BY <1>8, ApplyContactPromise DEF ChangeContact
<1>9. ASSUME NEW members \in SUBSET Calls, Reconcile(members)
      PROVE  Promised
  BY <1>9, RestoreAndSweepPromise DEF Reconcile
<1>10. CASE ReconcileFails \/ UNCHANGED vars
  BY <1>10, PromisedNothing DEF ReconcileFails, vars, registryVars
<1>11. CASE SweepAtBoot
  BY <1>11, SweepStalePromise DEF SweepAtBoot
<1>12. CASE Reboot
  BY <1>12, RestartPromise DEF Reboot
<1> QED
  BY <1>1, <1>2, <1>3, <1>4, <1>5, <1>6, <1>7, <1>8, <1>9, <1>10, <1>11, <1>12
     DEF Next

\* Every operation is one the operators were promised, failed writes included:
\* calls move forward only, and one whose row says that it was decided or ended
\* comes back only by a retry of its ring (call_registry.py:62, :90, :275).
THEOREM PromiseKept == "read" \notin StoreFaults => (Spec => KeepsPromise)
<1> SUFFICES ASSUME "read" \notin StoreFaults
             PROVE  Spec => KeepsPromise
  OBVIOUS
<1>1. ClientInv /\ [Next]_vars => [Promise!InPlayNext]_(Promise!inPlayVars)
  BY NextPromise DEF ClientInv, Promised
<1> QED
  BY <1>1, InitPromise, Invariance, PTL DEF Spec, KeepsPromise, Promise!InPlaySpec

-----------------------------------------------------------------------------
(* No call is lost between the dashboard and the history: what a step does *)
(* to the rows while no write has failed.                                  *)

\* Every row still in play belongs to a call in memory.
NoneLost ==
  \A c \in Calls :
    rows[c] # None /\ rows[c].status \notin EndedStatuses => InMemory(c)

\* Of a step after which no write has failed: nobody gets lost in it.
Keeps == ~warning' => ~warning /\ (NoneLost => NoneLost')

-----------------------------------------------------------------------------
\* A commit saves each call it puts or leaves in memory.
LEMMA CommitKeeps ==
  ASSUME NEW D \in SUBSET Calls, NEW new \in [D -> Committable], Commit(new)
  PROVE  Keeps
<1> SUFFICES ASSUME ~warning'
             PROVE  ~warning /\ (NoneLost => NoneLost')
  BY DEF Keeps
<1>1. DOMAIN new = D
  OBVIOUS
<1>2. PICK saved \in Reached("write", D) :
           /\ rows' = RowsAfter(new, saved)
           /\ calls' = CallsAfter(new)
           /\ warning' = (warning \/ saved # D)
  BY <1>1 DEF Commit
<1>3. ~warning /\ saved = D
  BY <1>2
<1>4. \A c \in Calls : rows'[c] = IF c \in D THEN new[c] ELSE rows[c]
  BY <1>2, <1>3 DEF RowsAfter
<1>5. \A c \in Calls : calls'[c] = IF c \notin D THEN calls[c]
                                  ELSE IF new[c].status \in EndedStatuses THEN None
                                  ELSE new[c]
  BY <1>1, <1>2 DEF CallsAfter
<1>6. \A c \in D : new[c] # None
  BY NoneIsNoCall DEF Committable
<1>7. NoneLost => NoneLost'
  BY <1>4, <1>5, <1>6 DEF NoneLost, InMemory
<1> QED
  BY <1>3, <1>7

LEMMA CommitOneKeeps ==
  ASSUME NEW c \in Calls, NEW call \in Committable, CommitOne(c, call)
  PROVE  Keeps
<1> DEFINE new == [x \in {c} |-> call]
<1>1. new \in [{c} -> Committable] /\ {c} \in SUBSET Calls
  OBVIOUS
<1>2. Commit(new)
  BY DEF CommitOne
<1> HIDE DEF new
<1> QED
  BY <1>1, <1>2, CommitKeeps

\* A saved row that is closed is in play no longer.
LEMMA CloseSavedKeeps ==
  ASSUME RegistryInv, NEW c \in Calls, NEW seconds \in Seconds \cup {None},
         CloseSaved(c, seconds)
  PROVE  Keeps
<1>1. PICK ok \in Outcomes("write") :
        /\ rows' = IF ok THEN CloseCall(c, seconds) ELSE rows
        /\ warning' = (warning \/ ~ok)
  BY DEF CloseSaved
<1>2. calls' = calls
  BY DEF CloseSaved
<1>3. \/ rows' = rows
      \/ rows[c] # None /\ rows' = [rows EXCEPT ![c] = ClosedRow(rows[c], seconds)]
  BY <1>1 DEF CloseCall
<1>4. CASE rows' = rows
  BY <1>1, <1>2, <1>4 DEF Keeps, NoneLost, InMemory
<1>5. CASE rows[c] # None /\ rows' = [rows EXCEPT ![c] = ClosedRow(rows[c], seconds)]
  <2> DEFINE row == ClosedRow(rows[c], seconds)
  <2>1. rows[c] \in Call
    BY <1>5 DEF RegistryInv, RegistryTypeOK
  <2>2. row.status = "ended"
    BY <2>1 DEF ClosedRow, Call
  <2>3. \A x \in Calls : rows'[x] = IF x = c THEN row ELSE rows[x]
    BY <1>5 DEF RegistryInv, RegistryTypeOK
  <2> HIDE DEF row
  <2> QED
    BY <1>1, <1>2, <2>2, <2>3 DEF Keeps, NoneLost, InMemory, EndedStatuses
<1> QED
  BY <1>3, <1>4, <1>5

\* After a recovery nobody is lost.
LEMMA RecoveryKeeps ==
  ASSUME "read" \notin StoreFaults, RegistryInv,
         NEW restored \in SUBSET Calls, NEW new \in [restored -> Committable],
         \A c \in restored : new[c].status = "on-hold",
         NEW saved \in SUBSET restored, NEW warned,
         warned <=> warning \/ saved # restored,
         calls' = CallsAfter(new), Sweep(RowsAfter(new, saved), CallsAfter(new), warned)
  PROVE  ~warning' => NoneLost'
<1> SUFFICES ASSUME ~warning'
             PROVE  NoneLost'
  OBVIOUS
<1> DEFINE rs == RowsAfter(new, saved)
           mem == CallsAfter(new)
           stale == Stale(rs, mem)
<1>1. PICK ok \in Outcomes("write") :
        /\ rows' = IF ok THEN MarkEndedDuringRestart(rs, stale) ELSE rs
        /\ warning' = (warned \/ (stale # {} /\ ~ok))
  BY DEF Sweep, Outcomes
<1>2. saved = restored /\ (stale = {} \/ ok)
  BY <1>1
<1>3. \A c \in Calls : rows'[c] = IF c \in stale THEN [rs[c] EXCEPT !.status = "ended"]
                                  ELSE rs[c]
  <2>1. rs = [c \in Calls |-> rs[c]]
    BY DEF RowsAfter
  <2> QED
    BY <1>1, <1>2, <2>1 DEF MarkEndedDuringRestart
<1>4. \A c \in Calls : rs[c] # None => rs[c] \in Call
  BY <1>2 DEF RowsAfter, RegistryInv, RegistryTypeOK, Committable
<1>5. \A c \in Calls : c \in stale <=> /\ rs[c] # None
                                       /\ rs[c].status \notin EndedStatuses
                                       /\ calls'[c] = None
  BY DEF Stale
<1> HIDE DEF stale, rs, mem
<1>6. \A c \in Calls : c \in stale => rows'[c].status = "ended"
  BY <1>3, <1>4, <1>5 DEF Call
<1> QED
  BY <1>3, <1>5, <1>6 DEF NoneLost, InMemory, EndedStatuses

-----------------------------------------------------------------------------
(* The methods. *)

LEMMA RegisterIncomingKeeps ==
  ASSUME NEW c \in Calls, RegisterIncoming(c)
  PROVE  Keeps
  BY NewCallCommittable, CommitOneKeeps DEF RegisterIncoming

LEMMA SetTranscriptKeeps ==
  ASSUME "read" \notin StoreFaults, RegistryInv, NEW c \in Calls, SetTranscript(c)
  PROVE  Keeps
  BY SetTranscriptCommits, CommitOneKeeps

LEMMA SetStatusKeeps ==
  ASSUME RegistryInv, NEW S \in SUBSET Calls,
         NEW status \in TerminalStatuses, SetStatus(S, status)
  PROVE  Keeps
<1> DEFINE D == {c \in S : InMemory(c) /\ calls[c].status # status}
           new == [c \in D |-> Moved(calls[c], status)]
<1>1. new \in [D -> Committable]
  BY InMemoryInPlay, MovedCommittable
<1>2. Commit(new) /\ D \in SUBSET Calls
  BY DEF SetStatus
<1> HIDE DEF D, new
<1> QED
  BY <1>1, <1>2, CommitKeeps

LEMMA EndOnAirKeeps ==
  ASSUME RegistryInv, NEW c \in Calls, NEW seconds \in Seconds \cup {None},
         EndOnAir(c, seconds)
  PROVE  Keeps
  BY CloseSavedKeeps, OffAirFinishes, CommitOneKeeps DEF EndOnAir

LEMMA EndKeeps ==
  ASSUME RegistryInv, NEW c \in Calls, End(c)
  PROVE  Keeps
  BY CloseSavedKeeps, InMemoryInPlay, ClosedCommittable, CommitOneKeeps DEF End

LEMMA ApplyContactKeeps ==
  ASSUME RegistryInv, NEW S \in SUBSET Calls, ApplyContact(S)
  PROVE  Keeps
<1> DEFINE new == [c \in S |-> calls[c]]
<1>1. new \in [S -> Committable] /\ Commit(new)
  BY InMemoryInPlay, InPlayCommittable DEF ApplyContact
<1> HIDE DEF new
<1> QED
  BY <1>1, CommitKeeps

LEMMA RestoreAndSweepKeeps ==
  ASSUME "read" \notin StoreFaults, RegistryInv,
         NEW members \in SUBSET Calls, RestoreAndSweep(members)
  PROVE  ~warning' => NoneLost'
  BY RestoreAndSweepRestores, RecoveryKeeps

LEMMA SweepStaleKeeps ==
  ASSUME "read" \notin StoreFaults, RegistryInv, SweepStale
  PROVE  ~warning' => NoneLost'
<1> DEFINE new == [c \in {} |-> NewCall]
<1>1. new \in [{} -> Committable]
  OBVIOUS
<1> HIDE DEF new
<1>2. RowsAfter(new, {}) = rows /\ CallsAfter(new) = calls
  BY <1>1, SweepRecovers
<1> QED
  BY <1>1, <1>2, RecoveryKeeps DEF SweepStale

-----------------------------------------------------------------------------
(* The client. *)

LEMMA NextOpen ==
  ASSUME "read" \notin StoreFaults, ClientInv, OpenRowsAreInPlay, [Next]_vars
  PROVE  OpenRowsAreInPlay'
<1>0. RegistryInv
  BY DEF ClientInv
<1>1. ASSUME Keeps, recovery' = recovery
      PROVE  OpenRowsAreInPlay'
  BY <1>1 DEF Keeps, OpenRowsAreInPlay, NoneLost
<1>2. ASSUME ~warning' => NoneLost'
      PROVE  OpenRowsAreInPlay'
  BY <1>2 DEF OpenRowsAreInPlay, NoneLost
<1>3. ASSUME NEW c \in Calls, IncomingCall(c)
      PROVE  OpenRowsAreInPlay'
  BY <1>1, <1>3, RegisterIncomingKeeps DEF IncomingCall
<1>4. ASSUME NEW c \in Calls, SpeechResult(c)
      PROVE  OpenRowsAreInPlay'
  BY <1>0, <1>1, <1>4, SetTranscriptKeeps DEF SpeechResult
<1>5. ASSUME NEW c \in Calls, Accept(c) \/ Reject(c)
      PROVE  OpenRowsAreInPlay'
  BY <1>0, <1>1, <1>5, SetStatusKeeps
     DEF Accept, Reject, Ended, clientVars, TerminalStatuses
<1>6. ASSUME NEW S \in SUBSET Calls, Drain(S)
      PROVE  OpenRowsAreInPlay'
  BY <1>0, <1>1, <1>6, SetStatusKeeps DEF Drain, Ended, TerminalStatuses
<1>7. ASSUME NEW c \in Calls, NEW seconds \in Seconds \cup {None},
             DialComplete(c, seconds)
      PROVE  OpenRowsAreInPlay'
  BY <1>0, <1>1, <1>7, EndOnAirKeeps DEF DialComplete, Ended
<1>8. ASSUME NEW c \in Calls, CallOver(c)
      PROVE  OpenRowsAreInPlay'
  BY <1>0, <1>1, <1>8, EndKeeps DEF CallOver, Ended
<1>9. ASSUME NEW S \in SUBSET Calls, ChangeContact(S)
      PROVE  OpenRowsAreInPlay'
  BY <1>0, <1>1, <1>9, ApplyContactKeeps DEF ChangeContact, clientVars
<1>10. ASSUME NEW members \in SUBSET Calls, Reconcile(members)
       PROVE  OpenRowsAreInPlay'
  BY <1>0, <1>2, <1>10, RestoreAndSweepKeeps DEF Reconcile
<1>11. CASE SweepAtBoot
  BY <1>0, <1>2, <1>11, SweepStaleKeeps DEF SweepAtBoot
<1>12. CASE ReconcileFails \/ Reboot
  BY <1>12 DEF ReconcileFails, Reboot, OpenRowsAreInPlay
<1>13. CASE UNCHANGED vars
  BY <1>13 DEF vars, OpenRowsAreInPlay, InMemory
<1> QED
  BY <1>3, <1>4, <1>5, <1>6, <1>7, <1>8, <1>9, <1>10, <1>11, <1>12, <1>13 DEF Next

\* Once the boot's recovery is done, every row still in play belongs to a call
\* in memory (store.py:239, call_registry.py:236), unless a write has failed
\* since: no call is neither on the dashboard nor in history.
THEOREM NoCallIsLost == "read" \notin StoreFaults => (Spec => []OpenRowsAreInPlay)
<1> SUFFICES ASSUME "read" \notin StoreFaults
             PROVE  Spec => []OpenRowsAreInPlay
  OBVIOUS
<1>1. Init => OpenRowsAreInPlay
  BY DEF Init, OpenRowsAreInPlay
<1>2. ClientInv /\ OpenRowsAreInPlay /\ [Next]_vars => OpenRowsAreInPlay'
  BY NextOpen
<1> QED
  BY <1>1, <1>2, Invariance, PTL DEF Spec

-----------------------------------------------------------------------------
(* No saved words are lost, whatever writes fail: a call in play that has  *)
(* its words keeps them, and so does its row.                              *)

\* The words of c are in its row, and in memory if it is in play.
WordsHeld(c) ==
  /\ rows[c] # None /\ rows[c].transcript = Speech[c]
  /\ InMemory(c) => calls[c].transcript = Speech[c]

\* Of a step: they stay there, for all but S.
KeepsWords(S) == \A c \in Calls : c \notin S /\ WordsHeld(c) => WordsHeld(c)'

\* A call to commit for c has them, if the one in memory had.
HasWords(c, call) ==
  \/ call.transcript = Speech[c]
  \/ InMemory(c) /\ call.transcript = calls[c].transcript

\* A call put back has the words of its row, if there is one.
WordsBack(row, call) == row # None => call.transcript = row.transcript

\* The inductive invariant.
WordsSaved == \A c \in Calls : "saved" \in past[c] => WordsHeld(c)

-----------------------------------------------------------------------------
\* What does not change keeps its words.
LEMMA StutterWords ==
  ASSUME UNCHANGED <<calls, rows>>
  PROVE  KeepsWords({})
  BY DEF KeepsWords, WordsHeld, InMemory

\* A commit keeps the words of the calls in memory.
LEMMA CommitWords ==
  ASSUME NEW S,
         NEW D \in SUBSET Calls, NEW new \in [D -> Committable], Commit(new),
         \A c \in D : c \notin S => HasWords(c, new[c])
  PROVE  KeepsWords(S)
<1>1. PICK saved \in SUBSET D :
        \A c \in Calls :
          /\ rows'[c] = IF c \in saved THEN new[c] ELSE rows[c]
          /\ calls'[c] = IF c \notin D THEN calls[c]
                         ELSE IF new[c].status \in EndedStatuses THEN None
                         ELSE new[c]
  BY CommitWrites
<1>2. \A c \in D : new[c] # None
  BY NoneIsNoCall DEF Committable
<1> QED
  BY <1>1, <1>2 DEF KeepsWords, WordsHeld, HasWords, InMemory

LEMMA CommitOneWords ==
  ASSUME NEW S, NEW c \in Calls, NEW call \in Committable, CommitOne(c, call),
         c \notin S => HasWords(c, call)
  PROVE  KeepsWords(S)
<1> DEFINE new == [x \in {c} |-> call]
<1>1. new \in [{c} -> Committable] /\ {c} \in SUBSET Calls
  OBVIOUS
<1>2. Commit(new)
  BY DEF CommitOne
<1>3. \A x \in {c} : new[x] = call
  OBVIOUS
<1> HIDE DEF new
<1> QED
  BY <1>1, <1>2, <1>3, CommitWords

\* Closing a saved row keeps its words.
LEMMA CloseSavedWords ==
  ASSUME RegistryInv, NEW c \in Calls, NEW seconds \in Seconds \cup {None},
         CloseSaved(c, seconds)
  PROVE  KeepsWords({})
<1>1. \/ rows' = rows
      \/ rows[c] # None /\ rows' = [rows EXCEPT ![c] = ClosedRow(rows[c], seconds)]
  BY DEF CloseSaved, CloseCall
<1>2. calls' = calls
  BY DEF CloseSaved
<1>3. CASE rows' = rows
  BY <1>2, <1>3, StutterWords
<1>4. CASE rows[c] # None /\ rows' = [rows EXCEPT ![c] = ClosedRow(rows[c], seconds)]
  <2> DEFINE row == ClosedRow(rows[c], seconds)
  <2>1. rows[c] \in Call /\ Sound(rows[c])
    BY <1>4 DEF RegistryInv, RegistryTypeOK
  <2>2. row \in Call /\ row.transcript = rows[c].transcript
    BY <2>1, ClosedRowSound DEF ClosedRow, Call
  <2>3. row # None
    BY <2>2, NoneIsNoCall
  <2>4. \A x \in Calls : rows'[x] = IF x = c THEN row ELSE rows[x]
    BY <1>4 DEF RegistryInv, RegistryTypeOK
  <2> HIDE DEF row
  <2> QED
    BY <1>2, <2>2, <2>3, <2>4 DEF KeepsWords, WordsHeld, InMemory
<1> QED
  BY <1>1, <1>3, <1>4

\* So do a recovery and its sweep.
LEMMA RecoveryWords ==
  ASSUME RegistryInv,
         NEW restored \in SUBSET Calls, NEW new \in [restored -> Committable],
         \A c \in restored : /\ ~InMemory(c) /\ new[c].status = "on-hold"
                             /\ WordsBack(rows[c], new[c]),
         NEW saved \in SUBSET restored, NEW warned,
         calls' = CallsAfter(new), Sweep(RowsAfter(new, saved), CallsAfter(new), warned)
  PROVE  KeepsWords({})
<1>0. \A c \in restored : ~InMemory(c) /\ new[c].status = "on-hold"
  OBVIOUS
<1>1. \A c \in Calls :
        /\ calls'[c] = IF c \in restored THEN new[c] ELSE calls[c]
        /\ IF c \in saved THEN rows'[c] = new[c]
           ELSE \/ rows'[c] = rows[c]
                \/ /\ ~InMemory(c) /\ rows[c] \in Call /\ Sound(rows[c])
                   /\ rows[c].status \notin EndedStatuses
                   /\ rows'[c] = [rows[c] EXCEPT !.status = "ended"]
  BY <1>0, RecoveryWrites
<1> SUFFICES ASSUME NEW c \in Calls, WordsHeld(c)
             PROVE  WordsHeld(c)'
  BY DEF KeepsWords
<1>2. rows[c] # None /\ rows[c].transcript = Speech[c]
  BY DEF WordsHeld
<1>3. c \in restored => new[c] # None /\ new[c].transcript = Speech[c]
  BY <1>2, NoneIsNoCall DEF WordsBack, Committable
<1>4. rows'[c] # None /\ rows'[c].transcript = Speech[c]
  <2>1. CASE c \in saved \/ rows'[c] = rows[c]
    BY <1>1, <1>2, <1>3, <2>1
  <2>2. CASE rows[c] \in Call /\ rows'[c] = [rows[c] EXCEPT !.status = "ended"]
    <3>1. rows'[c] \in Call /\ rows'[c].transcript = rows[c].transcript
      BY <2>2 DEF Call, CallStatus
    <3> QED
      BY <1>2, <3>1, NoneIsNoCall
  <2> QED
    BY <1>1, <2>1, <2>2
<1>5. InMemory(c)' => calls'[c].transcript = Speech[c]
  BY <1>1, <1>3 DEF WordsHeld, InMemory
<1> QED
  BY <1>4, <1>5 DEF WordsHeld

-----------------------------------------------------------------------------
(* The methods. *)

LEMMA RegisterIncomingWords ==
  ASSUME NEW c \in Calls, RegisterIncoming(c)
  PROVE  KeepsWords({c})
  BY NewCallCommittable, CommitOneWords DEF RegisterIncoming

\* The words that were heard are in memory, and in the row if it was saved.
LEMMA SetTranscriptWords ==
  ASSUME "read" \notin StoreFaults, RegistryInv, NEW c \in Calls, SetTranscript(c)
  PROVE  /\ KeepsWords({})
         /\ rows'[c] = calls'[c] => WordsHeld(c)'
<1>1. PICK heard \in Committable :
        /\ CommitOne(c, heard)
        /\ heard.status \in {"on-hold", "accepted"}
        /\ heard.transcript = Speech[c]
  BY SetTranscriptCommits
<1>2. KeepsWords({})
  BY <1>1, CommitOneWords DEF HasWords
<1>3. calls'[c] = heard /\ heard # None
  BY <1>1, NoneIsNoCall DEF CommitOne, Commit, CallsAfter, EndedStatuses, Committable
<1> QED
  BY <1>1, <1>2, <1>3 DEF WordsHeld, InMemory

LEMMA SetStatusWords ==
  ASSUME RegistryInv, NEW S \in SUBSET Calls,
         NEW status \in TerminalStatuses, SetStatus(S, status)
  PROVE  KeepsWords({})
<1> DEFINE D == {c \in S : InMemory(c) /\ calls[c].status # status}
           new == [c \in D |-> Moved(calls[c], status)]
<1>1. new \in [D -> Committable]
  BY InMemoryInPlay, MovedCommittable
<1>2. Commit(new) /\ D \in SUBSET Calls
  BY DEF SetStatus
<1>3. \A c \in D : InMemory(c) /\ new[c].transcript = calls[c].transcript
  BY InMemoryInPlay DEF Moved, Call
<1> HIDE DEF D, new
<1> QED
  BY <1>1, <1>2, <1>3, CommitWords DEF HasWords

LEMMA EndOnAirWords ==
  ASSUME RegistryInv, NEW c \in Calls, NEW seconds \in Seconds \cup {None},
         EndOnAir(c, seconds)
  PROVE  KeepsWords({})
<1> DEFINE over == Moved([calls[c] EXCEPT !.onAir = seconds], "ended")
<1>1. CASE CloseSaved(c, seconds)
  BY <1>1, CloseSavedWords
<1>2. CASE InMemory(c) /\ CommitOne(c, over)
  <2>1. calls[c] \in Call /\ InPlay(calls[c])
    BY <1>2, InMemoryInPlay
  <2>2. over \in Committable /\ over.transcript = calls[c].transcript
    BY <2>1, OffAirCommittable DEF Moved, Call
  <2> HIDE DEF over
  <2> QED
    BY <1>2, <2>2, CommitOneWords DEF HasWords
<1> QED
  BY <1>1, <1>2 DEF EndOnAir

LEMMA EndWords ==
  ASSUME RegistryInv, NEW c \in Calls, End(c)
  PROVE  KeepsWords({})
<1> DEFINE over == Closed(calls[c])
<1>1. CASE CloseSaved(c, None)
  BY <1>1, CloseSavedWords
<1>2. CASE InMemory(c) /\ CommitOne(c, over)
  <2>1. calls[c] \in Call /\ InPlay(calls[c])
    BY <1>2, InMemoryInPlay
  <2>2. over \in Committable /\ over.transcript = calls[c].transcript
    BY <2>1, ClosedCommittable DEF Closed, Call
  <2> HIDE DEF over
  <2> QED
    BY <1>2, <2>2, CommitOneWords DEF HasWords
<1> QED
  BY <1>1, <1>2 DEF End

LEMMA ApplyContactWords ==
  ASSUME RegistryInv, NEW S \in SUBSET Calls, ApplyContact(S)
  PROVE  KeepsWords({})
<1> DEFINE new == [c \in S |-> calls[c]]
<1>1. new \in [S -> Committable] /\ Commit(new)
  BY InMemoryInPlay, InPlayCommittable DEF ApplyContact
<1>2. \A c \in S : InMemory(c) /\ new[c].transcript = calls[c].transcript
  BY DEF ApplyContact
<1> HIDE DEF new
<1> QED
  BY <1>1, <1>2, CommitWords DEF HasWords

LEMMA RestoreAndSweepWords ==
  ASSUME "read" \notin StoreFaults, RegistryInv,
         NEW members \in SUBSET Calls, RestoreAndSweep(members)
  PROVE  KeepsWords({})
  BY RestoreAndSweepRestores, RecoveryWords DEF WordsBack

LEMMA SweepStaleWords ==
  ASSUME RegistryInv, SweepStale
  PROVE  KeepsWords({})
<1> DEFINE new == [c \in {} |-> NewCall]
<1>1. new \in [{} -> Committable]
  OBVIOUS
<1> HIDE DEF new
<1>2. Sweep(RowsAfter(new, {}), CallsAfter(new), warning) /\ calls' = CallsAfter(new)
  BY <1>1, SweepRecovers DEF SweepStale
<1> QED
  BY <1>1, <1>2, RecoveryWords

-----------------------------------------------------------------------------
(* The client. *)

LEMMA NextWords ==
  ASSUME "read" \notin StoreFaults, ClientInv, WordsSaved, [Next]_vars
  PROVE  WordsSaved'
<1>0. RegistryInv /\ ClientTypeOK
  BY DEF ClientInv
<1>1. ASSUME KeepsWords({}), past' = past
      PROVE  WordsSaved'
  BY <1>1 DEF WordsSaved, KeepsWords
<1>2. ASSUME KeepsWords({}), NEW S, Ended(S)
      PROVE  WordsSaved'
  BY <1>2 DEF WordsSaved, KeepsWords, Ended
<1>3. ASSUME NEW c \in Calls, IncomingCall(c)
      PROVE  WordsSaved'
  <2>1. KeepsWords({c})
    BY <1>3, RegisterIncomingWords DEF IncomingCall
  <2>2. \A x \in Calls : "saved" \in past'[x] => "saved" \in past[x] /\ x # c
    BY <1>0, <1>3 DEF IncomingCall, ClientTypeOK
  <2> QED
    BY <2>1, <2>2 DEF WordsSaved, KeepsWords
<1>4. ASSUME NEW c \in Calls, SpeechResult(c)
      PROVE  WordsSaved'
  <2>1. KeepsWords({}) /\ (rows'[c] = calls'[c] => WordsHeld(c)')
    BY <1>0, <1>4, SetTranscriptWords DEF SpeechResult
  <2>2. \A x \in Calls : "saved" \in past'[x] =>
          "saved" \in past[x] \/ (x = c /\ rows'[c] = calls'[c])
    BY <1>0, <1>4 DEF SpeechResult, ClientTypeOK
  <2> QED
    BY <2>1, <2>2 DEF WordsSaved, KeepsWords
<1>5. ASSUME NEW c \in Calls, Accept(c)
      PROVE  WordsSaved'
  BY <1>0, <1>1, <1>5, SetStatusWords DEF Accept, clientVars, TerminalStatuses
<1>6. ASSUME NEW c \in Calls, Reject(c)
      PROVE  WordsSaved'
  BY <1>0, <1>2, <1>6, SetStatusWords DEF Reject, TerminalStatuses
<1>7. ASSUME NEW S \in SUBSET Calls, Drain(S)
      PROVE  WordsSaved'
  BY <1>0, <1>2, <1>7, SetStatusWords DEF Drain, TerminalStatuses
<1>8. ASSUME NEW c \in Calls, NEW seconds \in Seconds \cup {None},
             DialComplete(c, seconds)
      PROVE  WordsSaved'
  BY <1>0, <1>2, <1>8, EndOnAirWords DEF DialComplete
<1>9. ASSUME NEW c \in Calls, CallOver(c)
      PROVE  WordsSaved'
  BY <1>0, <1>2, <1>9, EndWords DEF CallOver
<1>10. ASSUME NEW S \in SUBSET Calls, ChangeContact(S)
       PROVE  WordsSaved'
  BY <1>0, <1>1, <1>10, ApplyContactWords DEF ChangeContact, clientVars
<1>11. ASSUME NEW members \in SUBSET Calls, Reconcile(members)
       PROVE  WordsSaved'
  BY <1>0, <1>1, <1>11, RestoreAndSweepWords DEF Reconcile
<1>12. CASE SweepAtBoot
  BY <1>0, <1>1, <1>12, SweepStaleWords DEF SweepAtBoot
<1>13. CASE ReconcileFails \/ UNCHANGED vars
  BY <1>1, <1>13, StutterWords DEF ReconcileFails, registryVars, vars
<1>14. CASE Reboot
  BY <1>14 DEF Reboot, Restart, WordsSaved, WordsHeld, InMemory
<1> QED
  BY <1>3, <1>4, <1>5, <1>6, <1>7, <1>8, <1>9, <1>10, <1>11, <1>12, <1>13, <1>14
     DEF Next

\* Words that were heard and saved stay with the call, through any restart,
\* sweep, recovery and failed write (call_registry.py:83), as long as the store
\* can be read and until the call is registered anew by a ring retried late.
THEOREM NoWordsAreLost == "read" \notin StoreFaults => (Spec => []WordsSurvive)
<1> SUFFICES ASSUME "read" \notin StoreFaults
             PROVE  Spec => []WordsSurvive
  OBVIOUS
<1>1. Init => WordsSaved
  BY DEF Init, WordsSaved
<1>2. ClientInv /\ WordsSaved /\ [Next]_vars => WordsSaved'
  BY NextWords
<1>3. WordsSaved => WordsSurvive
  BY DEF WordsSaved, WordsHeld, WordsSurvive
<1> QED
  BY <1>1, <1>2, <1>3, Invariance, PTL DEF Spec

=============================================================================
