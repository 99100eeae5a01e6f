------------------------- MODULE CallRegistryProofs -------------------------
(***************************************************************************)
(* What the steps of the registry preserve, whoever takes them: lemmas     *)
(* about CallRegistry alone, for the proofs about the modules that use it. *)
(***************************************************************************)
EXTENDS CallRegistry, TLAPS

\* The registry's part of a type invariant.
RegistryTypeOK ==
  /\ calls \in [Calls -> Call \cup {None}]
  /\ rows \in [Calls -> Call \cup {None}]
  /\ warning \in BOOLEAN

\* A call that may be in memory.
InPlay(call) ==
  /\ call.status \notin EndedStatuses
  /\ call.status = "accepted" <=> call.wasAccepted
  /\ call.endedAt = IF call.status = "accepted" THEN "accepted" ELSE None
  /\ call.onAir = None

\* A call that may be saved: only the sweep ends one without a stamp, and one
\* that was accepted or on air has a stamp.
Sound(call) ==
  /\ call.status \in {"screening", "on-hold"} => call.endedAt = None
  /\ call.status = "accepted" => call.endedAt # None
  /\ call.endedAt = None => ~call.wasAccepted /\ call.onAir = None

\* A call that a method may commit.
Committable == {call \in Call : Sound(call)
                  /\ (call.status \notin EndedStatuses => InPlay(call))}

\* The inductive invariant of the registry.
RegistryInv ==
  /\ RegistryTypeOK
  /\ \A c \in Calls : InMemory(c) => InPlay(calls[c])
  /\ \A c \in Calls : rows[c] # None => Sound(rows[c])
  /\ ~warning => \A c \in Calls : InMemory(c) => rows[c] = calls[c]

-----------------------------------------------------------------------------
(* The calls that the methods construct. *)

\* None is not a call.
LEMMA NoneIsNoCall == None \notin Call
  BY NoneAssumption

\* None is not a stamp either.
LEMMA NoneIsNoStamp == None \notin TerminalStatuses
  BY NoneAssumption

\* What is in memory may be committed again.
LEMMA InPlayCommittable ==
  ASSUME NEW call \in Call, InPlay(call)
  PROVE  call \in Committable
  BY NoneIsNoStamp
     DEF InPlay, Sound, Committable, Call, CallStatus, EndedStatuses, TerminalStatuses

\* A new call.
LEMMA NewCallCommittable == NewCall \in Committable
  BY DEF NewCall, Committable, Sound, InPlay, Call, CallStatus, Texts, EndedStatuses

\* A call in play, moved to a status.
LEMMA MovedCommittable ==
  ASSUME NEW call \in Call, InPlay(call), NEW status \in TerminalStatuses
  PROVE  Moved(call, status) \in Committable
<1> DEFINE m == Moved(call, status)
<1>1. m \in Call
  BY DEF Moved, Call, CallStatus, TerminalStatuses
<1>2. /\ m.status = status
      /\ m.wasAccepted = (call.wasAccepted \/ status = "accepted")
      /\ m.endedAt = IF call.endedAt = None THEN status ELSE call.endedAt
      /\ m.onAir = call.onAir
  BY DEF Moved, Call, TerminalStatuses
<1>3. m.endedAt # None
  BY <1>2, NoneIsNoStamp DEF TerminalStatuses
<1>4. CASE status = "accepted"
  BY <1>1, <1>2, <1>3, <1>4 DEF Committable, Sound, InPlay, EndedStatuses
<1>5. CASE status \in EndedStatuses
  BY <1>1, <1>2, <1>3, <1>5 DEF Committable, Sound, EndedStatuses
<1> QED
  BY <1>4, <1>5 DEF TerminalStatuses, EndedStatuses

\* A call in play that was on air, or never got there, and is over.
LEMMA OffAirCommittable ==
  ASSUME NEW call \in Call, InPlay(call), NEW seconds \in Seconds \cup {None}
  PROVE  Moved([call EXCEPT !.onAir = seconds], "ended") \in Committable
<1> DEFINE m == Moved([call EXCEPT !.onAir = seconds], "ended")
<1>1. m \in Call /\ m.status = "ended" /\ m.endedAt # None
  BY NoneIsNoStamp DEF Moved, Call, CallStatus, TerminalStatuses
<1> QED
  BY <1>1 DEF Committable, Sound, EndedStatuses

\* A call in play that is over.
LEMMA ClosedCommittable ==
  ASSUME NEW call \in Call, InPlay(call)
  PROVE  Closed(call) \in Committable
<1> DEFINE d == Closed(call)
<1>1. d \in Call
  BY DEF Closed, Call, CallStatus, TerminalStatuses
<1>2. d.status = "ended" /\ d.endedAt # None
  BY NoneIsNoStamp DEF Closed, Call, InPlay, EndedStatuses, TerminalStatuses
<1> QED
  BY <1>1, <1>2 DEF Committable, Sound, EndedStatuses

\* The words of a caller, added to a call in play.
LEMMA HeardCommittable ==
  ASSUME NEW call \in Call, InPlay(call), NEW words \in Texts
  PROVE  [call EXCEPT !.transcript = words,
                      !.status = IF @ = "screening" THEN "on-hold" ELSE @]
           \in Committable
<1> DEFINE h == [call EXCEPT !.transcript = words,
                             !.status = IF @ = "screening" THEN "on-hold" ELSE @]
<1>1. h \in Call
  BY DEF Call, CallStatus
<1>2. /\ h.status = IF call.status = "screening" THEN "on-hold" ELSE call.status
      /\ h.wasAccepted = call.wasAccepted
      /\ h.endedAt = call.endedAt
      /\ h.onAir = call.onAir
  BY DEF Call
<1>3. InPlay(h)
  BY <1>2 DEF InPlay, EndedStatuses
<1> QED
  BY <1>1, <1>3, InPlayCommittable

\* A call revived from a row that has not finished, or from none.
LEMMA RevivedInPlay ==
  ASSUME NEW row \in Call \cup {None}, row # None => Sound(row), ~Finished(row)
  PROVE  Revived(row) \in Call /\ InPlay(Revived(row))
<1>1. CASE row = None
  BY <1>1, NewCallCommittable
     DEF Revived, NewCall, Call, CallStatus, Texts, InPlay, EndedStatuses
<1>2. CASE row # None
  <2>1. row \in Call /\ row.endedAt = None /\ ~row.wasAccepted /\ row.onAir = None
    BY <1>2 DEF Finished, Sound, Call, CallStatus
  <2> QED
    BY <1>2, <2>1 DEF Revived, Call, CallStatus, InPlay, EndedStatuses
<1> QED
  BY <1>1, <1>2

\* A call put back from the hold queue.
LEMMA RecoveredCommittable ==
  ASSUME NEW row \in Call \cup {None}, NEW described \in BOOLEAN
  PROVE  Recovered(row, described) \in Committable
<1>1. Recovered(row, described) \in Call
  BY DEF Recovered, NewCall, Call, CallStatus, Texts
<1>2. InPlay(Recovered(row, described))
  BY DEF Recovered, NewCall, InPlay, EndedStatuses
<1> QED
  BY <1>1, <1>2, InPlayCommittable

\* A saved call that is closed.
LEMMA ClosedRowSound ==
  ASSUME NEW row \in Call, Sound(row), NEW seconds \in Seconds \cup {None}
  PROVE  ClosedRow(row, seconds) \in Call /\ Sound(ClosedRow(row, seconds))
  BY NoneIsNoStamp
     DEF ClosedRow, Sound, Call, CallStatus, TerminalStatuses

\* A read returns a row of the table, or none.
LEMMA GetCallSound ==
  ASSUME RegistryInv, NEW c \in Calls, NEW readable \in BOOLEAN
  PROVE  /\ GetCall(c, readable) \in Call \cup {None}
         /\ GetCall(c, readable) # None => Sound(GetCall(c, readable))
  BY DEF GetCall, RegistryInv, RegistryTypeOK

\* A statement reaches some of its members.
LEMMA ReachedSome ==
  ASSUME NEW kind, NEW S, NEW R \in Reached(kind, S)
  PROVE  R \subseteq S
  BY DEF Reached

-----------------------------------------------------------------------------
(* The steps. *)

\* A commit of committable calls preserves the invariant.
LEMMA CommitInv ==
  ASSUME RegistryInv,
         NEW D \in SUBSET Calls, NEW new \in [D -> Committable], Commit(new)
  PROVE  RegistryInv'
<1>1. DOMAIN new = D
  OBVIOUS
<1>2. PICK saved \in Reached("write", D) :
           /\ rows' = RowsAfter(new, saved)
           /\ calls' = CallsAfter(new)
           /\ warning' = (warning \/ saved # D)
  BY <1>1 DEF Commit
<1>3. saved \subseteq D
  BY <1>2, ReachedSome
<1>4. \A c \in D : new[c] \in Call /\ Sound(new[c]) /\ new[c] # None
  BY NoneIsNoCall DEF Committable
<1>5. \A c \in Calls : rows'[c] = IF c \in saved THEN new[c] ELSE rows[c]
  BY <1>2 DEF RowsAfter
<1>6. \A c \in Calls : calls'[c] = IF c \notin D THEN calls[c]
                                   ELSE IF new[c].status \in EndedStatuses THEN None
                                   ELSE new[c]
  BY <1>1, <1>2 DEF CallsAfter
<1>7. RegistryTypeOK'
  <2>1. rows' \in [Calls -> Call \cup {None}]
    BY <1>2, <1>3, <1>4 DEF RowsAfter, RegistryInv, RegistryTypeOK
  <2>2. calls' \in [Calls -> Call \cup {None}]
    BY <1>1, <1>2, <1>4 DEF CallsAfter, RegistryInv, RegistryTypeOK
  <2> QED
    BY <1>2, <2>1, <2>2 DEF RegistryInv, RegistryTypeOK
<1>8. \A c \in Calls : InMemory(c)' => InPlay(calls'[c])
  BY <1>6 DEF RegistryInv, InMemory, Committable
<1>9. \A c \in Calls : rows'[c] # None => Sound(rows'[c])
  BY <1>3, <1>4, <1>5 DEF RegistryInv
<1>10. ~warning' => \A c \in Calls : InMemory(c)' => rows'[c] = calls'[c]
  BY <1>2, <1>5, <1>6 DEF RegistryInv, InMemory
<1> QED
  BY <1>7, <1>8, <1>9, <1>10 DEF RegistryInv, InMemory

LEMMA CommitOneInv ==
  ASSUME RegistryInv, NEW c \in Calls, NEW call \in Committable, CommitOne(c, call)
  PROVE  RegistryInv'
<1> DEFINE new == [x \in {c} |-> call]
<1>1. new \in [{c} -> Committable] /\ {c} \in SUBSET Calls
  OBVIOUS
<1>2. Commit(new)
  BY DEF CommitOne
<1> HIDE DEF new
<1> QED
  BY <1>1, <1>2, CommitInv

\* Closing a saved row.
LEMMA CloseSavedInv ==
  ASSUME RegistryInv, NEW c \in Calls, NEW seconds \in Seconds \cup {None},
         CloseSaved(c, seconds)
  PROVE  RegistryInv'
<1>1. PICK ok \in Outcomes("write") :
        /\ rows' = IF ok THEN CloseCall(c, seconds) ELSE rows
        /\ warning' = (warning \/ ~ok)
  BY DEF CloseSaved
<1>2. calls' = calls /\ calls[c] = None
  BY DEF CloseSaved, InMemory
<1>3. ok \in BOOLEAN
  BY DEF Outcomes
<1>4. \/ rows' = rows
      \/ rows[c] # None /\ rows' = [rows EXCEPT ![c] = ClosedRow(rows[c], seconds)]
  BY <1>1 DEF CloseCall
<1>5. CASE rows' = rows
  BY <1>1, <1>2, <1>3, <1>5 DEF RegistryInv, RegistryTypeOK, InMemory
<1>6. CASE rows[c] # None /\ rows' = [rows EXCEPT ![c] = ClosedRow(rows[c], seconds)]
  <2>1. ClosedRow(rows[c], seconds) \in Call /\ Sound(ClosedRow(rows[c], seconds))
    BY <1>6, ClosedRowSound DEF RegistryInv, RegistryTypeOK
  <2> QED
    BY <1>1, <1>2, <1>3, <1>6, <2>1 DEF RegistryInv, RegistryTypeOK, InMemory
<1> QED
  BY <1>4, <1>5, <1>6

\* A row that the sweep ends.
LEMMA SweptSound ==
  ASSUME NEW row \in Call, Sound(row)
  PROVE  LET swept == [row EXCEPT !.status = "ended"]
         IN  swept \in Call /\ Sound(swept)
  BY DEF Sound, Call, CallStatus

\* A sweep that follows what has been committed: rs and mem are the rows and
\* the memory by then.
LEMMA SweepInv ==
  ASSUME NEW rs \in [Calls -> Call \cup {None}],
         NEW mem \in [Calls -> Call \cup {None}], NEW warned \in BOOLEAN,
         \A c \in Calls : mem[c] # None => InPlay(mem[c]),
         \A c \in Calls : rs[c] # None => Sound(rs[c]),
         ~warned => \A c \in Calls : mem[c] # None => rs[c] = mem[c],
         Sweep(rs, mem, warned), calls' = mem
  PROVE  RegistryInv'
<1>1. PICK listed \in Outcomes("read"), ok \in Outcomes("write") :
        LET stale == IF listed THEN Stale(rs, mem) ELSE {}
        IN  /\ rows' = IF ok THEN MarkEndedDuringRestart(rs, stale) ELSE rs
            /\ warning' = (warned \/ (stale # {} /\ ~ok))
  BY DEF Sweep
<1> DEFINE stale == IF ok /\ listed THEN Stale(rs, mem) ELSE {}
<1>2. rows' = MarkEndedDuringRestart(rs, stale)
  <2>1. MarkEndedDuringRestart(rs, {}) = rs
    BY DEF MarkEndedDuringRestart
  <2> QED
    BY <1>1, <2>1
<1>3. \A c \in stale : c \in Calls /\ rs[c] \in Call /\ Sound(rs[c]) /\ mem[c] = None
  BY DEF Stale
<1> HIDE DEF stale
<1>4. \A c \in Calls : rows'[c] = IF c \in stale THEN [rs[c] EXCEPT !.status = "ended"]
                                  ELSE rs[c]
  BY <1>2 DEF MarkEndedDuringRestart
<1>5. rows' \in [Calls -> Call \cup {None}]
  <2> SUFFICES ASSUME NEW c \in stale
               PROVE  [rs[c] EXCEPT !.status = "ended"] \in Call
    BY <1>2 DEF MarkEndedDuringRestart
  <2> QED
    BY <1>3, SweptSound
<1>6. \A c \in Calls : rows'[c] # None => Sound(rows'[c])
  BY <1>3, <1>4, SweptSound
<1>7. warning' \in BOOLEAN /\ (~warning' => ~warned)
  BY <1>1
<1> QED
  BY <1>3, <1>4, <1>5, <1>6, <1>7 DEF RegistryInv, RegistryTypeOK, InMemory

\* The members of the hold queue put back, and the rest swept.
LEMMA RestoreAndSweepInv ==
  ASSUME RegistryInv, NEW members \in SUBSET Calls, RestoreAndSweep(members)
  PROVE  RegistryInv'
<1>1. PICK readable \in Reached("read", members), described \in SUBSET members :
        LET restored == Restorable(members, readable)
            new == [c \in restored |-> Recovered(GetCall(c, c \in readable), c \in described)]
        IN  \E saved \in Reached("write", restored) :
              /\ calls' = CallsAfter(new)
              /\ Sweep(RowsAfter(new, saved), CallsAfter(new),
                       warning \/ saved # restored)
  BY DEF RestoreAndSweep
<1> DEFINE restored == Restorable(members, readable)
           new == [c \in restored |-> Recovered(GetCall(c, c \in readable), c \in described)]
<1>2. restored \in SUBSET Calls
  BY DEF Restorable
<1>3. PICK saved \in Reached("write", restored) :
        /\ calls' = CallsAfter(new)
        /\ Sweep(RowsAfter(new, saved), CallsAfter(new), warning \/ saved # restored)
  BY <1>1
<1>4. saved \subseteq restored
  BY ReachedSome
<1>5. new \in [restored -> Committable]
  <2> SUFFICES ASSUME NEW c \in restored
               PROVE  Recovered(GetCall(c, c \in readable), c \in described) \in Committable
    OBVIOUS
  <2>1. c \in Calls /\ (c \in readable) \in BOOLEAN
    BY <1>2
  <2> QED
    BY <2>1, GetCallSound, RecoveredCommittable, (c \in described) \in BOOLEAN
<1> HIDE DEF restored, new
<1> DEFINE rs == RowsAfter(new, saved)
           mem == CallsAfter(new)
<1>6. \A c \in restored : new[c] \in Call /\ Sound(new[c]) /\ new[c] # None
  BY <1>5, NoneIsNoCall DEF Committable
<1>7. /\ rs \in [Calls -> Call \cup {None}]
      /\ \A c \in Calls : rs[c] = IF c \in saved THEN new[c] ELSE rows[c]
  BY <1>2, <1>4, <1>6 DEF RowsAfter, RegistryInv, RegistryTypeOK
<1>8. /\ mem \in [Calls -> Call \cup {None}]
      /\ \A c \in Calls : mem[c] = IF c \notin restored THEN calls[c]
                                    ELSE IF new[c].status \in EndedStatuses THEN None
                                    ELSE new[c]
  BY <1>5, <1>6 DEF CallsAfter, RegistryInv, RegistryTypeOK
<1>9. \A c \in Calls : mem[c] # None => InPlay(mem[c])
  BY <1>5, <1>8 DEF RegistryInv, InMemory, Committable
<1>10. \A c \in Calls : rs[c] # None => Sound(rs[c])
  BY <1>4, <1>6, <1>7 DEF RegistryInv
<1>11. ~(warning \/ saved # restored)
         => \A c \in Calls : mem[c] # None => rs[c] = mem[c]
  BY <1>7, <1>8 DEF RegistryInv, InMemory
<1>12. (warning \/ saved # restored) \in BOOLEAN
  BY DEF RegistryInv, RegistryTypeOK
<1>13. Sweep(rs, mem, warning \/ saved # restored) /\ calls' = mem
  BY <1>3
<1> HIDE DEF rs, mem
<1> QED
  BY <1>7, <1>8, <1>9, <1>10, <1>11, <1>12, <1>13, SweepInv

-----------------------------------------------------------------------------
(* The methods. *)

\* What is in memory is a call in play.
LEMMA InMemoryInPlay ==
  ASSUME RegistryInv, NEW c \in Calls, InMemory(c)
  PROVE  calls[c] \in Call /\ InPlay(calls[c])
  BY DEF RegistryInv, RegistryTypeOK, InMemory

LEMMA RegisterIncomingInv ==
  ASSUME RegistryInv, NEW c \in Calls, RegisterIncoming(c)
  PROVE  RegistryInv'
  BY NewCallCommittable, CommitOneInv DEF RegisterIncoming

LEMMA SetTranscriptInv ==
  ASSUME RegistryInv, NEW c \in Calls, SetTranscript(c)
  PROVE  RegistryInv'
<1>1. PICK readable \in Outcomes("read") :
        LET row  == GetCall(c, readable)
            call == IF InMemory(c) THEN calls[c] ELSE Revived(row)
        IN  /\ InMemory(c) \/ ~Finished(row)
            /\ CommitOne(c, [call EXCEPT
                 !.transcript = Speech[c],
                 !.status     = IF @ = "screening" THEN "on-hold" ELSE @])
  BY DEF SetTranscript
<1> DEFINE call == IF InMemory(c) THEN calls[c] ELSE Revived(GetCall(c, readable))
           heard == [call EXCEPT
              !.transcript = Speech[c],
              !.status     = IF @ = "screening" THEN "on-hold" ELSE @]
<1>2. readable \in BOOLEAN
  BY DEF Outcomes
<1>3. call \in Call /\ InPlay(call)
  <2>1. CASE InMemory(c)
    BY <2>1, InMemoryInPlay
  <2>2. CASE ~InMemory(c)
    BY <1>1, <1>2, <2>2, GetCallSound, RevivedInPlay
  <2> QED
    BY <2>1, <2>2
<1>4. CommitOne(c, heard)
  BY <1>1
<1> HIDE DEF call
<1>5. heard \in Committable
  BY <1>3, HeardCommittable DEF Texts
<1> QED
  BY <1>4, <1>5, CommitOneInv

LEMMA SetStatusInv ==
  ASSUME RegistryInv, NEW S \in SUBSET Calls,
         NEW status \in TerminalStatuses, SetStatus(S, status)
  PROVE  RegistryInv'
<1> DEFINE moved == {c \in S : InMemory(c) /\ calls[c].status # status}
           new == [c \in moved |-> Moved(calls[c], status)]
<1>1. new \in [moved -> Committable]
  BY InMemoryInPlay, MovedCommittable
<1>2. Commit(new) /\ moved \in SUBSET Calls
  BY DEF SetStatus
<1> HIDE DEF moved, new
<1> QED
  BY <1>1, <1>2, CommitInv

LEMMA EndOnAirInv ==
  ASSUME RegistryInv, NEW c \in Calls, NEW seconds \in Seconds \cup {None},
         EndOnAir(c, seconds)
  PROVE  RegistryInv'
<1>1. CASE CloseSaved(c, seconds)
  BY <1>1, CloseSavedInv
<1>2. CASE InMemory(c) /\ CommitOne(c, Moved([calls[c] EXCEPT !.onAir = seconds], "ended"))
  BY <1>2, InMemoryInPlay, OffAirCommittable, CommitOneInv
<1> QED
  BY <1>1, <1>2 DEF EndOnAir

LEMMA EndInv ==
  ASSUME RegistryInv, NEW c \in Calls, End(c)
  PROVE  RegistryInv'
<1>1. CASE CloseSaved(c, None)
  BY <1>1, CloseSavedInv
<1>2. CASE InMemory(c) /\ CommitOne(c, Closed(calls[c]))
  BY <1>2, InMemoryInPlay, ClosedCommittable, CommitOneInv
<1> QED
  BY <1>1, <1>2 DEF End

LEMMA ApplyContactInv ==
  ASSUME RegistryInv, NEW S \in SUBSET Calls, ApplyContact(S)
  PROVE  RegistryInv'
<1> DEFINE new == [c \in S |-> calls[c]]
<1>1. new \in [S -> Committable]
  BY InMemoryInPlay, InPlayCommittable DEF ApplyContact
<1>2. Commit(new)
  BY DEF ApplyContact
<1> HIDE DEF new
<1> QED
  BY <1>1, <1>2, CommitInv

LEMMA SweepStaleInv ==
  ASSUME RegistryInv, SweepStale
  PROVE  RegistryInv'
  BY SweepInv DEF SweepStale, RegistryInv, RegistryTypeOK, InMemory

LEMMA RestartInv ==
  ASSUME RegistryInv, Restart
  PROVE  RegistryInv'
  BY DEF Restart, RegistryInv, RegistryTypeOK, InMemory

\* An empty registry over an empty table.
LEMMA EmptyInv ==
  ASSUME calls = [c \in Calls |-> None], rows = [c \in Calls |-> None],
         warning = FALSE
  PROVE  RegistryInv
  BY DEF RegistryInv, RegistryTypeOK, InMemory

-----------------------------------------------------------------------------
(* Which calls a step of the registry puts in memory, or back to waiting. *)

\* At most the calls of S; of the others it knows as much as before.
Brings(S) ==
  \A x \in Calls \ S :
    calls'[x] # None => /\ InMemory(x)
                        /\ IsOpen(calls'[x]) => IsOpen(calls[x])
                        /\ calls'[x].known = calls[x].known

\* What a commit brings.
LEMMA CommitBrings ==
  ASSUME NEW D \in SUBSET Calls, NEW new, DOMAIN new = D, Commit(new), NEW S,
         \A x \in D \ S : /\ InMemory(x)
                          /\ IsOpen(new[x]) => IsOpen(calls[x])
                          /\ new[x].known = calls[x].known
  PROVE  Brings(S)
<1>1. calls' = CallsAfter(new)
  BY DEF Commit
<1>2. \A x \in Calls : x \notin D => calls'[x] = calls[x]
  BY <1>1 DEF CallsAfter
<1>3. \A x \in D : calls'[x] = None \/ calls'[x] = new[x]
  BY <1>1 DEF CallsAfter
<1> QED
  BY <1>2, <1>3 DEF Brings, InMemory

\* A commit of one call in memory that does not wait again brings nothing.
LEMMA CommitOneBrings ==
  ASSUME NEW c \in Calls, NEW call, CommitOne(c, call), NEW S,
         c \notin S => /\ InMemory(c)
                       /\ IsOpen(call) => IsOpen(calls[c])
                       /\ call.known = calls[c].known
  PROVE  Brings(S)
<1> DEFINE new == [x \in {c} |-> call]
<1>1. DOMAIN new = {c} /\ new[c] = call /\ Commit(new)
  BY DEF CommitOne
<1> HIDE DEF new
<1> QED
  BY <1>1, CommitBrings

LEMMA RegisterIncomingBrings ==
  ASSUME NEW c \in Calls, RegisterIncoming(c)
  PROVE  Brings({c})
  BY CommitOneBrings DEF RegisterIncoming

LEMMA SetTranscriptBrings ==
  ASSUME RegistryInv, NEW c \in Calls, SetTranscript(c)
  PROVE  Brings(IF InMemory(c) THEN {} ELSE {c})
<1>1. CASE InMemory(c)
  <2> DEFINE call == [calls[c] EXCEPT
                        !.transcript = Speech[c],
                        !.status     = IF @ = "screening" THEN "on-hold" ELSE @]
  <2>1. CommitOne(c, call)
    BY <1>1 DEF SetTranscript
  <2>2. calls[c] \in Call
    BY <1>1, InMemoryInPlay
  <2>3. (IsOpen(call) => IsOpen(calls[c])) /\ call.known = calls[c].known
    BY <2>2 DEF Call, IsOpen, TerminalStatuses
  <2> QED
    BY <1>1, <2>1, <2>3, CommitOneBrings
<1>2. CASE ~InMemory(c)
  BY <1>2, CommitOneBrings DEF SetTranscript
<1> QED
  BY <1>1, <1>2

LEMMA SetStatusBrings ==
  ASSUME RegistryInv, NEW S \in SUBSET Calls,
         NEW status \in TerminalStatuses, SetStatus(S, status)
  PROVE  Brings({})
<1> DEFINE moved == {c \in S : InMemory(c) /\ calls[c].status # status}
           new == [c \in moved |-> Moved(calls[c], status)]
<1>1. moved \in SUBSET Calls /\ DOMAIN new = moved /\ Commit(new)
  BY DEF SetStatus
<1>2. ASSUME NEW x \in moved
      PROVE  InMemory(x) /\ ~IsOpen(new[x]) /\ new[x].known = calls[x].known
  <2>1. calls[x] \in Call
    BY InMemoryInPlay
  <2> QED
    BY <2>1 DEF Moved, Call, IsOpen
<1> HIDE DEF moved, new
<1> QED
  BY <1>1, <1>2, CommitBrings

LEMMA EndBrings ==
  ASSUME RegistryInv, NEW c \in Calls, NEW seconds \in Seconds \cup {None},
         EndOnAir(c, seconds) \/ End(c)
  PROVE  Brings({})
<1>1. ASSUME CloseSaved(c, seconds) \/ CloseSaved(c, None)
      PROVE  Brings({})
  BY <1>1 DEF CloseSaved, Brings, InMemory
<1>2. ASSUME InMemory(c), CommitOne(c, Moved([calls[c] EXCEPT !.onAir = seconds], "ended"))
      PROVE  Brings({})
  <2> DEFINE over == Moved([calls[c] EXCEPT !.onAir = seconds], "ended")
  <2>1. calls[c] \in Call
    BY <1>2, InMemoryInPlay
  <2>2. ~IsOpen(over) /\ over.known = calls[c].known
    BY <2>1 DEF Moved, Call, IsOpen, TerminalStatuses
  <2> HIDE DEF over
  <2> QED
    BY <1>2, <2>2, CommitOneBrings DEF over
<1>3. ASSUME InMemory(c), CommitOne(c, Closed(calls[c]))
      PROVE  Brings({})
  <2>1. calls[c] \in Call
    BY <1>3, InMemoryInPlay
  <2>2. ~IsOpen(Closed(calls[c])) /\ Closed(calls[c]).known = calls[c].known
    BY <2>1 DEF Closed, Call, IsOpen, TerminalStatuses
  <2> QED
    BY <1>3, <2>2, CommitOneBrings
<1> QED
  BY <1>1, <1>2, <1>3 DEF EndOnAir, End

LEMMA ApplyContactBrings ==
  ASSUME NEW S \in SUBSET Calls, ApplyContact(S)
  PROVE  Brings({})
<1> DEFINE new == [c \in S |-> calls[c]]
<1>1. DOMAIN new = S /\ Commit(new) /\ \A x \in S : new[x] = calls[x] /\ InMemory(x)
  BY DEF ApplyContact
<1> HIDE DEF new
<1> QED
  BY <1>1, CommitBrings

LEMMA RestoreAndSweepBrings ==
  ASSUME NEW members \in SUBSET Calls, RestoreAndSweep(members)
  PROVE  Brings({c \in members : ~InMemory(c)})
<1>1. PICK readable \in Reached("read", members), described \in SUBSET members :
        calls' = CallsAfter([c \in Restorable(members, readable) |->
                               Recovered(GetCall(c, c \in readable), c \in described)])
  BY DEF RestoreAndSweep
<1>2. Restorable(members, readable) \subseteq {c \in members : ~InMemory(c)}
  BY DEF Restorable
<1>3. \A x \in Calls : x \notin {c \in members : ~InMemory(c)} => calls'[x] = calls[x]
  BY <1>1, <1>2 DEF CallsAfter
<1> QED
  BY <1>3 DEF Brings, InMemory

LEMMA NothingBrings ==
  ASSUME UNCHANGED calls
  PROVE  Brings({})
  BY DEF Brings, InMemory

=============================================================================
