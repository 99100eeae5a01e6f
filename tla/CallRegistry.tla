---------------------------- MODULE CallRegistry ----------------------------
(***************************************************************************)
(* The registry of the calls in play (services/call_registry.py) over the  *)
(* saved calls (services/store.py): what each of its methods does to the   *)
(* calls in memory, to their saved rows and to the storage warning.        *)
(*                                                                         *)
(* Every method is synchronous, so each is one atomic step.  This module   *)
(* only defines the steps.  RegistryClient takes them in every order the   *)
(* webhooks allow; Screening drives them from a model of the phone line.   *)
(*                                                                         *)
(* A call is reduced to the fields the code decides on.  `endedAt' is the  *)
(* status ended_at was stamped for rather than a time: enough to tell that *)
(* a stamp was kept or replaced.                                           *)
(***************************************************************************)
EXTENDS Naturals

CONSTANTS
  Calls,      \* call SIDs
  Speech,     \* Speech[c]: what the caller of c says, None for a silent one
  Seconds,    \* lengths of time on air that Twilio may report
  None,       \* Python's None: no row, no transcript, no stamp, no length
  StoreFaults \* the SQLite statements that may fail, of {"read", "write"}

VARIABLES
  calls,  \* CallRegistry._calls: the calls in play, None for the others
  rows,   \* the table of saved calls, None for a call without a row
  warning \* Store.warning is set: some write failed since the start

registryVars == <<calls, rows, warning>>

-----------------------------------------------------------------------------
CallStatus == {"screening", "on-hold", "accepted", "rejected", "ended"}
TerminalStatuses == {"accepted", "rejected", "ended"}
EndedStatuses == {"rejected", "ended"}
Texts == {Speech[c] : c \in Calls} \cup {None}

Call == [status      : CallStatus,
         transcript  : Texts,
         wasAccepted : BOOLEAN,
         onAir       : Seconds \cup {None},
         endedAt     : TerminalStatuses \cup {None},
         recovered   : BOOLEAN,
         known       : BOOLEAN] \* who is calling: caller.number, if they give one

ASSUME NoneAssumption == None \notin Call \cup Seconds \cup TerminalStatuses
ASSUME FaultsAssumption == StoreFaults \subseteq {"read", "write"}

\* A call as Call(...) constructs it.
NewCall == [status |-> "screening", transcript |-> None, wasAccepted |-> FALSE,
            onAir |-> None, endedAt |-> None, recovered |-> FALSE, known |-> TRUE]

IsOpen(call) == call.status \notin TerminalStatuses

\* MUTANT of Finished: a guessed end counts as one.
FinishedOrSwept(row) == row # None /\ row.status \in TerminalStatuses

\* A saved call that is decided, or ended for real.  A row the sweep ended has
\* no endedAt: its end was a guess.
Finished(row) ==
  /\ row # None
  /\ \/ row.status \in {"accepted", "rejected"}
     \/ row.status = "ended" /\ row.endedAt # None

InMemory(c) == calls[c] # None
OpenCalls == {c \in Calls : InMemory(c) /\ IsOpen(calls[c])}

-----------------------------------------------------------------------------
(* The store.  A statement fails only in a run whose StoreFaults allow it. *)

\* Whether one statement succeeds.
Outcomes(kind) == IF kind \in StoreFaults THEN BOOLEAN ELSE {TRUE}

\* The part of S that one statement for each of its members gets through to.
Reached(kind, S) == IF kind \in StoreFaults THEN SUBSET S ELSE {S}

\* get_call: a read that fails looks like a call without a row.
GetCall(c, readable) == IF readable THEN rows[c] ELSE None

\* MUTANT of Stale: the calls on air are forgotten.
StaleUndecided(rs, mem) ==
  {c \in Calls : rs[c] # None /\ IsOpen(rs[c]) /\ mem[c] = None}

\* MUTANT of Stale: the calls in memory are swept too.
StaleAnywhere(rs, mem) ==
  {c \in Calls : rs[c] # None /\ rs[c].status \notin EndedStatuses}

\* open_call_sids, less those in memory: rows still in play, on air included.
Stale(rs, mem) ==
  {c \in Calls : /\ rs[c] # None
                 /\ rs[c].status \notin EndedStatuses
                 /\ mem[c] = None}

\* mark_ended_during_restart leaves endedAt alone.
MarkEndedDuringRestart(rs, stale) ==
  [c \in Calls |-> IF c \in stale THEN [rs[c] EXCEPT !.status = "ended"]
                   ELSE rs[c]]

\* A saved call once it is over: a stamp stands, a length is filled in.
ClosedRow(row, seconds) ==
  [row EXCEPT !.status  = "ended",
              !.endedAt = IF @ = None THEN "ended" ELSE @,
              !.onAir   = IF seconds = None THEN @ ELSE seconds]

\* MUTANT of CloseCall: a rejection is overwritten.
CloseAnyCall(c, seconds) ==
  IF rows[c] = None THEN rows
  ELSE [rows EXCEPT ![c] = ClosedRow(@, seconds)]

\* MUTANT of CloseCall: a finished call is left alone, its length too.
CloseUnfinishedCall(c, seconds) ==
  IF rows[c] = None \/ rows[c].status \in EndedStatuses THEN rows
  ELSE [rows EXCEPT ![c] = ClosedRow(@, seconds)]

\* close_call: a rejection stands.
CloseCall(c, seconds) ==
  IF rows[c] = None \/ rows[c].status = "rejected" THEN rows
  ELSE [rows EXCEPT ![c] = ClosedRow(@, seconds)]

-----------------------------------------------------------------------------
(* _commit for the calls of `new', a function from call SIDs to calls, of   *)
(* which the store takes the rows of `saved'.                               *)

RowsAfter(new, saved) ==
  [c \in Calls |-> IF c \in saved THEN new[c] ELSE rows[c]]

\* MUTANT of CallsAfter: a rejected call is kept in memory.
CallsAfterEnd(new) ==
  [c \in Calls |-> IF c \notin DOMAIN new THEN calls[c]
                   ELSE IF new[c].status = "ended" THEN None
                   ELSE new[c]]

CallsAfter(new) ==
  [c \in Calls |-> IF c \notin DOMAIN new THEN calls[c]
                   ELSE IF new[c].status \in EndedStatuses THEN None
                   ELSE new[c]]

Commit(new) ==
  \E saved \in Reached("write", DOMAIN new) :
    /\ rows' = RowsAfter(new, saved)
    /\ calls' = CallsAfter(new)
    /\ warning' = (warning \/ saved # DOMAIN new)

CommitOne(c, call) == Commit([x \in {c} |-> call])

-----------------------------------------------------------------------------
(* The methods.  The case of a method that returns without changing         *)
(* anything is left out: it is a stuttering step.                           *)

\* MUTANT of RegisterIncoming: a retry starts the call over.
RegisterAgain(c) == CommitOne(c, NewCall)

\* A retry for a call in memory is ignored; the saved row is not consulted.
RegisterIncoming(c) ==
  /\ ~InMemory(c)
  /\ CommitOne(c, NewCall)

\* The row of a call this process never saw ring, back on hold.
Revived(row) == [(IF row = None THEN NewCall ELSE row) EXCEPT !.status = "on-hold"]

\* MUTANT of SetTranscript: the saved row is not consulted.
SetAnyTranscript(c) ==
  \E readable \in Outcomes("read") :
    LET call == IF InMemory(c) THEN calls[c] ELSE Revived(GetCall(c, readable))
    IN  CommitOne(c, [call EXCEPT
          !.transcript = Speech[c],
          !.status     = IF @ = "screening" THEN "on-hold" ELSE @])

\* Record what the caller said.  Dropped if the call's row has finished.
SetTranscript(c) ==
  \E readable \in Outcomes("read") :
    LET row  == GetCall(c, readable)
        call == IF InMemory(c) THEN calls[c] ELSE Revived(row)
    IN  /\ InMemory(c) \/ ~Finished(row)
        /\ CommitOne(c, [call EXCEPT
                !.transcript = Speech[c],
                !.status     = IF @ = "screening" THEN "on-hold" ELSE @])

\* MUTANT of Moved: the stamp is for the status it had before.
MovedStampFirst(call, status) ==
  [call EXCEPT
     !.status      = status,
     !.wasAccepted = @ \/ status = "accepted",
     !.endedAt     = IF @ = None THEN call.status ELSE @]

Moved(call, status) ==
  [call EXCEPT
     !.status      = status,
     !.wasAccepted = @ \/ status = "accepted",
     !.endedAt     = IF @ = None /\ status \in TerminalStatuses
                       THEN status ELSE @]

\* set_status on each of S.  One that finished meanwhile is left as saved.
SetStatus(S, status) ==
  LET moved == {c \in S : InMemory(c) /\ calls[c].status # status}
  IN  /\ moved # {}
      /\ Commit([c \in moved |-> Moved(calls[c], status)])

\* _close_saved, for a call that is not in memory.
CloseSaved(c, seconds) ==
  /\ ~InMemory(c)
  /\ \E ok \in Outcomes("write") :
       /\ rows' = IF ok THEN CloseCall(c, seconds) ELSE rows
       /\ warning' = (warning \/ ~ok)
  /\ UNCHANGED calls

\* The dial result: seconds is None when the bridge never connected.
EndOnAir(c, seconds) ==
  \/ /\ InMemory(c)
     /\ CommitOne(c, Moved([calls[c] EXCEPT !.onAir = seconds], "ended"))
  \/ CloseSaved(c, seconds)

Closed(call) ==
  [call EXCEPT !.status  = IF @ = "rejected" THEN @ ELSE "ended",
               !.endedAt = IF @ = None THEN "ended" ELSE @]

End(c) ==
  \/ /\ InMemory(c)
     /\ CommitOne(c, Closed(calls[c]))
  \/ CloseSaved(c, None)

\* A contact change is committed on each call in play from its number.
ApplyContact(S) ==
  /\ S # {} /\ \A c \in S : InMemory(c)
  /\ Commit([c \in S |-> calls[c]])

-----------------------------------------------------------------------------
(* Recovery after a restart. *)

\* MUTANT of Recovered: the saved words are not taken over.
RecoveredBlank(row, described) ==
  [NewCall EXCEPT !.status = "on-hold", !.recovered = row = None,
                  !.known = IF row = None THEN described ELSE row.known]

\* register_recovered: on hold, with the words and the number of the saved row
\* if it has one.  Without, the number is Twilio's, had Twilio `described' the
\* call.
Recovered(row, described) ==
  [NewCall EXCEPT
     !.status     = "on-hold",
     !.known      = IF row = None THEN described ELSE row.known,
     !.transcript = IF row = None THEN None ELSE row.transcript,
     !.recovered  = \/ row = None
                    \/ row.transcript = None /\ row.status # "on-hold"]

\* MUTANT of Restorable: finished members are put back.
RestorableAll(members, readable) == {c \in members : ~InMemory(c)}

\* The members of the hold queue that are neither in memory nor finished.
Restorable(members, readable) ==
  {c \in members : ~InMemory(c) /\ ~Finished(GetCall(c, c \in readable))}

\* sweep_stale over rows rs and memory mem, the calls as they stand by then.
Sweep(rs, mem, warned) ==
  \E listed \in Outcomes("read"), ok \in Outcomes("write") :
    LET stale == IF listed THEN Stale(rs, mem) ELSE {}
    IN  /\ rows' = IF ok THEN MarkEndedDuringRestart(rs, stale) ELSE rs
        /\ warning' = (warned \/ (stale # {} /\ ~ok))

SweepStale == Sweep(rows, calls, warning) /\ UNCHANGED calls

\* Everything reconcile_hold_queue does once Twilio has answered, and described
\* some members of the hold queue: register each member, then sweep, with no
\* await between.
RestoreAndSweep(members) ==
  \E readable \in Reached("read", members), described \in SUBSET members :
    LET restored == Restorable(members, readable)
        new == [c \in restored |->
                  Recovered(GetCall(c, c \in readable), c \in described)]
    IN  \E saved \in Reached("write", restored) :
          /\ calls' = CallsAfter(new)
          /\ Sweep(RowsAfter(new, saved), CallsAfter(new),
                   warning \/ saved # restored)

\* The process stops: memory goes, the table stays, the warning starts over.
Restart ==
  /\ calls' = [c \in Calls |-> None]
  /\ warning' = FALSE
  /\ UNCHANGED rows

=============================================================================
