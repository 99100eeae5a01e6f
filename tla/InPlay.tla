------------------------------- MODULE InPlay -------------------------------
(***************************************************************************)
(* What the registry promises of every call, without its fields: the       *)
(* status a call is in play with, and which saved rows say that their call *)
(* is decided or over.  Nothing but a new registration puts such a call    *)
(* back among the waiting, restarts and failed writes included, as long as *)
(* the rows can be read.  RegistryClient implements this; Dashboard shows  *)
(* it to the operators.                                                    *)
(***************************************************************************)
CONSTANTS
  Calls \* call SIDs

VARIABLES
  shown, \* the status each call is in play with, "none" for the others
  closed \* the calls whose rows say that they are decided or over

inPlayVars == <<shown, closed>>

Status == {"none", "screening", "on-hold", "accepted"}

\* What open_calls lists: an accepted call is in play, but no longer waiting.
Waiting(s) == s \in {"screening", "on-hold"}

InPlayInit == shown = [c \in Calls |-> "none"] /\ closed = {}

-----------------------------------------------------------------------------
\* The store takes the rows of `kept', as the calls now stand.
Saving(kept) ==
  closed' = {c \in Calls : IF c \in kept THEN ~Waiting(shown'[c]) ELSE c \in closed}

\* A caller is let in, whatever a row of theirs says.
Ring(c) ==
  /\ shown[c] = "none"
  /\ shown' = [shown EXCEPT ![c] = "screening"]

\* A caller has said why they call, perhaps to a process that never saw them
\* ring.
Hold(c) ==
  /\ shown[c] \in {"none", "screening"}
  /\ shown[c] = "none" => c \notin closed
  /\ shown' = [shown EXCEPT ![c] = "on-hold"]

Accept(c) ==
  /\ Waiting(shown[c])
  /\ shown' = [shown EXCEPT ![c] = "accepted"]

\* Calls in play are over.
Leave(S) ==
  /\ \A c \in S : shown[c] # "none"
  /\ shown' = [c \in Calls |-> IF c \in S THEN "none" ELSE shown[c]]

\* After a restart, the callers who still hold are back.
Recover(S) ==
  /\ \A c \in S : shown[c] = "none" /\ c \notin closed
  /\ shown' = [c \in Calls |-> IF c \in S THEN "on-hold" ELSE shown[c]]

\* Calls in play are saved again, for their words or their contact.
Resave(S) ==
  /\ \A c \in S : shown[c] # "none"
  /\ UNCHANGED shown

\* The end of a call that is not in play becomes known.
Settle(c) == shown[c] = "none" /\ UNCHANGED shown

\* A restart: nothing is saved.
Lose == shown' = [c \in Calls |-> "none"]

InPlayNext ==
  \/ \E c \in Calls : \E kept \in SUBSET {c} :
       Saving(kept) /\ (Ring(c) \/ Hold(c) \/ Accept(c) \/ Settle(c))
  \/ \E S \in SUBSET Calls : \E kept \in SUBSET S :
       Saving(kept) /\ (Leave(S) \/ Recover(S) \/ Resave(S))
  \/ Saving({}) /\ Lose

InPlaySpec == InPlayInit /\ [][InPlayNext]_inPlayVars

=============================================================================
