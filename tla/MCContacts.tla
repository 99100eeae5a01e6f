---------------------------- MODULE MCContacts ------------------------------
(* Two silent callers from the number of one contact, for the model checker. *)
EXTENDS Contacts, TLC

CONSTANTS c1, c2, caller

MCCalls == {c1, c2}
MCSymmetry == Permutations(MCCalls)
MCSpeech == [c \in MCCalls |-> None]
MCNumberOf == [c \in MCCalls |-> caller]

\* States that differ in anything else take the same steps, and have the same
\* properties of contacts.
Seen(call) == IF call = None THEN None ELSE <<call.status, call.endedAt, call.known>>
MCView == <<[c \in Calls |-> Seen(calls[c])], [c \in Calls |-> Seen(rows[c])],
            [c \in Calls |-> past[c] \cap {"rung", "heard"}],
            recovery, restarts, contactVars>>

=============================================================================
