------------------------------ MODULE Contacts ------------------------------
(***************************************************************************)
(* Contacts over the registry: the names and standings operators give to   *)
(* phone numbers, from the form in the browser to the saved row, the copy  *)
(* that each call in play shows of its caller's contact, and blocking,     *)
(* which hangs up on the number's open calls one after the other.          *)
(*                                                                         *)
(* A contact has two fields here: a text (`name' and `note' are handled    *)
(* alike) and the standing.  One whose fields are all empty has no row, so *)
(* Blank is both.  A call shows its contact's fields in `card'.            *)
(*                                                                         *)
(* Whether the line is open and whether the queue is full is Screening's   *)
(* business: here a ring may always be turned away as busy, which changes  *)
(* nothing.  Blocked numbers are turned away before that.                  *)
(***************************************************************************)
EXTENDS RegistryClient

CONSTANTS
  Numbers,      \* phone numbers
  NumberOf,     \* NumberOf[c]: the number c calls from, None if withheld
  Names,        \* texts an operator may enter
  Standings,    \* "blocked", and the others
  Operators,    \* dashboards whose contact dialog may be open
  MaxAttempts,  \* bound on the refused rings counted
  ContactFaults \* the statements on the contacts that may fail

Fields == {"name", "standing"}
FieldValues == [name : Names \cup {None}, standing : Standings \cup {None}]
Blank == [name |-> None, standing |-> None]

ASSUME NumbersAssumption ==
  None \notin Numbers /\ NumberOf \in [Calls -> Numbers \cup {None}]
ASSUME FieldsAssumption ==
  /\ "blocked" \in Standings
  /\ None \notin Standings /\ None \notin Names
ASSUME AttemptsAssumption == MaxAttempts \in Nat
ASSUME ContactFaultsAssumption == ContactFaults \subseteq {"read", "write"}

VARIABLES
  contacts, \* the fields of each number's row, Blank without a row
  attempts, \* blocked_attempts of each number's row
  card,     \* Caller.contact of each call in play
  form,     \* each operator's contact dialog: the contact it opened with
  hangups,  \* the calls that blocks have yet to hang up on
  missed,   \* history: open calls that a block failed to reach, or came too
            \* early for: they were not in memory yet
  meant     \* history: the last value operators chose for each field

contactVars == <<contacts, attempts, card, form, hangups, missed, meant>>
allVars == <<calls, rows, warning, past, recovery, restarts, contactVars>>

NoForm == [number |-> None, seen |-> Blank]
Forms == [number : Numbers \cup {None}, seen : FieldValues]

-----------------------------------------------------------------------------
\* caller.number of c in memory mem: of a call recovered without a row and
\* without an answer from Twilio, the number is not known.
Number(mem, c) == IF mem[c] # None /\ mem[c].known THEN NumberOf[c] ELSE None

IsBlocked(n) == n # None /\ contacts[n].standing = "blocked"

\* What a call from a number shows.
CardOf(n) == IF n = None THEN Blank ELSE contacts[n]

\* What a statement on the contacts gets to see: a failed read finds no row.
Found(fields) == {fields} \cup (IF "read" \in ContactFaults THEN {Blank} ELSE {})
ContactSaved == IF "write" \in ContactFaults THEN BOOLEAN ELSE {TRUE}

\* caller_profile, for the calls of S that this step puts in memory; a call
\* that leaves memory takes its card with it.
Profile(S) ==
  \E seen \in [S -> FieldValues] :
    /\ \A c \in S : seen[c] \in Found(CardOf(Number(calls', c)))
    /\ card' = [c \in Calls |-> IF calls'[c] = None THEN Blank
                                ELSE IF c \in S THEN seen[c]
                                ELSE card[c]]

\* Calls put in memory although their number is blocked.
Late(S) == {c \in S : IsBlocked(Number(calls', c))}

\* A step of the registry that shows the cards of S for the first time.
Registry(S) ==
  /\ Profile(S)
  /\ missed' = {c \in missed \cup Late(S) : calls'[c] # None}
  /\ UNCHANGED <<contacts, attempts, form, hangups, meant>>

-----------------------------------------------------------------------------
(* The webhooks and the recovery. *)

\* incoming_call, from a number that is not blocked and finds a place.
LetIn(c) ==
  /\ \E seen \in Found(CardOf(NumberOf[c])) :
       /\ seen.standing # "blocked"
       /\ card' = [card EXCEPT ![c] = seen]
  /\ IncomingCall(c)
  /\ missed' = missed \cup Late({c})
  /\ UNCHANGED <<contacts, attempts, form, hangups, meant>>

Counted(n) == IF n < MaxAttempts THEN n + 1 ELSE n

\* incoming_call, from a blocked number, however late: counted, never registered.
TurnAwayBlocked(c) ==
  /\ IsBlocked(NumberOf[c])
  /\ \E saved \in ContactSaved :
       /\ attempts' = IF saved THEN [attempts EXCEPT ![NumberOf[c]] = Counted(@)]
                      ELSE attempts
       /\ warning' = (warning \/ ~saved)
  /\ UNCHANGED <<calls, rows, clientVars, contacts, card, form, hangups,
                 missed, meant>>

\* set_transcript, which revives a call that is not in memory.
Heard(c) ==
  /\ SpeechResult(c)
  /\ Registry(IF InMemory(c) THEN {} ELSE {c})

Restored(members) ==
  /\ Reconcile(members)
  /\ Registry({c \in members : ~InMemory(c)})

\* The steps that put no call in memory.
Others ==
  /\ \/ \E c \in Calls : Accept(c) \/ Reject(c) \/ CallOver(c)
     \/ \E S \in SUBSET Calls : Drain(S)
     \/ \E c \in Calls, seconds \in Seconds \cup {None} : DialComplete(c, seconds)
     \/ ReconcileFails
     \/ SweepAtBoot
  /\ Registry({})

\* A restart ends the requests under way; the dashboards sign out.
Rebooted ==
  /\ Reboot
  /\ card' = [c \in Calls |-> Blank]
  /\ form' = [o \in Operators |-> NoForm]
  /\ hangups' = {}
  /\ missed' = {}
  /\ UNCHANGED <<contacts, attempts, meant>>

-----------------------------------------------------------------------------
(* change_contact. *)

Overriding(fields, patch) ==
  [f \in Fields |-> IF f \in DOMAIN patch THEN patch[f] ELSE fields[f]]

\* MUTANT of AttemptsAfter: a new standing goes on with the old count.
AttemptsKept(n, current, merged) == attempts[n]

\* MUTANT of AttemptsAfter: every save starts a new count.
AttemptsForgotten(n, current, merged) == 0

\* _merge: a count belongs to a standing.
AttemptsAfter(n, current, merged) ==
  IF current # Blank /\ current.standing = merged.standing THEN attempts[n] ELSE 0

\* The calls that a block lists.  MUTANT of CallsFrom: an accepted call keeps the
\* card it was accepted with.
OpenFrom(n) == {c \in OpenCalls : Number(calls, c) = n}

\* The calls that apply_contact changes.
CallsFrom(n) == {c \in Calls : Number(calls, c) = n}

\* MUTANT of NewlyBlocked: a favorite is blocked without a hang-up.
FirstBlocked(current, merged) == merged.standing = "blocked" /\ current = Blank

NewlyBlocked(current, merged) ==
  merged.standing = "blocked" /\ current.standing # "blocked"

\* The contact is saved, applied to the calls in play and published.  A number
\* that was not blocked before has its open calls listed, once.
Saved(n, current, merged) ==
  /\ contacts' = [contacts EXCEPT ![n] = merged]
  /\ attempts' = [attempts EXCEPT ![n] = AttemptsAfter(n, current, merged)]
  /\ IF CallsFrom(n) = {} THEN UNCHANGED registryVars ELSE ApplyContact(CallsFrom(n))
  /\ card' = [c \in Calls |-> IF c \in CallsFrom(n) THEN merged ELSE card[c]]
  /\ IF NewlyBlocked(current, merged)
       THEN /\ hangups' = hangups \cup OpenFrom(n)
            /\ missed' = missed \ OpenFrom(n)
       ELSE UNCHANGED <<hangups, missed>>

\* PATCH /api/contacts/{number}.  If the row cannot be saved nothing else
\* happens, and the form it came from stays open.
ChangeFields(n, patch, chosen, closing) ==
  /\ \/ /\ \E current \in Found(contacts[n]) :
             Saved(n, current, Overriding(current, patch))
        /\ form' = [o \in Operators |-> IF o \in closing THEN NoForm ELSE form[o]]
        /\ meant' = [meant EXCEPT ![n] = Overriding(@, chosen)]
     \/ /\ "write" \in ContactFaults
        /\ warning' = TRUE
        /\ UNCHANGED <<calls, rows, contacts, attempts, card, form, hangups,
                       missed, meant>>
  /\ UNCHANGED clientVars

\* turn_away told the caller, or found them gone.
HungUp(c) ==
  /\ c \in hangups
  /\ hangups' = hangups \ {c}
  /\ \/ Reject(c)
     \/ ~InMemory(c) /\ UNCHANGED <<registryVars, clientVars>>
  /\ Profile({})
  /\ missed' = missed \ {c}
  /\ UNCHANGED <<contacts, attempts, form, meant>>

\* turn_away could not reach Twilio: the caller is reported as still holding.
NotHungUp(c) ==
  /\ c \in hangups
  /\ hangups' = hangups \ {c}
  /\ missed' = missed \cup ({c} \cap OpenCalls)
  /\ UNCHANGED <<registryVars, clientVars, contacts, attempts, card, form, meant>>

-----------------------------------------------------------------------------
(* The forms of the dashboards. *)

IsOpenForm(o) == form[o].number # None

OpenForm(o, n) ==
  /\ ~IsOpenForm(o)
  /\ form' = [form EXCEPT ![o] = [number |-> n, seen |-> contacts[n]]]
  /\ UNCHANGED <<registryVars, clientVars, contacts, attempts, card, hangups,
                 missed, meant>>

CancelForm(o) ==
  /\ IsOpenForm(o)
  /\ form' = [form EXCEPT ![o] = NoForm]
  /\ UNCHANGED <<registryVars, clientVars, contacts, attempts, card, hangups,
                 missed, meant>>

\* MUTANT of ChangedFields: the form is sent as it stands.
AllFields(seen, typed) == typed

\* changedFields: what differs from the contact the form opened with.
ChangedFields(seen, typed) ==
  [f \in {f \in Fields : typed[f] # seen[f]} |-> typed[f]]

SaveForm(o, typed) ==
  LET seen == form[o].seen
      edited == {f \in Fields : typed[f] # seen[f]}
  IN  /\ IsOpenForm(o) /\ edited # {}
      /\ ChangeFields(form[o].number, ChangedFields(seen, typed),
                      [f \in edited |-> typed[f]], {o})

\* "Remove contact" sends every field as cleared.
RemoveContact(o) ==
  /\ IsOpenForm(o) /\ form[o].seen # Blank
  /\ ChangeFields(form[o].number, Blank, Blank, {o})

\* The block and unblock buttons of any dashboard, which send the standing
\* alone.
SetStanding(n, standing) ==
  LET patch == [f \in {"standing"} |-> standing]
  IN  ChangeFields(n, patch, patch, {})

Operator(o) ==
  \/ \E n \in Numbers : OpenForm(o, n)
  \/ CancelForm(o)
  \/ \E typed \in FieldValues : SaveForm(o, typed)
  \/ RemoveContact(o)

-----------------------------------------------------------------------------
ContactsInit ==
  /\ Init
  /\ contacts = [n \in Numbers |-> Blank]
  /\ attempts = [n \in Numbers |-> 0]
  /\ card = [c \in Calls |-> Blank]
  /\ form = [o \in Operators |-> NoForm]
  /\ hangups = {}
  /\ missed = {}
  /\ meant = [n \in Numbers |-> Blank]

ContactsNext ==
  \/ \E c \in Calls : LetIn(c) \/ TurnAwayBlocked(c) \/ Heard(c)
  \/ \E members \in SUBSET Calls : Restored(members)
  \/ Others
  \/ Rebooted
  \/ \E o \in Operators : Operator(o)
  \/ \E n \in Numbers, standing \in {"blocked", None} : SetStanding(n, standing)
  \/ \E c \in Calls : HungUp(c) \/ NotHungUp(c)

ContactsSpec == ContactsInit /\ [][ContactsNext]_allVars

-----------------------------------------------------------------------------
\* Only a blocked number has refused rings to count.
ContactsTypeOK ==
  /\ contacts \in [Numbers -> FieldValues]
  /\ attempts \in [Numbers -> 0..MaxAttempts]
  /\ card \in [Calls -> FieldValues]
  /\ form \in [Operators -> Forms]
  /\ hangups \subseteq Calls /\ missed \subseteq Calls
  /\ meant \in [Numbers -> FieldValues]
  /\ \A n \in Numbers : attempts[n] > 0 => contacts[n].standing = "blocked"

\* Whatever way a call came into memory, and whatever was changed since, it
\* shows its caller's contact as saved ("show a contact change on the calls in
\* play", call_registry.py:230).
CardsAreCurrent ==
  \A c \in Calls : InMemory(c) => card[c] = CardOf(Number(calls, c))

\* "Blocking one ends any call it has waiting" (contacts.py:8): while a number
\* is blocked, no call from it waits, but for those that are being hung up on,
\* those reported as failed, and those that came back from before a restart.
BlockedDontHold ==
  \A c \in OpenCalls :
    IsBlocked(Number(calls, c)) => c \in hangups \cup missed

\* Operators who edit the same contact "do not undo each other"
\* (ContactDialog.tsx:21): each saved field is what somebody last chose for it,
\* through failed saves and forms that opened long ago.
EditsStand == contacts = meant

\* "Every attempt is counted" (webhooks.py:183): no edit of a blocked contact
\* makes its count go back.
AttemptsStand ==
  [][\A n \in Numbers :
       contacts[n].standing = "blocked" /\ contacts'[n].standing = "blocked"
       => attempts'[n] >= attempts[n]]_allVars

=============================================================================
