--------------------------- MODULE ContactsProofs ---------------------------
(***************************************************************************)
(* What contacts and blocking guarantee for every set of calls, numbers,   *)
(* texts and dashboards, every number of restarts and whatever writes      *)
(* fail.  Reading a contact is assumed to work: a read that fails looks    *)
(* like a number without a contact.                                        *)
(*                                                                         *)
(* First, the contacts are laid over the registry: a step of Contacts is   *)
(* one of the registry or leaves it alone.  The rest is one inductive      *)
(* invariant; the lemmas say which calls a step can put in memory, since   *)
(* those are the ones whose card has to be looked up, and the ones that    *)
(* could wait although their number is blocked.                            *)
(***************************************************************************)
EXTENDS Contacts, RegistryClientProofs

\* A step that the registry does not see, but for a write that failed.
Aside ==
  /\ UNCHANGED <<calls, rows, clientVars>>
  /\ warning' = warning \/ ("write" \in ContactFaults /\ warning' = TRUE)

\* What a saved contact does to the registry.
LEMMA SavedBelow ==
  ASSUME NEW n \in Numbers, NEW current, NEW merged,
         Saved(n, current, merged), UNCHANGED clientVars
  PROVE  Next \/ Aside
<1>1. CallsFrom(n) \in SUBSET Calls
  BY DEF CallsFrom
<1>2. CASE UNCHANGED registryVars
  BY <1>2 DEF Aside, registryVars
<1>3. CASE ApplyContact(CallsFrom(n))
  BY <1>1, <1>3 DEF Next, ChangeContact
<1> QED
  BY <1>2, <1>3 DEF Saved

\* A request to change a contact.
LEMMA ChangeBelow ==
  ASSUME NEW n \in Numbers, NEW patch, NEW chosen, NEW closing,
         ChangeFields(n, patch, chosen, closing)
  PROVE  Next \/ Aside
<1>1. CASE \E current \in Found(contacts[n]) :
             Saved(n, current, Overriding(current, patch))
  BY <1>1, SavedBelow DEF ChangeFields
<1>2. CASE "write" \in ContactFaults /\ warning' = TRUE /\ UNCHANGED <<calls, rows>>
  BY <1>2 DEF Aside, ChangeFields
<1> QED
  BY <1>1, <1>2 DEF ChangeFields

-----------------------------------------------------------------------------
(* Contacts and what is sent to change them. *)

\* A change of some fields.
IsPatch(patch) ==
  /\ DOMAIN patch \subseteq Fields
  /\ "name" \in DOMAIN patch => patch["name"] \in Names \cup {None}
  /\ "standing" \in DOMAIN patch => patch["standing"] \in Standings \cup {None}

LEMMA BlankType == Blank \in FieldValues
  BY DEF Blank, FieldValues

LEMMA BlankIsPatch == IsPatch(Blank)
  BY DEF Blank, IsPatch, Fields

LEMMA OverridingType ==
  ASSUME NEW fields \in FieldValues, NEW patch, IsPatch(patch)
  PROVE  Overriding(fields, patch) \in FieldValues
  BY DEF Overriding, IsPatch, Fields, FieldValues

\* What a form sends are fields, as they were typed.
LEMMA ChangedFieldsIsPatch ==
  ASSUME NEW seen, NEW typed \in FieldValues
  PROVE  IsPatch(ChangedFields(seen, typed))
  BY DEF ChangedFields, IsPatch, Fields, FieldValues

\* A button.
LEMMA StandingIsPatch ==
  ASSUME NEW standing \in {"blocked", None}
  PROVE  IsPatch([f \in {"standing"} |-> standing])
  BY FieldsAssumption DEF IsPatch, Fields

\* A request of any dashboard: what is meant is what is sent.
Edit(n, patch, closing) == IsPatch(patch) /\ ChangeFields(n, patch, patch, closing)

\* Whatever the operators do, it is a request, or it is about forms only.
FormsOnly ==
  /\ UNCHANGED <<registryVars, clientVars, contacts, attempts, card, hangups,
                 missed, meant>>
  /\ form' \in [Operators -> Forms]

LEMMA OperatorCases ==
  ASSUME ContactsTypeOK, NEW o \in Operators, Operator(o)
  PROVE  \/ FormsOnly
         \/ \E n \in Numbers : \E patch, closing : Edit(n, patch, closing)
<1>1. ASSUME NEW n \in Numbers, OpenForm(o, n)
      PROVE  FormsOnly
  BY <1>1 DEF OpenForm, FormsOnly, ContactsTypeOK, Forms
<1>2. CASE CancelForm(o)
  BY <1>2, BlankType DEF CancelForm, FormsOnly, ContactsTypeOK, Forms, NoForm
<1>3. IsOpenForm(o) => form[o].number \in Numbers
  BY DEF IsOpenForm, ContactsTypeOK, Forms
<1>4. ASSUME NEW typed \in FieldValues, SaveForm(o, typed)
      PROVE  \E n \in Numbers : \E patch, closing : Edit(n, patch, closing)
  <2>1. ChangeFields(form[o].number, ChangedFields(form[o].seen, typed),
                     ChangedFields(form[o].seen, typed), {o})
    BY <1>4 DEF SaveForm, ChangedFields
  <2> QED
    BY <1>3, <1>4, <2>1, ChangedFieldsIsPatch DEF SaveForm, Edit
<1>5. ASSUME RemoveContact(o)
      PROVE  \E n \in Numbers : \E patch, closing : Edit(n, patch, closing)
  BY <1>3, <1>5, BlankIsPatch DEF RemoveContact, Edit
<1> QED
  BY <1>1, <1>2, <1>4, <1>5 DEF Operator

\* The steps that put calls of S in memory, and look their cards up.
Puts(S) ==
  /\ S \subseteq Calls
  /\ Next
  /\ Brings(S)
  /\ Registry(S)

LEMMA HeardPuts ==
  ASSUME RegistryInv, NEW c \in Calls, Heard(c)
  PROVE  \E S : Puts(S)
<1> DEFINE S == IF InMemory(c) THEN {} ELSE {c}
<1>1. Brings(S) /\ Registry(S) /\ S \subseteq Calls
  BY SetTranscriptBrings DEF Heard, SpeechResult
<1>2. Next
  BY DEF Heard, Next
<1> QED
  BY <1>1, <1>2 DEF Puts

LEMMA RestoredPuts ==
  ASSUME NEW members \in SUBSET Calls, Restored(members)
  PROVE  \E S : Puts(S)
<1> DEFINE S == {c \in members : ~InMemory(c)}
<1>1. Brings(S) /\ Registry(S) /\ S \subseteq Calls
  BY RestoreAndSweepBrings DEF Restored, Reconcile
<1>2. Next
  BY DEF Restored, Next
<1> QED
  BY <1>1, <1>2 DEF Puts

LEMMA OthersPut ==
  ASSUME RegistryInv, Others
  PROVE  Puts({})
<1>1. Next /\ Registry({})
  BY DEF Others, Next
<1>2. ASSUME NEW c \in Calls, Accept(c) \/ Reject(c)
      PROVE  Brings({})
  BY <1>2, SetStatusBrings DEF Accept, Reject, TerminalStatuses
<1>3. ASSUME NEW c \in Calls, CallOver(c)
      PROVE  Brings({})
  BY <1>3, EndBrings DEF CallOver
<1>4. ASSUME NEW S \in SUBSET Calls, Drain(S)
      PROVE  Brings({})
  BY <1>4, SetStatusBrings DEF Drain, TerminalStatuses
<1>5. ASSUME NEW c \in Calls, NEW seconds \in Seconds \cup {None},
             DialComplete(c, seconds)
      PROVE  Brings({})
  BY <1>5, EndBrings DEF DialComplete
<1>6. ASSUME ReconcileFails \/ SweepAtBoot
      PROVE  Brings({})
  BY <1>6, NothingBrings DEF ReconcileFails, SweepAtBoot, SweepStale, registryVars
<1> QED
  BY <1>1, <1>2, <1>3, <1>4, <1>5, <1>6 DEF Others, Puts

\* Every step, sorted by what it does to the contacts and their cards.
LEMMA ContactsCases ==
  ASSUME RegistryInv, ContactsTypeOK, [ContactsNext]_allVars
  PROVE  \/ \E S : Puts(S)
         \/ \E c \in Calls : LetIn(c) \/ TurnAwayBlocked(c) \/ HungUp(c) \/ NotHungUp(c)
         \/ Rebooted
         \/ FormsOnly
         \/ \E n \in Numbers : \E patch, closing : Edit(n, patch, closing)
<1>1. ASSUME NEW n \in Numbers, NEW standing \in {"blocked", None},
             SetStanding(n, standing)
      PROVE  \E patch, closing : Edit(n, patch, closing)
  BY <1>1, StandingIsPatch DEF SetStanding, Edit
<1>2. CASE UNCHANGED allVars
  BY <1>2 DEF allVars, FormsOnly, registryVars, clientVars, contactVars, ContactsTypeOK
<1> QED
  BY <1>1, <1>2, HeardPuts, RestoredPuts, OthersPut, OperatorCases DEF ContactsNext

-----------------------------------------------------------------------------
(* The registry underneath. *)

\* Every step is one of the registry, or aside.
LEMMA StepBelow ==
  ASSUME RegistryInv, ContactsTypeOK, [ContactsNext]_allVars
  PROVE  Next \/ Aside
<1>1. ASSUME NEW S, Puts(S)
      PROVE  Next
  BY <1>1 DEF Puts
<1>2. ASSUME NEW c \in Calls, LetIn(c) \/ TurnAwayBlocked(c) \/ HungUp(c) \/ NotHungUp(c)
      PROVE  Next \/ Aside
  <2>1. CASE LetIn(c)
    BY <2>1 DEF LetIn, Next
  <2>2. CASE TurnAwayBlocked(c)
    <3>1. PICK saved \in ContactSaved : warning' = (warning \/ ~saved)
      BY <2>2 DEF TurnAwayBlocked
    <3>2. CASE saved
      <4>1. warning' = warning
        BY <3>1, <3>2 DEF RegistryInv, RegistryTypeOK
      <4> QED
        BY <2>2, <4>1 DEF TurnAwayBlocked, Aside
    <3>3. CASE ~saved
      <4>1. "write" \in ContactFaults
        BY <3>3 DEF ContactSaved
      <4>2. warning' = TRUE
        BY <3>1, <3>3
      <4> QED
        BY <2>2, <4>1, <4>2 DEF TurnAwayBlocked, Aside
    <3> QED
      BY <3>2, <3>3
  <2>3. CASE HungUp(c)
    BY <2>3 DEF HungUp, Next, Aside, registryVars
  <2>4. CASE NotHungUp(c)
    BY <2>4 DEF NotHungUp, Aside, registryVars
  <2> QED
    BY <1>2, <2>1, <2>2, <2>3, <2>4
<1>3. CASE Rebooted
  BY <1>3 DEF Rebooted, Next
<1>4. CASE FormsOnly
  BY <1>4 DEF FormsOnly, Aside, registryVars
<1>5. ASSUME NEW n \in Numbers, NEW patch, NEW closing, Edit(n, patch, closing)
      PROVE  Next \/ Aside
  BY <1>5, ChangeBelow DEF Edit
<1> QED
  BY <1>1, <1>2, <1>3, <1>4, <1>5, ContactsCases

\* So the invariant of the registry goes on holding.
LEMMA StepInv ==
  ASSUME ClientInv, ContactsTypeOK, [ContactsNext]_allVars
  PROVE  ClientInv'
<1>1. Next \/ Aside
  BY StepBelow DEF ClientInv
<1>2. CASE Aside
  BY <1>2 DEF Aside, clientVars, ClientInv, ClientTypeOK, RegistryInv,
              RegistryTypeOK, InMemory
<1> QED
  BY <1>1, <1>2, NextInv

-----------------------------------------------------------------------------
(* What each kind of step does to the contacts. *)

\* What a call shows, and from which number, if that is known.
LEMMA NumberType ==
  ASSUME NEW mem, NEW c \in Calls
  PROVE  Number(mem, c) \in Numbers \cup {None}
  BY NumbersAssumption DEF Number

LEMMA CardOfType ==
  ASSUME ContactsTypeOK, NEW n \in Numbers \cup {None}
  PROVE  CardOf(n) \in FieldValues
  BY NumbersAssumption, BlankType DEF CardOf, ContactsTypeOK

LEMMA FoundType ==
  ASSUME NEW fields \in FieldValues, NEW seen \in Found(fields)
  PROVE  seen \in FieldValues
  BY BlankType DEF Found

LEMMA ProfileType ==
  ASSUME ContactsTypeOK, NEW S \in SUBSET Calls, Profile(S)
  PROVE  card' \in [Calls -> FieldValues]
<1>1. PICK seen \in [S -> FieldValues] :
        card' = [c \in Calls |-> IF calls'[c] = None THEN Blank
                                 ELSE IF c \in S THEN seen[c] ELSE card[c]]
  BY DEF Profile
<1> QED
  BY <1>1, BlankType DEF ContactsTypeOK

\* After a change of a contact the types still hold.
LEMMA EditType ==
  ASSUME ContactsTypeOK, NEW n \in Numbers, NEW patch, NEW closing,
         Edit(n, patch, closing)
  PROVE  ContactsTypeOK'
<1>1. ASSUME NEW current \in Found(contacts[n]),
             Saved(n, current, Overriding(current, patch)),
             form' = [o \in Operators |-> IF o \in closing THEN NoForm ELSE form[o]],
             meant' = [meant EXCEPT ![n] = Overriding(@, patch)]
      PROVE  ContactsTypeOK'
  <2> DEFINE merged == Overriding(current, patch)
  <2>1. contacts[n] \in FieldValues /\ meant[n] \in FieldValues
    BY DEF ContactsTypeOK
  <2>2. current \in FieldValues
    BY <2>1, FoundType
  <2>3. merged \in FieldValues /\ Overriding(meant[n], patch) \in FieldValues
    BY <2>1, <2>2, OverridingType DEF Edit
  <2>4. /\ contacts' = [contacts EXCEPT ![n] = merged]
        /\ attempts' = [attempts EXCEPT ![n] = AttemptsAfter(n, current, merged)]
        /\ card' = [c \in Calls |-> IF c \in CallsFrom(n) THEN merged ELSE card[c]]
    BY <1>1 DEF Saved
  <2>5. hangups' \subseteq Calls /\ missed' \subseteq Calls
    BY <1>1 DEF Saved, OpenFrom, OpenCalls, ContactsTypeOK
  <2>6. /\ AttemptsAfter(n, current, merged) \in 0..MaxAttempts
        /\ AttemptsAfter(n, current, merged) > 0 => merged.standing = "blocked"
    <3>1. CASE current # Blank /\ current.standing = merged.standing
      <4>1. current = contacts[n]
        BY <3>1 DEF Found
      <4> QED
        BY <3>1, <4>1 DEF AttemptsAfter, ContactsTypeOK
    <3>2. CASE ~(current # Blank /\ current.standing = merged.standing)
      BY <3>2, AttemptsAssumption DEF AttemptsAfter
    <3> QED
      BY <3>1, <3>2
  <2> HIDE DEF merged
  <2>7. contacts' \in [Numbers -> FieldValues] /\ card' \in [Calls -> FieldValues]
    BY <2>3, <2>4 DEF ContactsTypeOK
  <2>8. /\ attempts' \in [Numbers -> 0..MaxAttempts]
        /\ \A m \in Numbers : attempts'[m] > 0 => contacts'[m].standing = "blocked"
    BY <2>4, <2>6 DEF ContactsTypeOK
  <2>9. meant' \in [Numbers -> FieldValues]
    BY <1>1, <2>3 DEF ContactsTypeOK
  <2>10. form' \in [Operators -> Forms]
    BY <1>1, BlankType DEF ContactsTypeOK, Forms, NoForm
  <2> QED
    BY <2>5, <2>7, <2>8, <2>9, <2>10 DEF ContactsTypeOK
<1>2. CASE UNCHANGED contactVars
  BY <1>2 DEF contactVars, ContactsTypeOK
<1> QED
  BY <1>1, <1>2 DEF Edit, ChangeFields, contactVars

\* Every step keeps the types.
LEMMA StepType ==
  ASSUME RegistryInv, ContactsTypeOK, [ContactsNext]_allVars
  PROVE  ContactsTypeOK'
<1>1. ASSUME NEW S, Puts(S)
      PROVE  ContactsTypeOK'
  BY <1>1, ProfileType DEF Puts, Registry, Late, ContactsTypeOK
<1>2. ASSUME NEW c \in Calls, LetIn(c)
      PROVE  ContactsTypeOK'
  <2>1. CardOf(NumberOf[c]) \in FieldValues
    BY CardOfType, NumbersAssumption
  <2> QED
    BY <1>2, <2>1, FoundType DEF LetIn, Late, ContactsTypeOK
<1>3. ASSUME NEW c \in Calls, TurnAwayBlocked(c)
      PROVE  ContactsTypeOK'
  <2>1. NumberOf[c] \in Numbers /\ contacts[NumberOf[c]].standing = "blocked"
    BY <1>3, NumbersAssumption DEF TurnAwayBlocked, IsBlocked
  <2>2. Counted(attempts[NumberOf[c]]) \in 0..MaxAttempts
    BY <2>1, AttemptsAssumption DEF Counted, ContactsTypeOK
  <2>3. \/ attempts' = attempts
        \/ attempts' = [attempts EXCEPT ![NumberOf[c]] = Counted(attempts[NumberOf[c]])]
    BY <1>3 DEF TurnAwayBlocked
  <2>4. /\ attempts' \in [Numbers -> 0..MaxAttempts]
        /\ \A n \in Numbers : attempts'[n] > 0 => contacts[n].standing = "blocked"
    BY <2>1, <2>2, <2>3 DEF ContactsTypeOK
  <2> QED
    BY <1>3, <2>4 DEF TurnAwayBlocked, ContactsTypeOK
<1>4. ASSUME NEW c \in Calls, HungUp(c)
      PROVE  ContactsTypeOK'
  BY <1>4, ProfileType DEF HungUp, ContactsTypeOK
<1>5. ASSUME NEW c \in Calls, NotHungUp(c)
      PROVE  ContactsTypeOK'
  BY <1>5 DEF NotHungUp, OpenCalls, ContactsTypeOK
<1>6. CASE Rebooted
  BY <1>6, BlankType DEF Rebooted, ContactsTypeOK, Forms, NoForm
<1>7. CASE FormsOnly
  BY <1>7 DEF FormsOnly, ContactsTypeOK
<1> QED
  BY <1>1, <1>2, <1>3, <1>4, <1>5, <1>6, <1>7, EditType, ContactsCases

-----------------------------------------------------------------------------
(* Cards, standings and forms. *)

\* The inductive invariant, as long as contacts can be read.
ContactsInv ==
  /\ ClientInv
  /\ ContactsTypeOK
  /\ CardsAreCurrent
  /\ BlockedDontHold
  /\ EditsStand

\* Of a step: the rest of the invariant holds after it.
Sorted == CardsAreCurrent' /\ BlockedDontHold' /\ EditsStand'

\* Cards and waiting calls after a step that puts the calls of S in memory.
LEMMA BroughtSorted ==
  ASSUME ContactsInv, NEW S, Brings(S), UNCHANGED <<contacts, meant>>,
         \A c \in S \cap Calls : InMemory(c)' => card'[c] = CardOf(Number(calls', c)),
         \A c \in Calls \ S : InMemory(c)' => card'[c] = card[c],
         \A c \in S \cap Calls :
           InMemory(c)' /\ IsBlocked(Number(calls', c)) => c \in missed',
         \A c \in OpenCalls \cap (hangups \cup missed) :
           c \in OpenCalls' => c \in hangups' \cup missed'
  PROVE  Sorted
<1>1. \A c \in Calls : CardOf(Number(calls, c))' = CardOf(Number(calls', c))
  BY DEF CardOf
<1>2. \A c \in Calls : IsBlocked(Number(calls, c))' <=> IsBlocked(Number(calls', c))
  BY DEF IsBlocked
<1>3. \A c \in Calls \ S : InMemory(c)' =>
        InMemory(c) /\ Number(calls', c) = Number(calls, c)
  BY DEF Brings, InMemory, Number
<1>4. \A c \in Calls \ S : c \in OpenCalls' => c \in OpenCalls
  BY DEF Brings, InMemory, OpenCalls
<1>5. CardsAreCurrent'
  <2> SUFFICES ASSUME NEW c \in Calls, InMemory(c)'
               PROVE  card'[c] = CardOf(Number(calls, c))'
    BY DEF CardsAreCurrent
  <2>1. CASE c \in S
    BY <1>1, <2>1
  <2>2. CASE c \notin S
    BY <1>1, <1>3, <2>2 DEF ContactsInv, CardsAreCurrent
  <2> QED
    BY <2>1, <2>2
<1>6. BlockedDontHold'
  <2> SUFFICES ASSUME NEW c \in OpenCalls', IsBlocked(Number(calls, c))'
               PROVE  c \in hangups' \cup missed'
    BY DEF BlockedDontHold
  <2>1. c \in Calls /\ InMemory(c)'
    BY DEF OpenCalls
  <2>2. CASE c \in S
    BY <1>2, <2>1, <2>2
  <2>3. CASE c \notin S
    BY <1>2, <1>3, <1>4, <2>1, <2>3 DEF ContactsInv, BlockedDontHold
  <2> QED
    BY <2>2, <2>3
<1>7. EditsStand'
  BY DEF ContactsInv, EditsStand
<1> QED
  BY <1>5, <1>6, <1>7 DEF Sorted

\* The cards looked up by a step.
LEMMA ProfileShows ==
  ASSUME "read" \notin ContactFaults, NEW S \in SUBSET Calls, Profile(S)
  PROVE  /\ \A c \in S : InMemory(c)' => card'[c] = CardOf(Number(calls', c))
         /\ \A c \in Calls \ S : InMemory(c)' => card'[c] = card[c]
<1>1. PICK seen \in [S -> FieldValues] :
        /\ \A c \in S : seen[c] \in Found(CardOf(Number(calls', c)))
        /\ card' = [c \in Calls |-> IF calls'[c] = None THEN Blank
                                    ELSE IF c \in S THEN seen[c] ELSE card[c]]
  BY DEF Profile
<1>2. \A c \in S : seen[c] = CardOf(Number(calls', c))
  BY <1>1 DEF Found
<1> QED
  BY <1>1, <1>2 DEF InMemory

LEMMA PutsSorted ==
  ASSUME "read" \notin ContactFaults, ContactsInv, NEW S, Puts(S)
  PROVE  Sorted
<1>1. S \subseteq Calls /\ Brings(S) /\ Registry(S)
  BY DEF Puts
<1>2. /\ \A c \in S : InMemory(c)' => card'[c] = CardOf(Number(calls', c))
      /\ \A c \in Calls \ S : InMemory(c)' => card'[c] = card[c]
  BY <1>1, ProfileShows DEF Registry
<1>3. \A c \in S : InMemory(c)' /\ IsBlocked(Number(calls', c)) => c \in missed'
  BY <1>1 DEF Registry, Late, InMemory
<1>4. \A c \in OpenCalls \cap (hangups \cup missed) :
        c \in OpenCalls' => c \in hangups' \cup missed'
  BY <1>1 DEF Registry, OpenCalls, InMemory
<1> QED
  BY <1>1, <1>2, <1>3, <1>4, BroughtSorted DEF Registry

\* The number of a caller who is let in is known.
LEMMA RegisteredNumber ==
  ASSUME NEW c \in Calls, RegisterIncoming(c)
  PROVE  Number(calls', c) = NumberOf[c]
<1> DEFINE new == [x \in {c} |-> NewCall]
<1>1. calls'[c] = NewCall
  <2>1. calls' = CallsAfter(new)
    BY DEF RegisterIncoming, CommitOne, Commit
  <2>2. NewCall.status \notin EndedStatuses
    BY DEF NewCall, EndedStatuses
  <2>3. c \in DOMAIN new /\ new[c] = NewCall
    OBVIOUS
  <2> HIDE DEF new
  <2> QED
    BY <2>1, <2>2, <2>3 DEF CallsAfter
<1>2. calls'[c] # None /\ calls'[c].known
  <2>1. NewCall # None /\ NewCall.known
    BY NewCallCommittable, NoneIsNoCall DEF Committable, NewCall
  <2> QED
    BY <1>1, <2>1
<1> QED
  BY <1>2 DEF Number

LEMMA LetInSorted ==
  ASSUME "read" \notin ContactFaults, ContactsInv, NEW c \in Calls, LetIn(c)
  PROVE  Sorted
<1>1. Brings({c})
  BY RegisterIncomingBrings DEF LetIn, IncomingCall
<1>2. card' = [card EXCEPT ![c] = CardOf(NumberOf[c])]
  BY DEF LetIn, Found
<1>3. InMemory(c)' /\ IsBlocked(Number(calls', c)) => c \in missed'
  BY DEF LetIn, Late, InMemory
<1>4. card \in [Calls -> FieldValues]
  BY DEF ContactsInv, ContactsTypeOK
<1>5. card'[c] = CardOf(Number(calls', c))
  BY <1>2, <1>4, RegisteredNumber DEF LetIn, IncomingCall
<1>6. \A x \in Calls \ {c} : card'[x] = card[x]
  BY <1>2, <1>4
<1> QED
  BY <1>1, <1>3, <1>5, <1>6, BroughtSorted DEF LetIn

\* A rejected call no longer waits.
LEMMA RejectLeaves ==
  ASSUME RegistryInv, NEW c \in Calls, Reject(c)
  PROVE  Brings({}) /\ ~InMemory(c)'
<1>1. Brings({})
  BY SetStatusBrings DEF Reject, TerminalStatuses
<1> DEFINE new == [x \in {c} |-> Moved(calls[x], "rejected")]
<1>2. Commit(new) /\ InMemory(c)
  <2>1. {x \in {c} : InMemory(x) /\ calls[x].status # "rejected"} # {}
    BY DEF Reject, SetStatus
  <2>2. {x \in {c} : InMemory(x) /\ calls[x].status # "rejected"} = {c}
    BY <2>1
  <2> QED
    BY <2>1, <2>2 DEF Reject, SetStatus
<1>3. new[c].status = "rejected" /\ c \in DOMAIN new
  BY <1>2, InMemoryInPlay DEF Moved, Call
<1>4. calls' = CallsAfter(new)
  BY <1>2 DEF Commit
<1> HIDE DEF new
<1>5. calls'[c] = None
  BY <1>3, <1>4 DEF CallsAfter, EndedStatuses
<1> QED
  BY <1>1, <1>5 DEF InMemory

LEMMA HungUpSorted ==
  ASSUME "read" \notin ContactFaults, ContactsInv, NEW c \in Calls, HungUp(c)
  PROVE  Sorted
<1>1. Brings({}) /\ ~InMemory(c)'
  <2>1. CASE Reject(c)
    BY <2>1, RejectLeaves DEF ContactsInv, ClientInv
  <2>2. CASE ~InMemory(c) /\ UNCHANGED calls
    BY <2>2, NothingBrings DEF InMemory
  <2> QED
    BY <2>1, <2>2 DEF HungUp, registryVars
<1>2. \A x \in Calls : InMemory(x)' => card'[x] = card[x]
  BY ProfileShows DEF HungUp
<1>3. \A x \in OpenCalls' : x # c
  BY <1>1 DEF OpenCalls
<1> QED
  BY <1>1, <1>2, <1>3, BroughtSorted DEF HungUp

LEMMA NotHungUpSorted ==
  ASSUME ContactsInv, NEW c \in Calls, NotHungUp(c)
  PROVE  Sorted
<1>1. Brings({})
  BY NothingBrings DEF NotHungUp, registryVars
<1>2. \A x \in OpenCalls \cap (hangups \cup missed) :
        x \in OpenCalls' => x \in hangups' \cup missed'
  BY DEF NotHungUp
<1> QED
  BY <1>1, <1>2, BroughtSorted DEF NotHungUp

\* A step that leaves calls and contacts alone.
LEMMA AsideSorted ==
  ASSUME ContactsInv, UNCHANGED <<calls, contacts, card, hangups, missed, meant>>
  PROVE  Sorted
  BY NothingBrings, BroughtSorted

LEMMA RebootedSorted ==
  ASSUME ContactsInv, Rebooted
  PROVE  Sorted
<1>1. \A c \in Calls : ~InMemory(c)'
  BY DEF Rebooted, Reboot, Restart, InMemory
<1> QED
  BY <1>1 DEF Rebooted, Sorted, ContactsInv, CardsAreCurrent, BlockedDontHold,
              EditsStand, OpenCalls

LEMMA EditSorted ==
  ASSUME "read" \notin ContactFaults, ContactsInv, NEW n \in Numbers, NEW patch,
         NEW closing, Edit(n, patch, closing)
  PROVE  Sorted
<1> DEFINE current == contacts[n]
           merged == Overriding(current, patch)
<1>1. CASE Saved(n, current, merged) /\ meant' = [meant EXCEPT ![n] = Overriding(@, patch)]
  <2>0. contacts \in [Numbers -> FieldValues] /\ contacts = meant
    BY DEF ContactsInv, ContactsTypeOK, EditsStand
  <2>1. /\ contacts' = [contacts EXCEPT ![n] = merged]
        /\ card' = [c \in Calls |-> IF c \in CallsFrom(n) THEN merged ELSE card[c]]
    BY <1>1 DEF Saved
  <2>2. Brings({})
    <3>1. CASE UNCHANGED registryVars
      BY <3>1, NothingBrings DEF registryVars
    <3>2. CASE ApplyContact(CallsFrom(n))
      BY <3>2, ApplyContactBrings DEF CallsFrom
    <3> QED
      BY <1>1, <3>1, <3>2 DEF Saved
  <2>3. \A c \in Calls : InMemory(c)' =>
          InMemory(c) /\ Number(calls', c) = Number(calls, c)
    BY <2>2 DEF Brings, InMemory, Number
  <2>4. EditsStand'
    BY <1>1, <2>0, <2>1 DEF EditsStand
  <2>5. CardsAreCurrent'
    <3> SUFFICES ASSUME NEW c \in Calls, InMemory(c)'
                 PROVE  card'[c] = CardOf(Number(calls, c))'
      BY DEF CardsAreCurrent
    <3>1. InMemory(c) /\ Number(calls', c) = Number(calls, c)
      BY <2>3
    <3>2. CASE Number(calls, c) = n
      BY <2>0, <2>1, <3>1, <3>2, NumbersAssumption DEF CardOf, CallsFrom
    <3>3. CASE Number(calls, c) # n
      BY <2>0, <2>1, <3>1, <3>3 DEF CardOf, CallsFrom, ContactsInv, CardsAreCurrent
    <3> QED
      BY <3>2, <3>3
  <2>6. BlockedDontHold'
    <3> SUFFICES ASSUME NEW c \in OpenCalls', IsBlocked(Number(calls, c))'
                 PROVE  c \in hangups' \cup missed'
      BY DEF BlockedDontHold
    <3>1. c \in OpenCalls /\ Number(calls', c) = Number(calls, c)
      BY <2>2, <2>3 DEF Brings, InMemory, OpenCalls
    <3>2. CASE Number(calls, c) = n /\ current.standing # "blocked"
      <4>1. merged.standing = "blocked"
        BY <2>0, <2>1, <3>1, <3>2 DEF IsBlocked
      <4>2. c \in OpenFrom(n)
        BY <3>1, <3>2 DEF OpenFrom
      <4> QED
        BY <1>1, <3>2, <4>1, <4>2 DEF Saved, NewlyBlocked
    <3>3. CASE Number(calls, c) = n /\ current.standing = "blocked"
      <4>1. c \in hangups \cup missed
        BY <3>1, <3>3, NumbersAssumption DEF IsBlocked, ContactsInv, BlockedDontHold
      <4>2. UNCHANGED <<hangups, missed>>
        BY <1>1, <3>3 DEF Saved, NewlyBlocked
      <4> QED
        BY <4>1, <4>2
    <3>4. CASE Number(calls, c) # n
      <4>1. IsBlocked(Number(calls, c))
        BY <2>0, <2>1, <3>1, <3>4 DEF IsBlocked
      <4>2. c \in hangups \cup missed
        BY <3>1, <4>1 DEF ContactsInv, BlockedDontHold
      <4>3. hangups \subseteq hangups' /\ missed \ OpenFrom(n) \subseteq missed'
        BY <1>1 DEF Saved
      <4> QED
        BY <3>4, <4>2, <4>3 DEF OpenFrom
    <3> QED
      BY <3>2, <3>3, <3>4
  <2> QED
    BY <2>4, <2>5, <2>6 DEF Sorted
<1>2. CASE UNCHANGED <<calls, contacts, card, hangups, missed, meant>>
  BY <1>2, AsideSorted
<1> QED
  BY <1>1, <1>2 DEF Edit, ChangeFields, Found

LEMMA ContactsStep ==
  ASSUME "read" \notin ContactFaults, ContactsInv, [ContactsNext]_allVars
  PROVE  ContactsInv'
<1>1. RegistryInv /\ ClientInv /\ ContactsTypeOK
  BY DEF ContactsInv, ClientInv
<1>2. ClientInv' /\ ContactsTypeOK'
  BY <1>1, StepInv, StepType
<1>3. ASSUME NEW c \in Calls, LetIn(c) \/ TurnAwayBlocked(c) \/ HungUp(c) \/ NotHungUp(c)
      PROVE  Sorted
  BY <1>3, LetInSorted, HungUpSorted, NotHungUpSorted, AsideSorted DEF TurnAwayBlocked
<1>4. ASSUME FormsOnly
      PROVE  Sorted
  BY <1>4, AsideSorted DEF FormsOnly, registryVars
<1>5. Sorted
  BY <1>1, <1>3, <1>4, ContactsCases, PutsSorted, RebootedSorted, EditSorted
<1> QED
  BY <1>2, <1>5 DEF ContactsInv, Sorted

\* It holds when the backend starts for the first time.
LEMMA ContactsInitInv == ContactsInit => ContactsInv
<1> SUFFICES ASSUME ContactsInit
             PROVE  ContactsInv
  OBVIOUS
<1>1. ClientInv
  BY InitInv DEF ContactsInit
<1>2. ContactsTypeOK
  BY BlankType, AttemptsAssumption DEF ContactsInit, ContactsTypeOK, Forms, NoForm
<1>3. \A c \in Calls : ~InMemory(c)
  BY DEF ContactsInit, Init, InMemory
<1> QED
  BY <1>1, <1>2, <1>3
     DEF ContactsInv, ContactsInit, CardsAreCurrent, BlockedDontHold, EditsStand, OpenCalls

-----------------------------------------------------------------------------
(* The theorems. *)

\* The contacts, the cards, the forms and the hang-ups keep their types, and
\* only blocked numbers have refused rings, whatever fails.
THEOREM ContactsTypeCorrect == ContactsSpec => []ContactsTypeOK
<1>1. ContactsInit => ClientInv /\ ContactsTypeOK
  BY ContactsInitInv DEF ContactsInv
<1>2. ClientInv /\ ContactsTypeOK /\ [ContactsNext]_allVars
      => (ClientInv /\ ContactsTypeOK)'
  BY StepInv, StepType DEF ClientInv
<1> QED
  BY <1>1, <1>2, PTL DEF ContactsSpec

\* The invariant, as long as contacts can be read.
LEMMA ContactsInvariance ==
  "read" \notin ContactFaults => (ContactsSpec => []ContactsInv)
<1> SUFFICES ASSUME "read" \notin ContactFaults
             PROVE  ContactsSpec => []ContactsInv
  OBVIOUS
<1>1. ContactsInv /\ [ContactsNext]_allVars => ContactsInv'
  BY ContactsStep
<1> QED
  BY <1>1, ContactsInitInv, PTL DEF ContactsSpec

\* Whatever way a call came into memory, and whatever was changed since, it
\* shows its caller's contact as saved (call_registry.py:230).
THEOREM CardsAlwaysCurrent ==
  "read" \notin ContactFaults => (ContactsSpec => []CardsAreCurrent)
<1>1. ContactsInv => CardsAreCurrent
  BY DEF ContactsInv
<1> QED
  BY <1>1, ContactsInvariance, PTL

\* "Blocking one ends any call it has waiting" (contacts.py:8), but for those
\* the block could not reach or that came back from before a restart.
THEOREM BlockedNeverHold ==
  "read" \notin ContactFaults => (ContactsSpec => []BlockedDontHold)
<1>1. ContactsInv => BlockedDontHold
  BY DEF ContactsInv
<1> QED
  BY <1>1, ContactsInvariance, PTL

\* Operators "do not undo each other" (ContactDialog.tsx:21): each saved field
\* is what somebody last chose for it.
THEOREM EditsAlwaysStand ==
  "read" \notin ContactFaults => (ContactsSpec => []EditsStand)
<1>1. ContactsInv => EditsStand
  BY DEF ContactsInv
<1> QED
  BY <1>1, ContactsInvariance, PTL

\* "Every attempt is counted" (webhooks.py:183): no step takes a refused ring
\* of a number that stays blocked from its count.
THEOREM AttemptsNeverFall ==
  "read" \notin ContactFaults => (ContactsSpec => AttemptsStand)
<1> SUFFICES ASSUME "read" \notin ContactFaults
             PROVE  ContactsSpec => AttemptsStand
  OBVIOUS
<1> DEFINE Stands ==
      \A n \in Numbers :
        contacts[n].standing = "blocked" /\ contacts'[n].standing = "blocked"
        => attempts'[n] >= attempts[n]
<1>1. ASSUME ContactsInv, [ContactsNext]_allVars
      PROVE  Stands
  <2>1. /\ ContactsTypeOK /\ RegistryInv
        /\ \A n \in Numbers : attempts[n] \in Nat /\ attempts[n] <= MaxAttempts
    BY <1>1, AttemptsAssumption DEF ContactsInv, ClientInv, ContactsTypeOK
  <2>2. ASSUME UNCHANGED attempts
        PROVE  Stands
    BY <2>1, <2>2
  <2>3. ASSUME NEW c \in Calls, TurnAwayBlocked(c)
        PROVE  Stands
    <3>1. NumberOf[c] \in Numbers
      BY <2>3, NumbersAssumption DEF TurnAwayBlocked, IsBlocked
    <3>2. Counted(attempts[NumberOf[c]]) >= attempts[NumberOf[c]]
      BY <2>1, <3>1 DEF Counted
    <3>3. \/ attempts' = attempts
          \/ attempts' = [attempts EXCEPT ![NumberOf[c]] = Counted(attempts[NumberOf[c]])]
      BY <2>3 DEF TurnAwayBlocked
    <3> QED
      BY <2>1, <2>2, <3>1, <3>2, <3>3 DEF ContactsTypeOK
  <2>4. ASSUME NEW m \in Numbers, NEW patch, NEW closing, Edit(m, patch, closing)
        PROVE  Stands
    <3>1. CASE UNCHANGED attempts
      BY <2>2, <3>1
    <3>2. CASE Saved(m, contacts[m], Overriding(contacts[m], patch))
      <4> DEFINE merged == Overriding(contacts[m], patch)
      <4>1. /\ contacts' = [contacts EXCEPT ![m] = merged]
            /\ attempts' = [attempts EXCEPT ![m] = AttemptsAfter(m, contacts[m], merged)]
        BY <3>2 DEF Saved
      <4>2. contacts[m].standing = "blocked" /\ merged.standing = "blocked"
            => AttemptsAfter(m, contacts[m], merged) = attempts[m]
        BY FieldsAssumption DEF AttemptsAfter, Blank
      <4> HIDE DEF merged
      <4> QED
        BY <2>1, <4>1, <4>2 DEF ContactsTypeOK
    <3> QED
      BY <2>4, <3>1, <3>2 DEF Edit, ChangeFields, Found
  <2> HIDE DEF Stands
  <2>5. ASSUME NEW c \in Calls, LetIn(c) \/ TurnAwayBlocked(c) \/ HungUp(c) \/ NotHungUp(c)
        PROVE  Stands
    BY <2>2, <2>3, <2>5 DEF LetIn, HungUp, NotHungUp
  <2>6. ASSUME NEW S, Puts(S)
        PROVE  Stands
    BY <2>2, <2>6 DEF Puts, Registry
  <2>7. ASSUME Rebooted \/ FormsOnly
        PROVE  Stands
    BY <2>2, <2>7 DEF Rebooted, FormsOnly
  <2> QED
    BY <1>1, <2>1, <2>4, <2>5, <2>6, <2>7, ContactsCases
<1>2. ContactsInv /\ [ContactsNext]_allVars => [Stands]_allVars
  BY <1>1
<1>3. ContactsSpec => []ContactsInv
  BY ContactsInvariance
<1> QED
  BY <1>2, <1>3, PTL DEF ContactsSpec, AttemptsStand

\* Contacts over the registry: as long as contacts can be written, which is as
\* far as they share its storage warning, whoever runs them runs the registry.
THEOREM ContactsRunTheRegistry ==
  "write" \notin ContactFaults => (ContactsSpec => Spec)
<1> SUFFICES ASSUME "write" \notin ContactFaults
             PROVE  ContactsSpec => Spec
  OBVIOUS
<1>1. ContactsInit => Init /\ ClientInv /\ ContactsTypeOK
  BY ContactsInitInv DEF ContactsInit, ContactsInv
<1>2. ClientInv /\ ContactsTypeOK /\ [ContactsNext]_allVars
      => (ClientInv /\ ContactsTypeOK)'
  BY StepInv, StepType DEF ClientInv
<1>3. ASSUME ClientInv, ContactsTypeOK, [ContactsNext]_allVars
      PROVE  [Next]_vars
  <2>1. Next \/ Aside
    BY <1>3, StepBelow DEF ClientInv
  <2>2. Aside => UNCHANGED vars
    BY DEF Aside, clientVars, vars
  <2> QED
    BY <2>1, <2>2
<1>4. ClientInv /\ ContactsTypeOK /\ [ContactsNext]_allVars => [Next]_vars
  BY <1>3
<1> QED
  BY <1>1, <1>2, <1>4, PTL DEF ContactsSpec, Spec

\* With contacts and blocking on top, the registry still keeps its promise, as
\* long as the calls can be read.
THEOREM ContactsKeepPromise == "read" \notin StoreFaults => (ContactsSpec => KeepsPromise)
<1> SUFFICES ASSUME "read" \notin StoreFaults
             PROVE  ContactsSpec => KeepsPromise
  OBVIOUS
<1>1. ContactsInit => Promise!InPlayInit /\ ClientInv /\ ContactsTypeOK
  BY ContactsInitInv, InitPromise DEF ContactsInit, ContactsInv
<1>2. ClientInv /\ ContactsTypeOK /\ [ContactsNext]_allVars
      => (ClientInv /\ ContactsTypeOK)'
  BY StepInv, StepType DEF ClientInv
<1>3. ASSUME ClientInv, ContactsTypeOK, [ContactsNext]_allVars
      PROVE  [Promise!InPlayNext]_(Promise!inPlayVars)
  <2>1. Next \/ Aside
    BY <1>3, StepBelow DEF ClientInv
  <2>2. Aside => Promised
    BY PromisedNothing DEF Aside
  <2>3. Next => Promised
    BY <1>3, NextPromise DEF ClientInv
  <2> QED
    BY <2>1, <2>2, <2>3 DEF Promised
<1>4. ClientInv /\ ContactsTypeOK /\ [ContactsNext]_allVars
      => [Promise!InPlayNext]_(Promise!inPlayVars)
  BY <1>3
<1> QED
  BY <1>1, <1>2, <1>4, PTL DEF ContactsSpec, KeepsPromise, Promise!InPlaySpec

=============================================================================
