-------------------------- MODULE DashboardProofs ---------------------------
(***************************************************************************)
(* What an open dashboard shows, with what is on its way to it, is what    *)
(* the server knows, for any number of calls, dashboards, restarts and     *)
(* broken sockets, and queues of any size.  The first lemmas are about the *)
(* reducer and about queues; the theorems follow from one invariant, which *)
(* speaks of the latest event about each thing.                            *)
(***************************************************************************)
EXTENDS Dashboard, ListProofs

-----------------------------------------------------------------------------
(* Lists of calls. *)

\* A list of n distinct members of a set with n members has all of them.
LEMMA OrderIsAll ==
  ASSUME NEW S, IsFiniteSet(S), NEW f \in [1..Cardinality(S) -> S], IsInjective(f)
  PROVE  /\ f \in Seq(S) /\ Len(f) = Cardinality(S) /\ Len(f) \in Nat
         /\ \A c \in S : \E i \in 1..Len(f) : f[i] = c
<1> DEFINE n == Cardinality(S)
<1>1. n \in Nat
  BY FS_CardinalityType
<1>2. f \in Seq(S) /\ Len(f) = n
  BY <1>1
<1>3. Cardinality(1..n) = n
  BY <1>1, FS_Interval
<1>4. f \in Injection(1..n, S)
  BY DEF Injection
<1>5. f \in Surjection(1..n, S)
  BY <1>3, <1>4, FS_Injection
<1> QED
  BY <1>1, <1>2, <1>5 DEF Surjection

\* SetToSeq lists a finite set.
LEMMA SetToSeqLists ==
  ASSUME NEW S, IsFiniteSet(S)
  PROVE  SetToSeq(S) \in Seq(S) /\ IsInjective(SetToSeq(S)) /\ ToSet(SetToSeq(S)) = S
<1> DEFINE n == Cardinality(S)
           s == SetToSeq(S)
<1>1. n \in Nat /\ ExistsBijection(1..n, S)
  BY FS_CardinalityType
<1>2. \E f \in [1..n -> S] : IsInjective(f)
  BY <1>1 DEF ExistsBijection, Bijection, Injection
<1>3. s \in [1..n -> S] /\ IsInjective(s)
  BY <1>2 DEF SetToSeq
<1> HIDE DEF s
<1>4. /\ s \in Seq(S) /\ Len(s) = n
      /\ \A c \in S : \E i \in 1..Len(s) : s[i] = c
  BY <1>3, OrderIsAll
<1>5. ToSet(s) = S
  BY <1>3, <1>4 DEF ToSet
<1> QED
  BY <1>3, <1>4, <1>5 DEF s

-----------------------------------------------------------------------------
(* The reducer. *)

\* What is listed is what is shown, once each.
ViewOK(v) ==
  /\ v \in ViewType
  /\ ToSet(v.order) = {c \in Calls : v.calls[c] # "none"}
  /\ IsInjective(v.order)

\* How a status counts in the queue of those waiting.
As(s) == IF Waiting(s) THEN s ELSE "none"

\* A list and what it holds.
LEMMA MembersOfList ==
  ASSUME NEW S, NEW s \in Seq(S)
  PROVE  /\ Len(s) \in Nat /\ DOMAIN s = 1..Len(s)
         /\ \A c : c \in ToSet(s) <=> \E i \in 1..Len(s) : s[i] = c
         /\ ToSet(s) \subseteq S
<1>1. Len(s) \in Nat /\ s \in [1..Len(s) -> S] /\ DOMAIN s = 1..Len(s)
  BY LenProperties
<1> QED
  BY <1>1 DEF ToSet

\* A filtered list has what was to be kept, once if it was once in the list.
LEMMA AmongKeeps ==
  ASSUME NEW S, NEW s \in Seq(S), IsInjective(s), NEW T
  PROVE  /\ Among(s, T) \in Seq(S) /\ IsInjective(Among(s, T))
         /\ ToSet(Among(s, T)) = ToSet(s) \cap T
<1> DEFINE t == Among(s, T)
<1>1. t \in Seq(S) /\ \E p : PartOf(p, t, s, T, Len(s))
  BY AmongIsPart
<1>2. PICK p : PartOf(p, t, s, T, Len(s))
  BY <1>1
<1> HIDE DEF t
<1>3. /\ \A c : c \in ToSet(s) <=> \E i \in 1..Len(s) : s[i] = c
      /\ \A c : c \in ToSet(t) <=> \E i \in 1..Len(t) : t[i] = c
      /\ DOMAIN s = 1..Len(s) /\ DOMAIN t = 1..Len(t)
      /\ Len(s) \in Nat /\ Len(t) \in Nat
  BY <1>1, MembersOfList
<1>4. ToSet(t) = ToSet(s) \cap T
  <2>1. ASSUME NEW c \in ToSet(t)
        PROVE  c \in ToSet(s) \cap T
    BY <1>2, <1>3, <2>1 DEF PartOf
  <2>2. ASSUME NEW c \in ToSet(s) \cap T
        PROVE  c \in ToSet(t)
    BY <1>2, <1>3, <2>2 DEF PartOf
  <2> QED
    BY <2>1, <2>2
<1>5. ASSUME NEW a \in 1..Len(t), NEW b \in 1..Len(t), t[a] = t[b]
      PROVE  a = b
  <2>1. /\ p[a] \in 1..Len(s) /\ p[b] \in 1..Len(s)
        /\ t[a] = s[p[a]] /\ t[b] = s[p[b]]
        /\ a < b => p[a] < p[b]
        /\ b < a => p[b] < p[a]
    BY <1>2 DEF PartOf
  <2>2. \A x, y \in 1..Len(s) : s[x] = s[y] => x = y
    BY <1>3 DEF IsInjective
  <2>3. s[p[a]] = s[p[b]]
    BY <1>5, <2>1
  <2>4. p[a] = p[b]
    BY <2>1, <2>2, <2>3
  <2> QED
    BY <1>3, <2>1, <2>4
<1>6. IsInjective(t)
  BY <1>3, <1>5 DEF IsInjective
<1> QED
  BY <1>1, <1>4, <1>6 DEF t

\* A view with other calls, in another order.
LEMMA ViewExcept ==
  ASSUME NEW v \in ViewType, NEW a, NEW o, NEW c, NEW status
  PROVE  /\ [v EXCEPT !.calls = a, !.order = o]
              = [calls |-> a, order |-> o, open |-> v.open, warning |-> v.warning]
         /\ [v EXCEPT !.calls[c] = status, !.order = o]
              = [calls |-> [v.calls EXCEPT ![c] = status], order |-> o,
                 open |-> v.open, warning |-> v.warning]
<1> DEFINE Other(x) == [calls |-> x, order |-> v.order, open |-> v.open,
                        warning |-> v.warning]
<1>1. ASSUME NEW x
      PROVE  [Other(x) EXCEPT !.order = o]
               = [calls |-> x, order |-> o, open |-> v.open, warning |-> v.warning]
  OBVIOUS
<1>2. [v EXCEPT !.calls = a] = Other(a)
  BY DEF ViewType
<1>3. [v EXCEPT !.calls[c] = status] = Other([v.calls EXCEPT ![c] = status])
  BY DEF ViewType
<1>4. [v EXCEPT !.calls = a, !.order = o] = [[v EXCEPT !.calls = a] EXCEPT !.order = o]
  OBVIOUS
<1>5. [v EXCEPT !.calls[c] = status, !.order = o]
        = [[v EXCEPT !.calls[c] = status] EXCEPT !.order = o]
  OBVIOUS
<1> HIDE DEF Other
<1> QED
  BY <1>1, <1>2, <1>3, <1>4, <1>5

\* A call is put on the list at most once.
LEMMA UpsertKeepsView ==
  ASSUME NEW v, ViewOK(v), NEW c \in Calls, NEW status \in ViewStatus \ {"none"}
  PROVE  /\ ViewOK(Upsert(v, c, status))
         /\ Upsert(v, c, status).open = v.open
         /\ Upsert(v, c, status).warning = v.warning
         /\ Upsert(v, c, status).calls = [v.calls EXCEPT ![c] = status]
<1> DEFINE w == Upsert(v, c, status)
<1>1. /\ v \in ViewType /\ v.order \in Seq(Calls) /\ v.calls \in [Calls -> ViewStatus]
      /\ v.open \in BOOLEAN /\ v.warning \in BOOLEAN
      /\ ToSet(v.order) = {b \in Calls : v.calls[b] # "none"}
      /\ IsInjective(v.order)
  BY DEF ViewOK, ViewType
<1>2. /\ Len(v.order) \in Nat /\ DOMAIN v.order = 1..Len(v.order)
      /\ \A b : b \in ToSet(v.order) <=> \E i \in 1..Len(v.order) : v.order[i] = b
  BY <1>1, MembersOfList
<1> DEFINE order == IF Contains(v.order, c) THEN v.order ELSE Append(v.order, c)
           calls == [v.calls EXCEPT ![c] = status]
<1>3. w = [calls |-> calls, order |-> order, open |-> v.open, warning |-> v.warning]
  BY <1>1, ViewExcept DEF Upsert
<1> HIDE DEF w
<1>4. /\ order \in Seq(Calls) /\ IsInjective(order)
      /\ ToSet(order) = ToSet(v.order) \cup {c}
  <2>1. CASE Contains(v.order, c)
    BY <1>1, <1>2, <2>1 DEF Contains
  <2>2. CASE ~Contains(v.order, c)
    <3> DEFINE o == Append(v.order, c)
               m == Len(v.order)
    <3>1. /\ o \in Seq(Calls) /\ Len(o) = m + 1 /\ o[m + 1] = c
          /\ \A i \in 1..m : o[i] = v.order[i]
      BY <1>1, AppendProperties
    <3> HIDE DEF o
    <3>2. DOMAIN o = 1..(m + 1) /\ \A b : b \in ToSet(o) <=> \E i \in 1..(m + 1) : o[i] = b
      BY <3>1, MembersOfList
    <3>3. \A i \in 1..m : o[i] # c
      BY <2>2, <3>1 DEF Contains
    <3>4. ToSet(o) = ToSet(v.order) \cup {c}
      <4>1. ASSUME NEW b \in ToSet(o)
            PROVE  b \in ToSet(v.order) \cup {c}
        BY <1>2, <3>1, <3>2, <4>1
      <4>2. ASSUME NEW b \in ToSet(v.order) \cup {c}
            PROVE  b \in ToSet(o)
        <5>1. CASE b = c
          <6>1. m + 1 \in 1..(m + 1)
            BY <1>2
          <6> QED
            BY <3>1, <3>2, <5>1, <6>1
        <5>2. CASE b \in ToSet(v.order)
          <6>1. PICK i \in 1..m : v.order[i] = b
            BY <1>2, <5>2
          <6>2. i \in 1..(m + 1) /\ o[i] = b
            BY <1>2, <3>1, <6>1
          <6> QED
            BY <3>2, <6>2
        <5> QED
          BY <4>2, <5>1, <5>2
      <4> QED
        BY <4>1, <4>2
    <3>5. ASSUME NEW a \in 1..(m + 1), NEW b \in 1..(m + 1), o[a] = o[b]
          PROVE  a = b
      <4>1. CASE a = m + 1 \/ b = m + 1
        BY <1>2, <3>1, <3>3, <3>5, <4>1
      <4>2. CASE a \in 1..m /\ b \in 1..m
        BY <1>1, <1>2, <3>1, <3>5, <4>2 DEF IsInjective
      <4> QED
        BY <1>2, <4>1, <4>2
    <3>6. IsInjective(o)
      BY <3>2, <3>5 DEF IsInjective
    <3> QED
      BY <2>2, <3>1, <3>4, <3>6 DEF o
  <2> QED
    BY <2>1, <2>2
<1> HIDE DEF order
<1>5. /\ calls \in [Calls -> ViewStatus]
      /\ {b \in Calls : calls[b] # "none"} = {b \in Calls : v.calls[b] # "none"} \cup {c}
  BY <1>1
<1> HIDE DEF calls
<1>6. ViewOK(w)
  BY <1>1, <1>3, <1>4, <1>5 DEF ViewOK, ViewType
<1> QED
  BY <1>3, <1>6 DEF calls, w

\* Only calls that are over, or on air, are pruned.
LEMMA PruneKeepsView ==
  ASSUME NEW v, ViewOK(v)
  PROVE  /\ ViewOK(PruneTerminal(v))
         /\ PruneTerminal(v).open = v.open
         /\ PruneTerminal(v).warning = v.warning
         /\ \A c \in Calls : As(PruneTerminal(v).calls[c]) = As(v.calls[c])
<1> DEFINE over == {c \in Calls : IsTerminal(v.calls[c])}
           recent == Among(v.order, over)
           drop == ToSet(SubSeq(recent, 1, Len(recent) - MaxRecent))
           calls == [c \in Calls |-> IF c \in drop THEN "none" ELSE v.calls[c]]
           order == Among(v.order, Calls \ drop)
           w == PruneTerminal(v)
<1>1. /\ v \in ViewType /\ v.order \in Seq(Calls) /\ v.calls \in [Calls -> ViewStatus]
      /\ v.open \in BOOLEAN /\ v.warning \in BOOLEAN
      /\ ToSet(v.order) = {b \in Calls : v.calls[b] # "none"}
      /\ IsInjective(v.order)
  BY DEF ViewOK, ViewType
<1>2. w = [calls |-> calls, order |-> order, open |-> v.open, warning |-> v.warning]
  BY <1>1, ViewExcept DEF PruneTerminal
<1>3. /\ recent \in Seq(Calls) /\ ToSet(recent) \subseteq over
      /\ Len(recent) \in Nat /\ DOMAIN recent = 1..Len(recent)
      /\ \A c : c \in ToSet(recent) <=> \E i \in 1..Len(recent) : recent[i] = c
  <2>1. recent \in Seq(Calls) /\ ToSet(recent) \subseteq over
    <3> HIDE DEF over
    <3> QED
      BY <1>1, AmongKeeps
  <2> QED
    BY <2>1, MembersOfList
<1> HIDE DEF recent
<1>4. drop \subseteq over
  <2> DEFINE n == Len(recent) - MaxRecent
             s == SubSeq(recent, 1, n)
  <2>1. n \in Int /\ n <= Len(recent)
    BY <1>3, SizesAssumption
  <2>2. \A i \in 1..n : i \in 1..Len(recent) /\ recent[i] \in Calls
    BY <1>3, <2>1, ElementOfSeq
  <2>3. /\ s \in Seq(Calls) /\ Len(s) = IF 1 <= n THEN n - 1 + 1 ELSE 0
        /\ \A i \in 1..(n - 1 + 1) : s[i] = recent[1 + i - 1]
    BY <2>1, <2>2, SubSeqProperties
  <2> HIDE DEF s, n
  <2>4. \A i \in 1..Len(s) : i \in 1..n /\ s[i] = recent[i]
    BY <2>1, <2>3
  <2>5. ASSUME NEW c \in ToSet(s)
        PROVE  c \in over
    <3>1. PICK i \in 1..Len(s) : s[i] = c
      BY <2>3, <2>5, MembersOfList
    <3> QED
      BY <1>3, <2>2, <2>4, <3>1
  <2> QED
    BY <2>5 DEF s, n
<1> HIDE DEF drop, w
<1>5. /\ order \in Seq(Calls) /\ IsInjective(order)
      /\ ToSet(order) = ToSet(v.order) \cap (Calls \ drop)
  BY <1>1, AmongKeeps
<1> HIDE DEF order
<1>6. /\ calls \in [Calls -> ViewStatus]
      /\ \A c \in Calls : calls[c] = IF c \in drop THEN "none" ELSE v.calls[c]
  BY <1>1 DEF ViewStatus, Status
<1>7. \A c \in Calls : As(calls[c]) = As(v.calls[c])
  BY <1>4, <1>6 DEF As, Waiting, IsTerminal
<1> HIDE DEF calls
<1>8. ToSet(order) = {c \in Calls : calls[c] # "none"}
  BY <1>1, <1>5, <1>6
<1>9. ViewOK(w)
  BY <1>1, <1>2, <1>5, <1>6, <1>8 DEF ViewOK, ViewType
<1> QED
  BY <1>2, <1>7, <1>9 DEF w

\* What one event does to what is shown.
ReducesTo(w, v, m) ==
  /\ ViewOK(w)
  /\ w.open = IF m.kind = "line" THEN m.open ELSE v.open
  /\ w.warning = (v.warning \/ m.kind = "storage")
  /\ \A c \in Calls :
       As(w.calls[c]) = IF m.kind = "call" /\ m.call = c THEN As(m.status)
                        ELSE As(v.calls[c])

LEMMA ReduceEvent ==
  ASSUME NEW v, ViewOK(v), NEW m \in Events
  PROVE  ReducesTo(Reduce(v, m), v, m)
<1>1. /\ v \in ViewType /\ v.order \in Seq(Calls) /\ v.calls \in [Calls -> ViewStatus]
      /\ v.open \in BOOLEAN /\ v.warning \in BOOLEAN
      /\ ToSet(v.order) = {b \in Calls : v.calls[b] # "none"}
      /\ IsInjective(v.order)
  BY DEF ViewOK, ViewType
<1>2. CASE m \in [kind : {"call"}, call : Calls, status : ViewStatus \ {"none"},
                  ended : BOOLEAN]
  <2> DEFINE u == Upsert(v, m.call, m.status)
  <2>1. /\ m.kind = "call" /\ m.call \in Calls /\ m.status \in ViewStatus \ {"none"}
        /\ m.ended \in BOOLEAN
    BY <1>2
  <2>2. /\ ViewOK(u) /\ u.open = v.open /\ u.warning = v.warning
        /\ u.calls = [v.calls EXCEPT ![m.call] = m.status]
    BY <2>1, UpsertKeepsView
  <2>3. ReducesTo(u, v, m)
    BY <1>1, <2>1, <2>2 DEF ReducesTo
  <2>5. Reduce(v, m) = IF m.ended THEN PruneTerminal(u) ELSE u
    BY <2>1 DEF Reduce
  <2> HIDE DEF u
  <2>6. /\ ViewOK(PruneTerminal(u)) /\ PruneTerminal(u).open = u.open
        /\ PruneTerminal(u).warning = u.warning
        /\ \A c \in Calls : As(PruneTerminal(u).calls[c]) = As(u.calls[c])
    BY <2>2, PruneKeepsView
  <2>4. ReducesTo(PruneTerminal(u), v, m)
    BY <2>3, <2>6 DEF ReducesTo
  <2> QED
    BY <2>3, <2>4, <2>5
<1>3. CASE m \in [kind : {"line"}, open : BOOLEAN]
  <2>1. m.kind = "line" /\ m.open \in BOOLEAN
    BY <1>3
  <2>2. Reduce(v, m) = [v EXCEPT !.open = m.open]
    BY <2>1 DEF Reduce
  <2> QED
    BY <1>1, <2>1, <2>2 DEF ReducesTo, ViewOK, ViewType
<1>4. CASE m \in [kind : {"storage", "contact"}]
  <2>1. m.kind \in {"storage", "contact"}
    BY <1>4
  <2>2. Reduce(v, m) = IF m.kind = "storage" THEN [v EXCEPT !.warning = TRUE] ELSE v
    BY <2>1 DEF Reduce
  <2> QED
    BY <1>1, <2>1, <2>2 DEF ReducesTo, ViewOK, ViewType
<1> QED
  BY <1>2, <1>3, <1>4 DEF Events

\* A snapshot replaces everything; nothing changes nothing.
LEMMA ReduceOther ==
  ASSUME NEW v, ViewOK(v), NEW m \in Messages, m \notin Events
  PROVE  /\ ViewOK(Reduce(v, m))
         /\ m.kind = "nothing" => Reduce(v, m) = v
         /\ m.kind = "snapshot" =>
              /\ Reduce(v, m).calls = m.calls /\ Reduce(v, m).open = m.open
              /\ Reduce(v, m).warning = m.warning
<1>1. CASE m \in [kind : {"nothing"}]
  <2>1. m.kind = "nothing"
    BY <1>1
  <2> QED
    BY <2>1 DEF Reduce
<1>2. CASE m \in [kind : {"snapshot"}, calls : [Calls -> Status], open : BOOLEAN,
                  warning : BOOLEAN]
  <2>1. /\ m.kind = "snapshot" /\ m.calls \in [Calls -> Status]
        /\ m.open \in BOOLEAN /\ m.warning \in BOOLEAN
    BY <1>2
  <2> DEFINE listed == {c \in Calls : m.calls[c] # "none"}
             order == SetToSeq(listed)
  <2>2. Reduce(v, m) = [calls |-> m.calls, order |-> order, open |-> m.open,
                        warning |-> m.warning]
    BY <2>1 DEF Reduce, Replaced
  <2>3. IsFiniteSet(listed)
    BY CallsAssumption, FS_Subset
  <2> HIDE DEF listed
  <2>4. order \in Seq(listed) /\ IsInjective(order) /\ ToSet(order) = listed
    BY <2>3, SetToSeqLists
  <2>5. order \in Seq(Calls)
    <3>1. listed \subseteq Calls
      BY DEF listed
    <3> QED
      BY <2>4, <3>1
  <2> HIDE DEF order
  <2>6. ViewOK(Reduce(v, m))
    BY <2>1, <2>2, <2>4, <2>5 DEF ViewOK, ViewType, ViewStatus, listed
  <2> QED
    BY <2>1, <2>2, <2>6
<1> QED
  BY <1>1, <1>2 DEF Messages

-----------------------------------------------------------------------------
(* What a queue comes to. *)

IsNews(m, c) == m.kind = "call" /\ m.call = c

\* The latest of the first n events that is about the line, or about a call.
LastLine(q, n, i) ==
  /\ i \in 1..n /\ q[i].kind = "line"
  /\ \A j \in 1..n : j > i => q[j].kind # "line"
LastNews(q, n, c, i) ==
  /\ i \in 1..n /\ IsNews(q[i], c)
  /\ \A j \in 1..n : j > i => ~IsNews(q[j], c)

\* What is shown after n events: for each thing the latest, if there is one.
ShownAfter(w, v, q, n) ==
  /\ ViewOK(w)
  /\ \/ w.open = v.open /\ \A i \in 1..n : q[i].kind # "line"
     \/ \E i \in 1..n : LastLine(q, n, i) /\ w.open = q[i].open
  /\ w.warning = (v.warning \/ \E i \in 1..n : q[i].kind = "storage")
  /\ \A c \in Calls :
       \/ As(w.calls[c]) = As(v.calls[c]) /\ \A i \in 1..n : ~IsNews(q[i], c)
       \/ \E i \in 1..n : LastNews(q, n, c, i) /\ As(w.calls[c]) = As(q[i].status)

\* One more event.
LEMMA ShownAfterOneMore ==
  ASSUME NEW v, NEW q, NEW n \in Nat, NEW u, ShownAfter(u, v, q, n),
         NEW w, q[n + 1] \in Events, ReducesTo(w, u, q[n + 1])
  PROVE  ShownAfter(w, v, q, n + 1)
<1> DEFINE m == q[n + 1]
<1>1. n + 1 \in 1..(n + 1) /\ \A i : i \in 1..(n + 1) <=> i \in 1..n \/ i = n + 1
  OBVIOUS
<1>2. ViewOK(w)
  BY DEF ReducesTo
<1>3. \/ w.open = v.open /\ \A i \in 1..(n + 1) : q[i].kind # "line"
      \/ \E i \in 1..(n + 1) : LastLine(q, n + 1, i) /\ w.open = q[i].open
  <2>1. CASE m.kind = "line"
    <3>1. LastLine(q, n + 1, n + 1)
      BY <1>1, <2>1 DEF LastLine
    <3>2. w.open = m.open
      BY <2>1 DEF ReducesTo
    <3> QED
      BY <1>1, <3>1, <3>2
  <2>2. CASE m.kind # "line"
    <3>1. w.open = u.open
      BY <2>2 DEF ReducesTo
    <3>2. CASE u.open = v.open /\ \A i \in 1..n : q[i].kind # "line"
      BY <1>1, <2>2, <3>1, <3>2
    <3>3. CASE \E i \in 1..n : LastLine(q, n, i) /\ u.open = q[i].open
      <4>1. PICK i \in 1..n : LastLine(q, n, i) /\ u.open = q[i].open
        BY <3>3
      <4>2. LastLine(q, n + 1, i)
        BY <1>1, <2>2, <4>1 DEF LastLine
      <4> QED
        BY <1>1, <3>1, <4>1, <4>2
    <3> QED
      BY <3>2, <3>3 DEF ShownAfter
  <2> QED
    BY <2>1, <2>2
<1>4. w.warning = (v.warning \/ \E i \in 1..(n + 1) : q[i].kind = "storage")
  <2>1. w.warning = (u.warning \/ m.kind = "storage")
    BY DEF ReducesTo
  <2>2. u.warning = (v.warning \/ \E i \in 1..n : q[i].kind = "storage")
    BY DEF ShownAfter
  <2>3. (\E i \in 1..(n + 1) : q[i].kind = "storage")
          <=> (\E i \in 1..n : q[i].kind = "storage") \/ m.kind = "storage"
    BY <1>1
  <2> QED
    BY <2>1, <2>2, <2>3
<1>5. ASSUME NEW c \in Calls
      PROVE  \/ /\ As(w.calls[c]) = As(v.calls[c])
                /\ \A i \in 1..(n + 1) : ~IsNews(q[i], c)
             \/ \E i \in 1..(n + 1) :
                  LastNews(q, n + 1, c, i) /\ As(w.calls[c]) = As(q[i].status)
  <2>1. CASE IsNews(m, c)
    <3>1. LastNews(q, n + 1, c, n + 1)
      BY <1>1, <2>1 DEF LastNews
    <3>2. As(w.calls[c]) = As(m.status)
      BY <2>1 DEF ReducesTo, IsNews
    <3> QED
      BY <1>1, <3>1, <3>2
  <2>2. CASE ~IsNews(m, c)
    <3>1. As(w.calls[c]) = As(u.calls[c])
      BY <2>2 DEF ReducesTo, IsNews
    <3>2. CASE As(u.calls[c]) = As(v.calls[c]) /\ \A i \in 1..n : ~IsNews(q[i], c)
      BY <1>1, <2>2, <3>1, <3>2
    <3>3. CASE \E i \in 1..n : LastNews(q, n, c, i) /\ As(u.calls[c]) = As(q[i].status)
      <4>1. PICK i \in 1..n : LastNews(q, n, c, i) /\ As(u.calls[c]) = As(q[i].status)
        BY <3>3
      <4>2. LastNews(q, n + 1, c, i)
        BY <1>1, <2>2, <4>1 DEF LastNews
      <4> QED
        BY <1>1, <3>1, <4>1, <4>2
    <3> QED
      BY <3>2, <3>3 DEF ShownAfter
  <2> QED
    BY <2>1, <2>2
<1> QED
  BY <1>2, <1>3, <1>4, <1>5 DEF ShownAfter

\* F is what is shown after each of the first n events of q.
ShowsUpTo(F, v, q, n) ==
  F = [i \in 0..n |-> IF i = 0 THEN v ELSE Reduce(F[i - 1], q[i])]

\* The recursion has a solution for every length.
LEMMA ShowsExist ==
  ASSUME NEW v, NEW q
  PROVE  \A n \in Nat : \E F : ShowsUpTo(F, v, q, n)
<1> DEFINE Fine == {n \in Nat : \E F : ShowsUpTo(F, v, q, n)}
<1>1. 0 \in Fine
  <2> DEFINE F == [i \in 0..0 |-> v]
  <2>1. ShowsUpTo(F, v, q, 0)
    BY DEF ShowsUpTo
  <2> QED
    BY <2>1
<1>2. ASSUME NEW n \in Nat, n \in Fine
      PROVE  n + 1 \in Fine
  <2>1. PICK F : ShowsUpTo(F, v, q, n)
    BY <1>2
  <2> DEFINE G == [i \in 0..(n + 1) |-> IF i <= n THEN F[i] ELSE Reduce(F[n], q[i])]
  <2>2. \A i \in 0..n : F[i] = IF i = 0 THEN v ELSE Reduce(F[i - 1], q[i])
    BY <2>1 DEF ShowsUpTo
  <2>3. ASSUME NEW i \in 0..(n + 1)
        PROVE  G[i] = IF i = 0 THEN v ELSE Reduce(G[i - 1], q[i])
    <3>1. CASE i = 0
      BY <3>1, <2>2
    <3>2. CASE i \in 1..n
      <4>1. G[i] = F[i] /\ G[i - 1] = F[i - 1] /\ i \in 0..n /\ i # 0
        BY <3>2
      <4> QED
        BY <4>1, <2>2
    <3>3. CASE i = n + 1
      BY <3>3
    <3> QED
      BY <3>1, <3>2, <3>3
  <2>4. ShowsUpTo(G, v, q, n + 1)
    <3>1. G = [i \in 0..(n + 1) |-> G[i]]
      OBVIOUS
    <3> HIDE DEF G
    <3> QED
      BY <3>1, <2>3 DEF ShowsUpTo
  <2> QED
    BY <2>4
<1> HIDE DEF Fine
<1>3. \A n \in Nat : n \in Fine
  BY <1>1, <1>2, EveryNat
<1> QED
  BY <1>3 DEF Fine

\* What is shown in the end is the latest of everything in the queue.
LEMMA ShowsIsLatest ==
  ASSUME NEW v, ViewOK(v), NEW q \in Seq(Events)
  PROVE  ShownAfter(Shows(v, q), v, q, Len(q))
<1> DEFINE F == CHOOSE G : ShowsUpTo(G, v, q, Len(q))
<1>1. Len(q) \in Nat
  BY LenProperties
<1>2. ShowsUpTo(F, v, q, Len(q))
  <2>1. \E G : ShowsUpTo(G, v, q, Len(q))
    BY <1>1, ShowsExist
  <2> QED
    BY <2>1
<1>3. Shows(v, q) = F[Len(q)]
  BY DEF Shows, ShowsUpTo
<1> HIDE DEF F
<1>4. \A i \in 0..Len(q) : F[i] = IF i = 0 THEN v ELSE Reduce(F[i - 1], q[i])
  BY <1>2 DEF ShowsUpTo
<1> DEFINE Fine == {n \in Nat : n <= Len(q) => ShownAfter(F[n], v, q, n)}
<1>5. 0 \in Fine
  <2>1. F[0] = v
    BY <1>1, <1>4
  <2>2. v.warning \in BOOLEAN
    BY DEF ViewOK, ViewType
  <2>3. ShownAfter(v, v, q, 0)
    BY <2>2 DEF ShownAfter
  <2> QED
    BY <2>1, <2>3
<1>6. ASSUME NEW n \in Nat, n \in Fine
      PROVE  n + 1 \in Fine
  <2> SUFFICES ASSUME n + 1 <= Len(q)
               PROVE  ShownAfter(F[n + 1], v, q, n + 1)
    OBVIOUS
  <2>1. ShownAfter(F[n], v, q, n)
    BY <1>1, <1>6
  <2>2. n + 1 \in 0..Len(q) /\ n + 1 # 0 /\ n + 1 \in 1..Len(q) /\ (n + 1) - 1 = n
    BY <1>1
  <2>3. F[n + 1] = Reduce(F[n], q[n + 1])
    BY <1>4, <2>2
  <2>4. q[n + 1] \in Events
    BY <2>2, ElementOfSeq
  <2>5. ViewOK(F[n])
    BY <2>1 DEF ShownAfter
  <2>6. ReducesTo(F[n + 1], F[n], q[n + 1])
    BY <2>3, <2>4, <2>5, ReduceEvent
  <2> QED
    BY <2>1, <2>4, <2>6, ShownAfterOneMore
<1> HIDE DEF Fine
<1>7. \A n \in Nat : n \in Fine
  BY <1>5, <1>6, EveryNat
<1>8. Len(q) \in Fine
  BY <1>1, <1>7
<1> QED
  BY <1>1, <1>3, <1>8 DEF Fine

-----------------------------------------------------------------------------
(* Queues. *)

\* What v shows, with the events of q to come, is the server's queue of calls
\* and its line; of a queue that lost events, the latest ones still are.
Agrees(v, q, lost, statuses, open) ==
  /\ \A i \in 1..Len(q) : LastLine(q, Len(q), i) => q[i].open = open
  /\ ~lost /\ (\A i \in 1..Len(q) : q[i].kind # "line") => v.open = open
  /\ \A c \in Calls, i \in 1..Len(q) :
       LastNews(q, Len(q), c, i) => As(q[i].status) = As(statuses[c])
  /\ \A c \in Calls :
       ~lost /\ (\A i \in 1..Len(q) : ~IsNews(q[i], c))
         => As(v.calls[c]) = As(statuses[c])

HasStorage(q) == \E i \in 1..Len(q) : q[i].kind = "storage"

\* And a failure is shown, or its event to come, once announced; only then.
Warns(v, q, lost, told, failed) ==
  /\ ~lost /\ told => v.warning \/ HasStorage(q)
  /\ v.warning \/ HasStorage(q) => failed

\* What v and an empty queue have to satisfy.
LEMMA EmptyAgrees ==
  ASSUME NEW v, NEW lost, NEW statuses, NEW open,
         v.open = open, \A c \in Calls : As(v.calls[c]) = As(statuses[c])
  PROVE  Agrees(v, <<>>, lost, statuses, open)
BY DEF Agrees

\* Events that tell everything about a step, with statuses as they are after it.
TellsCalls(events, before, after) ==
  /\ \A i \in 1..Len(events) :
       events[i].kind = "call" => As(events[i].status) = As(after[events[i].call])
  /\ \A c \in Calls :
       (\A i \in 1..Len(events) : ~IsNews(events[i], c)) => As(after[c]) = As(before[c])

TellsLine(events, before, after) ==
  /\ \A i \in 1..Len(events) : events[i].kind = "line" => events[i].open = after
  /\ (\A i \in 1..Len(events) : events[i].kind # "line") => after = before

\* p is what is left of q and the events after it, without the first k.
EndOf(p, q, events, k) ==
  /\ Len(p) \in Nat /\ Len(q) \in Nat /\ Len(events) \in Nat /\ k \in Nat
  /\ \A i \in 1..Len(p) :
       \/ i + k \in 1..Len(q) /\ p[i] = q[i + k]
       \/ /\ i + k > Len(q) /\ (i + k) - Len(q) \in 1..Len(events)
          /\ p[i] = events[(i + k) - Len(q)]
  /\ \A j \in 1..Len(q) : j > k => j - k \in 1..Len(p) /\ p[j - k] = q[j]
  /\ \A j \in 1..Len(events) :
       j + Len(q) > k => (j + Len(q)) - k \in 1..Len(p) /\ p[(j + Len(q)) - k] = events[j]

\* The arithmetic of this, for a list of which the first k are dropped.
LEMMA DropIsEnd ==
  ASSUME NEW q \in Seq(Events), NEW events \in Seq(Events), NEW p \in Seq(Events),
         NEW k \in 0..(Len(q) + Len(events)), Len(p) = Len(q) + Len(events) - k,
         \A i \in 1..Len(p) : p[i] = (q \o events)[i + k]
  PROVE  EndOf(p, q, events, k)
<1> DEFINE m == Len(q)
           n == Len(events)
           l == Len(p)
           all == q \o events
<1>1. m \in Nat /\ n \in Nat /\ k \in Nat /\ l = m + n - k /\ l \in Nat
  BY LenProperties
<1>2. \A i \in 1..(m + n) : all[i] = IF i <= m THEN q[i] ELSE events[i - m]
  BY ConcatProperties
<1>3. \A i \in 1..l : p[i] = all[i + k]
  OBVIOUS
<1> HIDE DEF m, n, l, all
<1>4. ASSUME NEW i \in 1..l
      PROVE  \/ i + k \in 1..m /\ p[i] = q[i + k]
             \/ i + k > m /\ (i + k) - m \in 1..n /\ p[i] = events[(i + k) - m]
  <2>1. i + k \in 1..(m + n) /\ p[i] = all[i + k]
    BY <1>1, <1>3
  <2>2. CASE i + k <= m
    BY <1>1, <1>2, <2>1, <2>2
  <2>3. CASE ~(i + k <= m)
    <3>1. all[i + k] = events[(i + k) - m]
      BY <1>2, <2>1, <2>3
    <3>2. i + k > m /\ (i + k) - m \in 1..n
      BY <1>1, <2>1, <2>3
    <3>3. p[i] = events[(i + k) - m]
      BY <2>1, <3>1
    <3> QED
      BY <3>2, <3>3
  <2> QED
    BY <2>2, <2>3
<1>5. ASSUME NEW j \in 1..m, j > k
      PROVE  j - k \in 1..l /\ p[j - k] = q[j]
  <2>1. j - k \in 1..l /\ (j - k) + k = j /\ j \in 1..(m + n) /\ j <= m
    BY <1>1, <1>5
  <2>2. p[j - k] = all[(j - k) + k]
    BY <1>3, <2>1
  <2>3. all[j] = q[j]
    BY <1>2, <2>1
  <2> QED
    BY <2>1, <2>2, <2>3
<1>6. ASSUME NEW j \in 1..n, j + m > k
      PROVE  (j + m) - k \in 1..l /\ p[(j + m) - k] = events[j]
  <2>1. /\ (j + m) - k \in 1..l /\ ((j + m) - k) + k = j + m /\ j + m \in 1..(m + n)
        /\ ~(j + m <= m) /\ (j + m) - m = j
    BY <1>1, <1>6
  <2>2. p[(j + m) - k] = all[((j + m) - k) + k]
    BY <1>3, <2>1
  <2>3. all[j + m] = events[(j + m) - m]
    BY <1>2, <2>1
  <2> QED
    BY <2>1, <2>2, <2>3
<1> QED
  BY <1>1, <1>4, <1>5, <1>6 DEF EndOf, m, n, l

\* A full queue keeps the last events.
LEMMA PushedIsEnd ==
  ASSUME NEW q \in Seq(Events), NEW events \in Seq(Events)
  PROVE  /\ Pushed(q, events) \in Seq(Events) /\ Len(Pushed(q, events)) <= QueueMax
         /\ \E k \in Nat : /\ EndOf(Pushed(q, events), q, events, k)
                           /\ Len(q) + Len(events) <= QueueMax => k = 0
<1> DEFINE all == q \o events
           over == Len(all) - QueueMax
           p == Pushed(q, events)
<1>1. /\ all \in Seq(Events) /\ Len(all) = Len(q) + Len(events)
      /\ Len(q) \in Nat /\ Len(events) \in Nat /\ QueueMax \in Nat
  BY ConcatProperties, LenProperties, SizesAssumption
<1>2. p = IF over > 0 THEN SubSeq(all, over + 1, Len(all)) ELSE all
  BY DEF Pushed
<1>5. over \in Int /\ over = Len(q) + Len(events) - QueueMax
  BY <1>1
<1> HIDE DEF p, all, over
<1>3. CASE over > 0
  <2> DEFINE t == SubSeq(all, over + 1, Len(all))
  <2>0. over + 1 \in Int /\ Len(all) \in Int
    BY <1>1, <1>5
  <2>1. \A i \in (over + 1)..Len(all) : all[i] \in Events
    <3> TAKE i \in (over + 1)..Len(all)
    <3>1. i \in 1..Len(all)
      BY <1>1, <1>3, <1>5
    <3> QED
      BY <1>1, <3>1, ElementOfSeq
  <2>2. /\ t \in Seq(Events)
        /\ Len(t) = IF over + 1 <= Len(all) THEN Len(all) - (over + 1) + 1 ELSE 0
        /\ \A i \in 1..(Len(all) - (over + 1) + 1) : t[i] = all[over + 1 + i - 1]
    BY <2>0, <2>1, SubSeqProperties
  <2> HIDE DEF t
  <2>3. p = t
    BY <1>2, <1>3 DEF t
  <2>4. /\ over \in 0..(Len(q) + Len(events)) /\ over \in Nat
        /\ Len(t) = Len(q) + Len(events) - over /\ Len(t) <= QueueMax
        /\ \A i \in 1..Len(t) : t[i] = all[i + over]
        /\ ~(Len(q) + Len(events) <= QueueMax)
    <3>1. Len(all) - (over + 1) + 1 = QueueMax /\ over + 1 <= Len(all)
      BY <1>1, <1>5, SizesAssumption
    <3>2. Len(t) = QueueMax /\ \A i \in 1..QueueMax : t[i] = all[over + 1 + i - 1]
      BY <2>2, <3>1
    <3>3. \A i \in 1..QueueMax : over + 1 + i - 1 = i + over
      BY <1>5
    <3> QED
      BY <1>1, <1>3, <1>5, <3>2, <3>3
  <2>5. EndOf(t, q, events, over)
    BY <2>2, <2>4, DropIsEnd DEF all
  <2> QED
    BY <2>2, <2>3, <2>4, <2>5 DEF p
<1>4. CASE ~(over > 0)
  <2>1. p = all /\ Len(p) <= QueueMax
    BY <1>1, <1>2, <1>4, <1>5
  <2>2. /\ 0 \in 0..(Len(q) + Len(events)) /\ Len(p) = Len(q) + Len(events) - 0
        /\ \A i \in 1..Len(p) : p[i] = all[i + 0]
    BY <1>1, <2>1
  <2>3. EndOf(p, q, events, 0)
    BY <1>1, <2>1, <2>2, DropIsEnd DEF all
  <2> QED
    BY <1>1, <2>1, <2>3 DEF p
<1> QED
  BY <1>3, <1>4

\* Telling everything keeps the two in agreement.
LEMMA PushAgrees ==
  ASSUME NEW v, NEW q \in Seq(Events), NEW lost, NEW before, NEW wasOpen,
         Agrees(v, q, lost, before, wasOpen),
         NEW events \in Seq(Events), NEW after, NEW open, NEW nowLost,
         TellsCalls(events, before, after), TellsLine(events, wasOpen, open),
         ~nowLost => ~lost /\ Len(q) + Len(events) <= QueueMax
  PROVE  Agrees(v, Pushed(q, events), nowLost, after, open)
<1> DEFINE p == Pushed(q, events)
           m == Len(q)
           n == Len(events)
           l == Len(p)
<1>1. PICK k \in Nat : EndOf(p, q, events, k) /\ (m + n <= QueueMax => k = 0)
  BY PushedIsEnd
<1> HIDE DEF p
<1>2. /\ l \in Nat /\ m \in Nat /\ n \in Nat /\ k \in Nat
      /\ ~nowLost => k = 0 /\ ~lost
  BY <1>1 DEF EndOf
<1>3. \A i \in 1..l :
        \/ i + k \in 1..m /\ p[i] = q[i + k]
        \/ i + k > m /\ (i + k) - m \in 1..n /\ p[i] = events[(i + k) - m]
  BY <1>1 DEF EndOf
<1>4. \A j \in 1..m : j > k => j - k \in 1..l /\ p[j - k] = q[j]
  BY <1>1 DEF EndOf
<1>5. \A j \in 1..n : j + m > k => (j + m) - k \in 1..l /\ p[(j + m) - k] = events[j]
  BY <1>1 DEF EndOf
<1>6. /\ \A i \in 1..m : LastLine(q, m, i) => q[i].open = wasOpen
      /\ ~lost /\ (\A i \in 1..m : q[i].kind # "line") => v.open = wasOpen
      /\ \A c \in Calls, i \in 1..m :
           LastNews(q, m, c, i) => As(q[i].status) = As(before[c])
      /\ \A c \in Calls : ~lost /\ (\A i \in 1..m : ~IsNews(q[i], c))
           => As(v.calls[c]) = As(before[c])
  BY DEF Agrees
<1>7. /\ \A i \in 1..n : events[i].kind = "line" => events[i].open = open
      /\ (\A i \in 1..n : events[i].kind # "line") => open = wasOpen
  BY DEF TellsLine
<1>8. /\ \A i \in 1..n :
           events[i].kind = "call" => As(events[i].status) = As(after[events[i].call])
      /\ \A c \in Calls :
           (\A i \in 1..n : ~IsNews(events[i], c)) => As(after[c]) = As(before[c])
  BY DEF TellsCalls
<1> HIDE DEF l, m, n
<1>9. ASSUME NEW i \in 1..l, i + k \in 1..m
      PROVE  /\ \A j \in 1..n : (j + m) - k \in 1..l /\ (j + m) - k > i
                                /\ p[(j + m) - k] = events[j]
             /\ \A j \in 1..m : j > i + k =>
                  j - k \in 1..l /\ j - k > i /\ p[j - k] = q[j]
  <2>1. ASSUME NEW j \in 1..n
        PROVE  (j + m) - k \in 1..l /\ (j + m) - k > i /\ p[(j + m) - k] = events[j]
    <3>1. j + m > k /\ (j + m) - k > i
      BY <1>2, <1>9
    <3> QED
      BY <1>5, <3>1
  <2>2. ASSUME NEW j \in 1..m, j > i + k
        PROVE  j - k \in 1..l /\ j - k > i /\ p[j - k] = q[j]
    <3>1. j > k /\ j - k > i
      BY <1>2, <1>9, <2>2
    <3> QED
      BY <1>4, <3>1
  <2> QED
    BY <2>1, <2>2
<1>10. ASSUME NEW i \in 1..l, LastLine(p, l, i)
       PROVE  p[i].open = open
  <2>1. CASE i + k > m /\ (i + k) - m \in 1..n /\ p[i] = events[(i + k) - m]
    BY <1>7, <1>10, <2>1 DEF LastLine
  <2>2. CASE i + k \in 1..m /\ p[i] = q[i + k]
    <3>1. \A j \in 1..n : events[j].kind # "line"
      BY <1>9, <1>10, <2>2 DEF LastLine
    <3>2. \A j \in 1..m : j > i + k => q[j].kind # "line"
      BY <1>9, <1>10, <2>2 DEF LastLine
    <3>3. LastLine(q, m, i + k)
      BY <1>10, <2>2, <3>2 DEF LastLine
    <3> QED
      BY <1>6, <1>7, <2>2, <3>1, <3>3
  <2> QED
    BY <1>3, <2>1, <2>2
<1>11. ASSUME ~nowLost
       PROVE  /\ \A j \in 1..m : \E i \in 1..l : p[i] = q[j]
              /\ \A j \in 1..n : \E i \in 1..l : p[i] = events[j]
  <2>1. k = 0 /\ \A j \in 1..m : j > k
    BY <1>2, <1>11
  <2>2. \A j \in 1..n : j + m > k
    BY <1>2, <2>1
  <2> QED
    BY <1>4, <1>5, <2>1, <2>2
<1>12. ASSUME ~nowLost, \A i \in 1..l : p[i].kind # "line"
       PROVE  v.open = open
  BY <1>2, <1>6, <1>7, <1>11, <1>12
<1>13. ASSUME NEW c \in Calls, NEW i \in 1..l, LastNews(p, l, c, i)
       PROVE  As(p[i].status) = As(after[c])
  <2>1. CASE i + k > m /\ (i + k) - m \in 1..n /\ p[i] = events[(i + k) - m]
    BY <1>8, <1>13, <2>1 DEF LastNews, IsNews
  <2>2. CASE i + k \in 1..m /\ p[i] = q[i + k]
    <3>1. \A j \in 1..n : ~IsNews(events[j], c)
      BY <1>9, <1>13, <2>2 DEF LastNews
    <3>2. \A j \in 1..m : j > i + k => ~IsNews(q[j], c)
      BY <1>9, <1>13, <2>2 DEF LastNews
    <3>3. LastNews(q, m, c, i + k)
      BY <1>13, <2>2, <3>2 DEF LastNews
    <3> QED
      BY <1>6, <1>8, <2>2, <3>1, <3>3
  <2> QED
    BY <1>3, <2>1, <2>2
<1>14. ASSUME NEW c \in Calls, ~nowLost, \A i \in 1..l : ~IsNews(p[i], c)
       PROVE  As(v.calls[c]) = As(after[c])
  <2>1. \A j \in 1..m : ~IsNews(q[j], c)
    BY <1>11, <1>14
  <2>2. \A j \in 1..n : ~IsNews(events[j], c)
    BY <1>11, <1>14
  <2> QED
    BY <1>2, <1>6, <1>8, <1>14, <2>1, <2>2
<1> QED
  BY <1>10, <1>12, <1>13, <1>14 DEF Agrees, p, l

\* A failure that is told stays told.
LEMMA PushWarns ==
  ASSUME NEW v, NEW q \in Seq(Events), NEW lost, NEW wasTold, NEW hadFailed,
         Warns(v, q, lost, wasTold, hadFailed),
         NEW events \in Seq(Events), NEW told, NEW failed, NEW nowLost,
         told => wasTold \/ HasStorage(events),
         hadFailed \/ HasStorage(events) => failed,
         ~nowLost => ~lost /\ Len(q) + Len(events) <= QueueMax
  PROVE  Warns(v, Pushed(q, events), nowLost, told, failed)
<1> DEFINE p == Pushed(q, events)
<1>1. PICK k \in Nat : /\ EndOf(p, q, events, k)
                       /\ Len(q) + Len(events) <= QueueMax => k = 0
  BY PushedIsEnd
<1> HIDE DEF p
<1>2. ASSUME HasStorage(p)
      PROVE  HasStorage(q) \/ HasStorage(events)
  <2>1. PICK i \in 1..Len(p) : p[i].kind = "storage"
    BY <1>2 DEF HasStorage
  <2>2. \/ i + k \in 1..Len(q) /\ p[i] = q[i + k]
        \/ (i + k) - Len(q) \in 1..Len(events) /\ p[i] = events[(i + k) - Len(q)]
    BY <1>1 DEF EndOf
  <2> QED
    BY <2>1, <2>2 DEF HasStorage
<1>3. ASSUME ~nowLost
      PROVE  /\ \A j \in 1..Len(q) : \E i \in 1..Len(p) : p[i] = q[j]
             /\ \A j \in 1..Len(events) : \E i \in 1..Len(p) : p[i] = events[j]
  <2>1. k = 0 /\ Len(q) \in Nat
    BY <1>1, <1>3 DEF EndOf
  <2>2. (\A j \in 1..Len(q) : j > k) /\ \A j \in 1..Len(events) : j + Len(q) > k
    BY <2>1
  <2> QED
    BY <1>1, <2>2 DEF EndOf
<1>4. ASSUME ~nowLost, HasStorage(q) \/ HasStorage(events)
      PROVE  HasStorage(p)
  BY <1>3, <1>4 DEF HasStorage
<1> QED
  BY <1>2, <1>4 DEF Warns, p

\* What the browser takes from the queue, it shows.
LEMMA WriteKeeps ==
  ASSUME NEW v, ViewOK(v), NEW q \in Seq(Events), q # <<>>,
         NEW lost, NEW statuses, NEW open, Agrees(v, q, lost, statuses, open),
         NEW told, NEW failed, Warns(v, q, lost, told, failed)
  PROVE  /\ Agrees(Reduce(v, Head(q)), Tail(q), lost, statuses, open)
         /\ Warns(Reduce(v, Head(q)), Tail(q), lost, told, failed)
<1> DEFINE w == Reduce(v, Head(q))
           p == Tail(q)
           m == Head(q)
           l == Len(p)
           n == Len(q)
<1>1. /\ m \in Events /\ p \in Seq(Events) /\ l = n - 1
      /\ \A i \in 1..l : p[i] = q[i + 1]
  BY HeadTailProperties
<1>2. n \in Nat \ {0} /\ l \in Nat /\ q[1] = m
  <2>1. n \in Nat \ {0}
    BY EmptySeq
  <2> QED
    BY <1>1, <2>1, LenProperties
<1>3. ReducesTo(w, v, m)
  BY <1>1, ReduceEvent
<1> HIDE DEF w, p, m, l, n
<1>4. /\ 1 \in 1..n
      /\ \A j \in 1..n : j = 1 \/ (j - 1 \in 1..l /\ q[j] = p[j - 1])
      /\ \A i \in 1..l : i + 1 \in 1..n /\ p[i] = q[i + 1]
  <2>1. \A j \in 1..n : j = 1 \/ (j - 1 \in 1..l /\ (j - 1) + 1 = j)
    BY <1>1, <1>2
  <2>2. \A j \in 1..n : j - 1 \in 1..l => p[j - 1] = q[(j - 1) + 1]
    BY <1>1
  <2>3. 1 \in 1..n /\ \A i \in 1..l : i + 1 \in 1..n
    BY <1>1, <1>2
  <2> QED
    BY <1>1, <2>1, <2>2, <2>3
<1>5. /\ \A i \in 1..n : LastLine(q, n, i) => q[i].open = open
      /\ ~lost /\ (\A i \in 1..n : q[i].kind # "line") => v.open = open
      /\ \A c \in Calls, i \in 1..n :
           LastNews(q, n, c, i) => As(q[i].status) = As(statuses[c])
      /\ \A c \in Calls : ~lost /\ (\A i \in 1..n : ~IsNews(q[i], c))
           => As(v.calls[c]) = As(statuses[c])
  BY DEF Agrees, n
<1>6. ASSUME NEW i \in 1..l, LastLine(p, l, i)
      PROVE  p[i].open = open
  <2>1. \A j \in 1..n : j > i + 1 => j - 1 > i /\ j - 1 \in 1..l /\ q[j] = p[j - 1]
    BY <1>2, <1>4
  <2>2. LastLine(q, n, i + 1)
    BY <1>4, <1>6, <2>1 DEF LastLine
  <2> QED
    BY <1>4, <1>5, <2>2
<1>7. ASSUME ~lost, \A i \in 1..l : p[i].kind # "line"
      PROVE  w.open = open
  <2>1. \A j \in 1..n : j > 1 => q[j].kind # "line"
    BY <1>4, <1>7
  <2>2. CASE m.kind = "line"
    <3>1. LastLine(q, n, 1)
      BY <1>2, <1>4, <2>1, <2>2 DEF LastLine
    <3> QED
      BY <1>2, <1>3, <1>4, <1>5, <2>2, <3>1 DEF ReducesTo
  <2>3. CASE m.kind # "line"
    <3>1. \A j \in 1..n : q[j].kind # "line"
      BY <1>2, <1>4, <1>7, <2>3
    <3> QED
      BY <1>3, <1>5, <1>7, <2>3, <3>1 DEF ReducesTo
  <2> QED
    BY <2>2, <2>3
<1>8. ASSUME NEW c \in Calls, NEW i \in 1..l, LastNews(p, l, c, i)
      PROVE  As(p[i].status) = As(statuses[c])
  <2>1. \A j \in 1..n : j > i + 1 => j - 1 > i /\ j - 1 \in 1..l /\ q[j] = p[j - 1]
    BY <1>2, <1>4
  <2>2. LastNews(q, n, c, i + 1)
    BY <1>4, <1>8, <2>1 DEF LastNews
  <2> QED
    BY <1>4, <1>5, <2>2
<1>9. ASSUME NEW c \in Calls, ~lost, \A i \in 1..l : ~IsNews(p[i], c)
      PROVE  As(w.calls[c]) = As(statuses[c])
  <2>1. \A j \in 1..n : j > 1 => ~IsNews(q[j], c)
    BY <1>4, <1>9
  <2>2. CASE IsNews(m, c)
    <3>1. LastNews(q, n, c, 1)
      BY <1>2, <1>4, <2>1, <2>2 DEF LastNews
    <3> QED
      BY <1>2, <1>3, <1>4, <1>5, <2>2, <3>1 DEF ReducesTo, IsNews
  <2>3. CASE ~IsNews(m, c)
    <3>1. \A j \in 1..n : ~IsNews(q[j], c)
      BY <1>2, <1>4, <1>9, <2>3
    <3> QED
      BY <1>3, <1>5, <1>9, <2>3, <3>1 DEF ReducesTo, IsNews
  <2> QED
    BY <2>2, <2>3
<1>10. Agrees(w, p, lost, statuses, open)
  BY <1>6, <1>7, <1>8, <1>9 DEF Agrees, l
<1>11. HasStorage(q) <=> HasStorage(p) \/ m.kind = "storage"
  <2>1. HasStorage(q) => HasStorage(p) \/ m.kind = "storage"
    BY <1>2, <1>4 DEF HasStorage, n, l
  <2>2. HasStorage(p) \/ m.kind = "storage" => HasStorage(q)
    BY <1>2, <1>4 DEF HasStorage, n, l
  <2> QED
    BY <2>1, <2>2
<1>12. w.warning = (v.warning \/ m.kind = "storage")
  BY <1>3 DEF ReducesTo
<1>13. Warns(w, p, lost, told, failed)
  BY <1>11, <1>12 DEF Warns
<1> QED
  BY <1>10, <1>13 DEF w, p, m

-----------------------------------------------------------------------------
(* What a commit tells. *)

\* An event of each call of S, with the status it has then, and none of the line.
Tells(events, S, status) ==
  /\ \A i \in 1..Len(events) :
       /\ events[i].kind # "line"
       /\ events[i].kind = "call" =>
            events[i].call \in S /\ events[i].status = status[events[i].call]
  /\ \A c \in S : \E i \in 1..Len(events) : IsNews(events[i], c)

\* What committing S tells, with the failure if it is the first.
CommitOf(events, S, status, failed) ==
  /\ Tells(events, S, status)
  /\ HasStorage(events) <=> failed # {} /\ ~announced

\* t is s with one more event.
WithOne(t, s, e) ==
  /\ t \in Seq(Events)
  /\ \A i \in 1..Len(t) : t[i] = e \/ \E j \in 1..Len(s) : t[i] = s[j]
  /\ \E i \in 1..Len(t) : t[i] = e
  /\ \A j \in 1..Len(s) : \E i \in 1..Len(t) : t[i] = s[j]

\* An event that is inserted.
LEMMA InsertTells ==
  ASSUME NEW s \in Seq(Events), NEW k \in 1..Len(s), NEW e \in Events
  PROVE  WithOne(InsertAt(s, k, e), s, e)
<1> DEFINE n == Len(s)
           a == SubSeq(s, 1, k - 1)
           b == SubSeq(s, k, n)
           t == InsertAt(s, k, e)
<1>1. n \in Nat /\ k \in Nat /\ k >= 1 /\ k <= n
  BY LenProperties
<1>2. \A i \in 1..n : s[i] \in Events
  BY ElementOfSeq
<1> HIDE DEF n
<1>3. /\ a \in Seq(Events) /\ Len(a) = k - 1
      /\ \A i \in 1..(k - 1) : a[i] = s[i]
  <2>1. \A i \in 1..(k - 1) : s[i] \in Events
    BY <1>1, <1>2
  <2>2. /\ a \in Seq(Events)
        /\ Len(a) = IF 1 <= k - 1 THEN (k - 1) - 1 + 1 ELSE 0
        /\ \A i \in 1..((k - 1) - 1 + 1) : a[i] = s[1 + i - 1]
    BY <1>1, <2>1, SubSeqProperties
  <2> HIDE DEF a
  <2> QED
    BY <1>1, <2>2
<1>4. /\ b \in Seq(Events) /\ Len(b) = (n - k) + 1
      /\ \A i \in 1..((n - k) + 1) : b[i] = s[(k + i) - 1]
  <2>1. \A i \in k..n : s[i] \in Events
    BY <1>1, <1>2
  <2>2. /\ b \in Seq(Events)
        /\ Len(b) = IF k <= n THEN n - k + 1 ELSE 0
        /\ \A i \in 1..(n - k + 1) : b[i] = s[k + i - 1]
    BY <1>1, <2>1, SubSeqProperties
  <2> HIDE DEF b
  <2> QED
    BY <1>1, <2>2
<1>5. t = a \o <<e>> \o b
  BY DEF InsertAt, n
<1> HIDE DEF a, b, t
<1> DEFINE ae == a \o <<e>>
<1>6. /\ ae \in Seq(Events) /\ Len(ae) = k
      /\ \A i \in 1..k : ae[i] = IF i < k THEN s[i] ELSE e
  <2>1. <<e>> \in Seq(Events) /\ Len(<<e>>) = 1 /\ <<e>>[1] = e
    OBVIOUS
  <2>2. /\ ae \in Seq(Events) /\ Len(ae) = (k - 1) + 1
        /\ \A i \in 1..((k - 1) + 1) : ae[i] = IF i <= k - 1 THEN a[i] ELSE <<e>>[i - (k - 1)]
    BY <1>3, <2>1, ConcatProperties
  <2> HIDE DEF ae
  <2>3. (k - 1) + 1 = k /\ k - (k - 1) = 1
    BY <1>1
  <2>4. ASSUME NEW i \in 1..k
        PROVE  ae[i] = IF i < k THEN s[i] ELSE e
    <3>1. CASE i < k
      BY <1>1, <1>3, <2>2, <2>3, <3>1
    <3>2. CASE i = k
      BY <1>1, <2>1, <2>2, <2>3, <3>2
    <3> QED
      BY <1>1, <3>1, <3>2
  <2> QED
    BY <2>2, <2>3, <2>4
<1>7. t = ae \o b
  BY <1>5
<1> HIDE DEF ae
<1>8. /\ t \in Seq(Events) /\ Len(t) = n + 1
      /\ \A i \in 1..(n + 1) : t[i] = IF i <= k THEN ae[i] ELSE b[i - k]
  <2>1. /\ t \in Seq(Events) /\ Len(t) = k + ((n - k) + 1)
        /\ \A i \in 1..(k + ((n - k) + 1)) : t[i] = IF i <= k THEN ae[i] ELSE b[i - k]
    <3> DEFINE u == ae \o b
    <3>1. /\ u \in Seq(Events) /\ Len(u) = Len(ae) + Len(b)
          /\ \A i \in 1..(Len(ae) + Len(b)) :
               u[i] = IF i <= Len(ae) THEN ae[i] ELSE b[i - Len(ae)]
      BY <1>4, <1>6, ConcatProperties
    <3>2. t = u
      BY <1>7
    <3> HIDE DEF u
    <3> QED
      BY <1>4, <1>6, <3>1, <3>2
  <2>2. k + ((n - k) + 1) = n + 1
    BY <1>1
  <2> QED
    BY <2>1, <2>2
<1>9. k \in 1..(n + 1) /\ t[k] = e
  <2>1. k \in 1..(n + 1) /\ k \in 1..k /\ ~(k < k) /\ k <= k
    BY <1>1
  <2> QED
    BY <1>6, <1>8, <2>1
<1>10. ASSUME NEW i \in 1..n, i < k
       PROVE  i \in 1..(n + 1) /\ t[i] = s[i]
  <2>1. i \in 1..(n + 1) /\ i \in 1..k /\ i <= k
    BY <1>1, <1>10
  <2> QED
    BY <1>6, <1>8, <1>10, <2>1
<1>11. ASSUME NEW i \in 1..n, ~(i < k)
       PROVE  i + 1 \in 1..(n + 1) /\ t[i + 1] = s[i]
  <2>1. /\ i + 1 \in 1..(n + 1) /\ ~(i + 1 <= k) /\ (i + 1) - k \in 1..((n - k) + 1)
        /\ (k + ((i + 1) - k)) - 1 = i
    BY <1>1, <1>11
  <2>2. t[i + 1] = b[(i + 1) - k]
    BY <1>8, <2>1
  <2> QED
    BY <1>4, <2>1, <2>2
<1>12. ASSUME NEW i \in 1..(n + 1), i # k
       PROVE  \E j \in 1..n : t[i] = s[j]
  <2>1. CASE i < k
    <3>1. i \in 1..n
      BY <1>1, <2>1
    <3> QED
      BY <1>10, <2>1, <3>1
  <2>2. CASE i > k
    <3>1. i - 1 \in 1..n /\ ~(i - 1 < k) /\ (i - 1) + 1 = i
      BY <1>1, <2>2
    <3> QED
      BY <1>11, <3>1
  <2> QED
    BY <1>1, <1>12, <2>1, <2>2
<1>13. \A j \in 1..n : \E i \in 1..(n + 1) : t[i] = s[j]
  BY <1>10, <1>11
<1> QED
  BY <1>8, <1>9, <1>12, <1>13 DEF n, t, WithOne

\* What a commit publishes tells of each call, and of the failure.
LEMMA CommitsTell ==
  ASSUME NEW S \in SUBSET Calls, NEW status, NEW ended \in BOOLEAN,
         \A c \in S : status[c] \in ViewStatus \ {"none"},
         NEW failed \in SUBSET S, NEW events \in Commits(S, status, ended, failed)
  PROVE  events \in Seq(Events) /\ CommitOf(events, S, status, failed)
<1> DEFINE Of(o) == [i \in 1..Len(o) |-> CallEvent(o[i], status[o[i]], ended)]
           First(o) == {i \in 1..Len(o) : /\ o[i] \in failed
                                          /\ \A j \in 1..(i - 1) : o[j] \notin failed}
<1>1. PICK o \in SetToSeqs(S) :
        events = Told(Of(o), IF First(o) = {} THEN 0 ELSE CHOOSE i \in First(o) : TRUE)
  BY DEF Commits
<1> DEFINE n == Len(o)
           s == Of(o)
           k == IF First(o) = {} THEN 0 ELSE CHOOSE i \in First(o) : TRUE
<1>2. /\ o \in Seq(S) /\ n \in Nat
      /\ \A c \in S : \E i \in 1..n : o[i] = c
  <2>1. IsFiniteSet(S)
    BY CallsAssumption, FS_Subset
  <2>2. o \in [1..Cardinality(S) -> S] /\ IsInjective(o)
    BY DEF SetToSeqs, IsInjective
  <2> QED
    BY <2>1, <2>2, OrderIsAll
<1>3. \A i \in 1..n : o[i] \in S /\ o[i] \in Calls
  BY <1>2, ElementOfSeq
<1>4. \A i \in 1..n : CallEvent(o[i], status[o[i]], ended) \in Events
  BY <1>3 DEF CallEvent, Events
<1>5. /\ s \in Seq(Events) /\ Len(s) = n
      /\ \A i \in 1..n : s[i] = CallEvent(o[i], status[o[i]], ended)
  BY <1>2, <1>4
<1>6. /\ \A i \in 1..n : /\ s[i].kind = "call" /\ s[i].call \in S
                         /\ s[i].status = status[s[i].call]
      /\ \A c \in S : \E i \in 1..n : IsNews(s[i], c)
  BY <1>2, <1>3, <1>5 DEF CallEvent, IsNews
<1>7. /\ failed = {} => k = 0
      /\ failed # {} => k \in 1..n
  <2>1. ASSUME failed # {}
        PROVE  First(o) # {}
    <3> DEFINE T == {i \in 1..n : o[i] \in failed}
    <3>1. T # {} /\ T \in SUBSET Nat
      <4>1. PICK c \in S : c \in failed
        BY <2>1
      <4>2. PICK i \in 1..n : o[i] = c
        BY <1>2, <4>1
      <4>3. i \in T
        BY <4>1, <4>2
      <4>4. T \subseteq Nat
        BY <1>2
      <4> QED
        BY <4>3, <4>4
    <3>2. PICK i \in T : \A j \in T : i <= j
      <4> HIDE DEF T
      <4> QED
        BY <3>1, LeastNat
    <3>3. \A j \in 1..(i - 1) : j \in 1..n /\ ~(i <= j)
      BY <1>2, <3>2
    <3>4. \A j \in 1..(i - 1) : o[j] \notin failed
      BY <3>2, <3>3
    <3> QED
      BY <3>2, <3>4
  <2>2. failed = {} => First(o) = {}
    OBVIOUS
  <2>3. First(o) \subseteq 1..n
    OBVIOUS
  <2> HIDE DEF First
  <2> QED
    BY <2>1, <2>2, <2>3
<1>8. events = Told(s, k)
  BY <1>1
<1> HIDE DEF s, k, n
<1>9. CASE k = 0 \/ announced
  <2>1. events = s
    BY <1>8, <1>9 DEF Told
  <2>2. ~HasStorage(s)
    BY <1>5, <1>6 DEF HasStorage
  <2>3. ~(failed # {} /\ ~announced)
    BY <1>7, <1>9 DEF n
  <2> QED
    BY <1>5, <1>6, <2>1, <2>2, <2>3 DEF CommitOf, Tells
<1>10. CASE ~(k = 0 \/ announced)
  <2>1. events = InsertAt(s, k, StorageError)
    BY <1>8, <1>10 DEF Told
  <2>2. StorageError \in Events /\ StorageError.kind = "storage"
    BY DEF StorageError, Events
  <2>3. k \in 1..Len(s) /\ failed # {}
    BY <1>5, <1>7, <1>10
  <2>4. /\ events \in Seq(Events)
        /\ \A i \in 1..Len(events) :
             events[i] = StorageError \/ \E j \in 1..n : events[i] = s[j]
        /\ \E i \in 1..Len(events) : events[i] = StorageError
        /\ \A j \in 1..n : \E i \in 1..Len(events) : events[i] = s[j]
    <3>1. s \in Seq(Events) /\ k \in 1..Len(s) /\ StorageError \in Events
      BY <1>5, <2>2, <2>3
    <3>2. WithOne(InsertAt(s, k, StorageError), s, StorageError)
      BY <3>1, InsertTells
    <3>3. WithOne(events, s, StorageError)
      BY <2>1, <3>2
    <3> QED
      BY <1>5, <3>3 DEF WithOne
  <2>5. HasStorage(events)
    BY <2>2, <2>4 DEF HasStorage
  <2>6. \A i \in 1..Len(events) :
          /\ events[i].kind # "line"
          /\ events[i].kind = "call" =>
               events[i].call \in S /\ events[i].status = status[events[i].call]
    BY <1>6, <2>2, <2>4
  <2>7. \A c \in S : \E i \in 1..Len(events) : IsNews(events[i], c)
    BY <1>6, <2>4
  <2> QED
    BY <1>10, <2>3, <2>4, <2>5, <2>6, <2>7 DEF CommitOf, Tells
<1> QED
  BY <1>9, <1>10

\* What is told once more about something else.
LEMMA AppendTells ==
  ASSUME NEW events \in Seq(Events), NEW S, NEW status, Tells(events, S, status),
         NEW e \in {ContactChanged, StorageError}
  PROVE  /\ Append(events, e) \in Seq(Events)
         /\ Tells(Append(events, e), S, status)
         /\ HasStorage(Append(events, e)) <=> HasStorage(events) \/ e = StorageError
<1> DEFINE t == Append(events, e)
           n == Len(events)
<1>1. e \in Events /\ e.kind \in {"contact", "storage"}
  BY DEF ContactChanged, StorageError, Events
<1>2. e = StorageError <=> e.kind = "storage"
  BY DEF ContactChanged, StorageError
<1>3. /\ t \in Seq(Events) /\ Len(t) = n + 1 /\ t[n + 1] = e
      /\ \A i \in 1..n : t[i] = events[i]
  BY <1>1, AppendProperties
<1>4. n \in Nat
  BY LenProperties
<1> HIDE DEF t, n
<1>5. /\ n + 1 \in 1..(n + 1)
      /\ \A i : i \in 1..(n + 1) <=> i \in 1..n \/ i = n + 1
  BY <1>4
<1>6. Tells(t, S, status)
  <2>1. ASSUME NEW i \in 1..(n + 1)
        PROVE  /\ t[i].kind # "line"
               /\ t[i].kind = "call" => t[i].call \in S /\ t[i].status = status[t[i].call]
    <3>1. CASE i \in 1..n
      BY <1>3, <3>1 DEF Tells, n
    <3>2. CASE i = n + 1
      BY <1>1, <1>3, <3>2
    <3> QED
      BY <1>5, <3>1, <3>2
  <2>2. ASSUME NEW c \in S
        PROVE  \E i \in 1..(n + 1) : IsNews(t[i], c)
    <3>1. PICK i \in 1..n : IsNews(events[i], c)
      BY DEF Tells, n
    <3> QED
      BY <1>3, <1>5, <3>1
  <2> QED
    BY <1>3, <2>1, <2>2 DEF Tells
<1>7. HasStorage(t) <=> HasStorage(events) \/ e = StorageError
  BY <1>2, <1>3, <1>5 DEF HasStorage, n
<1> QED
  BY <1>3, <1>6, <1>7 DEF t

-----------------------------------------------------------------------------
(* The invariant. *)

\* What v shows, with the events of q to come, is what the server knows.
Follows(v, q, lost, statuses, open, told, failed) ==
  Agrees(v, q, lost, statuses, open) /\ Warns(v, q, lost, told, failed)

\* An open dashboard follows the server.  The message under way to it counts as
\* shown already.
DashboardInv ==
  /\ TypeOK
  /\ announced => warning
  /\ \A d \in Dashboards : link[d] = "open" =>
       Follows(Reduce(view[d], wire[d]), queue[d], d \in lossy,
               shown, lineOpen, announced, warning)

\* Membership, as a value.
LEMMA IsOrNot ==
  ASSUME NEW x, NEW X
  PROVE  \E b \in BOOLEAN : b = (x \in X)
<1>1. CASE x \in X
  <2>1. TRUE \in BOOLEAN /\ TRUE = (x \in X)
    BY <1>1
  <2> QED
    BY <2>1
<1>2. CASE x \notin X
  <2>1. FALSE \in BOOLEAN /\ FALSE = (x \in X)
    BY <1>2
  <2> QED
    BY <2>1
<1> QED
  BY <1>1, <1>2

\* The reducer keeps a view in shape, whatever the message.
LEMMA ReduceKeepsView ==
  ASSUME NEW v, ViewOK(v), NEW m \in Messages
  PROVE  ViewOK(Reduce(v, m))
<1>1. CASE m \in Events
  BY <1>1, ReduceEvent DEF ReducesTo
<1>2. CASE m \notin Events
  BY <1>2, ReduceOther
<1> QED
  BY <1>1, <1>2

\* What the types say of one dashboard.
LEMMA DashboardTyped ==
  ASSUME TypeOK, NEW d \in Dashboards
  PROVE  /\ ViewOK(view[d]) /\ wire[d] \in Messages
         /\ queue[d] \in Seq(Events) /\ Len(queue[d]) <= QueueMax
         /\ ViewOK(Reduce(view[d], wire[d]))
<1>1. /\ ViewOK(view[d]) /\ wire[d] \in Messages
      /\ queue[d] \in Seq(Events) /\ Len(queue[d]) <= QueueMax
  BY DEF TypeOK, ViewOK
<1> QED
  BY <1>1, ReduceKeepsView

\* A step of the server that tells the dashboards everything they show.
Telling(events) ==
  /\ events \in Seq(Events) /\ Publish(events)
  /\ TellsCalls(events, shown, shown') /\ TellsLine(events, lineOpen, lineOpen')
  /\ announced' => announced \/ HasStorage(events)
  /\ warning \/ HasStorage(events) => warning'
  /\ announced' => warning'
  /\ shown' \in [Calls -> Status] /\ closed' \subseteq Calls
  /\ lineOpen' \in BOOLEAN /\ warning' \in BOOLEAN /\ announced' \in BOOLEAN
  /\ restarts' \in 0..MaxRestarts
  /\ UNCHANGED <<breaks, link, known, wire, view>>

\* Such a step keeps the invariant.
LEMMA TellingKeeps ==
  ASSUME DashboardInv, NEW events, Telling(events)
  PROVE  DashboardInv'
<1>0. /\ events \in Seq(Events) /\ Publish(events)
      /\ TellsCalls(events, shown, shown') /\ TellsLine(events, lineOpen, lineOpen')
      /\ announced' => announced \/ HasStorage(events)
      /\ warning \/ HasStorage(events) => warning'
      /\ announced' => warning'
      /\ shown' \in [Calls -> Status] /\ closed' \subseteq Calls
      /\ lineOpen' \in BOOLEAN /\ warning' \in BOOLEAN /\ announced' \in BOOLEAN
      /\ restarts' \in 0..MaxRestarts
      /\ UNCHANGED <<breaks, link, known, wire, view>>
  BY DEF Telling
<1>1. /\ \A d \in Dashboards :
           queue'[d] = IF link[d] = "open" THEN Pushed(queue[d], events) ELSE queue[d]
      /\ \A d \in Dashboards : link[d] = "open" /\ d \notin lossy' =>
           d \notin lossy /\ Len(queue[d]) + Len(events) <= QueueMax
  <2>1. \A d \in Dashboards : Len(queue[d]) \in Nat
    BY DashboardTyped, LenProperties DEF DashboardInv
  <2>2. Len(events) \in Nat /\ QueueMax \in Nat
    BY <1>0, LenProperties, SizesAssumption
  <2> QED
    BY <1>0, <2>1, <2>2 DEF Publish
<1>2. \A d \in Dashboards : queue'[d] \in Seq(Events) /\ Len(queue'[d]) <= QueueMax
  <2> TAKE d \in Dashboards
  <2>1. /\ queue[d] \in Seq(Events) /\ Len(queue[d]) <= QueueMax
    BY DashboardTyped DEF DashboardInv
  <2>2. Pushed(queue[d], events) \in Seq(Events) /\ Len(Pushed(queue[d], events)) <= QueueMax
    BY <1>0, <2>1, PushedIsEnd
  <2> QED
    BY <1>1, <2>1, <2>2
<1>3. TypeOK'
  <2>1. queue' \in [Dashboards -> Seq(Events)]
    BY <1>0, <1>2 DEF Publish
  <2>2. lossy' \subseteq Dashboards
    BY <1>0 DEF Publish, DashboardInv, TypeOK
  <2> QED
    BY <1>0, <1>2, <2>1, <2>2 DEF DashboardInv, TypeOK
<1>4. ASSUME NEW d \in Dashboards, link'[d] = "open"
      PROVE  Follows(Reduce(view'[d], wire'[d]), queue'[d], d \in lossy',
                     shown', lineOpen', announced', warning')
  <2> DEFINE v == Reduce(view[d], wire[d])
  <2>1. /\ link[d] = "open" /\ view'[d] = view[d] /\ wire'[d] = wire[d]
        /\ queue'[d] = Pushed(queue[d], events)
    BY <1>0, <1>1, <1>4
  <2>2. queue[d] \in Seq(Events)
    BY DashboardTyped DEF DashboardInv
  <2>3. PICK lost \in BOOLEAN : lost = (d \in lossy)
    BY IsOrNot
  <2>4. PICK nowLost \in BOOLEAN : nowLost = (d \in lossy')
    BY IsOrNot
  <2>5. Follows(v, queue[d], lost, shown, lineOpen, announced, warning)
    BY <2>1, <2>3 DEF DashboardInv
  <2>6. ~nowLost => ~lost /\ Len(queue[d]) + Len(events) <= QueueMax
    BY <1>1, <2>1, <2>3, <2>4
  <2> HIDE DEF v
  <2>7. Agrees(v, Pushed(queue[d], events), nowLost, shown', lineOpen')
    BY <1>0, <2>2, <2>5, <2>6, PushAgrees DEF Follows
  <2>8. Warns(v, Pushed(queue[d], events), nowLost, announced', warning')
    BY <1>0, <2>2, <2>5, <2>6, PushWarns DEF Follows
  <2> QED
    BY <2>1, <2>4, <2>7, <2>8 DEF Follows, v
<1> QED
  BY <1>0, <1>3, <1>4 DEF DashboardInv

\* A failure is announced the first time.
LEMMA FirstFailure ==
  ASSUME DashboardInv, NEW events, NEW failed,
         HasStorage(events) <=> failed # {} /\ ~announced,
         warning' = (warning \/ failed # {}), announced' = (announced \/ failed # {})
  PROVE  /\ announced' => announced \/ HasStorage(events)
         /\ warning \/ HasStorage(events) => warning'
         /\ announced' => warning'
         /\ warning' \in BOOLEAN /\ announced' \in BOOLEAN
<1>1. warning \in BOOLEAN /\ announced \in BOOLEAN /\ (announced => warning)
  BY DEF DashboardInv, TypeOK
<1>2. CASE failed = {}
  <2>1. warning' = warning /\ announced' = announced
    BY <1>1, <1>2
  <2> QED
    BY <1>1, <1>2, <2>1
<1>3. CASE failed # {}
  <2>1. warning' = TRUE /\ announced' = TRUE
    BY <1>3
  <2> QED
    BY <1>1, <1>3, <2>1
<1> QED
  BY <1>2, <1>3

\* A step that commits S, and whose statuses are what the commit says.
Committing(S, status, ended, failed) ==
  /\ S \in SUBSET Calls /\ ended \in BOOLEAN /\ failed \in SUBSET S
  /\ Commit(S, status, ended, failed)
  /\ \A c \in S : /\ status[c] \in ViewStatus \ {"none"}
                  /\ As(status[c]) = As(shown'[c])
  /\ \A c \in Calls \ S : As(shown'[c]) = As(shown[c])
  /\ shown' \in [Calls -> Status] /\ closed' \subseteq Calls
  /\ UNCHANGED <<lineOpen, restarts, breaks, link, known, wire, view>>

\* Such a step keeps the invariant.
LEMMA CommittingKeeps ==
  ASSUME DashboardInv, NEW S, NEW status, NEW ended, NEW failed,
         Committing(S, status, ended, failed)
  PROVE  DashboardInv'
<1>0. /\ S \in SUBSET Calls /\ ended \in BOOLEAN /\ failed \in SUBSET S
      /\ Commit(S, status, ended, failed)
      /\ \A c \in S : /\ status[c] \in ViewStatus \ {"none"}
                      /\ As(status[c]) = As(shown'[c])
      /\ \A c \in Calls \ S : As(shown'[c]) = As(shown[c])
      /\ shown' \in [Calls -> Status] /\ closed' \subseteq Calls
      /\ UNCHANGED <<lineOpen, restarts, breaks, link, known, wire, view>>
  BY DEF Committing
<1>1. PICK events \in Commits(S, status, ended, failed) : Publish(events)
  BY <1>0 DEF Commit
<1>2. events \in Seq(Events) /\ CommitOf(events, S, status, failed)
  BY <1>0, CommitsTell
<1>3. TellsCalls(events, shown, shown')
  BY <1>0, <1>2 DEF TellsCalls, CommitOf, Tells
<1>4. TellsLine(events, lineOpen, lineOpen')
  BY <1>0, <1>2 DEF TellsLine, CommitOf, Tells
<1>5. lineOpen' \in BOOLEAN /\ restarts' \in 0..MaxRestarts
  BY <1>0 DEF DashboardInv, TypeOK
<1>6. /\ announced' => announced \/ HasStorage(events)
      /\ warning \/ HasStorage(events) => warning'
      /\ announced' => warning'
      /\ warning' \in BOOLEAN /\ announced' \in BOOLEAN
  BY <1>0, <1>2, FirstFailure DEF CommitOf, Commit
<1>7. Telling(events)
  BY <1>0, <1>1, <1>2, <1>3, <1>4, <1>5, <1>6 DEF Telling
<1> QED
  BY <1>7, TellingKeeps

-----------------------------------------------------------------------------
(* The server's steps. *)

\* A caller who arrives, is heard, or is heard again.
LEMMA ArriveKeeps ==
  ASSUME DashboardInv, NEW c \in Calls, Arrive(c)
  PROVE  DashboardInv'
<1>1. PICK failed \in SUBSET {c} : /\ Saving({c} \ failed)
                                   /\ Commit({c}, shown', FALSE, failed)
  BY DEF Arrive, Failures
<1>2. shown \in [Calls -> Status] /\ closed \subseteq Calls
  BY DEF DashboardInv, TypeOK
<1>3. /\ shown' \in [Calls -> Status] /\ closed' \subseteq Calls
      /\ shown'[c] \in ViewStatus \ {"none"}
      /\ \A b \in Calls \ {c} : shown'[b] = shown[b]
  <2>1. closed' \subseteq Calls
    BY <1>1 DEF Saving
  <2>2. CASE Ring(c)
    BY <1>2, <2>1, <2>2 DEF Ring, Status, ViewStatus
  <2>3. CASE Hold(c)
    BY <1>2, <2>1, <2>3 DEF Hold, Status, ViewStatus
  <2>4. CASE Resave({c})
    BY <1>2, <2>1, <2>4 DEF Resave, ViewStatus
  <2> QED
    BY <2>2, <2>3, <2>4 DEF Arrive
<1>4. UNCHANGED <<lineOpen, restarts, breaks, link, known, wire, view>>
  BY DEF Arrive, clientVars
<1>5. Committing({c}, shown', FALSE, failed)
  BY <1>1, <1>3, <1>4 DEF Committing
<1> QED
  BY <1>5, CommittingKeeps

\* A caller who is put on air.
LEMMA PutOnAirKeeps ==
  ASSUME DashboardInv, NEW c \in Calls, PutOnAir(c)
  PROVE  DashboardInv'
<1>1. PICK failed \in SUBSET {c} : /\ Saving({c} \ failed)
                                   /\ Commit({c}, shown', FALSE, failed)
  BY DEF PutOnAir, Failures
<1>2. shown \in [Calls -> Status] /\ closed \subseteq Calls
  BY DEF DashboardInv, TypeOK
<1>3. /\ shown' \in [Calls -> Status] /\ closed' \subseteq Calls
      /\ shown'[c] \in ViewStatus \ {"none"}
      /\ \A b \in Calls \ {c} : shown'[b] = shown[b]
  BY <1>1, <1>2 DEF PutOnAir, Accept, Saving, Waiting, Status, ViewStatus
<1>4. UNCHANGED <<lineOpen, restarts, breaks, link, known, wire, view>>
  BY DEF PutOnAir, clientVars
<1>5. Committing({c}, shown', FALSE, failed)
  BY <1>1, <1>3, <1>4 DEF Committing
<1> QED
  BY <1>5, CommittingKeeps

\* Calls that are over.
LEMMA FinishKeeps ==
  ASSUME DashboardInv, NEW S \in SUBSET Calls, NEW status \in {"rejected", "ended"},
         Finish(S, status)
  PROVE  DashboardInv'
<1>1. PICK failed \in SUBSET S : Saving(S \ failed) /\ Commit(S, All(status), TRUE, failed)
  BY DEF Finish, Failures
<1>2. shown \in [Calls -> Status] /\ closed \subseteq Calls
  BY DEF DashboardInv, TypeOK
<1>3. /\ shown' = [c \in Calls |-> IF c \in S THEN "none" ELSE shown[c]]
      /\ closed' \subseteq Calls
  BY <1>1 DEF Finish, Leave, Saving
<1>4. /\ shown' \in [Calls -> Status]
      /\ \A c \in S : As(shown'[c]) = "none"
      /\ \A c \in Calls \ S : shown'[c] = shown[c]
  BY <1>2, <1>3 DEF Status, As
<1>5. \A c \in S : /\ All(status)[c] \in ViewStatus \ {"none"}
                   /\ As(All(status)[c]) = "none"
  BY DEF All, ViewStatus, As, Waiting
<1>6. UNCHANGED <<lineOpen, restarts, breaks, link, known, wire, view>>
  BY DEF Finish, clientVars
<1>7. Committing(S, All(status), TRUE, failed)
  BY <1>1, <1>3, <1>4, <1>5, <1>6 DEF Committing
<1> QED
  BY <1>7, CommittingKeeps

\* The end of a call nobody showed as waiting.
LEMMA FinishUnseenKeeps ==
  ASSUME DashboardInv, NEW c \in Calls, FinishUnseen(c)
  PROVE  DashboardInv'
<1>1. /\ shown' = shown /\ closed' \subseteq Calls
      /\ UNCHANGED <<lineOpen, warning, announced, restarts, breaks, link, known, wire,
                     view, queue, lossy>>
  BY DEF FinishUnseen, Settle, Saving, serverVars, clientVars
<1>2. TypeOK'
  BY <1>1 DEF DashboardInv, TypeOK
<1> QED
  BY <1>1, <1>2 DEF DashboardInv

\* A contact that changed, after the calls it is shown with.
LEMMA ChangeContactKeeps ==
  ASSUME DashboardInv, NEW S \in SUBSET Calls, ChangeContact(S)
  PROVE  DashboardInv'
<1>1. PICK failed \in SUBSET S :
        /\ Saving(S \ failed)
        /\ \E events \in Commits(S, shown, FALSE, failed) :
             Publish(Append(events, ContactChanged))
        /\ warning' = (warning \/ failed # {})
        /\ announced' = (announced \/ failed # {})
  BY DEF ChangeContact, Failures
<1>2. PICK events \in Commits(S, shown, FALSE, failed) :
        Publish(Append(events, ContactChanged))
  BY <1>1
<1> DEFINE t == Append(events, ContactChanged)
<1>3. /\ shown \in [Calls -> Status] /\ closed \subseteq Calls
      /\ lineOpen \in BOOLEAN /\ warning \in BOOLEAN /\ announced \in BOOLEAN
      /\ restarts \in 0..MaxRestarts /\ announced => warning
  BY DEF DashboardInv, TypeOK
<1>4. \A c \in S : shown[c] \in ViewStatus \ {"none"}
  BY <1>3 DEF ChangeContact, Resave, ViewStatus
<1>5. events \in Seq(Events) /\ CommitOf(events, S, shown, failed)
  BY <1>4, CommitsTell
<1>6. ContactChanged # StorageError
  BY DEF ContactChanged, StorageError
<1>7. t \in Seq(Events) /\ CommitOf(t, S, shown, failed)
  BY <1>5, <1>6, AppendTells DEF CommitOf
<1> HIDE DEF t
<1>8. /\ shown' = shown /\ closed' \subseteq Calls /\ lineOpen' = lineOpen
      /\ UNCHANGED <<restarts, breaks, link, known, wire, view>>
  BY <1>1 DEF ChangeContact, Resave, Saving, clientVars
<1>9. TellsCalls(t, shown, shown') /\ TellsLine(t, lineOpen, lineOpen')
  BY <1>7, <1>8 DEF TellsCalls, TellsLine, CommitOf, Tells
<1>10. /\ announced' => announced \/ HasStorage(t)
       /\ warning \/ HasStorage(t) => warning'
       /\ announced' => warning'
       /\ warning' \in BOOLEAN /\ announced' \in BOOLEAN
  BY <1>1, <1>7, FirstFailure DEF CommitOf
<1>11. Publish(t)
  BY <1>2 DEF t
<1>12. /\ shown' \in [Calls -> Status] /\ closed' \subseteq Calls
       /\ lineOpen' \in BOOLEAN /\ restarts' \in 0..MaxRestarts
  BY <1>8 DEF DashboardInv, TypeOK
<1>13. Telling(t)
  BY <1>7, <1>8, <1>9, <1>10, <1>11, <1>12 DEF Telling
<1> QED
  BY <1>13, TellingKeeps

\* The callers who still hold are back, and a failure nobody was told of is told.
LEMMA ReconcileKeeps ==
  ASSUME DashboardInv, NEW S \in SUBSET Calls, Reconcile(S)
  PROVE  DashboardInv'
<1> DEFINE Untold(failed, swept) == (warning \/ ~swept) /\ ~announced /\ failed = {}
           Said(events, failed, swept) ==
             IF Untold(failed, swept) THEN Append(events, StorageError) ELSE events
<1>1. PICK failed \in SUBSET S, swept \in BOOLEAN :
        /\ Saving(S \ failed)
        /\ \E events \in Commits(S, All("on-hold"), FALSE, failed) :
             /\ Publish(Said(events, failed, swept))
             /\ warning' = (warning \/ failed # {} \/ ~swept)
             /\ announced' = warning'
  BY WritesFailAssumption DEF Reconcile, Failures
<1>2. PICK events \in Commits(S, All("on-hold"), FALSE, failed) :
        /\ Publish(Said(events, failed, swept))
        /\ warning' = (warning \/ failed # {} \/ ~swept)
        /\ announced' = warning'
  BY <1>1
<1> DEFINE t == Said(events, failed, swept)
<1>3. /\ shown \in [Calls -> Status] /\ closed \subseteq Calls
      /\ lineOpen \in BOOLEAN /\ warning \in BOOLEAN /\ announced \in BOOLEAN
      /\ restarts \in 0..MaxRestarts /\ announced => warning
  BY DEF DashboardInv, TypeOK
<1>4. \A c \in S : All("on-hold")[c] \in ViewStatus \ {"none"}
  BY DEF All, ViewStatus, Status
<1>5. events \in Seq(Events) /\ CommitOf(events, S, All("on-hold"), failed)
  BY <1>4, CommitsTell
<1>6. /\ t \in Seq(Events) /\ Tells(t, S, All("on-hold"))
      /\ HasStorage(t) <=> HasStorage(events) \/ Untold(failed, swept)
  <2>1. CASE Untold(failed, swept)
    <3>1. t = Append(events, StorageError)
      BY <2>1
    <3>2. /\ Append(events, StorageError) \in Seq(Events)
          /\ Tells(Append(events, StorageError), S, All("on-hold"))
          /\ HasStorage(Append(events, StorageError))
      BY <1>5, AppendTells DEF CommitOf
    <3> QED
      BY <2>1, <3>1, <3>2
  <2>2. CASE ~Untold(failed, swept)
    <3>1. t = events
      BY <2>2
    <3> QED
      BY <1>5, <2>2, <3>1 DEF CommitOf
  <2> QED
    BY <2>1, <2>2
<1>7. Publish(t)
  BY <1>2
<1> HIDE DEF t
<1>8. /\ shown' = [c \in Calls |-> IF c \in S THEN "on-hold" ELSE shown[c]]
      /\ closed' \subseteq Calls /\ lineOpen' = lineOpen
      /\ UNCHANGED <<restarts, breaks, link, known, wire, view>>
  BY <1>1 DEF Reconcile, Recover, Saving, clientVars
<1>9. shown' \in [Calls -> Status]
  BY <1>3, <1>8 DEF Status
<1>10. TellsCalls(t, shown, shown')
  <2>1. \A c \in S : All("on-hold")[c] = shown'[c]
    BY <1>8 DEF All
  <2>2. \A c \in Calls \ S : shown'[c] = shown[c]
    BY <1>8
  <2> QED
    BY <1>6, <2>1, <2>2 DEF TellsCalls, Tells
<1>11. TellsLine(t, lineOpen, lineOpen')
  BY <1>6, <1>8 DEF TellsLine, Tells
<1>12. /\ announced' => announced \/ HasStorage(t)
       /\ warning \/ HasStorage(t) => warning'
       /\ announced' => warning'
       /\ warning' \in BOOLEAN /\ announced' \in BOOLEAN
  BY <1>2, <1>3, <1>5, <1>6 DEF CommitOf
<1>13. closed' \subseteq Calls /\ lineOpen' \in BOOLEAN /\ restarts' \in 0..MaxRestarts
  BY <1>8 DEF DashboardInv, TypeOK
<1>14. Telling(t)
  BY <1>6, <1>7, <1>8, <1>9, <1>10, <1>11, <1>12, <1>13 DEF Telling
<1> QED
  BY <1>14, TellingKeeps

\* Any other write that fails.
LEMMA WriteFailsKeeps ==
  ASSUME DashboardInv, WriteFails
  PROVE  DashboardInv'
<1> DEFINE t == Told(<<>>, IF announced THEN 0 ELSE 1)
<1>1. /\ t \in Seq(Events)
      /\ \A i \in 1..Len(t) : t[i] = StorageError
      /\ HasStorage(t) <=> ~announced
  <2>1. CASE announced
    <3>1. t = <<>>
      BY <2>1 DEF Told
    <3> HIDE DEF t
    <3>2. t \in Seq(Events) /\ Len(t) = 0
      BY <3>1
    <3>3. \A i \in 1..Len(t) : FALSE
      BY <3>2
    <3> QED
      BY <2>1, <3>2, <3>3 DEF HasStorage
  <2>2. CASE ~announced
    <3> DEFINE none == SubSeq(<<>>, 1, 0)
               one == <<StorageError>>
    <3>1. t = none \o one \o none
      BY <2>2 DEF Told, InsertAt
    <3>2. none = <<>>
      OBVIOUS
    <3>3. StorageError \in Events /\ StorageError.kind = "storage"
      BY DEF StorageError, Events
    <3>4. one \in Seq(Events) /\ Len(one) = 1 /\ one[1] = StorageError
      BY <3>3
    <3>5. t = one
      BY <3>1, <3>2
    <3>6. t \in Seq(Events) /\ Len(t) = 1 /\ t[1] = StorageError
      BY <3>4, <3>5
    <3> HIDE DEF t
    <3>7. 1 \in 1..Len(t) /\ \A i \in 1..Len(t) : i = 1
      BY <3>6
    <3> QED
      BY <2>2, <3>3, <3>6, <3>7 DEF HasStorage
  <2> QED
    BY <2>1, <2>2
<1>2. Publish(t) /\ warning' = TRUE /\ announced' = TRUE
  BY DEF WriteFails
<1> HIDE DEF t
<1>3. /\ shown \in [Calls -> Status] /\ closed \subseteq Calls
      /\ lineOpen \in BOOLEAN /\ restarts \in 0..MaxRestarts
  BY DEF DashboardInv, TypeOK
<1>4. /\ shown' = shown /\ closed' = closed /\ lineOpen' = lineOpen
      /\ UNCHANGED <<restarts, breaks, link, known, wire, view>>
  BY DEF WriteFails, inPlayVars, clientVars
<1>5. \A i \in 1..Len(t) : t[i].kind = "storage"
  BY <1>1 DEF StorageError
<1>6. TellsCalls(t, shown, shown') /\ TellsLine(t, lineOpen, lineOpen')
  BY <1>4, <1>5 DEF TellsCalls, TellsLine
<1>7. Telling(t)
  BY <1>1, <1>2, <1>3, <1>4, <1>6 DEF Telling
<1> QED
  BY <1>7, TellingKeeps

\* A failed purge, which no dashboard is told of.
LEMMA PurgeFailsKeeps ==
  ASSUME DashboardInv, PurgeFails
  PROVE  DashboardInv'
<1>1. /\ warning' = TRUE
      /\ UNCHANGED <<shown, closed, lineOpen, announced, restarts, breaks, link, known,
                     wire, view, queue, lossy>>
  BY DEF PurgeFails, inPlayVars, clientVars
<1>2. TypeOK'
  BY <1>1 DEF DashboardInv, TypeOK
<1>3. \A d \in Dashboards : \A v, q :
        Follows(v, q, d \in lossy, shown, lineOpen, announced, warning)
          => Follows(v, q, d \in lossy, shown, lineOpen, announced, TRUE)
  BY DEF Follows, Warns
<1> QED
  BY <1>1, <1>2, <1>3 DEF DashboardInv

\* The line opens or closes.
LEMMA SetOpenKeeps ==
  ASSUME DashboardInv, NEW open \in BOOLEAN, SetOpen(open)
  PROVE  DashboardInv'
<1> DEFINE e == LineChanged(open)
           t == <<e>>
<1>1. e \in Events /\ e.kind = "line" /\ e.open = open
  BY DEF LineChanged, Events
<1>2. t \in Seq(Events) /\ Len(t) = 1 /\ t[1] = e
  BY <1>1
<1>3. Publish(t) /\ lineOpen' = open
  BY DEF SetOpen
<1> HIDE DEF e, t
<1>4. /\ shown \in [Calls -> Status] /\ closed \subseteq Calls
  BY DEF DashboardInv, TypeOK
<1>5. /\ shown' = shown /\ closed' = closed /\ warning' = warning
      /\ announced' = announced
      /\ UNCHANGED <<restarts, breaks, link, known, wire, view>>
  BY DEF SetOpen, inPlayVars, clientVars
<1>6. TellsCalls(t, shown, shown') /\ TellsLine(t, lineOpen, lineOpen')
  BY <1>1, <1>2, <1>3, <1>5 DEF TellsCalls, TellsLine
<1>7. ~HasStorage(t)
  BY <1>1, <1>2 DEF HasStorage
<1>8. /\ announced' => announced \/ HasStorage(t)
      /\ warning \/ HasStorage(t) => warning'
      /\ announced' => warning'
      /\ warning' \in BOOLEAN /\ announced' \in BOOLEAN
  <2>1. warning \in BOOLEAN /\ announced \in BOOLEAN
    BY DEF DashboardInv, TypeOK
  <2>2. warning' = (warning \/ {} # {}) /\ announced' = (announced \/ {} # {})
    BY <1>5, <2>1
  <2> QED
    BY <1>7, <2>2, FirstFailure
<1>9. /\ shown' \in [Calls -> Status] /\ closed' \subseteq Calls
      /\ lineOpen' \in BOOLEAN /\ restarts' \in 0..MaxRestarts
  BY <1>3, <1>5 DEF DashboardInv, TypeOK
<1>10. Telling(t)
  BY <1>2, <1>3, <1>5, <1>6, <1>8, <1>9 DEF Telling
<1> QED
  BY <1>10, TellingKeeps

\* The process is replaced: no dashboard is connected to the new one yet.
LEMMA RestartKeeps ==
  ASSUME DashboardInv, Restart
  PROVE  DashboardInv'
<1>1. /\ link \in [Dashboards -> {"out", "down", "open"}]
      /\ wire \in [Dashboards -> Messages] /\ queue \in [Dashboards -> Seq(Events)]
      /\ closed \subseteq Calls /\ restarts \in 0..MaxRestarts
  BY DEF DashboardInv, TypeOK
<1>2. \A d \in Dashboards : link'[d] # "open" /\ queue'[d] = <<>>
  BY <1>1 DEF Restart, Hangup, Emptied
<1>3. link' \in [Dashboards -> {"out", "down", "open"}]
  BY <1>1 DEF Restart, Hangup
<1>4. wire' \in [Dashboards -> Messages]
  BY DEF Restart, Emptied, Nothing, Messages
<1>5. queue' \in [Dashboards -> Seq(Events)] /\ \A d \in Dashboards : Len(queue'[d]) <= QueueMax
  <2>1. <<>> \in Seq(Events) /\ Len(<<>>) <= QueueMax
    BY SizesAssumption
  <2> QED
    BY <2>1 DEF Restart, Emptied
<1>6. shown' \in [Calls -> Status] /\ closed' \subseteq Calls
  BY <1>1 DEF Restart, Lose, Status
<1>7. restarts' \in 0..MaxRestarts
  BY <1>1, DashboardBounds DEF Restart
<1>8. lineOpen' \in BOOLEAN /\ warning' \in BOOLEAN /\ announced' \in BOOLEAN
  BY WritesFailAssumption DEF Restart
<1>9. known' \subseteq Dashboards /\ UNCHANGED <<breaks, view, lossy>>
  BY DEF Restart
<1>10. TypeOK'
  BY <1>3, <1>4, <1>5, <1>6, <1>7, <1>8, <1>9 DEF DashboardInv, TypeOK
<1>11. announced' => warning'
  BY DEF Restart
<1> QED
  BY <1>2, <1>10, <1>11 DEF DashboardInv

-----------------------------------------------------------------------------
(* The dashboards' steps. *)

\* A step of d alone, after which d is in shape and follows the server if open.
OfOne(d) ==
  /\ d \in Dashboards
  /\ UNCHANGED <<shown, closed, lineOpen, warning, announced, restarts>>
  /\ breaks' \in 0..MaxBreaks /\ known' \subseteq Dashboards /\ lossy' \subseteq Dashboards
  /\ link' \in [Dashboards -> {"out", "down", "open"}]
  /\ wire' \in [Dashboards -> Messages]
  /\ queue' \in [Dashboards -> Seq(Events)]
  /\ view' \in [Dashboards -> ViewType]
  /\ Len(queue'[d]) <= QueueMax /\ ViewOK(view'[d])
  /\ \A e \in Dashboards \ {d} :
       /\ link'[e] = link[e] /\ wire'[e] = wire[e] /\ queue'[e] = queue[e]
       /\ view'[e] = view[e] /\ (e \in lossy') = (e \in lossy)
  /\ link'[d] = "open" =>
       Follows(Reduce(view'[d], wire'[d]), queue'[d], d \in lossy',
               shown, lineOpen, announced, warning)

\* Such a step keeps the invariant.
LEMMA OfOneKeeps ==
  ASSUME DashboardInv, NEW d, OfOne(d)
  PROVE  DashboardInv'
<1>1. \A e \in Dashboards \ {d} :
        /\ link'[e] = link[e] /\ wire'[e] = wire[e] /\ queue'[e] = queue[e]
        /\ view'[e] = view[e] /\ (e \in lossy') = (e \in lossy)
  BY DEF OfOne
<1>2. \A e \in Dashboards : Len(queue'[e]) <= QueueMax /\ ViewOK(view'[e])
  <2> TAKE e \in Dashboards
  <2>1. CASE e = d
    BY <2>1 DEF OfOne
  <2>2. CASE e # d
    BY <1>1, <2>2, DashboardTyped DEF DashboardInv
  <2> QED
    BY <2>1, <2>2
<1>3. TypeOK'
  BY <1>2 DEF OfOne, DashboardInv, TypeOK, ViewOK
<1>4. ASSUME NEW e \in Dashboards, link'[e] = "open"
      PROVE  Follows(Reduce(view'[e], wire'[e]), queue'[e], e \in lossy',
                     shown', lineOpen', announced', warning')
  <2>1. /\ shown' = shown /\ lineOpen' = lineOpen
        /\ announced' = announced /\ warning' = warning
    BY DEF OfOne
  <2>2. CASE e = d
    BY <1>4, <2>1, <2>2 DEF OfOne
  <2>3. CASE e # d
    <3>1. Follows(Reduce(view[e], wire[e]), queue[e], e \in lossy,
                  shown, lineOpen, announced, warning)
      BY <1>1, <1>4, <2>3 DEF DashboardInv
    <3> QED
      BY <1>1, <2>1, <2>3, <3>1
  <2> QED
    BY <2>2, <2>3
<1>5. announced' => warning'
  BY DEF OfOne, DashboardInv
<1> QED
  BY <1>3, <1>4, <1>5 DEF DashboardInv

\* Nothing is a message, and no event.
LEMMA NothingIsNoEvent == /\ Nothing \in Messages /\ Nothing \notin Events
                          /\ \A v : ViewOK(v) => Reduce(v, Nothing) = v
<1>1. Nothing \in Messages /\ Nothing \notin Events /\ Nothing.kind = "nothing"
  BY DEF Nothing, Messages, Events
<1> QED
  BY <1>1, ReduceOther

\* A connection starts with a snapshot and an empty queue.
LEMMA ConnectKeeps ==
  ASSUME DashboardInv, NEW d \in Dashboards, Connect(d)
  PROVE  DashboardInv'
<1> DEFINE m == Snapshot
           w == Reduce(view[d], m)
<1>1. /\ link \in [Dashboards -> {"out", "down", "open"}]
      /\ wire \in [Dashboards -> Messages] /\ queue \in [Dashboards -> Seq(Events)]
      /\ view \in [Dashboards -> ViewType]
      /\ known \subseteq Dashboards /\ lossy \subseteq Dashboards
      /\ breaks \in 0..MaxBreaks /\ shown \in [Calls -> Status]
      /\ lineOpen \in BOOLEAN /\ warning \in BOOLEAN
  BY DEF DashboardInv, TypeOK
<1>2. /\ m.kind = "snapshot" /\ m.open = lineOpen /\ m.warning = warning
      /\ m.calls = [c \in Calls |-> IF Waiting(shown[c]) THEN shown[c] ELSE "none"]
  BY DEF Snapshot
<1>3. m \in Messages /\ m \notin Events
  <2>1. [c \in Calls |-> IF Waiting(shown[c]) THEN shown[c] ELSE "none"] \in [Calls -> Status]
    BY <1>1 DEF Status
  <2> QED
    BY <1>1, <2>1 DEF Snapshot, Messages, Events
<1> HIDE DEF m
<1>4. /\ w.calls = m.calls /\ w.open = m.open /\ w.warning = m.warning
  <2>1. ViewOK(view[d])
    BY DashboardTyped DEF DashboardInv
  <2> QED
    BY <1>2, <1>3, <2>1, ReduceOther
<1>5. \A c \in Calls : As(w.calls[c]) = As(shown[c])
  BY <1>2, <1>4 DEF As, Waiting
<1> HIDE DEF w
<1>6. <<>> \in Seq(Events) /\ Len(<<>>) = 0 /\ 0 <= QueueMax
  BY SizesAssumption
<1>7. Follows(w, <<>>, FALSE, shown, lineOpen, announced, warning)
  <2>1. Agrees(w, <<>>, FALSE, shown, lineOpen)
    BY <1>2, <1>4, <1>5, EmptyAgrees
  <2>2. ~HasStorage(<<>>)
    BY <1>6 DEF HasStorage
  <2>3. w.warning = warning /\ (announced => warning)
    BY <1>2, <1>4 DEF DashboardInv
  <2> QED
    BY <2>1, <2>2, <2>3 DEF Follows, Warns
<1>8. /\ link' = [link EXCEPT ![d] = "open"] /\ wire' = [wire EXCEPT ![d] = m]
      /\ queue' = [queue EXCEPT ![d] = <<>>] /\ lossy' = lossy \ {d}
      /\ view' = view /\ known' = known /\ breaks' = breaks
      /\ UNCHANGED <<shown, closed, lineOpen, warning, announced, restarts>>
  BY DEF Connect, inPlayVars, serverVars, m
<1>9. (d \in lossy') = FALSE /\ Reduce(view'[d], wire'[d]) = w /\ queue'[d] = <<>>
  BY <1>1, <1>8 DEF w
<1>10. ViewOK(view'[d])
  BY <1>8, DashboardTyped DEF DashboardInv
<1>11. Follows(Reduce(view'[d], wire'[d]), queue'[d], d \in lossy',
               shown, lineOpen, announced, warning)
  BY <1>7, <1>9
<1>12. OfOne(d)
  BY <1>1, <1>3, <1>6, <1>8, <1>9, <1>10, <1>11 DEF OfOne
<1> QED
  BY <1>12, OfOneKeeps

\* What a step of one dashboard needs of the types.
LEMMA OfOneTypes ==
  ASSUME DashboardInv
  PROVE  /\ link \in [Dashboards -> {"out", "down", "open"}]
         /\ wire \in [Dashboards -> Messages] /\ queue \in [Dashboards -> Seq(Events)]
         /\ view \in [Dashboards -> ViewType]
         /\ known \subseteq Dashboards /\ lossy \subseteq Dashboards
         /\ breaks \in 0..MaxBreaks
         /\ <<>> \in Seq(Events) /\ Len(<<>>) <= QueueMax
         /\ Nothing \in Messages
BY SizesAssumption, NothingIsNoEvent DEF DashboardInv, TypeOK

\* A dashboard whose user is out shows nothing.
LEMMA OutKeeps ==
  ASSUME DashboardInv, NEW d \in Dashboards, Out(d)
  PROVE  DashboardInv'
<1>1. /\ link' = [link EXCEPT ![d] = "out"] /\ known' = known \ {d}
      /\ view' = [view EXCEPT ![d] = Blank]
      /\ wire' = [e \in Dashboards |-> IF e = d THEN Nothing ELSE wire[e]]
      /\ queue' = [e \in Dashboards |-> IF e = d THEN <<>> ELSE queue[e]]
      /\ UNCHANGED <<shown, closed, lineOpen, warning, announced, restarts, breaks, lossy>>
  BY DEF Out, Emptied, inPlayVars, serverVars
<1>2. ViewOK(Blank)
  <2>1. /\ <<>> \in Seq(Calls) /\ IsInjective(<<>>) /\ ToSet(<<>>) = {}
    BY DEF IsInjective, ToSet
  <2>2. /\ Blank.calls = [c \in Calls |-> "none"] /\ Blank.order = <<>>
        /\ Blank \in ViewType
    BY <2>1 DEF Blank, ViewType, ViewStatus, Status
  <2> QED
    BY <2>1, <2>2 DEF ViewOK
<1>3. Blank \in ViewType
  BY <1>2 DEF ViewOK
<1>4. /\ link' \in [Dashboards -> {"out", "down", "open"}]
      /\ wire' \in [Dashboards -> Messages] /\ queue' \in [Dashboards -> Seq(Events)]
      /\ view' \in [Dashboards -> ViewType]
  BY <1>1, <1>3, OfOneTypes
<1>5. link'[d] = "out" /\ queue'[d] = <<>> /\ view'[d] = Blank
  BY <1>1, OfOneTypes
<1>6. Len(queue'[d]) <= QueueMax /\ ViewOK(view'[d])
  BY <1>2, <1>5, OfOneTypes
<1>7. OfOne(d)
  BY <1>1, <1>4, <1>5, <1>6, OfOneTypes DEF OfOne
<1> QED
  BY <1>7, OfOneKeeps

\* A dashboard whose user signs in is not connected yet.
LEMMA SignInKeeps ==
  ASSUME DashboardInv, NEW d \in Dashboards, SignIn(d)
  PROVE  DashboardInv'
<1>1. /\ link' = [link EXCEPT ![d] = "down"] /\ known' = known \cup {d}
      /\ UNCHANGED <<shown, closed, lineOpen, warning, announced, restarts, breaks, wire,
                     queue, view, lossy>>
  BY DEF SignIn, inPlayVars, serverVars
<1>2. Len(queue'[d]) <= QueueMax /\ ViewOK(view'[d])
  BY <1>1, DashboardTyped DEF DashboardInv
<1>3. link' \in [Dashboards -> {"out", "down", "open"}] /\ link'[d] = "down"
  BY <1>1, OfOneTypes
<1>4. OfOne(d)
  BY <1>1, <1>2, <1>3, OfOneTypes DEF OfOne
<1> QED
  BY <1>4, OfOneKeeps

\* The writer puts the oldest event on the wire.
LEMMA WriteStepKeeps ==
  ASSUME DashboardInv, NEW d \in Dashboards, Write(d)
  PROVE  DashboardInv'
<1> DEFINE q == queue[d]
<1>1. /\ link[d] = "open" /\ wire[d] = Nothing /\ q # <<>>
      /\ wire' = [wire EXCEPT ![d] = Head(q)]
      /\ queue' = [queue EXCEPT ![d] = Tail(q)]
      /\ UNCHANGED <<shown, closed, lineOpen, warning, announced, restarts, breaks, link,
                     known, view, lossy>>
  BY DEF Write, inPlayVars, serverVars
<1>2. ViewOK(view[d]) /\ q \in Seq(Events) /\ Len(q) <= QueueMax
  BY DashboardTyped DEF DashboardInv
<1>3. Reduce(view[d], wire[d]) = view[d]
  BY <1>1, <1>2, NothingIsNoEvent
<1>4. wire'[d] = Head(q) /\ queue'[d] = Tail(q) /\ view'[d] = view[d]
  BY <1>1, OfOneTypes
<1>5. Head(q) \in Messages /\ Tail(q) \in Seq(Events) /\ Len(Tail(q)) <= QueueMax
  <2>1. Head(q) \in Events /\ Tail(q) \in Seq(Events) /\ Len(Tail(q)) = Len(q) - 1
    BY <1>1, <1>2, HeadTailProperties
  <2>2. Len(q) \in Nat /\ QueueMax \in Nat
    BY <1>2, LenProperties, SizesAssumption
  <2> QED
    BY <1>2, <2>1, <2>2 DEF Messages
<1>6. /\ wire' \in [Dashboards -> Messages] /\ queue' \in [Dashboards -> Seq(Events)]
  BY <1>1, <1>5, OfOneTypes
<1>7. Follows(Reduce(view'[d], wire'[d]), queue'[d], d \in lossy',
              shown, lineOpen, announced, warning)
  <2>1. PICK lost \in BOOLEAN : lost = (d \in lossy)
    BY IsOrNot
  <2>2. Follows(view[d], q, lost, shown, lineOpen, announced, warning)
    BY <1>1, <1>3, <2>1 DEF DashboardInv
  <2> HIDE DEF q
  <2>3. Follows(Reduce(view[d], Head(q)), Tail(q), lost, shown, lineOpen, announced, warning)
    BY <1>1, <1>2, <2>2, WriteKeeps DEF Follows
  <2> QED
    BY <1>1, <1>4, <2>1, <2>3
<1> HIDE DEF q
<1>8. OfOne(d)
  BY <1>1, <1>2, <1>4, <1>5, <1>6, <1>7, OfOneTypes DEF OfOne
<1> QED
  BY <1>8, OfOneKeeps

\* The browser shows the message that has arrived.
LEMMA ReceiveKeeps ==
  ASSUME DashboardInv, NEW d \in Dashboards, Receive(d)
  PROVE  DashboardInv'
<1> DEFINE w == Reduce(view[d], wire[d])
<1>1. /\ view' = [view EXCEPT ![d] = w] /\ wire' = [wire EXCEPT ![d] = Nothing]
      /\ UNCHANGED <<shown, closed, lineOpen, warning, announced, restarts, breaks, link,
                     known, queue, lossy>>
  BY DEF Receive, inPlayVars, serverVars
<1>2. ViewOK(w) /\ Len(queue[d]) <= QueueMax
  BY DashboardTyped DEF DashboardInv
<1>3. link[d] = "open" =>
        Follows(w, queue[d], d \in lossy, shown, lineOpen, announced, warning)
  BY DEF DashboardInv
<1> HIDE DEF w
<1>4. view'[d] = w /\ wire'[d] = Nothing
  BY <1>1, OfOneTypes
<1>5. Reduce(view'[d], wire'[d]) = w
  BY <1>2, <1>4, NothingIsNoEvent
<1>6. w \in ViewType
  BY <1>2 DEF ViewOK
<1>7. view' \in [Dashboards -> ViewType] /\ wire' \in [Dashboards -> Messages]
  BY <1>1, <1>6, OfOneTypes
<1>8. OfOne(d)
  BY <1>1, <1>2, <1>3, <1>4, <1>5, <1>7, OfOneTypes DEF OfOne
<1> QED
  BY <1>8, OfOneKeeps

\* A connection that breaks.
LEMMA BreakKeeps ==
  ASSUME DashboardInv, NEW d \in Dashboards, Break(d)
  PROVE  DashboardInv'
<1>1. /\ breaks < MaxBreaks /\ breaks' = breaks + 1
      /\ link' = [e \in Dashboards |-> IF e \in {d} /\ link[e] = "open" THEN "down"
                                        ELSE link[e]]
      /\ wire' = [e \in Dashboards |-> IF e \in {d} THEN Nothing ELSE wire[e]]
      /\ queue' = [e \in Dashboards |-> IF e \in {d} THEN <<>> ELSE queue[e]]
      /\ UNCHANGED <<shown, closed, lineOpen, warning, announced, restarts, known, view,
                     lossy>>
  BY DEF Break, Hangup, Emptied, inPlayVars, serverVars
<1>2. breaks' \in 0..MaxBreaks
  BY <1>1, OfOneTypes, DashboardBounds
<1>3. /\ link' \in [Dashboards -> {"out", "down", "open"}]
      /\ wire' \in [Dashboards -> Messages] /\ queue' \in [Dashboards -> Seq(Events)]
  BY <1>1, OfOneTypes
<1>4. link'[d] # "open" /\ queue'[d] = <<>> /\ view'[d] = view[d]
  BY <1>1, OfOneTypes
<1>5. Len(queue'[d]) <= QueueMax /\ ViewOK(view'[d])
  BY <1>4, OfOneTypes, DashboardTyped DEF DashboardInv
<1>6. OfOne(d)
  BY <1>1, <1>2, <1>3, <1>4, <1>5, OfOneTypes DEF OfOne
<1> QED
  BY <1>6, OfOneKeeps

-----------------------------------------------------------------------------
(* The theorems. *)

\* Nobody has signed in yet.
LEMMA DashboardInit == Init => DashboardInv
<1> SUFFICES ASSUME Init PROVE DashboardInv
  OBVIOUS
<1>1. ViewOK(Blank)
  <2>1. /\ <<>> \in Seq(Calls) /\ IsInjective(<<>>) /\ ToSet(<<>>) = {}
    BY DEF IsInjective, ToSet
  <2>2. /\ Blank.calls = [c \in Calls |-> "none"] /\ Blank.order = <<>>
        /\ Blank \in ViewType
    BY <2>1 DEF Blank, ViewType, ViewStatus, Status
  <2> QED
    BY <2>1, <2>2 DEF ViewOK
<1>2. <<>> \in Seq(Events) /\ Len(<<>>) <= QueueMax /\ Nothing \in Messages
  BY SizesAssumption, NothingIsNoEvent
<1>3. 0 \in 0..MaxRestarts /\ 0 \in 0..MaxBreaks
  BY DashboardBounds
<1>4. /\ shown = [c \in Calls |-> "none"] /\ closed = {}
      /\ lineOpen = TRUE /\ warning = FALSE /\ announced = FALSE
      /\ restarts = 0 /\ breaks = 0
      /\ link = [d \in Dashboards |-> "out"] /\ known = {} /\ lossy = {}
      /\ wire = [d \in Dashboards |-> Nothing]
      /\ queue = [d \in Dashboards |-> <<>>]
      /\ view = [d \in Dashboards |-> Blank]
  BY DEF Init, InPlayInit
<1>5. TypeOK
  BY <1>1, <1>2, <1>3, <1>4 DEF TypeOK, ViewOK, Status
<1> QED
  BY <1>4, <1>5 DEF DashboardInv

\* Every step keeps the invariant.
LEMMA DashboardNext == DashboardInv /\ [Next]_vars => DashboardInv'
<1> SUFFICES ASSUME DashboardInv, [Next]_vars PROVE DashboardInv'
  OBVIOUS
<1>1. ASSUME NEW c \in Calls, Arrive(c) \/ PutOnAir(c) \/ FinishUnseen(c)
      PROVE  DashboardInv'
  BY <1>1, ArriveKeeps, PutOnAirKeeps, FinishUnseenKeeps
<1>2. ASSUME NEW S \in SUBSET Calls, NEW status \in {"rejected", "ended"}, Finish(S, status)
      PROVE  DashboardInv'
  BY <1>2, FinishKeeps
<1>3. ASSUME NEW S \in SUBSET Calls, ChangeContact(S) \/ Reconcile(S)
      PROVE  DashboardInv'
  BY <1>3, ChangeContactKeeps, ReconcileKeeps
<1>4. ASSUME WriteFails \/ PurgeFails \/ Restart
      PROVE  DashboardInv'
  BY <1>4, WriteFailsKeeps, PurgeFailsKeeps, RestartKeeps
<1>5. ASSUME NEW open \in BOOLEAN, SetOpen(open)
      PROVE  DashboardInv'
  BY <1>5, SetOpenKeeps
<1>6. ASSUME NEW d \in Dashboards, Connect(d) \/ Refused(d) \/ Write(d) \/ Receive(d)
      PROVE  DashboardInv'
  BY <1>6, ConnectKeeps, OutKeeps, WriteStepKeeps, ReceiveKeeps DEF Refused
<1>7. ASSUME NEW d \in Dashboards, SignIn(d) \/ SignOut(d) \/ Break(d)
      PROVE  DashboardInv'
  BY <1>7, SignInKeeps, OutKeeps, BreakKeeps DEF SignOut
<1>8. CASE UNCHANGED vars
  BY <1>8 DEF vars, inPlayVars, serverVars, clientVars, DashboardInv, TypeOK
<1> QED
  BY <1>1, <1>2, <1>3, <1>4, <1>5, <1>6, <1>7, <1>8 DEF Next, Server, Stream

\* An open dashboard always follows the server.
THEOREM DashboardInvariant == Spec => []DashboardInv
BY DashboardInit, DashboardNext, PTL DEF Spec

\* TypeOK: the queue of a connection never outgrows FRONTEND_QUEUE_MAX, and a
\* dashboard lists each call it shows once, whatever arrives in whatever order.
THEOREM DashboardTypes == Spec => []TypeOK
<1>1. DashboardInv => TypeOK
  BY DEF DashboardInv
<1> QED
  BY <1>1, DashboardInvariant, PTL

\* What an open dashboard will show, of what it follows.
LEMMA FollowedIsShown ==
  ASSUME DashboardInv, NEW d \in Dashboards, link[d] = "open"
  PROVE  /\ d \notin lossy => Reading(d).open = lineOpen
         /\ \A c \in Calls : d \notin lossy \/ HasNews(queue[d], c) =>
              As(Reading(d).calls[c]) = As(shown[c])
         /\ d \notin lossy /\ announced => Reading(d).warning
         /\ Reading(d).warning => warning
<1> DEFINE v == Reduce(view[d], wire[d])
           q == queue[d]
           w == Reading(d)
<1>1. ViewOK(v) /\ q \in Seq(Events)
  BY DashboardTyped DEF DashboardInv
<1>2. w = Shows(v, q)
  BY DEF Reading
<1>3. Follows(v, q, d \in lossy, shown, lineOpen, announced, warning)
  BY DEF DashboardInv
<1> HIDE DEF v, q, w
<1>4. ShownAfter(w, v, q, Len(q))
  BY <1>1, <1>2, ShowsIsLatest
<1>5. ASSUME d \notin lossy
      PROVE  w.open = lineOpen
  BY <1>3, <1>4, <1>5 DEF Follows, Agrees, ShownAfter
<1>6. ASSUME NEW c \in Calls, d \notin lossy \/ HasNews(q, c)
      PROVE  As(w.calls[c]) = As(shown[c])
  <2>1. CASE \E i \in 1..Len(q) :
               LastNews(q, Len(q), c, i) /\ As(w.calls[c]) = As(q[i].status)
    BY <1>3, <2>1 DEF Follows, Agrees
  <2>2. CASE As(w.calls[c]) = As(v.calls[c]) /\ \A i \in 1..Len(q) : ~IsNews(q[i], c)
    <3>1. ~HasNews(q, c)
      BY <1>1, <2>2, MembersOfList DEF HasNews, IsNews
    <3> QED
      BY <1>3, <1>6, <2>2, <3>1 DEF Follows, Agrees
  <2> QED
    BY <1>4, <2>1, <2>2 DEF ShownAfter
<1>7. w.warning <=> v.warning \/ HasStorage(q)
  BY <1>4 DEF ShownAfter, HasStorage
<1>8. /\ d \notin lossy /\ announced => w.warning
      /\ w.warning => warning
  BY <1>3, <1>7 DEF Follows, Warns
<1> QED
  BY <1>5, <1>6, <1>8 DEF q, w

\* NothingIsMissed: what an open dashboard shows and what is on its way come to
\* the calls waiting and the line, for any number of calls and dashboards, and
\* any queue: also of the calls with news left in a queue that dropped events.
THEOREM DashboardMissesNothing == Spec => []NothingIsMissed
<1>1. DashboardInv => NothingIsMissed
  <2> SUFFICES ASSUME DashboardInv, NEW d \in Dashboards, link[d] = "open"
               PROVE  /\ d \notin lossy => Reading(d).open = lineOpen
                      /\ \A c \in Calls : d \notin lossy \/ HasNews(queue[d], c) =>
                           Listed(Reading(d).calls, c) = Listed(shown, c)
    BY DEF NothingIsMissed
  <2>1. /\ d \notin lossy => Reading(d).open = lineOpen
        /\ \A c \in Calls : d \notin lossy \/ HasNews(queue[d], c) =>
             As(Reading(d).calls[c]) = As(shown[c])
    BY FollowedIsShown
  <2> QED
    BY <2>1 DEF As, Listed
<1> QED
  BY <1>1, DashboardInvariant, PTL

\* FailureIsShown: a failed write that was announced is on its way to every open
\* dashboard, unless it lost events, and no dashboard warns of what did not fail.
THEOREM DashboardShowsFailure == Spec => []FailureIsShown
<1>1. DashboardInv => FailureIsShown
  BY FollowedIsShown DEF FailureIsShown
<1> QED
  BY <1>1, DashboardInvariant, PTL

=============================================================================
