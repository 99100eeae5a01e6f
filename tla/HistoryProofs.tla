--------------------------- MODULE HistoryProofs ----------------------------
(***************************************************************************)
(* The list of the history keeps its order, and every row that was there   *)
(* when it was started, for any number of calls, page sizes and changes.   *)
(* The first lemmas are about the operators that make and join pages; the  *)
(* theorems follow from one inductive invariant.                           *)
(***************************************************************************)
EXTENDS History, ListProofs

-----------------------------------------------------------------------------
(* Pages and lists. *)

\* A list in order, all of it ahead of the next page.
GoodList(l) ==
  /\ l.calls \in Seq(Calls) /\ l.next \in 0..N
  /\ Descending(l.calls)
  /\ l.next # End => \A i \in 1..Len(l.calls) : l.calls[i] >= l.next

\* Call c is on the list, or behind its cursor.
Reaches(l, c) ==
  \/ \E i \in 1..Len(l.calls) : l.calls[i] = c
  \/ l.next # End /\ c < l.next

\* All calls, newest first, are a list without repetition.
LEMMA NewestFirstIsAll ==
  /\ NewestFirst \in Seq(Calls) /\ Len(NewestFirst) = N
  /\ Descending(NewestFirst)
  /\ \A c \in Calls : N + 1 - c \in 1..N /\ NewestFirst[N + 1 - c] = c
<1>1. N \in Nat
  BY HistoryBounds
<1>2. NewestFirst \in [1..N -> Calls]
  BY <1>1 DEF NewestFirst, Calls
<1>3. NewestFirst \in Seq(Calls) /\ Len(NewestFirst) = N
  BY <1>1, <1>2
<1> QED
  BY <1>1, <1>3 DEF NewestFirst, Descending, Calls

\* Newest lists the calls of a set, each once, in order.
LEMMA NewestIsOrdered ==
  ASSUME NEW S \in SUBSET Calls
  PROVE  /\ Newest(S) \in Seq(Calls)
         /\ Descending(Newest(S))
         /\ \A i \in 1..Len(Newest(S)) : Newest(S)[i] \in S
         /\ \A c \in S : \E i \in 1..Len(Newest(S)) : Newest(S)[i] = c
<1> DEFINE t == Newest(S)
           s == NewestFirst
<1>1. s \in Seq(Calls) /\ Len(s) = N /\ Descending(s)
  BY NewestFirstIsAll
<1>2. t \in Seq(Calls) /\ \E p : PartOf(p, t, s, S, N)
  BY <1>1, AmongIsPart DEF Newest
<1>3. PICK p : PartOf(p, t, s, S, N)
  BY <1>2
<1>4. \A c \in S : \E i \in 1..Len(t) : t[i] = c
  <2> TAKE c \in S
  <2>1. N + 1 - c \in 1..N /\ s[N + 1 - c] = c
    BY NewestFirstIsAll
  <2>2. PICK k \in 1..Len(t) : p[k] = N + 1 - c
    BY <1>3, <2>1 DEF PartOf
  <2> QED
    BY <1>3, <2>1, <2>2 DEF PartOf
<1>5. Descending(t)
  <2> SUFFICES ASSUME NEW i \in 1..Len(t), NEW j \in 1..Len(t), i < j
               PROVE  t[i] > t[j]
    BY DEF Descending
  <2>1. p[i] \in 1..N /\ p[j] \in 1..N /\ p[i] < p[j]
    BY <1>3 DEF PartOf
  <2>2. s[p[i]] > s[p[j]]
    BY <1>1, <2>1 DEF Descending
  <2> QED
    BY <1>3, <2>2 DEF PartOf
<1> QED
  BY <1>2, <1>3, <1>4, <1>5 DEF PartOf

\* What a page holds: the newest calls behind the cursor, in order; the others
\* behind it are behind the page's own cursor.
LEMMA PageIsList ==
  ASSUME NEW S \in SUBSET Calls, NEW before \in 0..N, NEW limit \in Nat \ {0}
  PROVE  /\ GoodList(Page(S, before, limit))
         /\ \A i \in 1..Len(Page(S, before, limit).calls) :
              Page(S, before, limit).calls[i] \in Behind(S, before)
         /\ \A c \in Behind(S, before) : Reaches(Page(S, before, limit), c)
         /\ Page(S, before, limit).next # End =>
              Page(S, before, limit).next \in Behind(S, before)
<1> DEFINE B == Behind(S, before)
           rows == Newest(B)
           page == Page(S, before, limit)
<1>1. B \in SUBSET Calls
  BY DEF Behind
<1>2. /\ rows \in Seq(Calls) /\ Descending(rows)
      /\ \A i \in 1..Len(rows) : rows[i] \in B
      /\ \A c \in B : \E i \in 1..Len(rows) : rows[i] = c
  BY <1>1, NewestIsOrdered
<1>3. Len(rows) \in Nat
  BY <1>2, LenProperties
<1>4. N \in Nat /\ Calls = 1..N /\ End = 0
  BY HistoryBounds DEF Calls, End
<1>5. page = IF Len(rows) < limit THEN [calls |-> rows, next |-> End]
             ELSE [calls |-> SubSeq(rows, 1, limit), next |-> rows[limit]]
  BY DEF Page
<1> HIDE DEF rows, page, B
<1>6. CASE Len(rows) < limit
  <2>1. page.calls = rows /\ page.next = End
    BY <1>5, <1>6
  <2> QED
    BY <1>2, <1>4, <2>1 DEF GoodList, Reaches, page, B
<1>7. CASE ~(Len(rows) < limit)
  <2> DEFINE t == SubSeq(rows, 1, limit)
  <2>1. page.calls = t /\ page.next = rows[limit]
    BY <1>5, <1>7
  <2>2. limit \in 1..Len(rows)
    BY <1>3, <1>7
  <2>3. /\ t \in Seq(Calls) /\ Len(t) = limit
        /\ \A i \in 1..limit : t[i] = rows[i]
    <3>1. \A i \in 1..limit : rows[i] \in Calls
      BY <1>1, <1>2, <2>2
    <3>2. /\ t \in Seq(Calls)
          /\ Len(t) = IF 1 <= limit THEN limit - 1 + 1 ELSE 0
          /\ \A i \in 1..(limit - 1 + 1) : t[i] = rows[1 + i - 1]
      BY <3>1, SubSeqProperties
    <3> QED
      BY <3>2
  <2> HIDE DEF t
  <2>4. rows[limit] \in B /\ rows[limit] \in Calls
    BY <1>1, <1>2, <2>2
  <2>5. Descending(t)
    BY <1>2, <2>2, <2>3 DEF Descending
  <2>6. \A i \in 1..limit : t[i] >= rows[limit]
    <3> TAKE i \in 1..limit
    <3>1. i = limit \/ rows[i] > rows[limit]
      BY <1>2, <2>2 DEF Descending
    <3>2. rows[i] \in Int /\ rows[limit] \in Int
      BY <1>1, <1>2, <1>4, <2>2
    <3> QED
      BY <2>3, <3>1, <3>2
  <2>7. GoodList(page)
    BY <1>4, <2>1, <2>3, <2>4, <2>5, <2>6 DEF GoodList
  <2>8. ASSUME NEW c \in B
        PROVE  Reaches(page, c)
    <3>1. PICK i \in 1..Len(rows) : rows[i] = c
      BY <1>2
    <3>2. CASE i <= limit
      <4>1. i \in 1..Len(page.calls) /\ page.calls[i] = c
        BY <2>1, <2>2, <2>3, <3>1, <3>2
      <4> QED
        BY <4>1 DEF Reaches
    <3>3. CASE limit < i
      <4>1. c < rows[limit]
        BY <1>1, <1>2, <1>4, <2>2, <3>1, <3>3 DEF Descending
      <4>2. rows[limit] # End
        BY <1>4, <2>4
      <4> QED
        BY <2>1, <4>1, <4>2 DEF Reaches
    <3> QED
      BY <3>2, <3>3, <2>2
  <2> QED
    BY <1>2, <2>1, <2>2, <2>3, <2>4, <2>7, <2>8 DEF page, B
<1> QED
  BY <1>6, <1>7

\* A row is a number.
LEMMA RowsAreNumbers ==
  ASSUME NEW s \in Seq(Calls), NEW i \in 1..Len(s)
  PROVE  s[i] \in Calls /\ s[i] \in Nat
<1>1. s[i] \in Calls
  BY ElementOfSeq
<1> QED
  BY <1>1, HistoryBounds DEF Calls

\* One list after another, every row of which is older than those of the first.
LEMMA JoinIsOrdered ==
  ASSUME NEW s \in Seq(Calls), NEW t \in Seq(Calls), NEW e \in Int,
         Descending(s), Descending(t),
         \A i \in 1..Len(s) : s[i] >= e, \A i \in 1..Len(t) : t[i] < e
  PROVE  /\ s \o t \in Seq(Calls)
         /\ Len(s) \in Nat /\ Len(s \o t) >= Len(s)
         /\ Descending(s \o t)
         /\ \A i \in 1..Len(s) : (s \o t)[i] = s[i]
         /\ \A k \in 1..Len(t) : \E i \in 1..Len(s \o t) : (s \o t)[i] = t[k]
         /\ \A i \in 1..Len(s \o t) :
              \/ i \in 1..Len(s) /\ (s \o t)[i] = s[i]
              \/ \E k \in 1..Len(t) : (s \o t)[i] = t[k]
<1> DEFINE u == s \o t
           m == Len(s)
           n == Len(t)
<1>1. m \in Nat /\ n \in Nat
  BY LenProperties
<1>2. /\ u \in Seq(Calls) /\ Len(u) = m + n
      /\ \A i \in 1..(m + n) : u[i] = IF i <= m THEN s[i] ELSE t[i - m]
  BY ConcatProperties
<1>3. /\ \A i \in 1..m : s[i] \in Int /\ s[i] >= e
      /\ \A i \in 1..n : t[i] \in Int /\ t[i] < e
  BY RowsAreNumbers
<1>4. /\ \A i, j \in 1..m : i < j => s[i] > s[j]
      /\ \A i, j \in 1..n : i < j => t[i] > t[j]
  BY DEF Descending
<1> HIDE DEF u, m, n
<1>5. ASSUME NEW i \in 1..(m + n), NEW j \in 1..(m + n), i < j
      PROVE  u[i] > u[j]
  <2>1. CASE j <= m
    BY <1>1, <1>2, <1>4, <1>5, <2>1
  <2>2. CASE i <= m /\ m < j
    <3>1. u[i] = s[i] /\ u[j] = t[j - m] /\ i \in 1..m /\ j - m \in 1..n
      BY <1>1, <1>2, <2>2
    <3> QED
      BY <1>3, <3>1
  <2>3. CASE m < i
    <3>1. /\ u[i] = t[i - m] /\ u[j] = t[j - m]
          /\ i - m \in 1..n /\ j - m \in 1..n /\ i - m < j - m
      BY <1>1, <1>2, <1>5, <2>3
    <3> QED
      BY <1>4, <3>1
  <2> QED
    BY <1>1, <2>1, <2>2, <2>3
<1>6. ASSUME NEW k \in 1..n
      PROVE  \E i \in 1..(m + n) : u[i] = t[k]
  <2>1. m + k \in 1..(m + n) /\ ~(m + k <= m) /\ (m + k) - m = k
    BY <1>1
  <2> QED
    BY <1>2, <2>1
<1>7. ASSUME NEW i \in 1..(m + n)
      PROVE  \/ i \in 1..m /\ u[i] = s[i]
             \/ \E k \in 1..n : u[i] = t[k]
  <2>1. CASE i <= m
    BY <1>1, <1>2, <2>1
  <2>2. CASE m < i
    <3>1. i - m \in 1..n /\ u[i] = t[i - m]
      BY <1>1, <1>2, <2>2
    <3> QED
      BY <3>1
  <2> QED
    BY <1>1, <2>1, <2>2
<1>8. \A i \in 1..m : u[i] = s[i]
  BY <1>1, <1>2
<1> QED
  BY <1>1, <1>2, <1>5, <1>6, <1>7, <1>8 DEF Descending, u, m, n

\* A page that follows on from a list makes a list that reaches what either did.
LEMMA PageFollows ==
  ASSUME NEW l, GoodList(l), l.next # End,
         NEW page, GoodList(page),
         \A i \in 1..Len(page.calls) : page.calls[i] < l.next,
         page.next # End => page.next < l.next,
         NEW m, m.calls = l.calls \o page.calls, m.next = page.next
  PROVE  /\ GoodList(m)
         /\ Len(l.calls) \in Nat /\ Len(m.calls) >= Len(l.calls)
         /\ \A i \in 1..Len(l.calls) : m.calls[i] = l.calls[i]
         /\ \A c : Reaches(page, c) => Reaches(m, c)
<1> DEFINE s == l.calls
           t == page.calls
<1>1. /\ s \in Seq(Calls) /\ t \in Seq(Calls) /\ l.next \in Int /\ page.next \in 0..N
      /\ Descending(s) /\ Descending(t)
      /\ \A i \in 1..Len(s) : s[i] >= l.next
      /\ \A i \in 1..Len(t) : t[i] < l.next
      /\ page.next # End => \A i \in 1..Len(t) : t[i] >= page.next
  BY HistoryBounds DEF GoodList, End
<1>2. /\ s \o t \in Seq(Calls)
      /\ Len(s) \in Nat /\ Len(s \o t) >= Len(s)
      /\ Descending(s \o t)
      /\ \A i \in 1..Len(s) : (s \o t)[i] = s[i]
      /\ \A k \in 1..Len(t) : \E i \in 1..Len(s \o t) : (s \o t)[i] = t[k]
      /\ \A i \in 1..Len(s \o t) :
           \/ i \in 1..Len(s) /\ (s \o t)[i] = s[i]
           \/ \E k \in 1..Len(t) : (s \o t)[i] = t[k]
  BY <1>1, JoinIsOrdered
<1>3. ASSUME page.next # End, NEW i \in 1..Len(s \o t)
      PROVE  (s \o t)[i] >= page.next
  <2>1. page.next \in Int /\ page.next < l.next
    BY <1>1, <1>3, HistoryBounds
  <2>2. CASE i \in 1..Len(s) /\ (s \o t)[i] = s[i]
    <3>1. s[i] \in Int /\ s[i] >= l.next
      <4> HIDE DEF s
      <4> QED
        BY <1>1, <2>2, RowsAreNumbers
    <3> QED
      BY <1>1, <2>1, <2>2, <3>1
  <2>3. CASE \E k \in 1..Len(t) : (s \o t)[i] = t[k]
    BY <1>1, <1>3, <2>3
  <2> QED
    BY <1>2, <2>2, <2>3
<1>4. m.calls = s \o t
  OBVIOUS
<1> HIDE DEF s, t
<1>5. GoodList(m)
  BY <1>1, <1>2, <1>3, <1>4 DEF GoodList
<1>6. ASSUME NEW c, Reaches(page, c)
      PROVE  Reaches(m, c)
  <2>1. CASE page.next # End /\ c < page.next
    BY <2>1 DEF Reaches
  <2>2. CASE \E k \in 1..Len(t) : t[k] = c
    <3>1. PICK k \in 1..Len(t) : t[k] = c
      BY <2>2
    <3>2. PICK i \in 1..Len(s \o t) : (s \o t)[i] = t[k]
      BY <1>2
    <3>3. i \in 1..Len(m.calls) /\ m.calls[i] = c
      BY <1>4, <3>1, <3>2
    <3> QED
      BY <3>3 DEF Reaches
  <2> QED
    BY <1>6, <2>1, <2>2 DEF Reaches, t
<1> QED
  BY <1>2, <1>4, <1>5, <1>6 DEF s, t

\* What a merge makes: the fresh page, then rows that were held; it reaches what
\* the page reaches and, of that, what the list reached if it is the same one.
LEMMA MergeIsList ==
  ASSUME NEW held, GoodList(held),
         NEW page, GoodList(page), page.next \in 0..N,
         NEW f
  PROVE  /\ GoodList(MergeFirstPage(held, page, f))
         /\ f \in Filters => MergeFirstPage(held, page, f) \in ListType
         /\ MergeFirstPage(held, page, f).filters = f
         /\ Len(page.calls) \in Nat
         /\ Len(MergeFirstPage(held, page, f).calls) >= Len(page.calls)
         /\ \A i \in 1..Len(page.calls) :
              MergeFirstPage(held, page, f).calls[i] = page.calls[i]
         /\ \A c \in Calls :
              Reaches(page, c) /\ (held.filters = f => Reaches(held, c))
                => Reaches(MergeFirstPage(held, page, f), c)
<1> DEFINE kept == Among(held.calls, Behind(Calls, page.next))
           m == MergeFirstPage(held, page, f)
<1>1. /\ held.calls \in Seq(Calls) /\ held.next \in 0..N /\ Descending(held.calls)
      /\ held.next # End =>
           \A i \in 1..Len(held.calls) : held.calls[i] >= held.next
  BY DEF GoodList
<1>2. /\ page.calls \in Seq(Calls) /\ Descending(page.calls)
      /\ page.next # End =>
           \A i \in 1..Len(page.calls) : page.calls[i] >= page.next
  BY DEF GoodList
<1>3. kept \in Seq(Calls)
      /\ \E p : PartOf(p, kept, held.calls, Behind(Calls, page.next), Len(held.calls))
  BY <1>1, AmongIsPart
<1>4. /\ Len(page.calls) \in Nat /\ Len(kept) \in Nat
      /\ N \in Nat /\ Calls = 1..N /\ End = 0
  BY <1>2, <1>3, LenProperties, HistoryBounds DEF Calls, End
<1>5. m = IF held.filters = f /\ page.next # End /\ kept # <<>>
            THEN [filters |-> f, calls |-> page.calls \o kept, next |-> held.next]
            ELSE [filters |-> f, calls |-> page.calls, next |-> page.next]
  BY DEF MergeFirstPage
<1> HIDE DEF kept, m
<1>6. CASE ~(held.filters = f /\ page.next # End /\ kept # <<>>)
  <2>1. /\ m.filters = f /\ m.calls = page.calls /\ m.next = page.next
        /\ f \in Filters => m \in ListType
    BY <1>2, <1>5, <1>6 DEF ListType
  <2> QED
    BY <1>4, <2>1 DEF GoodList, Reaches, m
<1>7. CASE held.filters = f /\ page.next # End /\ kept # <<>>
  <2>1. m.filters = f /\ m.calls = page.calls \o kept /\ m.next = held.next
    BY <1>5, <1>7
  <2>2. PICK p : PartOf(p, kept, held.calls, Behind(Calls, page.next), Len(held.calls))
    BY <1>3
  <2>3. /\ \A k \in 1..Len(kept) : /\ p[k] \in 1..Len(held.calls)
                                   /\ kept[k] = held.calls[p[k]]
                                   /\ kept[k] \in Calls /\ kept[k] < page.next
        /\ \A j, k \in 1..Len(kept) : j < k => p[j] < p[k]
        /\ \A i \in 1..Len(held.calls) : held.calls[i] \in Behind(Calls, page.next) =>
             \E k \in 1..Len(kept) : p[k] = i
    BY <1>7, <2>2 DEF PartOf, Behind
  <2>4. Descending(kept)
    BY <1>1, <2>3 DEF Descending
  <2>5. /\ page.calls \o kept \in Seq(Calls)
        /\ Len(page.calls \o kept) >= Len(page.calls)
        /\ Descending(page.calls \o kept)
        /\ \A i \in 1..Len(page.calls) : (page.calls \o kept)[i] = page.calls[i]
        /\ \A k \in 1..Len(kept) :
             \E i \in 1..Len(page.calls \o kept) : (page.calls \o kept)[i] = kept[k]
        /\ \A i \in 1..Len(page.calls \o kept) :
             \/ i \in 1..Len(page.calls) /\ (page.calls \o kept)[i] = page.calls[i]
             \/ \E k \in 1..Len(kept) : (page.calls \o kept)[i] = kept[k]
    <3>1. page.next \in Int
      BY <1>4
    <3> QED
      <4>1. /\ page.calls \in Seq(Calls) /\ kept \in Seq(Calls)
            /\ Descending(page.calls) /\ Descending(kept)
            /\ \A i \in 1..Len(page.calls) : page.calls[i] >= page.next
            /\ \A i \in 1..Len(kept) : kept[i] < page.next
        BY <1>2, <1>3, <1>7, <2>3, <2>4
      <4> QED
        BY <3>1, <4>1, JoinIsOrdered
  <2>6. ASSUME held.next # End, NEW i \in 1..Len(page.calls \o kept)
        PROVE  (page.calls \o kept)[i] >= held.next
    <3>1. \A k \in 1..Len(kept) : kept[k] >= held.next
      BY <1>1, <2>3, <2>6
    <3>2. CASE i \in 1..Len(page.calls) /\ (page.calls \o kept)[i] = page.calls[i]
      <4>1. 1 \in 1..Len(kept)
        BY <1>3, <1>4, <1>7, EmptySeq
      <4>2. kept[1] >= held.next /\ kept[1] < page.next /\ kept[1] \in Int
        BY <1>4, <2>3, <3>1, <4>1
      <4>3. page.calls[i] >= page.next /\ page.calls[i] \in Int
        BY <1>2, <1>4, <1>7, <3>2, ElementOfSeq
      <4> QED
        BY <1>1, <1>4, <3>2, <4>2, <4>3
    <3> QED
      BY <2>5, <3>1, <3>2
  <2>7. GoodList(m) /\ (f \in Filters => m \in ListType)
    <3>1. f \in Filters => m \in ListType
      BY <1>1, <1>5, <1>7, <2>5 DEF ListType
    <3> QED
      BY <1>1, <2>1, <2>5, <2>6, <3>1 DEF GoodList
  <2>8. ASSUME NEW c \in Calls, Reaches(page, c), Reaches(held, c)
        PROVE  Reaches(m, c)
    <3>1. CASE \E i \in 1..Len(page.calls) : page.calls[i] = c
      <4>1. PICK i \in 1..Len(page.calls) : page.calls[i] = c
        BY <3>1
      <4>2. i \in 1..Len(page.calls \o kept) /\ (page.calls \o kept)[i] = c
        <5>1. Len(page.calls \o kept) \in Nat
          BY <2>5, LenProperties
        <5> QED
          BY <1>4, <2>5, <4>1, <5>1
      <4> QED
        BY <2>1, <4>2 DEF Reaches
    <3>2. CASE page.next # End /\ c < page.next
      <4>1. CASE held.next # End /\ c < held.next
        BY <2>1, <4>1 DEF Reaches
      <4>2. CASE \E i \in 1..Len(held.calls) : held.calls[i] = c
        <5>1. PICK i \in 1..Len(held.calls) : held.calls[i] = c
          BY <4>2
        <5>2. c \in Behind(Calls, page.next)
          BY <3>2 DEF Behind
        <5>3. PICK k \in 1..Len(kept) : p[k] = i
          BY <2>3, <5>1, <5>2
        <5>4. kept[k] = c
          <6>1. kept[k] = held.calls[p[k]]
            BY <2>3
          <6> QED
            BY <5>1, <5>3, <6>1
        <5>5. PICK j \in 1..Len(page.calls \o kept) : (page.calls \o kept)[j] = kept[k]
          BY <2>5
        <5>6. j \in 1..Len(m.calls) /\ m.calls[j] = c
          BY <2>1, <5>4, <5>5
        <5> QED
          BY <5>6 DEF Reaches
      <4> QED
        BY <2>8, <4>1, <4>2 DEF Reaches
    <3> QED
      BY <2>8, <3>1, <3>2 DEF Reaches
  <2> QED
    BY <1>4, <1>7, <2>1, <2>5, <2>7, <2>8 DEF m
<1> QED
  BY <1>6, <1>7

-----------------------------------------------------------------------------
(* The inductive invariant. *)

\* What a request asks for; only an open view has one for the first page.
RequestsInv ==
  /\ first # NoRequest => first.before = End /\ first.limit >= PageSize /\ enabled
  /\ older # NoRequest => older.before # End

\* The rows that were there ever since are in the table, still found, and in
\* every answer given since.
StartInv ==
  /\ start # {} => loaded.filters \in Filters /\ start \subseteq Matching(loaded.filters)
  /\ first.rows # NoRows /\ first.filters = loaded.filters => start \subseteq first.rows
  /\ older.rows # NoRows /\ ~older.missed /\ older.filters = loaded.filters
       => start \subseteq older.rows

\* An answer is what the table holds, unless a change came since.
FreshInv ==
  first # NoRequest /\ first.rows # NoRows /\ ~first.missed /\ ~due
    => first.rows = Matching(first.filters)

HistoryInv ==
  /\ HistoryTypeOK
  /\ GoodList(loaded)
  /\ RequestsInv
  /\ StartInv
  /\ OnlyOldPagesSkip
  /\ FreshInv
  /\ FirstPageIsCurrent

\* What a call's being within reach says of the list.
LEMMA InReachOfList ==
  ASSUME NEW c, loaded.calls \in Seq(Calls)
  PROVE  InReach(c) <=> Reaches(loaded, c)
<1>1. DOMAIN loaded.calls = 1..Len(loaded.calls)
  BY LenProperties
<1> QED
  BY <1>1 DEF InReach, Reaches, ToSet

LEMMA InReachOfNewList ==
  ASSUME NEW c, loaded'.calls \in Seq(Calls)
  PROVE  InReach(c)' <=> Reaches(loaded', c)
<1>1. DOMAIN loaded'.calls = 1..Len(loaded'.calls)
  BY LenProperties
<1> QED
  BY <1>1 DEF InReach, Reaches, ToSet

\* Requests as records: no request has no answer.
LEMMA NoRequestIsOpen ==
  /\ NoRequest.rows = NoRows /\ NoRequest.missed = FALSE
  /\ \A S \in SUBSET Calls : S # NoRows
<1>1. 0 \notin Calls
  BY HistoryBounds DEF Calls
<1> QED
  BY <1>1 DEF NoRequest, Request, NoRows

\* A change of the table or of what is found, told or not.
LEMMA ChangeKeepsInv ==
  ASSUME HistoryInv, NEW told \in BOOLEAN, Changed(told),
         table' \subseteq Calls, matches' \subseteq Calls
  PROVE  HistoryInv'
<1>1. /\ HistoryTypeOK /\ GoodList(loaded) /\ RequestsInv /\ StartInv
      /\ OnlyOldPagesSkip /\ FreshInv /\ FirstPageIsCurrent
  BY DEF HistoryInv
<1>2. /\ first.rows = NoRows /\ first' = first
      \/ /\ first.rows # NoRows /\ first # NoRequest /\ first \in RequestType
         /\ told /\ first' = first
      \/ /\ first.rows # NoRows /\ first # NoRequest /\ first \in RequestType
         /\ ~told /\ first' = [first EXCEPT !.missed = TRUE]
  BY <1>1, NoRequestIsOpen DEF Changed, HistoryTypeOK
<1>3. HistoryTypeOK'
  <2>1. changes' \in 0..MaxChanges
    BY <1>1, HistoryBounds DEF HistoryTypeOK, Changed
  <2>2. due' \in BOOLEAN /\ untold' \in BOOLEAN
    BY DEF Changed
  <2>3. first' \in RequestType \cup {NoRequest}
    BY <1>1, <1>2 DEF HistoryTypeOK, RequestType
  <2>4. start' \subseteq Calls
    BY <1>1 DEF HistoryTypeOK, Changed
  <2> QED
    BY <1>1, <2>1, <2>2, <2>3, <2>4 DEF HistoryTypeOK, Changed
<1>4. GoodList(loaded)'
  BY <1>1 DEF Changed, GoodList, Descending
<1>5. RequestsInv'
  BY <1>1, <1>2 DEF RequestsInv, Changed, RequestType
<1>6. StartInv'
  BY <1>1, <1>2 DEF StartInv, Changed, RequestType, Matching, Filters
<1>7. OnlyOldPagesSkip'
  BY <1>1 DEF OnlyOldPagesSkip, NoRowIsSkipped, InReach, Changed
<1>8. FreshInv'
  BY <1>2 DEF FreshInv, Changed, RequestType
<1>9. FirstPageIsCurrent'
  BY DEF FirstPageIsCurrent, Settled, Changed
<1> QED
  BY <1>3, <1>4, <1>5, <1>6, <1>7, <1>8, <1>9 DEF HistoryInv

\* An event that is lost.
LEMMA EventLostKeepsInv ==
  ASSUME HistoryInv, EventLost
  PROVE  HistoryInv'
<1>1. /\ HistoryTypeOK /\ GoodList(loaded) /\ RequestsInv /\ StartInv
      /\ OnlyOldPagesSkip /\ FreshInv /\ FirstPageIsCurrent
  BY DEF HistoryInv
<1>2. \/ first.rows = NoRows /\ first' = first
      \/ /\ first.rows # NoRows /\ first # NoRequest /\ first \in RequestType
         /\ first' = [first EXCEPT !.missed = TRUE]
  BY <1>1, NoRequestIsOpen DEF EventLost, HistoryTypeOK
<1>3. HistoryTypeOK'
  BY <1>1, <1>2 DEF HistoryTypeOK, EventLost, RequestType
<1>4. GoodList(loaded)'
  BY <1>1 DEF EventLost, GoodList, Descending
<1>5. RequestsInv'
  BY <1>1, <1>2 DEF RequestsInv, EventLost, RequestType
<1>6. StartInv'
  BY <1>1, <1>2 DEF StartInv, EventLost, RequestType, Matching, Filters
<1>7. OnlyOldPagesSkip'
  BY <1>1 DEF OnlyOldPagesSkip, NoRowIsSkipped, InReach, EventLost
<1>8. FreshInv'
  BY <1>2 DEF FreshInv, EventLost, RequestType
<1>9. FirstPageIsCurrent'
  BY DEF FirstPageIsCurrent, Settled, EventLost
<1> QED
  BY <1>3, <1>4, <1>5, <1>6, <1>7, <1>8, <1>9 DEF HistoryInv

\* A request for the first page is within the server's bounds.
LEMMA LimitIsInBounds ==
  ASSUME NEW f, loaded.calls \in Seq(Calls)
  PROVE  Limit(f) \in 1..MaxPage /\ Limit(f) >= PageSize
<1> DEFINE held == IF loaded.filters = f THEN Len(loaded.calls) ELSE 0
<1>1. held \in Nat
  BY LenProperties
<1> HIDE DEF held
<1>2. Limit(f) = Smaller(MaxPage, IF held < PageSize THEN PageSize ELSE held)
  BY DEF Limit, held
<1> QED
  BY <1>1, <1>2, PagesAssumption DEF Smaller


\* It is a request without an answer.
LEMMA NewRequestIsTyped ==
  ASSUME NEW f \in Filters, loaded.calls \in Seq(Calls)
  PROVE  /\ Request(f, End, Limit(f)) \in RequestType
         /\ Request(f, End, Limit(f)) # NoRequest
         /\ Request(f, End, Limit(f)).rows = NoRows
         /\ Request(f, End, Limit(f)).before = End
         /\ Request(f, End, Limit(f)).limit >= PageSize
<1>1. Limit(f) \in 1..MaxPage /\ Limit(f) >= PageSize
  BY LimitIsInBounds
<1>2. 0 \in 0..N /\ f # "none"
  BY HistoryBounds DEF Filters
<1> QED
  BY <1>1, <1>2 DEF Request, RequestType, NoRequest, End

\* What the requests and the view's inputs leave alone.
SameList ==
  UNCHANGED <<table, matches, changes, loaded, older, error, historyVars>>

\* A new request for the first page of an open view, whatever it is for.
LEMMA NewRequestKeepsInv ==
  ASSUME HistoryInv, NEW f \in Filters,
         first' = Request(f, End, Limit(f)), filters' = f, enabled' = TRUE,
         due' \in BOOLEAN, inputs' \in 0..MaxInputs, SameList
  PROVE  HistoryInv'
<1>1. /\ HistoryTypeOK /\ GoodList(loaded) /\ RequestsInv /\ StartInv /\ OnlyOldPagesSkip
  BY DEF HistoryInv
<1>2. /\ first' \in RequestType /\ first' # NoRequest /\ first'.rows = NoRows
      /\ first'.before = End /\ first'.limit >= PageSize
  BY <1>1, NewRequestIsTyped DEF GoodList
<1>3. HistoryTypeOK'
  BY <1>1, <1>2 DEF HistoryTypeOK, SameList, historyVars
<1>4. GoodList(loaded)'
  BY <1>1 DEF GoodList, Descending, SameList
<1>5. RequestsInv'
  BY <1>1, <1>2 DEF RequestsInv, SameList
<1>6. StartInv'
  BY <1>1, <1>2 DEF StartInv, SameList, historyVars, Matching
<1>7. OnlyOldPagesSkip'
  BY <1>1 DEF OnlyOldPagesSkip, NoRowIsSkipped, InReach, SameList, historyVars
<1>8. FreshInv'
  BY <1>2 DEF FreshInv
<1>9. FirstPageIsCurrent'
  BY <1>2 DEF FirstPageIsCurrent, Settled
<1> QED
  BY <1>3, <1>4, <1>5, <1>6, <1>7, <1>8, <1>9 DEF HistoryInv

\* A view that is closed, or stays closed.
LEMMA ClosedKeepsInv ==
  ASSUME HistoryInv, enabled' = FALSE, first' = NoRequest, filters' \in Filters,
         due' \in BOOLEAN, inputs' \in 0..MaxInputs, SameList
  PROVE  HistoryInv'
<1>1. /\ HistoryTypeOK /\ GoodList(loaded) /\ RequestsInv /\ StartInv /\ OnlyOldPagesSkip
  BY DEF HistoryInv
<1>2. first'.rows = NoRows
  BY NoRequestIsOpen
<1>3. HistoryTypeOK'
  BY <1>1 DEF HistoryTypeOK, SameList, historyVars
<1>4. GoodList(loaded)'
  BY <1>1 DEF GoodList, Descending, SameList
<1>5. RequestsInv'
  BY <1>1 DEF RequestsInv, SameList
<1>6. StartInv'
  BY <1>1, <1>2 DEF StartInv, SameList, historyVars, Matching
<1>7. OnlyOldPagesSkip'
  BY <1>1 DEF OnlyOldPagesSkip, NoRowIsSkipped, InReach, SameList, historyVars
<1>8. FreshInv'
  BY DEF FreshInv
<1>9. FirstPageIsCurrent'
  BY DEF FirstPageIsCurrent, Settled
<1> QED
  BY <1>3, <1>4, <1>5, <1>6, <1>7, <1>8, <1>9 DEF HistoryInv

\* A tick, and everything the operator does.
LEMMA TickKeepsInv ==
  ASSUME HistoryInv, Tick
  PROVE  HistoryInv'
<1>1. HistoryTypeOK /\ RequestsInv
  BY DEF HistoryInv
<1>2. /\ SameList /\ due' \in BOOLEAN /\ inputs' \in 0..MaxInputs
      /\ filters \in Filters /\ filters' = filters /\ enabled' = enabled
  BY <1>1 DEF Tick, SameList, HistoryTypeOK
<1>3. CASE enabled
  BY <1>2, <1>3, <1>1, NewRequestKeepsInv DEF Tick, ReadFirst, HistoryTypeOK
<1>4. CASE ~enabled
  BY <1>2, <1>4, <1>1, ClosedKeepsInv DEF Tick, RequestsInv, HistoryTypeOK
<1> QED
  BY <1>3, <1>4

LEMMA InputKeepsInv ==
  ASSUME HistoryInv,
         Open \/ Close \/ Refresh \/ \E f \in Filters : Choose(f)
  PROVE  HistoryInv'
<1>1. HistoryTypeOK /\ RequestsInv
  BY DEF HistoryInv
<1>2. Input
  BY DEF Open, Close, Refresh, Choose
<1>3. /\ SameList /\ due' \in BOOLEAN /\ inputs' \in 0..MaxInputs /\ filters \in Filters
  BY <1>1, <1>2, HistoryBounds DEF Input, SameList, serverVars, HistoryTypeOK
<1>4. CASE Open
  BY <1>3, <1>4, NewRequestKeepsInv DEF Open, ReadFirst
<1>5. CASE Close
  BY <1>3, <1>5, ClosedKeepsInv DEF Close
<1>6. CASE Refresh
  <2>1. enabled' = TRUE
    BY <1>1, <1>6 DEF Refresh, HistoryTypeOK
  <2> QED
    BY <1>3, <1>6, <2>1, NewRequestKeepsInv DEF Refresh, ReadFirst
<1>7. ASSUME NEW f \in Filters, Choose(f)
      PROVE  HistoryInv'
  <2>1. CASE enabled
    <3>1. enabled' = TRUE
      BY <1>1, <1>7, <2>1 DEF Choose, HistoryTypeOK
    <3> QED
      BY <1>3, <1>7, <2>1, <3>1, NewRequestKeepsInv DEF Choose, ReadFirst
  <2>2. CASE ~enabled
    <3>1. enabled' = FALSE
      BY <1>1, <1>7, <2>2 DEF Choose, HistoryTypeOK
    <3>2. first' = NoRequest /\ filters' \in Filters
      BY <1>1, <1>7, <2>2 DEF Choose, RequestsInv
    <3> QED
      BY <1>3, <3>1, <3>2, ClosedKeepsInv
  <2> QED
    BY <2>1, <2>2
<1> QED
  BY <1>4, <1>5, <1>6, <1>7

-----------------------------------------------------------------------------
(* The top of the list. *)

\* A beginning is told row by row.
LEMMA PrefixByRow ==
  ASSUME NEW s \in Seq(Calls), NEW t \in Seq(Calls)
  PROVE  IsPrefix(s, t) <=> /\ Len(s) <= Len(t)
                            /\ \A i \in 1..Len(s) : s[i] = t[i]
<1>1. Len(s) \in Nat /\ Len(t) \in Nat
  BY LenProperties
<1> DEFINE m == Len(s)
<1>2. CASE m <= Len(t)
  <2>1. \A i \in 1..m : s[i] \in Calls /\ t[i] \in Calls
    BY <1>1, <1>2, ElementOfSeq
  <2>2. /\ SubSeq(s, 1, m) \in Seq(Calls) /\ Len(SubSeq(s, 1, m)) = m
        /\ \A i \in 1..m : SubSeq(s, 1, m)[i] = s[i]
    <3>1. /\ SubSeq(s, 1, m) \in Seq(Calls)
          /\ Len(SubSeq(s, 1, m)) = IF 1 <= m THEN m - 1 + 1 ELSE 0
          /\ \A i \in 1..(m - 1 + 1) : SubSeq(s, 1, m)[i] = s[1 + i - 1]
      BY <1>1, <2>1, SubSeqProperties
    <3> QED
      BY <1>1, <3>1
  <2>3. /\ SubSeq(t, 1, m) \in Seq(Calls) /\ Len(SubSeq(t, 1, m)) = m
        /\ \A i \in 1..m : SubSeq(t, 1, m)[i] = t[i]
    <3>1. /\ SubSeq(t, 1, m) \in Seq(Calls)
          /\ Len(SubSeq(t, 1, m)) = IF 1 <= m THEN m - 1 + 1 ELSE 0
          /\ \A i \in 1..(m - 1 + 1) : SubSeq(t, 1, m)[i] = t[1 + i - 1]
      BY <1>1, <2>1, SubSeqProperties
    <3> QED
      BY <1>1, <3>1
  <2>4. SubSeq(s, 1, m) = SubSeq(t, 1, m) <=> \A i \in 1..m : s[i] = t[i]
    BY <2>2, <2>3, SeqEqual
  <2> QED
    BY <1>2, <2>4 DEF IsPrefix
<1>3. CASE ~(m <= Len(t))
  BY <1>3 DEF IsPrefix
<1> QED
  BY <1>2, <1>3

\* A page with more rows starts with those of a page of PageSize.
LEMMA TopOfPage ==
  ASSUME NEW S \in SUBSET Calls, NEW limit \in Nat, limit >= PageSize
  PROVE  /\ Page(S, End, PageSize).calls \in Seq(Calls)
         /\ Len(Page(S, End, PageSize).calls) <= Len(Page(S, End, limit).calls)
         /\ \A i \in 1..Len(Page(S, End, PageSize).calls) :
              Page(S, End, PageSize).calls[i] = Page(S, End, limit).calls[i]
<1> DEFINE rows == Newest(S)
           Top(n) == IF Len(rows) < n THEN rows ELSE SubSeq(rows, 1, n)
<1>1. rows \in Seq(Calls) /\ Len(rows) \in Nat
  BY NewestIsOrdered, LenProperties
<1>2. \A n : Page(S, End, n).calls = Top(n)
  BY DEF Page, Behind
<1> HIDE DEF rows
<1>3. ASSUME NEW n \in Nat, ~(Len(rows) < n)
      PROVE  /\ SubSeq(rows, 1, n) \in Seq(Calls) /\ Len(SubSeq(rows, 1, n)) = n
             /\ \A i \in 1..n : SubSeq(rows, 1, n)[i] = rows[i]
  <2>1. \A i \in 1..n : rows[i] \in Calls
    BY <1>1, <1>3, ElementOfSeq
  <2>2. /\ SubSeq(rows, 1, n) \in Seq(Calls)
        /\ Len(SubSeq(rows, 1, n)) = IF 1 <= n THEN n - 1 + 1 ELSE 0
        /\ \A i \in 1..(n - 1 + 1) : SubSeq(rows, 1, n)[i] = rows[1 + i - 1]
    BY <2>1, SubSeqProperties
  <2> QED
    BY <2>2
<1>4. PageSize \in Nat
  BY PagesAssumption
<1>5. /\ Top(PageSize) \in Seq(Calls)
      /\ Len(Top(PageSize)) <= Len(Top(limit))
      /\ \A i \in 1..Len(Top(PageSize)) : Top(PageSize)[i] = Top(limit)[i]
  <2>1. CASE Len(rows) < PageSize
    BY <1>1, <1>4, <2>1
  <2>2. CASE ~(Len(rows) < PageSize) /\ Len(rows) < limit
    BY <1>1, <1>3, <1>4, <2>2
  <2>3. CASE ~(Len(rows) < PageSize) /\ ~(Len(rows) < limit)
    <3>1. /\ Top(PageSize) \in Seq(Calls) /\ Len(Top(PageSize)) = PageSize
          /\ \A i \in 1..PageSize : Top(PageSize)[i] = rows[i]
      BY <1>3, <1>4, <2>3
    <3>2. /\ Len(Top(limit)) = limit
          /\ \A i \in 1..limit : Top(limit)[i] = rows[i]
      BY <1>3, <2>3
    <3> HIDE DEF Top
    <3> QED
      BY <1>4, <3>1, <3>2
  <2> QED
    BY <2>1, <2>2, <2>3
<1> HIDE DEF Top
<1> QED
  BY <1>2, <1>5

-----------------------------------------------------------------------------
(* Requests and their answers. *)

\* What the filters find are calls.
LEMMA MatchingAreCalls ==
  ASSUME HistoryTypeOK, NEW f
  PROVE  Matching(f) \in SUBSET Calls
BY DEF HistoryTypeOK, Matching

\* The server answers a request for the first page.
LEMMA AnswerFirstKeepsInv ==
  ASSUME HistoryInv, AnswerFirst
  PROVE  HistoryInv'
<1>1. /\ HistoryTypeOK /\ GoodList(loaded) /\ RequestsInv /\ StartInv
      /\ OnlyOldPagesSkip /\ FreshInv
  BY DEF HistoryInv
<1>2. first \in RequestType /\ first # NoRequest
  BY <1>1 DEF AnswerFirst, HistoryTypeOK
<1>3. Matching(first.filters) \in SUBSET Calls
  BY <1>1, MatchingAreCalls
<1>4. /\ first' = [first EXCEPT !.rows = Matching(first.filters)]
      /\ first' \in RequestType /\ first'.rows = Matching(first.filters)
      /\ first'.filters = first.filters /\ first'.before = first.before
      /\ first'.limit = first.limit
  BY <1>2, <1>3 DEF AnswerFirst, RequestType
<1>5. first' # NoRequest
  BY <1>3, <1>4, NoRequestIsOpen
<1>6. HistoryTypeOK'
  BY <1>1, <1>4 DEF HistoryTypeOK, AnswerFirst, serverVars, historyVars
<1>7. GoodList(loaded)'
  BY <1>1 DEF GoodList, Descending, AnswerFirst
<1>8. RequestsInv'
  BY <1>1, <1>2, <1>4 DEF RequestsInv, AnswerFirst
<1>9. StartInv'
  BY <1>1, <1>4 DEF StartInv, AnswerFirst, serverVars, historyVars, Matching
<1>10. OnlyOldPagesSkip'
  BY <1>1 DEF OnlyOldPagesSkip, NoRowIsSkipped, InReach, AnswerFirst, historyVars
<1>11. FreshInv'
  BY <1>4 DEF FreshInv, AnswerFirst, serverVars, Matching
<1>12. FirstPageIsCurrent'
  BY <1>5 DEF FirstPageIsCurrent, Settled
<1> QED
  BY <1>6, <1>7, <1>8, <1>9, <1>10, <1>11, <1>12 DEF HistoryInv

\* The answer arrives: the list is refreshed, or started for other filters.
LEMMA FirstArrivesKeepsInv ==
  ASSUME HistoryInv, FirstArrives
  PROVE  HistoryInv'
<1> DEFINE f == first.filters
           page == Page(first.rows, End, first.limit)
<1>1. /\ HistoryTypeOK /\ GoodList(loaded) /\ RequestsInv /\ StartInv
      /\ OnlyOldPagesSkip /\ FreshInv
  BY DEF HistoryInv
<1>2. /\ first \in RequestType /\ first # NoRequest /\ first.rows # NoRows
      /\ first.rows \in SUBSET Calls /\ f \in Filters /\ first.missed \in BOOLEAN
      /\ first.limit \in Nat \ {0} /\ first.limit >= PageSize
  BY <1>1, PagesAssumption DEF FirstArrives, HistoryTypeOK, RequestType, RequestsInv
<1>3. /\ GoodList(page) /\ page.next \in 0..N
      /\ \A c \in first.rows : Reaches(page, c)
  <2>1. End \in 0..N /\ Behind(first.rows, End) = first.rows
    BY HistoryBounds DEF End, Behind
  <2>2. GoodList(page) /\ \A c \in first.rows : Reaches(page, c)
    BY <1>2, <2>1, PageIsList
  <2> QED
    BY <2>2 DEF GoodList
<1> HIDE DEF page
<1>4. loaded' = MergeFirstPage(loaded, page, f)
  BY DEF FirstArrives, page
<1>5. /\ GoodList(loaded') /\ loaded'.filters = f /\ loaded' \in ListType
      /\ Len(page.calls) \in Nat /\ Len(loaded'.calls) >= Len(page.calls)
      /\ \A i \in 1..Len(page.calls) : loaded'.calls[i] = page.calls[i]
      /\ \A c \in Calls :
           Reaches(page, c) /\ (loaded.filters = f => Reaches(loaded, c))
             => Reaches(loaded', c)
  BY <1>1, <1>2, <1>3, <1>4, MergeIsList
<1>6. loaded'.calls \in Seq(Calls) /\ loaded'.next \in 0..N
  BY <1>5 DEF GoodList
<1>7. /\ start' = IF loaded.filters = f THEN start ELSE first.rows \cap Matching(f)
      /\ first' = NoRequest /\ first'.rows = NoRows
      /\ table' = table /\ matches' = matches
  BY NoRequestIsOpen DEF FirstArrives, serverVars
<1>8. /\ older' \in RequestType \cup {NoRequest}
      /\ (older' # NoRequest => older # NoRequest)
      /\ older'.before = older.before /\ older'.filters = older.filters
      /\ older'.rows = older.rows
      /\ older'.rows # NoRows /\ ~older'.missed => older' = older /\ loaded.filters = f
  <2>1. CASE loaded.filters = f \/ older.rows = NoRows
    BY <1>1, <2>1 DEF FirstArrives, HistoryTypeOK
  <2>2. CASE ~(loaded.filters = f \/ older.rows = NoRows)
    <3>1. older \in RequestType /\ older # NoRequest
      BY <1>1, <2>2, NoRequestIsOpen DEF HistoryTypeOK
    <3>2. older' = [older EXCEPT !.missed = TRUE]
      BY <2>2 DEF FirstArrives
    <3> QED
      BY <3>1, <3>2 DEF RequestType
  <2> QED
    BY <2>1, <2>2
<1>9. HistoryTypeOK'
  <2>1. start' \subseteq Calls
    BY <1>1, <1>2, <1>7 DEF HistoryTypeOK
  <2>2. patched' \in BOOLEAN /\ untold' \in BOOLEAN /\ error' \in BOOLEAN
    BY <1>2 DEF FirstArrives
  <2> QED
    BY <1>1, <1>2, <1>5, <1>6, <1>7, <1>8, <2>1, <2>2
    DEF HistoryTypeOK, FirstArrives, serverVars
<1>10. GoodList(loaded)'
  BY <1>5 DEF GoodList, Descending
<1>11. RequestsInv'
  BY <1>1, <1>7, <1>8 DEF RequestsInv
<1>12. StartInv'
  <2>1. start' \subseteq Matching(f)
    BY <1>1, <1>7 DEF StartInv
  <2> DEFINE found == Matching(f)
  <2>3. \A g : g = f => Matching(g)' = found
    BY <1>7 DEF Matching
  <2>2. ASSUME older'.rows # NoRows, ~older'.missed, older'.filters = f
        PROVE  start' \subseteq older'.rows
    BY <1>1, <1>7, <1>8, <2>2 DEF StartInv
  <2> QED
    BY <1>2, <1>5, <1>7, <2>1, <2>2, <2>3 DEF StartInv
<1>13. OnlyOldPagesSkip'
  <2> SUFFICES ASSUME ~patched', NEW c \in start'
               PROVE  InReach(c)'
    BY DEF OnlyOldPagesSkip, NoRowIsSkipped
  <2>1. c \in Calls
    BY <1>9 DEF HistoryTypeOK
  <2>2. c \in first.rows
    BY <1>1, <1>2, <1>7 DEF StartInv
  <2>3. ASSUME loaded.filters = f
        PROVE  Reaches(loaded, c)
    <3>1. InReach(c)
      BY <1>1, <1>7, <2>3 DEF OnlyOldPagesSkip, NoRowIsSkipped, FirstArrives
    <3> QED
      BY <1>1, <3>1, InReachOfList DEF GoodList
  <2>4. Reaches(loaded', c)
    BY <1>3, <1>5, <2>1, <2>2, <2>3
  <2> QED
    BY <1>6, <2>4, InReachOfNewList
<1>14. FreshInv'
  BY <1>7 DEF FreshInv
<1>15. FirstPageIsCurrent'
  <2> SUFFICES ASSUME Settled'
               PROVE  IsPrefix(Page(Matching(f), End, PageSize).calls, loaded'.calls)
    BY <1>5, <1>7 DEF FirstPageIsCurrent, Settled, Matching, Page, Behind
  <2>1. first.rows = Matching(f)
    BY <1>1, <1>2 DEF Settled, FirstArrives, FreshInv, serverVars
  <2> DEFINE top == Page(first.rows, End, PageSize).calls
  <2>2. /\ top \in Seq(Calls) /\ Len(top) <= Len(page.calls)
        /\ \A i \in 1..Len(top) : top[i] = page.calls[i]
    BY <1>2, TopOfPage DEF page
  <2> HIDE DEF top
  <2>3. Len(top) \in Nat /\ Len(loaded'.calls) \in Nat
    BY <1>6, <2>2, LenProperties
  <2>4. Len(top) <= Len(loaded'.calls) /\ \A i \in 1..Len(top) : top[i] = loaded'.calls[i]
    BY <1>5, <2>2, <2>3
  <2>5. IsPrefix(top, loaded'.calls)
    BY <1>6, <2>2, <2>4, PrefixByRow
  <2> QED
    BY <2>1, <2>5 DEF top
<1> QED
  BY <1>9, <1>10, <1>11, <1>12, <1>13, <1>14, <1>15 DEF HistoryInv

\* A request that fails leaves the list as it is, with an error.
LEMMA FailureKeepsInv ==
  ASSUME HistoryInv, FirstFails \/ OlderFails
  PROVE  HistoryInv'
<1>1. /\ HistoryTypeOK /\ GoodList(loaded) /\ RequestsInv /\ StartInv
      /\ OnlyOldPagesSkip /\ FreshInv
  BY DEF HistoryInv
<1>2. /\ UNCHANGED <<serverVars, enabled, filters, loaded, inputs, historyVars>>
      /\ error' = TRUE
      /\ first' = first \/ first' = NoRequest
      /\ older' = older \/ older' = NoRequest
  BY DEF FirstFails, OlderFails
<1>3. HistoryTypeOK'
  BY <1>1, <1>2 DEF HistoryTypeOK, serverVars, historyVars
<1>4. GoodList(loaded)'
  BY <1>1, <1>2 DEF GoodList, Descending
<1>5. RequestsInv'
  BY <1>1, <1>2 DEF RequestsInv
<1>6. StartInv'
  BY <1>1, <1>2, NoRequestIsOpen DEF StartInv, serverVars, historyVars, Matching
<1>7. OnlyOldPagesSkip'
  BY <1>1, <1>2 DEF OnlyOldPagesSkip, NoRowIsSkipped, InReach, historyVars
<1>8. FreshInv'
  BY <1>1, <1>2 DEF FreshInv, serverVars, Matching
<1>9. FirstPageIsCurrent'
  BY <1>2 DEF FirstPageIsCurrent, Settled
<1> QED
  BY <1>3, <1>4, <1>5, <1>6, <1>7, <1>8, <1>9 DEF HistoryInv

\* A request for an older page, and its answer.
LEMMA AskOlderKeepsInv ==
  ASSUME HistoryInv, LoadOlder \/ AnswerOlder
  PROVE  HistoryInv'
<1>1. /\ HistoryTypeOK /\ GoodList(loaded) /\ RequestsInv /\ StartInv
      /\ OnlyOldPagesSkip /\ FreshInv /\ FirstPageIsCurrent
  BY DEF HistoryInv
<1>2. UNCHANGED <<serverVars, enabled, filters, loaded, first, error, inputs, historyVars>>
  BY DEF LoadOlder, AnswerOlder
<1>3. /\ older' \in RequestType /\ older'.before # End
      /\ older'.rows # NoRows => older'.rows = Matching(older'.filters)
  <2>1. CASE LoadOlder
    <3>1. PageSize \in 1..MaxPage
      BY PagesAssumption
    <3>2. loaded.next \in 0..N /\ filters \in Filters
      BY <1>1 DEF GoodList, HistoryTypeOK
    <3> QED
      BY <2>1, <3>1, <3>2 DEF LoadOlder, HasMore, Request, RequestType
  <2>2. CASE AnswerOlder
    <3>1. older \in RequestType /\ older.before # End
      BY <1>1, <2>2 DEF AnswerOlder, HistoryTypeOK, RequestsInv
    <3>2. Matching(older.filters) \in SUBSET Calls
      BY <1>1, MatchingAreCalls
    <3> QED
      BY <2>2, <3>1, <3>2 DEF AnswerOlder, RequestType
  <2> QED
    BY <2>1, <2>2
<1>4. HistoryTypeOK'
  BY <1>1, <1>2, <1>3 DEF HistoryTypeOK, serverVars, historyVars
<1>5. GoodList(loaded)'
  BY <1>1, <1>2 DEF GoodList, Descending
<1>6. RequestsInv'
  BY <1>1, <1>2, <1>3 DEF RequestsInv
<1>7. StartInv'
  BY <1>1, <1>2, <1>3 DEF StartInv, serverVars, historyVars, Matching
<1>8. OnlyOldPagesSkip'
  BY <1>1, <1>2 DEF OnlyOldPagesSkip, NoRowIsSkipped, InReach, historyVars
<1>9. FreshInv'
  BY <1>1, <1>2 DEF FreshInv, serverVars, Matching
<1>10. FirstPageIsCurrent'
  BY <1>1, <1>2
  DEF FirstPageIsCurrent, Settled, serverVars, historyVars, Matching, Page, Behind
<1> QED
  BY <1>4, <1>5, <1>6, <1>7, <1>8, <1>9, <1>10 DEF HistoryInv

\* An older page arrives, and is added if it still follows on from the list.
LEMMA OlderArrivesKeepsInv ==
  ASSUME HistoryInv, OlderArrives
  PROVE  HistoryInv'
<1> DEFINE page == Page(older.rows, older.before, older.limit)
<1>1. /\ HistoryTypeOK /\ GoodList(loaded) /\ RequestsInv /\ StartInv
      /\ OnlyOldPagesSkip /\ FreshInv /\ FirstPageIsCurrent
  BY DEF HistoryInv
<1>2. /\ older \in RequestType /\ older # NoRequest /\ older.rows # NoRows
      /\ older.rows \in SUBSET Calls /\ older.limit \in Nat \ {0}
      /\ older.before \in 0..N /\ older.before # End /\ older.missed \in BOOLEAN
  BY <1>1, PagesAssumption DEF OlderArrives, HistoryTypeOK, RequestType, RequestsInv
<1>3. /\ UNCHANGED <<serverVars, enabled, filters, first, error, inputs, start, untold>>
      /\ patched' = (patched \/ (FollowsOn /\ older.missed))
      /\ older' = NoRequest /\ older'.rows = NoRows
      /\ Matching(filters)' = Matching(filters)
  BY NoRequestIsOpen DEF OlderArrives, serverVars, Matching
<1>4. /\ GoodList(page)
      /\ \A i \in 1..Len(page.calls) : page.calls[i] < older.before
      /\ \A c \in older.rows : c < older.before => Reaches(page, c)
      /\ page.next # End => page.next < older.before
  <2>1. \A c : c \in Behind(older.rows, older.before)
                 <=> c \in older.rows /\ c < older.before
    BY <1>2 DEF Behind
  <2> HIDE DEF page
  <2>2. /\ GoodList(page)
        /\ \A i \in 1..Len(page.calls) : page.calls[i] \in Behind(older.rows, older.before)
        /\ \A c \in Behind(older.rows, older.before) : Reaches(page, c)
        /\ page.next # End => page.next \in Behind(older.rows, older.before)
    BY <1>2, PageIsList DEF page
  <2> QED
    BY <2>1, <2>2
<1>5. loaded' = IF FollowsOn
                  THEN [loaded EXCEPT !.calls = @ \o page.calls, !.next = page.next]
                  ELSE loaded
  BY DEF OlderArrives
<1> HIDE DEF page
<1>6. /\ GoodList(loaded') /\ loaded'.filters = loaded.filters /\ loaded' \in ListType
      /\ Len(loaded.calls) \in Nat /\ Len(loaded'.calls) >= Len(loaded.calls)
      /\ \A i \in 1..Len(loaded.calls) : loaded'.calls[i] = loaded.calls[i]
      /\ FollowsOn => \A c : Reaches(page, c) => Reaches(loaded', c)
  <2>1. CASE FollowsOn
    <3>1. /\ loaded'.calls = loaded.calls \o page.calls /\ loaded'.next = page.next
          /\ loaded'.filters = loaded.filters
      BY <1>1, <1>5, <2>1 DEF HistoryTypeOK, ListType
    <3>2. loaded.next = older.before
      BY <2>1 DEF FollowsOn
    <3>3. /\ GoodList(loaded')
          /\ Len(loaded.calls) \in Nat /\ Len(loaded'.calls) >= Len(loaded.calls)
          /\ \A i \in 1..Len(loaded.calls) : loaded'.calls[i] = loaded.calls[i]
          /\ \A c : Reaches(page, c) => Reaches(loaded', c)
      BY <1>1, <1>2, <1>4, <3>1, <3>2, PageFollows
    <3>4. loaded' \in ListType
      <4>1. /\ loaded.filters \in Filters \cup {"none"}
            /\ loaded' = [filters |-> loaded.filters, calls |-> loaded.calls \o page.calls,
                          next |-> page.next]
        BY <1>1, <1>5, <2>1 DEF HistoryTypeOK, ListType
      <4> QED
        BY <3>1, <3>3, <4>1 DEF ListType, GoodList
    <3> QED
      BY <3>1, <3>3, <3>4
  <2>2. CASE ~FollowsOn
    <3>1. loaded' = loaded
      BY <1>5, <2>2
    <3>2. Len(loaded.calls) \in Nat
      BY <1>1, LenProperties DEF GoodList
    <3> QED
      BY <1>1, <2>2, <3>1, <3>2 DEF HistoryTypeOK
  <2> QED
    BY <2>1, <2>2
<1>7. loaded'.calls \in Seq(Calls) /\ loaded'.next \in 0..N
  BY <1>6 DEF GoodList
<1>8. HistoryTypeOK'
  BY <1>1, <1>2, <1>3, <1>6, <1>7 DEF HistoryTypeOK, serverVars
<1>9. GoodList(loaded)'
  BY <1>6 DEF GoodList, Descending
<1>10. RequestsInv'
  BY <1>1, <1>3 DEF RequestsInv
<1>11. StartInv'
  BY <1>1, <1>3, <1>6 DEF StartInv, serverVars, Matching
<1>12. OnlyOldPagesSkip'
  <2> SUFFICES ASSUME ~patched', NEW c \in start
               PROVE  InReach(c)'
    BY <1>3 DEF OnlyOldPagesSkip, NoRowIsSkipped
  <2>1. Reaches(loaded, c)
    <3>1. InReach(c)
      BY <1>1, <1>3 DEF OnlyOldPagesSkip, NoRowIsSkipped
    <3> QED
      BY <1>1, <3>1, InReachOfList DEF GoodList
  <2>2. Reaches(loaded', c)
    <3>1. CASE \E i \in 1..Len(loaded.calls) : loaded.calls[i] = c
      <4>1. PICK i \in 1..Len(loaded.calls) : loaded.calls[i] = c
        BY <3>1
      <4>2. i \in 1..Len(loaded'.calls) /\ loaded'.calls[i] = c
        <5>1. Len(loaded'.calls) \in Nat
          BY <1>7, LenProperties
        <5> QED
          BY <1>6, <4>1, <5>1
      <4> QED
        BY <4>2 DEF Reaches
    <3>2. CASE loaded.next # End /\ c < loaded.next /\ FollowsOn
      <4>1. c \in older.rows /\ c < older.before
        BY <1>1, <1>2, <1>3, <3>2 DEF StartInv, FollowsOn
      <4> QED
        BY <1>4, <1>6, <3>2, <4>1
    <3>3. CASE ~FollowsOn
      BY <1>5, <2>1, <3>3
    <3> QED
      BY <2>1, <3>1, <3>2, <3>3 DEF Reaches
  <2> QED
    BY <1>7, <2>2, InReachOfNewList
<1>13. FreshInv'
  BY <1>1, <1>3 DEF FreshInv, serverVars, Matching
<1>14. FirstPageIsCurrent'
  <2> DEFINE top == Page(Matching(filters), End, PageSize).calls
  <2>1. top' = top
    BY <1>3 DEF Page, Behind
  <2>2. top \in Seq(Calls)
    <3>1. Matching(filters) \in SUBSET Calls
      BY <1>1, MatchingAreCalls
    <3> QED
      BY <3>1, PagesAssumption, TopOfPage
  <2> HIDE DEF top
  <2> SUFFICES ASSUME Settled'
               PROVE  IsPrefix(top, loaded'.calls)
    BY <2>1 DEF FirstPageIsCurrent, top
  <2>3. Settled
    BY <1>3, <1>6 DEF Settled, serverVars
  <2>4. IsPrefix(top, loaded.calls)
    BY <1>1, <2>3 DEF FirstPageIsCurrent, top
  <2>5. loaded.calls \in Seq(Calls)
    BY <1>1 DEF GoodList
  <2>6. Len(top) <= Len(loaded.calls) /\ \A i \in 1..Len(top) : top[i] = loaded.calls[i]
    BY <2>2, <2>4, <2>5, PrefixByRow
  <2>7. Len(top) \in Nat /\ Len(loaded'.calls) \in Nat
    BY <1>7, <2>2, LenProperties
  <2>8. Len(top) <= Len(loaded'.calls) /\ \A i \in 1..Len(top) : top[i] = loaded'.calls[i]
    BY <1>6, <2>6, <2>7
  <2> QED
    BY <1>7, <2>2, <2>8, PrefixByRow
<1> QED
  BY <1>8, <1>9, <1>10, <1>11, <1>12, <1>13, <1>14 DEF HistoryInv

-----------------------------------------------------------------------------
(* The theorems. *)

\* An empty list of other filters satisfies the invariant.
LEMMA InitHasInv ==
  Init => HistoryInv
<1> SUFFICES ASSUME Init
             PROVE  HistoryInv
  OBVIOUS
<1>1. HistoryTypeOK
  <2>1. 0 \in 0..N /\ 0 \in 0..MaxChanges /\ 0 \in 0..MaxInputs
    BY HistoryBounds
  <2>2. loaded \in ListType
    BY <2>1 DEF Init, ListType, End
  <2> QED
    BY <2>1, <2>2 DEF Init, HistoryTypeOK, Filters
<1>2. GoodList(loaded)
  BY HistoryBounds DEF Init, GoodList, Descending, End
<1>3. RequestsInv /\ StartInv /\ FreshInv
  BY NoRequestIsOpen DEF Init, RequestsInv, StartInv, FreshInv
<1>4. OnlyOldPagesSkip /\ FirstPageIsCurrent
  BY DEF Init, OnlyOldPagesSkip, NoRowIsSkipped, FirstPageIsCurrent, Settled
<1> QED
  BY <1>1, <1>2, <1>3, <1>4 DEF HistoryInv

\* Every step keeps it.
LEMMA NextKeepsInv ==
  HistoryInv /\ [Next]_vars => HistoryInv'
<1> SUFFICES ASSUME HistoryInv, [Next]_vars
             PROVE  HistoryInv'
  OBVIOUS
<1>1. table \subseteq Calls /\ matches \subseteq Calls
  BY DEF HistoryInv, HistoryTypeOK
<1>2. ASSUME NEW c \in Calls, NEW told \in BOOLEAN, Finish(c, told)
      PROVE  HistoryInv'
  BY <1>1, <1>2, ChangeKeepsInv DEF Finish
<1>3. ASSUME NEW c \in Calls, NEW told \in BOOLEAN, MatchOthers(c, told)
      PROVE  HistoryInv'
  BY <1>1, <1>3, ChangeKeepsInv DEF MatchOthers
<1>4. ASSUME NEW c \in Calls, Revive(c)
      PROVE  HistoryInv'
  BY <1>1, <1>4, ChangeKeepsInv DEF Revive
<1>5. CASE EventLost
  BY <1>5, EventLostKeepsInv
<1>6. CASE Requests
  BY <1>6, TickKeepsInv, AnswerFirstKeepsInv, FirstArrivesKeepsInv, FailureKeepsInv,
     AskOlderKeepsInv, OlderArrivesKeepsInv DEF Requests
<1>7. CASE LoadOlder
  BY <1>7, AskOlderKeepsInv
<1>8. CASE Open \/ Close \/ Refresh \/ \E f \in Filters : Choose(f)
  BY <1>8, InputKeepsInv
<1>9. CASE UNCHANGED vars
  BY <1>9 DEF vars, serverVars, viewVars, historyVars, HistoryInv, HistoryTypeOK,
     GoodList, Descending, RequestsInv, StartInv, OnlyOldPagesSkip, NoRowIsSkipped,
     InReach, FreshInv, FirstPageIsCurrent, Settled, Matching, Page, Behind
<1> QED
  BY <1>2, <1>3, <1>4, <1>5, <1>6, <1>7, <1>8, <1>9 DEF Next

\* The invariant of the list of the history.
THEOREM HistoryInvariant == Spec => []HistoryInv
<1>1. Init => HistoryInv
  BY InitHasInv
<1>2. HistoryInv /\ [Next]_vars => HistoryInv'
  BY NextKeepsInv
<1> QED
  BY <1>1, <1>2, PTL DEF Spec

\* Every variable keeps its type: a request is cancelled or complete, and the
\* list holds calls.
THEOREM HistoryTypes == Spec => []HistoryTypeOK
<1>1. HistoryInv => HistoryTypeOK
  BY DEF HistoryInv
<1> QED
  BY <1>1, HistoryInvariant, PTL

\* No row is repeated or out of order, whatever pages arrive in what order: the
\* keyset of store.py:297 keeps that half of its promise.
THEOREM HistoryOrder == Spec => []NoRowIsRepeated
<1>1. HistoryInv => NoRowIsRepeated
  BY DEF HistoryInv, GoodList, NoRowIsRepeated
<1> QED
  BY <1>1, HistoryInvariant, PTL

\* No row that was there when the list was started is skipped, as long as no
\* older page is added that was answered before the list was started anew.
THEOREM HistorySkips == Spec => []OnlyOldPagesSkip
<1>1. HistoryInv => OnlyOldPagesSkip
  BY DEF HistoryInv
<1> QED
  BY <1>1, HistoryInvariant, PTL

\* Once everything has arrived, and nothing came without an event, the top of
\* the list is the top of the table.
THEOREM HistoryCurrent == Spec => []FirstPageIsCurrent
<1>1. HistoryInv => FirstPageIsCurrent
  BY DEF HistoryInv
<1> QED
  BY <1>1, HistoryInvariant, PTL

=============================================================================
