--------------------------- MODULE HistoryProofs ---------------------------
(***************************************************************************)
(* Proofs about the History module, for every set of rows, every limit and *)
(* every sequence of commits between two pages.                            *)
(***************************************************************************)
EXTENDS History, SequenceTheorems, TLAPS

-----------------------------------------------------------------------------
(* Concatenation.                                                          *)

\* The elements of a concatenation.
LEMMA ConcatFacts ==
    ASSUME NEW S, NEW s \in Seq(S), NEW t \in Seq(S)
    PROVE  /\ s \o t \in Seq(S) /\ Len(s \o t) = Len(s) + Len(t)
           /\ Len(s) \in Nat /\ Len(t) \in Nat
           /\ \A i \in 1..Len(s) : (s \o t)[i] = s[i]
           /\ \A i \in 1..Len(t) : (s \o t)[Len(s) + i] = t[i]
           /\ \A i \in 1..(Len(s) + Len(t)) :
                  i \in 1..Len(s) \/ \E k \in 1..Len(t) : i = Len(s) + k
           /\ ToSet(s \o t) = ToSet(s) \cup ToSet(t)
<1> DEFINE q == s \o t
<1>1. q \in Seq(S) /\ Len(q) = Len(s) + Len(t) /\ Len(s) \in Nat /\ Len(t) \in Nat
  OBVIOUS
<1>2. \A i \in 1..Len(s) : q[i] = s[i]
  OBVIOUS
<1>3. \A i \in 1..Len(t) : q[Len(s) + i] = t[i]
  OBVIOUS
<1>4. DOMAIN q = 1..(Len(s) + Len(t)) /\ DOMAIN s = 1..Len(s) /\ DOMAIN t = 1..Len(t)
  BY <1>1
<1> HIDE DEF q
<1>5. \A i \in 1..(Len(s) + Len(t)) : i \in 1..Len(s) \/ \E k \in 1..Len(t) : i = Len(s) + k
  <2> TAKE i \in 1..(Len(s) + Len(t))
  <2>1. CASE i > Len(s)
    <3>1. i - Len(s) \in 1..Len(t) /\ i = Len(s) + (i - Len(s))
      BY <1>1, <2>1
    <3> QED BY <3>1
  <2>2. CASE i <= Len(s)
    BY <1>1, <2>2
  <2> QED BY <1>1, <2>1, <2>2
<1>6. ToSet(q) \subseteq ToSet(s) \cup ToSet(t)
  <2> SUFFICES ASSUME NEW i \in 1..(Len(s) + Len(t)) PROVE q[i] \in ToSet(s) \cup ToSet(t)
    BY <1>4 DEF ToSet
  <2>1. CASE i \in 1..Len(s)
    BY <1>2, <1>4, <2>1 DEF ToSet
  <2>2. ASSUME NEW k \in 1..Len(t), i = Len(s) + k PROVE q[i] \in ToSet(t)
    BY <1>3, <1>4, <2>2 DEF ToSet
  <2> QED BY <1>5, <2>1, <2>2
<1>7. ToSet(s) \subseteq ToSet(q)
  <2>1. \A i \in 1..Len(s) : i \in 1..(Len(s) + Len(t))
    BY <1>1
  <2> QED BY <1>2, <1>4, <2>1 DEF ToSet
<1>8. ToSet(t) \subseteq ToSet(q)
  <2>1. \A i \in 1..Len(t) : Len(s) + i \in 1..(Len(s) + Len(t))
    BY <1>1
  <2> QED BY <1>3, <1>4, <2>1 DEF ToSet
<1> QED BY <1>1, <1>2, <1>3, <1>5, <1>6, <1>7, <1>8 DEF q

USE RowsAssumption, LimitsAssumption

-----------------------------------------------------------------------------
(* The order of the rows.                                                  *)

\* The query's cursor condition is the converse of its ORDER BY.
LEMMA PrecedesIsOlder == \A a, b : Newer(a, b) <=> Precedes(b, a)
<1> SUFFICES ASSUME NEW a, NEW b PROVE Newer(a, b) <=> Precedes(b, a)
  OBVIOUS
<1> QED BY DEF Newer, Precedes

\* The order of the history is transitive.
LEMMA NewerTransitive ==
    \A a, b, c \in Rows : Newer(a, b) /\ Newer(b, c) => Newer(a, c)
BY DEF Newer

\* Concatenating two listings, the second all older than the first's last
\* row, gives a listing.
LEMMA ConcatNewestFirst ==
    ASSUME NEW s \in Seq(Rows), NEW t \in Seq(Rows), NewestFirst(s), NewestFirst(t),
           s # <<>> => \A i \in DOMAIN t : Newer(s[Len(s)], t[i])
    PROVE  NewestFirst(s \o t)
<1> DEFINE q == s \o t
<1>1. /\ q \in Seq(Rows) /\ Len(q) = Len(s) + Len(t) /\ Len(s) \in Nat /\ Len(t) \in Nat
      /\ \A i \in 1..Len(s) : q[i] = s[i]
      /\ \A i \in 1..Len(t) : q[Len(s) + i] = t[i]
      /\ \A i \in 1..(Len(s) + Len(t)) : i \in 1..Len(s) \/ \E k \in 1..Len(t) : i = Len(s) + k
  BY ConcatFacts
<1> HIDE DEF q
<1>2. DOMAIN s = 1..Len(s) /\ DOMAIN t = 1..Len(t) /\ DOMAIN q = 1..(Len(s) + Len(t))
  BY <1>1
<1>3. ASSUME NEW i \in DOMAIN q, NEW j \in DOMAIN q, i < j
      PROVE  Newer(q[i], q[j])
  <2>1. CASE j \in 1..Len(s)
    <3>1. i \in 1..Len(s)
      BY <1>1, <1>2, <1>3, <2>1
    <3> QED BY <1>1, <1>2, <1>3, <2>1, <3>1 DEF NewestFirst
  <2>2. ASSUME NEW k \in 1..Len(t), j = Len(s) + k
        PROVE  Newer(q[i], q[j])
    <3>1. q[j] = t[k]
      BY <1>1, <2>2
    <3>2. ASSUME NEW m \in 1..Len(t), i = Len(s) + m
          PROVE  Newer(q[i], q[j])
      <4>1. q[i] = t[m] /\ m < k
        BY <1>1, <1>3, <2>2, <3>2
      <4> QED BY <1>2, <3>1, <4>1 DEF NewestFirst
    <3>3. CASE i \in 1..Len(s)
      <4>1. q[i] = s[i] /\ Len(s) \in 1..Len(s) /\ s # <<>> /\ i <= Len(s)
        <5>1. q[i] = s[i]
          BY <1>1, <3>3
        <5>2. Len(s) \in 1..Len(s) /\ i <= Len(s) /\ Len(s) # 0
          BY <1>1, <3>3, SMTT(30)
        <5>3. s # <<>>
          BY <5>2
        <5> QED BY <5>1, <5>2, <5>3
      <4>2. Newer(s[Len(s)], t[k])
        BY <1>2, <4>1
      <4>3. s[i] \in Rows /\ s[Len(s)] \in Rows /\ t[k] \in Rows
        BY <2>2, <3>3, <4>1, ElementOfSeq
      <4>4. CASE i = Len(s)
        BY <3>1, <4>1, <4>2, <4>4
      <4>5. CASE i < Len(s)
        <5>1. Newer(s[i], s[Len(s)])
          BY <1>2, <3>3, <4>1, <4>5 DEF NewestFirst
        <5> QED BY <3>1, <4>1, <4>2, <4>3, <5>1, NewerTransitive
      <4> QED BY <1>1, <3>3, <4>1, <4>4, <4>5
    <3> QED BY <1>1, <1>2, <3>2, <3>3
  <2> QED BY <1>1, <1>2, <2>1, <2>2
<1> QED BY <1>3 DEF NewestFirst, q

-----------------------------------------------------------------------------
\* The invariant holds before the first page.
LEMMA HistoryInit == Init => HistoryInv
<1> SUFFICES ASSUME Init PROVE HistoryInv
  OBVIOUS
<1>1. <<>> \in Seq(Rows) /\ DOMAIN <<>> = {}
  OBVIOUS
<1>2. HistoryTypeOK
  BY <1>1 DEF Init, HistoryTypeOK
<1>3. NewestFirst(got)
  BY <1>1 DEF Init, NewestFirst
<1> QED BY <1>2, <1>3 DEF Init, HistoryInv, CursorInv, AheadInv

\* What a page is.
LEMMA PageFacts ==
    ASSUME HistoryInv, NEW page \in GetAddressHistory
    PROVE  /\ page \in Seq(Rows) /\ Len(page) \in Nat /\ NewestFirst(page)
           /\ \A i \in DOMAIN page : page[i] \in table /\ (before = NoCursor \/ Precedes(page[i], before))
           /\ \A r \in table : (before = NoCursor \/ Precedes(r, before)) /\ r \notin ToSet(page) =>
                  Len(page) = QueryLimit /\ \A i \in DOMAIN page : Newer(page[i], r)
<1> DEFINE rows == {r \in table : before = NoCursor \/ Precedes(r, before)}
<1>1. /\ page \in SeqOf(rows, QueryLimit) /\ NewestFirst(page)
      /\ \A r \in rows \ ToSet(page) :
             Len(page) = QueryLimit /\ \A i \in DOMAIN page : Newer(page[i], r)
  BY DEF GetAddressHistory
<1>2. QueryLimit \in Nat
  BY DEF QueryLimit, HistoryInv, HistoryTypeOK
<1>3. PICK n \in 0..QueryLimit : page \in [1..n -> rows]
  BY <1>1 DEF SeqOf
<1>4. page \in Seq(rows) /\ Len(page) = n /\ DOMAIN page = 1..n
  BY <1>2, <1>3
<1>5. rows \subseteq Rows /\ page \in Seq(Rows)
  BY <1>4 DEF HistoryInv, HistoryTypeOK
<1>6. \A i \in DOMAIN page : page[i] \in rows
  BY <1>3, <1>4
<1> QED BY <1>1, <1>2, <1>4, <1>5, <1>6

\* A page continues the listing and the cursor moves to its end.
LEMMA PageKeepsInv ==
    ASSUME HistoryInv, Page
    PROVE  HistoryInv'
<1>1. PICK page \in GetAddressHistory :
          /\ session = "paging"
          /\ ~(HasNext(page) /\ page = <<>>)
          /\ got' = got \o page
          /\ IF HasNext(page)
             THEN before' = page[Len(page)] /\ UNCHANGED session
             ELSE session' = "done" /\ UNCHANGED before
          /\ UNCHANGED <<table, tipHeight, limit, stable>>
  BY DEF Page
<1>2. /\ page \in Seq(Rows) /\ Len(page) \in Nat /\ NewestFirst(page)
      /\ \A i \in DOMAIN page : page[i] \in table /\ (before = NoCursor \/ Precedes(page[i], before))
      /\ \A r \in table : (before = NoCursor \/ Precedes(r, before)) /\ r \notin ToSet(page) =>
             Len(page) = QueryLimit /\ \A i \in DOMAIN page : Newer(page[i], r)
  BY PageFacts
<1>3. /\ got \in Seq(Rows) /\ NewestFirst(got) /\ stable \subseteq table /\ table \subseteq Rows
      /\ before = IF got = <<>> THEN NoCursor ELSE got[Len(got)]
      /\ limit \in Limits /\ before \in Rows \cup {NoCursor}
  BY <1>1 DEF HistoryInv, HistoryTypeOK, CursorInv
<1>4. NoCursor \notin Rows
  BY DEF NoCursor
<1>5. got # <<>> => before = got[Len(got)] /\ before # NoCursor
  <2>1. got # <<>> => got[Len(got)] \in Rows
    BY <1>3
  <2> QED BY <1>3, <1>4, <2>1
<1>6. NewestFirst(got')
  <2>1. got # <<>> => \A i \in DOMAIN page : Newer(got[Len(got)], page[i])
    BY <1>2, <1>5, PrecedesIsOlder
  <2> QED BY <1>1, <1>2, <1>3, <2>1, ConcatNewestFirst
<1>7. /\ got' \in Seq(Rows) /\ ToSet(got') = ToSet(got) \cup ToSet(page)
      /\ Len(got') = Len(got) + Len(page) /\ Len(got) \in Nat
      /\ page # <<>> => got' # <<>> /\ got'[Len(got')] = page[Len(page)] /\ page[Len(page)] \in Rows
  <2>1. /\ got' \in Seq(Rows) /\ Len(got') = Len(got) + Len(page) /\ Len(got) \in Nat
        /\ \A i \in 1..Len(page) : got'[Len(got) + i] = page[i]
        /\ ToSet(got') = ToSet(got) \cup ToSet(page)
    <3>1. /\ got \o page \in Seq(Rows) /\ Len(got \o page) = Len(got) + Len(page) /\ Len(got) \in Nat
          /\ \A i \in 1..Len(page) : (got \o page)[Len(got) + i] = page[i]
          /\ ToSet(got \o page) = ToSet(got) \cup ToSet(page)
      BY <1>2, <1>3, ConcatFacts
    <3> QED BY <1>1, <3>1
  <2>2. ASSUME page # <<>>
        PROVE  got' # <<>> /\ got'[Len(got')] = page[Len(page)] /\ page[Len(page)] \in Rows
    <3>1. Len(page) \in 1..Len(page) /\ page[Len(page)] \in Rows
      BY <1>2, <2>2
    <3> QED BY <2>1, <3>1
  <2> QED BY <2>1, <2>2
<1>8. HistoryTypeOK'
  <2>1. before' \in Rows \cup {NoCursor}
    BY <1>1, <1>3, <1>7
  <2> QED BY <1>1, <1>7, <2>1 DEF HistoryInv, HistoryTypeOK
<1>9. CursorInv'
  BY <1>1, <1>7 DEF CursorInv
<1>10. ASSUME NEW r \in stable, r \notin ToSet(got'), limit \in 1..MaxLimit
       PROVE  Len(page) = QueryLimit /\ \A i \in DOMAIN page : Newer(page[i], r)
  <2>1. r \in table /\ r \notin ToSet(got) /\ r \notin ToSet(page)
    BY <1>3, <1>7, <1>10
  <2>2. before = NoCursor \/ Precedes(r, before)
    BY <1>1, <1>3, <1>10, <2>1 DEF HistoryInv, AheadInv
  <2> QED BY <1>2, <2>1, <2>2
<1>11. AheadInv'
  <2> SUFFICES ASSUME limit \in 1..MaxLimit, NEW r \in stable, r \notin ToSet(got')
               PROVE  /\ session' = "paging" => Precedes(r, before')
                      /\ session' # "done"
    BY <1>1 DEF AheadInv
  <2>1. QueryLimit = limit
    BY DEF QueryLimit
  <2>2. HasNext(page)
    BY <1>10, <2>1 DEF HasNext
  <2>3. page # <<>> /\ Len(page) \in DOMAIN page /\ before' = page[Len(page)]
    BY <1>1, <1>2, <2>2
  <2> QED BY <1>1, <1>10, <2>2, <2>3, PrecedesIsOlder
<1> QED BY <1>6, <1>8, <1>9, <1>11 DEF HistoryInv

\* Every step keeps the invariant.
LEMMA HistoryNext == HistoryInv /\ [Next]_hvars => HistoryInv'
<1> SUFFICES ASSUME HistoryInv, [Next]_hvars PROVE HistoryInv'
  OBVIOUS
<1>1. ASSUME NEW k \in 0..MaxHeight, NEW n \in 1..MaxHeight,
             NEW new \in SUBSET {r \in Rows : k < r.block /\ r.block <= n}, Update(k, n, new)
      PROVE  HistoryInv'
  <2>1. /\ table' = {r \in table : r.block <= k} \cup new /\ tipHeight' = n
        /\ stable' = {r \in stable : r.block <= k}
        /\ UNCHANGED <<session, limit, before, got>>
    BY <1>1 DEF Update, client
  <2>2. HistoryTypeOK'
    BY <2>1 DEF HistoryInv, HistoryTypeOK
  <2> QED BY <2>1, <2>2 DEF HistoryInv, CursorInv, AheadInv
<1>2. ASSUME NEW l \in Limits, Open(l)
      PROVE  HistoryInv'
  <2>1. <<>> \in Seq(Rows) /\ DOMAIN <<>> = {}
    OBVIOUS
  <2>2. HistoryTypeOK'
    BY <1>2, <2>1 DEF Open, HistoryInv, HistoryTypeOK
  <2>3. NewestFirst(got')
    BY <1>2, <2>1 DEF Open, NewestFirst
  <2> QED BY <1>2, <2>2, <2>3 DEF Open, HistoryInv, CursorInv, AheadInv
<1>3. CASE Page
  BY <1>3, PageKeepsInv
<1>4. CASE PagePanics
  BY <1>4 DEF PagePanics, HistoryInv, HistoryTypeOK, CursorInv, AheadInv
<1>5. CASE UNCHANGED hvars
  BY <1>5 DEF hvars, HistoryInv, HistoryTypeOK, CursorInv, AheadInv
<1> QED BY <1>1, <1>2, <1>3, <1>4, <1>5 DEF Next

-----------------------------------------------------------------------------
(* Theorems.                                                               *)

\* HistoryInv holds between any two pages and commits.
THEOREM HistoryInductive == Spec => []HistoryInv
BY HistoryInit, HistoryNext, PTL DEF Spec

\* Every variable keeps its type.
THEOREM HistoryTypeCorrect == Spec => []HistoryTypeOK
<1>1. HistoryInv => HistoryTypeOK
  BY DEF HistoryInv
<1> QED BY <1>1, HistoryInductive, PTL

\* For every set of rows and every limit in the documented range, a listing
\* that ends has listed every row that was in the table all along, and none
\* twice, whatever was committed or rolled back between its pages.
THEOREM ListingComplete == Spec => []PagesCoverStableRows
<1>1. HistoryInv => PagesCoverStableRows
  BY DEF HistoryInv, AheadInv, PagesCoverStableRows
<1> QED BY <1>1, HistoryInductive, PTL

=============================================================================
