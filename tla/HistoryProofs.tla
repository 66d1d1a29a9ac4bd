----------------------------- MODULE HistoryProofs -----------------------------
(***************************************************************************)
(* Proofs about the transaction history, for any payments, page size and   *)
(* reader, however payments, queries and cached answers interleave.        *)
(*                                                                         *)
(* HistoryInv is inductive.  Its heart is PushedDown: in an order by       *)
(* createdAt the place of a row that is not tied is one more than the      *)
(* number of newer rows, that number never falls, and so a row that was    *)
(* not on the pages shown is behind them.  When a page says it is the last *)
(* there is nothing behind it.                                             *)
(***************************************************************************)
EXTENDS History, FiniteSetTheorems, SequenceTheorems, TLAPS

(***************************************************************************)
(* Counting rows                                                           *)
(***************************************************************************)

\* There are finitely many payments, so every set of them has a size.
LEMMA Sizes ==
  ASSUME NEW S \in SUBSET Payment, NEW T \in SUBSET S
  PROVE  /\ IsFiniteSet(S) /\ Cardinality(S) \in 0 .. Cardinality(Payment)
         /\ IsFiniteSet(T) /\ Cardinality(T) \in 0 .. Cardinality(S)
         /\ Cardinality(Payment) \in Nat \ {0}
<1>1. IsFiniteSet(Payment) /\ Cardinality(Payment) \in Nat \ {0}
  BY HistoryAssumption, FS_CardinalityType, FS_EmptySet
<1>2. IsFiniteSet(S) /\ Cardinality(S) <= Cardinality(Payment)
  BY <1>1, FS_Subset
<1>3. IsFiniteSet(T) /\ Cardinality(T) <= Cardinality(S)
  BY <1>2, FS_Subset
<1>4. Cardinality(S) \in Nat /\ Cardinality(T) \in Nat
  BY <1>2, <1>3, FS_CardinalityType
<1>. QED
  BY <1>1, <1>2, <1>3, <1>4

\* An order lists every row once.
LEMMA OrderFacts ==
  ASSUME NEW S \in SUBSET Payment, NEW order \in Orders(S)
  PROVE  /\ order \in Seq(S) /\ Len(order) = Cardinality(S)
         /\ \A i, j \in 1 .. Len(order) : order[i] = order[j] => i = j
         /\ \A i, j \in 1 .. Len(order) : i < j => createdAt[order[i]] >= createdAt[order[j]]
         /\ \A p \in S : \E i \in 1 .. Len(order) : order[i] = p
<1>1. PICK n \in Nat : n = Cardinality(S)
  BY Sizes
<1>2. /\ order \in [1 .. n -> S]
      /\ \A i, j \in 1 .. n : i # j => order[i] # order[j]
      /\ \A i, j \in 1 .. Len(order) : i < j => createdAt[order[i]] >= createdAt[order[j]]
  BY <1>1 DEF Orders, SetToSeqs
<1>3. order \in Seq(S) /\ Len(order) = n
  BY <1>2
<1>4. order \in Injection(1 .. n, S)
  BY <1>2 DEF Injection, IsInjective
<1>5. Cardinality(1 .. n) = Cardinality(S) /\ IsFiniteSet(S)
  <2>1. Cardinality(1 .. n) = IF 1 > n THEN 0 ELSE n - 1 + 1
    BY FS_Interval
  <2>2. IsFiniteSet(S)
    BY Sizes
  <2>. QED
    BY <1>1, <2>1, <2>2
<1>6. order \in Surjection(1 .. n, S)
  BY <1>4, <1>5, FS_Injection
<1>7. \A p \in S : \E i \in 1 .. n : order[i] = p
  BY <1>6 DEF Surjection
<1>. QED
  BY <1>1, <1>2, <1>3, <1>7

\* A row that is not tied comes after the newer rows and no others.
LEMMA PlaceOfRow ==
  ASSUME TypeOK, NEW order \in Orders(Rows), NEW i \in 1 .. Len(order), ~ Tied(order[i])
  PROVE  Cardinality(Newer(order[i])) = i - 1
<1>0. Rows \in SUBSET Payment
  BY DEF TypeOK, Rows
<1>1. /\ order \in Seq(Rows)
      /\ \A j, k \in 1 .. Len(order) : order[j] = order[k] => j = k
      /\ \A j, k \in 1 .. Len(order) : j < k => createdAt[order[j]] >= createdAt[order[k]]
      /\ \A p \in Rows : \E j \in 1 .. Len(order) : order[j] = p
  BY <1>0, OrderFacts
<1>. DEFINE before == [j \in 1 .. i - 1 |-> order[j]]
<1>2. \A j \in 1 .. Len(order) : order[j] \in Rows /\ createdAt[order[j]] \in Nat
  <2>1. \A j \in 1 .. Len(order) : order[j] \in Rows
    BY <1>1
  <2>. QED
    BY <1>0, <2>1 DEF TypeOK
<1>3. \A j \in 1 .. i - 1 : before[j] \in Newer(order[i])
  <2>. SUFFICES ASSUME NEW j \in 1 .. i - 1 PROVE order[j] \in Newer(order[i])
    OBVIOUS
  <2>1. j \in 1 .. Len(order) /\ j < i
    OBVIOUS
  <2>2. order[j] # order[i] /\ createdAt[order[j]] >= createdAt[order[i]]
    BY <1>1, <2>1
  <2>3. createdAt[order[j]] # createdAt[order[i]]
    BY <1>2, <2>1, <2>2 DEF Tied
  <2>. QED
    BY <1>2, <2>1, <2>2, <2>3 DEF Newer
<1>4. before \in Injection(1 .. i - 1, Newer(order[i]))
  <2>1. before \in [1 .. i - 1 -> Newer(order[i])]
    BY <1>3
  <2>2. \A j, k \in 1 .. i - 1 : before[j] = before[k] => j = k
    BY <1>1
  <2>3. DOMAIN before = 1 .. i - 1
    OBVIOUS
  <2>. HIDE DEF before
  <2>. QED
    BY <2>1, <2>2, <2>3 DEF Injection, IsInjective
<1>5. ASSUME NEW p \in Newer(order[i]) PROVE \E j \in 1 .. i - 1 : before[j] = p
  <2>1. PICK j \in 1 .. Len(order) : order[j] = p
    BY <1>1 DEF Newer
  <2>2. createdAt[order[j]] > createdAt[order[i]]
    BY <2>1 DEF Newer
  <2>3. createdAt[order[j]] \in Nat /\ createdAt[order[i]] \in Nat
    BY <1>2
  <2>4. i < j => createdAt[order[i]] >= createdAt[order[j]]
    BY <1>1
  <2>5. Len(order) \in Nat /\ ~ (i < j) /\ i # j
    BY <1>1, <2>2, <2>3, <2>4
  <2>6. j \in 1 .. i - 1
    BY <2>5
  <2>. QED
    BY <2>1, <2>6
<1>6. before \in Bijection(1 .. i - 1, Newer(order[i]))
  BY <1>4, <1>5 DEF Bijection, Injection, Surjection
<1>. QED
  BY <1>6, FS_CountingElements DEF ExistsBijection

(***************************************************************************)
(* The page arithmetic                                                     *)
(***************************************************************************)

\* There is a next page as long as the pages so far do not hold all rows.
LEMMA PagesHold ==
  ASSUME NEW total \in Nat, NEW limit \in Nat \ {0}, NEW pg \in Nat
  PROVE  /\ TotalPages(total, limit) \in Nat
         /\ pg < TotalPages(total, limit) <=> pg * limit < total
         /\ pg < TotalPages(total, limit) => pg < total
<1>1. PICK q \in Nat : q = TotalPages(total, limit)
  BY DEF TotalPages
<1>2. q * limit <= total + limit - 1 /\ total + limit - 1 < (q + 1) * limit
  BY <1>1 DEF TotalPages
<1>3. pg < q => pg * limit < total /\ pg < total
  BY <1>2
<1>4. pg >= q => pg * limit >= total
  BY <1>2
<1>. QED
  BY <1>1, <1>3, <1>4

\* What a page of an order holds.
LEMMA PageFacts ==
  ASSUME NEW S, NEW order \in Seq(S), NEW pg \in Nat \ {0}
  PROVE  LET from == (pg - 1) * PageSize IN
         /\ PageOf(order, pg, PageSize) \in Seq(S)
         /\ ToSet(PageOf(order, pg, PageSize)) \subseteq S
         /\ \A i \in 1 .. Len(order) :
              from < i /\ i <= from + PageSize => order[i] \in ToSet(PageOf(order, pg, PageSize))
<1>. DEFINE from == (pg - 1) * PageSize
            to == IF from + PageSize < Len(order) THEN from + PageSize ELSE Len(order)
            rows == PageOf(order, pg, PageSize)
<1>1. SafePage(OrDefault(pg, 1)) = pg /\ SafeLimit(OrDefault(PageSize, 20)) = PageSize
  BY HistoryAssumption DEF SafePage, SafeLimit, OrDefault
<1>2. rows = SubSeq(order, from + 1, to)
  BY <1>1 DEF PageOf, Skip
<1>3. from \in Nat /\ to \in Nat /\ PageSize \in Nat /\ to <= Len(order) /\ to <= from + PageSize
  BY HistoryAssumption
<1>. HIDE DEF from, to
<1>4. /\ rows \in Seq(S) /\ Len(rows) = IF from + 1 <= to THEN to - from ELSE 0
      /\ \A j \in 1 .. to - from : rows[j] = order[from + j]
  <2>1. \A i \in from + 1 .. to : order[i] \in S
    BY <1>3
  <2>2. /\ SubSeq(order, from + 1, to) \in Seq(S)
        /\ Len(SubSeq(order, from + 1, to)) = IF from + 1 <= to THEN to - (from + 1) + 1 ELSE 0
        /\ \A j \in 1 .. to - (from + 1) + 1 :
             SubSeq(order, from + 1, to)[j] = order[from + 1 + j - 1]
    BY <1>3, <2>1, SubSeqProperties
  <2>. QED
    BY <1>2, <1>3, <2>2
<1>. HIDE DEF rows
<1>5. ToSet(rows) \subseteq S
  BY <1>4 DEF ToSet
<1>6. ASSUME NEW i \in 1 .. Len(order), from < i, i <= from + PageSize
      PROVE  order[i] \in ToSet(rows)
  <2>1. i <= to
    BY <1>6, <1>3 DEF to
  <2>2. i - from \in 1 .. to - from /\ i - from \in DOMAIN rows
    BY <1>3, <1>4, <1>6, <2>1
  <2>3. rows[i - from] = order[i]
    BY <1>3, <1>4, <2>2
  <2>. QED
    BY <2>2, <2>3 DEF ToSet
<1>. QED
  BY <1>4, <1>5, <1>6 DEF from, rows

(***************************************************************************)
(* The pages are a partition                                               *)
(***************************************************************************)

\* Numbers have a least one in every set of them.
LEMMA LeastNumber ==
  ASSUME NEW T \in SUBSET Nat, T # {}
  PROVE  \E m \in T : \A n \in T : m <= n
<1>. DEFINE R == {ss \in Nat \X Nat : ss[1] < ss[2]}
<1>1. IsWellFoundedOn(R, Nat)
  BY NatLessThanWellFounded DEF OpToRel
<1>2. \A m, n \in Nat : <<m, n>> \in R <=> m < n
  OBVIOUS
<1>. HIDE DEF R
<1>3. PICK m \in T : \A n \in T : ~ (<<n, m>> \in R)
  BY <1>1, WFMin
<1>4. ASSUME NEW n \in T PROVE m <= n
  <2>1. m \in Nat /\ n \in Nat /\ ~ (<<n, m>> \in R)
    BY <1>3
  <2>2. ~ (n < m)
    BY <1>2, <2>1
  <2>. QED
    BY <2>1, <2>2
<1>. QED
  BY <1>4

\* FlattenSeq concatenates, one sequence after another: whatever satisfies its
\* recursive equation is what it computes.
Joins(whole, seqs, n) ==
  whole = [i \in 1 .. n |-> IF i = 1 THEN seqs[i] ELSE whole[i - 1] \o seqs[i]]

LEMMA FlattenIs ==
  ASSUME NEW seqs, NEW whole, Len(seqs) \in Nat \ {0}, Joins(whole, seqs, Len(seqs))
  PROVE  FlattenSeq(seqs) = whole[Len(seqs)]
<1>. DEFINE n == Len(seqs)
            Is(f) == f = [i \in 1 .. n |-> IF i = 1 THEN seqs[i] ELSE f[i - 1] \o seqs[i]]
<1>1. PICK f : f = CHOOSE g : Is(g)
  OBVIOUS
<1>2. FlattenSeq(seqs) = f[n]
  BY <1>1 DEF FlattenSeq
<1>3. Is(whole)
  BY DEF Joins
<1>4. Is(f)
  BY <1>1, <1>3
<1>. DEFINE Bad == {i \in 1 .. n : f[i] # whole[i]}
<1>5. Bad = {}
  <2>. SUFFICES ASSUME Bad # {} PROVE FALSE
    OBVIOUS
  <2>1. Bad \in SUBSET Nat
    OBVIOUS
  <2>2. PICK m \in Bad : \A i \in Bad : m <= i
    BY <2>1, LeastNumber
  <2>3. m \in 1 .. n /\ f[m] # whole[m]
    OBVIOUS
  <2>4. m # 1
    BY <2>3, <1>3, <1>4
  <2>5. m - 1 \in 1 .. n /\ m - 1 \notin Bad
    BY <2>2, <2>3, <2>4
  <2>6. f[m - 1] = whole[m - 1]
    BY <2>5
  <2>7. f[m] = f[m - 1] \o seqs[m]
    BY <1>4, <2>3, <2>4
  <2>8. whole[m] = whole[m - 1] \o seqs[m]
    BY <1>3, <2>3, <2>4
  <2>. QED
    BY <2>3, <2>6, <2>7, <2>8
<1>6. n \in 1 .. n
  OBVIOUS
<1>. QED
  BY <1>2, <1>5, <1>6

\* A page of an order, by the rows before it and the last one on it.
LEMMA PageIs ==
  ASSUME NEW order, NEW pg \in Nat \ {0}, NEW limitText, NEW limit \in Nat,
         limit = SafeLimit(OrDefault(limitText, 20))
  PROVE  PageOf(order, pg, limitText)
           = SubSeq(order, (pg - 1) * limit + 1,
                    IF pg * limit < Len(order) THEN pg * limit ELSE Len(order))
<1>1. SafePage(OrDefault(pg, 1)) = pg
  BY DEF SafePage, OrDefault
<1>2. (pg - 1) * limit + limit = pg * limit
  OBVIOUS
<1>. QED
  BY <1>1, <1>2 DEF PageOf, Skip

\* Slices of an order that end where the next begins, put together, are the order.
LEMMA SlicesTogether ==
  ASSUME NEW S, NEW order \in Seq(S), NEW pages \in Nat, NEW end \in [Nat -> Nat],
         end[0] = 0, end[pages] = Len(order),
         \A pg \in Nat : end[pg] <= end[pg + 1] /\ end[pg] <= Len(order)
  PROVE  FlattenSeq([pg \in 1 .. pages |-> SubSeq(order, end[pg - 1] + 1, end[pg])]) = order
<1>. DEFINE seqs == [pg \in 1 .. pages |-> SubSeq(order, end[pg - 1] + 1, end[pg])]
            whole == [pg \in 1 .. pages |-> SubSeq(order, 1, end[pg])]
<1>1. CASE pages = 0
  <2>1. order = << >> /\ seqs = << >>
    BY <1>1
  <2>. HIDE DEF seqs
  <2>2. FlattenSeq(seqs) = order
    BY <2>1 DEF FlattenSeq
  <2>. QED
    BY <2>2 DEF seqs
<1>2. CASE pages # 0
  <2>1. Len(seqs) = pages /\ pages \in Nat \ {0} /\ pages \in 1 .. pages
    BY <1>2
  <2>2. ASSUME NEW pg \in 1 .. pages
        PROVE  whole[pg] = IF pg = 1 THEN seqs[pg] ELSE whole[pg - 1] \o seqs[pg]
    <3>1. seqs[pg] = SubSeq(order, end[pg - 1] + 1, end[pg])
      OBVIOUS
    <3>2. CASE pg = 1
      <4>1. end[pg - 1] + 1 = 1
        BY <3>2
      <4>2. seqs[pg] = SubSeq(order, 1, end[pg])
        BY <3>1, <4>1
      <4>. QED
        BY <3>2, <4>2
    <3>3. CASE pg # 1
      <4>1. pg - 1 \in 1 .. pages /\ pg \in Nat /\ pg - 1 \in Nat
        BY <3>3
      <4>2. end[pg - 1] <= end[pg] /\ end[pg - 1] <= Len(order) /\ end[pg] <= Len(order)
        <5>1. PICK before \in Nat : before = pg - 1
          BY <4>1
        <5>2. before + 1 = pg
          BY <4>1, <5>1
        <5>3. end[before] <= end[before + 1] /\ end[before] <= Len(order) /\ end[before + 1] <= Len(order)
          <6>1. before \in Nat /\ before + 1 \in Nat
            BY <5>1
          <6>2. end[before] <= end[before + 1] /\ end[before] <= Len(order)
            BY <6>1
          <6>3. end[before + 1] <= Len(order)
            BY <6>1
          <6>. QED
            BY <6>2, <6>3
        <5>. QED
          BY <5>1, <5>2, <5>3
      <4>3. PICK k \in 0 .. Len(order) : k = end[pg - 1]
        BY <4>1, <4>2
      <4>4. PICK m \in k .. Len(order) : m = end[pg]
        BY <4>1, <4>2, <4>3
      <4>5. SubSeq(order, 1, k) \o SubSeq(order, k + 1, m) = SubSeq(order, 1, m)
        <5>1. 1 \in 1 .. Len(order) + 1 /\ 1 - 1 = 0
          OBVIOUS
        <5>. QED
          BY <5>1, ConcatAdjacentSubSeq
      <4>6. whole[pg - 1] = SubSeq(order, 1, k) /\ whole[pg] = SubSeq(order, 1, m)
        BY <4>1, <4>3, <4>4
      <4>7. seqs[pg] = SubSeq(order, k + 1, m)
        BY <3>1, <4>3, <4>4
      <4>. HIDE DEF whole, seqs
      <4>. QED
        BY <3>3, <4>5, <4>6, <4>7
    <3>. QED
      BY <3>2, <3>3
  <2>3. \A pg \in 1 .. pages : whole[pg] \in Seq(S)
    <3>. SUFFICES ASSUME NEW pg \in 1 .. pages PROVE SubSeq(order, 1, end[pg]) \in Seq(S)
      OBVIOUS
    <3>1. pg \in Nat /\ end[pg] \in Nat /\ end[pg] <= Len(order)
      <4>1. pg \in Nat
        OBVIOUS
      <4>. QED
        BY <4>1
    <3>2. \A i \in 1 .. end[pg] : order[i] \in S
      <4>1. \A i \in 1 .. Len(order) : order[i] \in S
        OBVIOUS
      <4>. QED
        BY <3>1, <4>1
    <3>. QED
      BY <3>1, <3>2, SubSeqProperties
  <2>4. whole[pages] = order
    <3>1. whole[pages] = SubSeq(order, 1, Len(order))
      BY <2>1
    <3>. QED
      BY <3>1, SubSeqFull
  <2>5. whole \in [1 .. pages -> Seq(S)]
    BY <2>3
  <2>. HIDE DEF whole, seqs
  <2>6. FlattenSeq(seqs) = whole[pages]
    <3>1. \A pg \in 1 .. pages :
             whole[pg] = IF pg = 1 THEN seqs[pg] ELSE whole[pg - 1] \o seqs[pg]
      BY <2>2
    <3>2. PICK q : q = seqs
      OBVIOUS
    <3>3. PICK w \in [1 .. pages -> Seq(S)] : w = whole
      BY <2>5
    <3>4. Len(q) = pages /\ pages \in Nat \ {0}
      BY <2>1, <3>2
    <3>5. \A i \in 1 .. pages : w[i] = IF i = 1 THEN q[i] ELSE w[i - 1] \o q[i]
      BY <3>1, <3>2, <3>3
    <3>6. Joins(w, q, pages)
      BY <3>3, <3>5 DEF Joins
    <3>7. FlattenSeq(q) = w[pages]
      BY <3>4, <3>6, FlattenIs
    <3>. QED
      BY <3>2, <3>3, <3>7
  <2>. QED
    BY <2>4, <2>6 DEF seqs
<1>. QED
  BY <1>1, <1>2

\* Where a page ends.
EndOf(order, limit, pg) == IF pg * limit < Len(order) THEN pg * limit ELSE Len(order)

\* Pages of a limit, put together, are the order; the page after them is empty.
LEMMA PagesTogether ==
  ASSUME NEW S, NEW order \in Seq(S), NEW limit \in Nat \ {0}
  PROVE  LET pages == TotalPages(Len(order), limit) IN
         /\ FlattenSeq([pg \in 1 .. pages |->
                          SubSeq(order, (pg - 1) * limit + 1, EndOf(order, limit, pg))]) = order
         /\ SubSeq(order, pages * limit + 1, EndOf(order, limit, pages + 1)) = << >>
<1>1. PICK n \in Nat : n = Len(order)
  OBVIOUS
<1>2. PICK pages \in Nat : pages = TotalPages(n, limit)
  BY PagesHold
<1>3. PICK end \in [Nat -> Nat] : end = [pg \in Nat |-> IF pg * limit < n THEN pg * limit ELSE n]
  <2>1. \A pg \in Nat : pg * limit \in Nat
    OBVIOUS
  <2>2. \A pg \in Nat : (IF pg * limit < n THEN pg * limit ELSE n) \in Nat
    BY <2>1
  <2>. QED
    BY <2>2
<1>4. ASSUME NEW pg \in Nat
      PROVE  /\ end[pg] = EndOf(order, limit, pg)
             /\ end[pg] <= end[pg + 1] /\ end[pg] <= n
             /\ pg < pages => pg * limit = end[pg]
             /\ pg >= pages => end[pg] = n /\ pg * limit >= n
  <2>1. PICK here \in Nat : here = pg * limit
    OBVIOUS
  <2>2. (pg + 1) * limit = here + limit
    BY <2>1
  <2>3. pg + 1 \in Nat
    OBVIOUS
  <2>4. end[pg] = IF here < n THEN here ELSE n
    BY <1>3, <2>1
  <2>5. end[pg + 1] = IF here + limit < n THEN here + limit ELSE n
    BY <1>3, <2>2, <2>3
  <2>6. pg < pages <=> here < n
    BY <1>2, <2>1, PagesHold
  <2>7. EndOf(order, limit, pg) = IF here < n THEN here ELSE n
    BY <1>1, <2>1 DEF EndOf
  <2>8. end[pg] <= end[pg + 1] /\ end[pg] <= n
    BY <2>4, <2>5
  <2>9. /\ pg < pages => here = end[pg]
        /\ pg >= pages => end[pg] = n /\ here >= n
    BY <2>4, <2>6
  <2>. QED
    BY <2>1, <2>4, <2>7, <2>8, <2>9
<1>5. end[0] = 0
  BY <1>1, <1>3
<1>6. FlattenSeq([pg \in 1 .. pages |-> SubSeq(order, end[pg - 1] + 1, end[pg])]) = order
  <2>1. end[pages] = Len(order) /\ \A pg \in Nat : end[pg] <= end[pg + 1] /\ end[pg] <= Len(order)
    <3>1. pages >= pages /\ end[pages] = n
      BY <1>4
    <3>. QED
      BY <1>1, <1>4, <3>1
  <2>. QED
    BY <1>5, <2>1, SlicesTogether
<1>7. ASSUME NEW pg \in 1 .. pages
      PROVE  SubSeq(order, (pg - 1) * limit + 1, EndOf(order, limit, pg))
               = SubSeq(order, end[pg - 1] + 1, end[pg])
  <2>1. pg \in Nat /\ pg - 1 \in Nat /\ pg - 1 < pages
    OBVIOUS
  <2>. QED
    BY <1>4, <2>1
<1>8. SubSeq(order, pages * limit + 1, EndOf(order, limit, pages + 1)) = << >>
  <2>1. PICK here \in Nat : here = pages * limit
    OBVIOUS
  <2>2. here >= n /\ EndOf(order, limit, pages + 1) = n
    <3>1. pages + 1 \in Nat /\ pages + 1 >= pages /\ pages >= pages
      OBVIOUS
    <3>2. end[pages + 1] = n /\ end[pages + 1] = EndOf(order, limit, pages + 1)
      BY <1>4, <3>1
    <3>3. pages * limit >= n
      BY <1>4, <3>1
    <3>. QED
      BY <2>1, <3>2, <3>3
  <2>3. SubSeq(order, here + 1, n) = << >>
    BY <2>2, SubSeqEmpty
  <2>. QED
    BY <2>1, <2>2, <2>3
<1>9. [pg \in 1 .. pages |-> SubSeq(order, (pg - 1) * limit + 1, EndOf(order, limit, pg))]
        = [pg \in 1 .. pages |-> SubSeq(order, end[pg - 1] + 1, end[pg])]
  BY <1>7
<1>. QED
  BY <1>1, <1>2, <1>6, <1>8, <1>9

(***************************************************************************)
(* HistoryInv is inductive                                                 *)
(***************************************************************************)

\* The rows of a moment and how they may come.
LEMMA RowsOnlyGrow ==
  ASSUME HistoryInv, committed \subseteq committed', committed' \subseteq Payment,
         \A p \in committed : createdAt'[p] = createdAt[p]
  PROVE  /\ Rows \subseteq Rows' /\ Rows' \subseteq Payment
         /\ \A p \in Rows : Tied(p) => Tied(p)'
         /\ \A p \in Rows : /\ Cardinality(Newer(p)) \in Nat /\ Cardinality(Newer(p)') \in Nat
                            /\ Cardinality(Newer(p)) <= Cardinality(Newer(p)')
<1>1. Rows \subseteq Rows' /\ Rows' \subseteq Payment
  BY DEF Rows
<1>2. \A p \in Rows : createdAt'[p] = createdAt[p]
  BY DEF Rows
<1>3. \A p \in Rows : Tied(p) => Tied(p)'
  BY <1>1, <1>2 DEF Tied
<1>4. ASSUME NEW p \in Rows
      PROVE  /\ Cardinality(Newer(p)) \in Nat /\ Cardinality(Newer(p)') \in Nat
             /\ Cardinality(Newer(p)) <= Cardinality(Newer(p)')
  <2>1. Newer(p) \subseteq Newer(p)' /\ Newer(p)' \subseteq Payment
    BY <1>1, <1>2 DEF Newer
  <2>2. PICK S \in SUBSET Payment : S = Newer(p)'
    BY <2>1
  <2>3. PICK T \in SUBSET S : T = Newer(p)
    BY <2>1, <2>2
  <2>4. Cardinality(T) \in 0 .. Cardinality(S) /\ Cardinality(S) \in 0 .. Cardinality(Payment)
    BY Sizes
  <2>5. Cardinality(T) \in Nat /\ Cardinality(S) \in Nat /\ Cardinality(T) <= Cardinality(S)
    BY <2>4, Sizes
  <2>. QED
    BY <2>2, <2>3, <2>5
<1>. QED
  BY <1>1, <1>3, <1>4

\* An order is one of the rows and their times only.
LEMMA SameOrders ==
  ASSUME HistoryInv, Rows' = Rows, \A p \in Rows : createdAt'[p] = createdAt[p]
  PROVE  Orders(Rows)' = Orders(Rows)
<1>1. Rows \in SUBSET Payment
  BY DEF HistoryInv, TypeOK, Rows
<1>2. PICK n \in Nat : n = Cardinality(Rows)
  BY <1>1, Sizes
<1>3. ASSUME NEW order \in SetToSeqs(Rows)
      PROVE  Len(order) = n /\ \A i \in 1 .. n : createdAt'[order[i]] = createdAt[order[i]]
  <2>1. order \in [1 .. n -> Rows]
    BY <1>2, <1>3 DEF SetToSeqs
  <2>. QED
    BY <2>1
<1>. QED
  BY <1>3 DEF Orders

\* Nothing moves between the pages: payments go on while none is asked for, or a page
\* is asked for and none commits.
LEMMA PaymentsKeep ==
  ASSUME HistoryInv, UNCHANGED <<request, buttons, reached, seen, present>>,
         clock' \in Nat \ {0}, createdAt' \in [Payment -> Nat],
         committed \subseteq committed', committed' \subseteq Payment,
         \A p \in committed' : createdAt'[p] # 0,
         \A p \in committed : createdAt'[p] = createdAt[p],
         upset \subseteq upset', upset' \subseteq {"torn", "cached", "failed"},
         upset' # {} \/ ~ loading \/ committed' = committed
  PROVE  HistoryInv'
<1>. USE DEF HistoryInv
<1>1. /\ Rows \subseteq Rows' /\ Rows' \subseteq Payment
      /\ \A p \in Rows : Tied(p) => Tied(p)'
      /\ \A p \in Rows : /\ Cardinality(Newer(p)) \in Nat /\ Cardinality(Newer(p)') \in Nat
                         /\ Cardinality(Newer(p)) <= Cardinality(Newer(p)')
  BY RowsOnlyGrow
<1>2. UNCHANGED <<cached, page, loading, found, counted, buttons, reached, seen, present>>
  BY DEF request
<1>3. TypeOK'
  BY <1>2 DEF TypeOK, request
<1>4. OnlyRows'
  BY <1>1, <1>2 DEF OnlyRows
<1>5. OneByOne'
  <2>1. upset' = {} => upset = {}
    OBVIOUS
  <2>. QED
    BY <1>2, <2>1 DEF OneByOne
<1>6. QueriesAreCurrent'
  <2>. SUFFICES ASSUME upset' = {} PROVE QueriesAreCurrent'
    BY DEF QueriesAreCurrent
  <2>1. CASE ~ loading
    BY <1>2, <2>1 DEF QueriesAreCurrent, OneByOne
  <2>2. CASE committed' = committed
    <3>1. Rows' = Rows /\ \A p \in Rows : createdAt'[p] = createdAt[p]
      BY <2>2 DEF Rows
    <3>2. Orders(Rows)' = Orders(Rows)
      BY <3>1, SameOrders
    <3>. QED
      BY <1>2, <3>1, <3>2 DEF QueriesAreCurrent
  <2>. QED
    BY <2>1, <2>2
<1>7. PushedDown'
  <2>. SUFFICES ASSUME upset' = {}, NEW p \in present \ seen, ~ Tied(p)'
                PROVE  Cardinality(Newer(p)') >= reached * PageSize
    BY <1>2 DEF PushedDown
  <2>1. p \in Rows /\ upset = {} /\ ~ Tied(p)
    BY <1>1 DEF OnlyRows
  <2>2. Cardinality(Newer(p)) >= reached * PageSize /\ reached * PageSize \in Nat
    BY <2>1, HistoryAssumption DEF PushedDown, TypeOK
  <2>. QED
    BY <1>1, <2>1, <2>2
<1>8. SkippedForAReason'
  <2>. SUFFICES ASSUME Ended, NEW p \in present \ seen, upset' = {} PROVE Tied(p)'
    BY <1>2 DEF SkippedForAReason, Ended
  <2>1. p \in Rows /\ upset = {}
    BY DEF OnlyRows
  <2>2. Tied(p)
    BY <2>1 DEF SkippedForAReason
  <2>. QED
    BY <1>1, <2>1, <2>2
<1>. QED
  BY <1>3, <1>4, <1>5, <1>6, <1>7, <1>8

\* What the buttons say of an answer: no Next, then nothing is behind its page.
LEMMA NoNextNoRows ==
  ASSUME HistoryInv, loading, NEW answer \in Answer, ButtonsOf(answer) # "more",
         NEW rows \in Nat, answer.total = rows, Len(answer.rows) = 0 => rows <= (page - 1) * PageSize
  PROVE  rows <= page * PageSize
<1>1. page \in Nat \ {0} /\ PageSize \in Nat \ {0}
  <2>1. PageSize \in Nat \ {0}
    BY HistoryAssumption
  <2>2. page \in Nat
    BY HistoryAssumption DEF HistoryInv, TypeOK
  <2>3. page # 0
    BY DEF HistoryInv, OneByOne
  <2>. QED
    BY <2>1, <2>2, <2>3
<1>2. page * PageSize = (page - 1) * PageSize + PageSize /\ (page - 1) * PageSize \in Nat
  BY <1>1
<1>3. CASE answer.rows = << >>
  BY <1>1, <1>2, <1>3
<1>4. CASE answer.rows # << >> /\ ~ HasNext(answer, page)
  <2>1. ~ (page * PageSize < rows)
    BY <1>1, <1>4, PagesHold DEF HasNext
  <2>. QED
    BY <1>1, <1>2, <2>1
<1>5. CASE TotalPages(answer.total, PageSize) <= 1
  <2>1. ~ (1 < TotalPages(rows, PageSize))
    BY <1>1, <1>5, PagesHold
  <2>2. ~ (1 * PageSize < rows)
    BY <1>1, <2>1, PagesHold
  <2>3. PageSize <= page * PageSize
    BY <1>1
  <2>. QED
    BY <1>1, <1>2, <2>2, <2>3
<1>. QED
  BY <1>3, <1>4, <1>5 DEF ButtonsOf

\* A reading starts with nothing shown.
LEMMA StartKeeps == HistoryInv /\ StartReading => HistoryInv'
<1>. SUFFICES ASSUME HistoryInv, StartReading PROVE HistoryInv'
  OBVIOUS
<1>. USE DEF HistoryInv
<1>1. Rows' = Rows /\ Rows \subseteq Payment
  BY DEF StartReading, database, Rows, TypeOK
<1>2. /\ found = Nothing /\ counted = Nothing /\ page' = 1 /\ loading' = TRUE
      /\ loads' = loads + 1 /\ reached' = 0 /\ buttons' = "none"
      /\ seen' = {} /\ present' = Rows /\ upset' = {}
      /\ UNCHANGED <<database, cached, found, counted>>
  BY DEF StartReading, Load, OneByOne
<1>3. TypeOK'
  <2>1. page' \in 0 .. MaxPage /\ reached' \in 0 .. MaxPage
    BY <1>2, HistoryAssumption
  <2>. QED
    BY <1>1, <1>2, <2>1 DEF database, TypeOK
<1>4. OnlyRows'
  BY <1>1, <1>2 DEF database, OnlyRows
<1>5. OneByOne' /\ QueriesAreCurrent' /\ SkippedForAReason'
  BY <1>2 DEF OneByOne, QueriesAreCurrent, SkippedForAReason, Ended
<1>6. PushedDown'
  <2>. SUFFICES ASSUME NEW p \in Rows PROVE Cardinality(Newer(p)') >= 0 * PageSize
    BY <1>2 DEF PushedDown
  <2>1. PICK S \in SUBSET Payment : S = Newer(p)'
    BY <1>1 DEF Newer
  <2>2. Cardinality(S) \in Nat
    BY Sizes
  <2>. QED
    BY <2>1, <2>2, HistoryAssumption
<1>. QED
  BY <1>3, <1>4, <1>5, <1>6

\* Steps of a request leave the rows and the screen alone.
LEMMA RequestKeeps ==
  ASSUME HistoryInv, TypeOK', UNCHANGED <<database, screen>>,
         OneByOne', QueriesAreCurrent',
         found' # Nothing => ToSet(found') \subseteq Rows,
         \A pg \in DOMAIN cached' : cached'[pg] # Nothing => ToSet(cached'[pg].rows) \subseteq Rows
  PROVE  HistoryInv'
<1>. USE DEF HistoryInv, database, screen
<1>1. OnlyRows'
  BY DEF OnlyRows, Rows
<1>2. PushedDown' /\ SkippedForAReason'
  BY DEF PushedDown, SkippedForAReason, Ended, Tied, Newer, Rows
<1>. QED
  BY <1>1, <1>2

\* Asking for a page, the next, the one before or the same.
LEMMA AskKeeps == HistoryInv /\ (AskNext \/ AskPrev \/ Refresh) => HistoryInv'
<1>. SUFFICES ASSUME HistoryInv, AskNext \/ AskPrev \/ Refresh PROVE HistoryInv'
  OBVIOUS
<1>. USE DEF HistoryInv
<1>0. MaxPage \in Nat \ {0} /\ page \in Nat /\ page <= MaxPage /\ reached \in Nat /\ loads \in Nat
  BY HistoryAssumption DEF TypeOK
<1>1. PICK pg \in {page - 1, page, page + 1} :
        /\ pg \in 1 .. MaxPage /\ Load(pg)
        /\ UNCHANGED <<database, cached, found, counted, screen>>
  <2>1. CASE AskNext
    BY <1>0, <2>1 DEF AskNext
  <2>2. CASE AskPrev
    BY <1>0, <2>2 DEF AskPrev
  <2>3. CASE Refresh
    BY <1>0, <2>3 DEF Refresh
  <2>. QED
    BY <2>1, <2>2, <2>3
<1>2. /\ ~ loading /\ page' = pg /\ loading' = TRUE /\ loads' = loads + 1
      /\ found = Nothing /\ counted = Nothing
  BY <1>1 DEF Load, OneByOne
<1>3. TypeOK'
  BY <1>0, <1>1, <1>2 DEF TypeOK, database, screen
<1>4. OneByOne'
  <2>1. upset = {} => page <= reached
    BY <1>2 DEF OneByOne
  <2>2. upset = {} => pg <= reached + 1
    BY <1>0, <1>1, <2>1
  <2>. QED
    BY <1>0, <1>1, <1>2, <2>2 DEF OneByOne, screen
<1>5. QueriesAreCurrent'
  BY <1>1, <1>2 DEF QueriesAreCurrent
<1>. QED
  BY <1>1, <1>2, <1>3, <1>4, <1>5, RequestKeeps DEF OnlyRows

LEMMA FindKeeps == HistoryInv /\ FindMany => HistoryInv'
<1>. SUFFICES ASSUME HistoryInv, FindMany PROVE HistoryInv'
  OBVIOUS
<1>. USE DEF HistoryInv
<1>1. UNCHANGED <<database, cached, page, loading, loads, counted, screen>> /\ loading
  BY DEF FindMany
<1>2. PICK order \in Orders(Rows) : found' = PageOf(order, page, PageSize)
  BY DEF FindMany
<1>3. Rows \in SUBSET Payment /\ page \in Nat \ {0}
  BY <1>1, HistoryAssumption DEF TypeOK, Rows, OneByOne
<1>4. order \in Seq(Rows)
  BY <1>2, <1>3, OrderFacts
<1>5. found' \in Seq(Rows) /\ ToSet(found') \subseteq Rows
  BY <1>2, <1>3, <1>4, PageFacts
<1>6. found' \in Seq(Payment)
  BY <1>3, <1>5
<1>7. TypeOK'
  BY <1>1, <1>6 DEF TypeOK, database, screen
<1>8. OneByOne'
  BY <1>1 DEF OneByOne, screen
<1>9. QueriesAreCurrent'
  <2>1. Rows' = Rows /\ createdAt' = createdAt /\ upset' = upset
    BY <1>1 DEF database, screen, Rows
  <2>2. Orders(Rows)' = Orders(Rows)
    BY <2>1, SameOrders
  <2>. QED
    BY <1>1, <1>2, <2>1, <2>2 DEF QueriesAreCurrent
<1>. QED
  BY <1>1, <1>5, <1>7, <1>8, <1>9, RequestKeeps DEF OnlyRows

LEMMA CountKeeps == HistoryInv /\ Count => HistoryInv'
<1>. SUFFICES ASSUME HistoryInv, Count PROVE HistoryInv'
  OBVIOUS
<1>. USE DEF HistoryInv
<1>1. /\ UNCHANGED <<database, cached, page, loading, loads, found, screen>> /\ loading
      /\ counted' = Cardinality(Rows)
  BY DEF Count
<1>2. Rows \in SUBSET Payment
  BY DEF TypeOK, Rows
<1>3. Cardinality(Rows) \in 0 .. Cardinality(Payment)
  BY <1>2, Sizes
<1>4. TypeOK'
  BY <1>1, <1>3 DEF TypeOK, database, screen
<1>5. OneByOne'
  BY <1>1 DEF OneByOne, screen
<1>6. QueriesAreCurrent'
  <2>1. Rows' = Rows /\ createdAt' = createdAt /\ upset' = upset
    BY <1>1 DEF database, screen, Rows
  <2>2. Orders(Rows)' = Orders(Rows)
    BY <2>1, SameOrders
  <2>. QED
    BY <1>1, <2>1, <2>2 DEF QueriesAreCurrent
<1>. QED
  BY <1>1, <1>4, <1>5, <1>6, RequestKeeps DEF OnlyRows

\* What the queries have found is an answer to be kept.
LEMMA AnswerFacts ==
  ASSUME HistoryInv, found # Nothing, counted # Nothing
  PROVE  /\ [rows |-> found, total |-> counted] \in Answer
         /\ ToSet(found) \subseteq Rows /\ loading
BY DEF HistoryInv, TypeOK, OnlyRows, OneByOne, Answer

\* Storing it keeps the cache one of the reader's rows.
LEMMA StoreFacts ==
  ASSUME HistoryInv, StoreAnswer \/ UNCHANGED cached
  PROVE  /\ cached' \in [1 .. MaxPage -> Answer \cup {Nothing}]
         /\ \A pg \in DOMAIN cached' :
              cached'[pg] # Nothing => ToSet(cached'[pg].rows) \subseteq Rows
<1>1. CASE UNCHANGED cached
  BY <1>1 DEF HistoryInv, TypeOK, OnlyRows
<1>2. CASE StoreAnswer
  <2>1. /\ [rows |-> found, total |-> counted] \in Answer
        /\ ToSet(found) \subseteq Rows
    BY <1>2, AnswerFacts DEF StoreAnswer
  <2>2. PICK answer \in Answer : answer = [rows |-> found, total |-> counted]
    BY <2>1
  <2>3. ToSet(answer.rows) \subseteq Rows
    BY <2>1, <2>2
  <2>4. cached' = [cached EXCEPT ![page] = answer]
    BY <1>2, <2>2 DEF StoreAnswer
  <2>. QED
    BY <2>3, <2>4 DEF HistoryInv, TypeOK, OnlyRows
<1>. QED
  BY <1>1, <1>2

\* A failed load leaves what is shown alone and disturbs the reading.
LEMMA FailKeeps == HistoryInv /\ Fail => HistoryInv'
<1>. SUFFICES ASSUME HistoryInv, Fail PROVE HistoryInv'
  OBVIOUS
<1>. USE DEF HistoryInv
<1>1. /\ UNCHANGED <<database, page, loads, buttons, reached, seen, present>>
      /\ loading' = FALSE /\ found' = Nothing /\ counted' = Nothing
      /\ upset' = upset \cup {"failed"} /\ (StoreAnswer \/ UNCHANGED cached)
  BY DEF Fail
<1>2. /\ cached' \in [1 .. MaxPage -> Answer \cup {Nothing}]
      /\ \A pg \in DOMAIN cached' :
           cached'[pg] # Nothing => ToSet(cached'[pg].rows) \subseteq Rows
  BY <1>1, StoreFacts
<1>3. upset' # {} /\ Rows' = Rows
  BY <1>1 DEF database, Rows
<1>4. TypeOK'
  BY <1>1, <1>2 DEF TypeOK, database
<1>5. OnlyRows'
  BY <1>1, <1>2, <1>3 DEF OnlyRows, database
<1>6. OneByOne'
  BY <1>1, <1>3 DEF OneByOne
<1>7. QueriesAreCurrent' /\ PushedDown' /\ SkippedForAReason'
  BY <1>3 DEF QueriesAreCurrent, PushedDown, SkippedForAReason
<1>. QED
  BY <1>4, <1>5, <1>6, <1>7

LEMMA ForgetKeeps ==
  ASSUME HistoryInv, NEW pg \in DOMAIN cached, Forget(pg)
  PROVE  HistoryInv'
<1>. USE DEF HistoryInv
<1>1. /\ UNCHANGED <<database, page, loading, loads, found, counted, screen>>
      /\ cached' = [cached EXCEPT ![pg] = Nothing]
  BY DEF Forget
<1>2. TypeOK'
  BY <1>1 DEF TypeOK, database, screen
<1>3. OneByOne'
  BY <1>1 DEF OneByOne, screen
<1>4. QueriesAreCurrent'
  <2>1. Rows' = Rows /\ createdAt' = createdAt /\ upset' = upset
    BY <1>1 DEF database, screen, Rows
  <2>2. Orders(Rows)' = Orders(Rows)
    BY <2>1, SameOrders
  <2>. QED
    BY <1>1, <2>1, <2>2 DEF QueriesAreCurrent
<1>. QED
  BY <1>1, <1>2, <1>3, <1>4, RequestKeeps DEF OnlyRows, TypeOK

\* Showing an answer, fresh or cached: what holds whatever came between the pages.
LEMMA ShowFacts ==
  ASSUME HistoryInv, NEW answer \in Answer, loading, Show(answer),
         ToSet(answer.rows) \subseteq Rows, UNCHANGED database,
         found' = Nothing, counted' = Nothing, upset' \subseteq {"torn", "cached", "failed"},
         upset \subseteq upset', StoreAnswer \/ UNCHANGED cached
  PROVE  TypeOK' /\ OnlyRows' /\ OneByOne' /\ QueriesAreCurrent'
<1>. USE DEF HistoryInv, database
<1>1. /\ loading' = FALSE /\ buttons' = ButtonsOf(answer)
      /\ reached' = IF page > reached THEN page ELSE reached
      /\ seen' = seen \cup ToSet(answer.rows) /\ UNCHANGED <<page, loads, present>>
  BY DEF Show
<1>2. Rows' = Rows /\ Rows \subseteq Payment
  BY DEF Rows, TypeOK
<1>3. /\ cached' \in [1 .. MaxPage -> Answer \cup {Nothing}]
      /\ \A pg \in DOMAIN cached' :
           cached'[pg] # Nothing => ToSet(cached'[pg].rows) \subseteq Rows
  BY StoreFacts
<1>4. page \in 0 .. MaxPage /\ reached \in 0 .. MaxPage /\ MaxPage \in Nat
  BY HistoryAssumption DEF TypeOK
<1>5. TypeOK'
  <2>1. reached' \in 0 .. MaxPage /\ buttons' \in {"none", "more", "end"}
    BY <1>1, <1>4 DEF ButtonsOf
  <2>. QED
    BY <1>1, <1>2, <1>3, <2>1 DEF TypeOK
<1>6. OnlyRows'
  BY <1>1, <1>2, <1>3 DEF OnlyRows
<1>7. OneByOne' /\ QueriesAreCurrent'
  <2>1. page <= reached'
    BY <1>1, <1>4
  <2>. QED
    BY <1>1, <2>1 DEF OneByOne, QueriesAreCurrent
<1>. QED
  BY <1>5, <1>6, <1>7

LEMMA FromCacheKeeps == HistoryInv /\ FromCache => HistoryInv'
<1>. SUFFICES ASSUME HistoryInv, FromCache PROVE HistoryInv'
  OBVIOUS
<1>1. /\ loading /\ Show(cached[page]) /\ UNCHANGED <<database, cached, found, counted>>
      /\ found = Nothing /\ counted = Nothing /\ cached[page] # Nothing
      /\ upset' = upset \cup {"cached"}
  BY DEF FromCache
<1>2. page \in DOMAIN cached /\ cached[page] \in Answer
  <2>1. page \in 1 .. MaxPage
    BY <1>1, HistoryAssumption DEF HistoryInv, TypeOK, OneByOne
  <2>. QED
    BY <1>1, <2>1 DEF HistoryInv, TypeOK
<1>3. ToSet(cached[page].rows) \subseteq Rows
  BY <1>1, <1>2 DEF HistoryInv, OnlyRows
<1>4. upset' \subseteq {"torn", "cached", "failed"} /\ upset' # {} /\ upset \subseteq upset'
  BY <1>1 DEF HistoryInv, TypeOK
<1>5. TypeOK' /\ OnlyRows' /\ OneByOne' /\ QueriesAreCurrent'
  BY <1>1, <1>2, <1>3, <1>4, ShowFacts
<1>6. PushedDown' /\ SkippedForAReason'
  BY <1>4 DEF PushedDown, SkippedForAReason
<1>. QED
  BY <1>5, <1>6 DEF HistoryInv

\* A fresh page, undisturbed: what it does not show is behind it, and behind a page
\* without a Next there is nothing.
LEMMA RespondKeeps == HistoryInv /\ Respond => HistoryInv'
<1>. SUFFICES ASSUME HistoryInv, Respond PROVE HistoryInv'
  OBVIOUS
<1>. USE DEF HistoryInv
<1>1. /\ found # Nothing /\ counted # Nothing /\ UNCHANGED <<database, upset>>
      /\ found' = Nothing /\ counted' = Nothing /\ (StoreAnswer \/ UNCHANGED cached)
      /\ Show([rows |-> found, total |-> counted])
  BY DEF Respond
<1>2. [rows |-> found, total |-> counted] \in Answer /\ ToSet(found) \subseteq Rows /\ loading
  BY <1>1, AnswerFacts
<1>3. PICK answer \in Answer : answer = [rows |-> found, total |-> counted]
  BY <1>2
<1>4. /\ answer.rows = found /\ answer.total = counted /\ Show(answer)
      /\ found \in Seq(Payment)
  BY <1>1, <1>3 DEF TypeOK
<1>5. TypeOK' /\ OnlyRows' /\ OneByOne' /\ QueriesAreCurrent'
  BY <1>1, <1>2, <1>4, ShowFacts DEF TypeOK
<1>6. /\ page \in Nat \ {0} /\ reached \in Nat /\ PageSize \in Nat \ {0} /\ counted \in Nat
      /\ upset = {} => page <= reached + 1
  <2>1. Cardinality(Payment) \in Nat
    BY Sizes
  <2>. QED
    BY <1>1, <1>2, <2>1, HistoryAssumption DEF TypeOK, OneByOne
<1>7. /\ reached' = IF page > reached THEN page ELSE reached
      /\ seen' = seen \cup ToSet(found) /\ present' = present
      /\ buttons' = ButtonsOf(answer) /\ upset' = upset
  BY <1>1, <1>4 DEF Show
<1>8. Rows' = Rows /\ Rows \in SUBSET Payment
  BY <1>1 DEF database, Rows, TypeOK
<1>9. \A p \in Rows : Tied(p)' = Tied(p) /\ Newer(p)' = Newer(p)
  BY <1>1, <1>8 DEF Tied, Newer, database
<1>10. ASSUME upset = {}
       PROVE  /\ counted = Cardinality(Rows)
              /\ Len(found) = 0 => counted <= (page - 1) * PageSize
  <2>1. PICK order \in Orders(Rows) : found = PageOf(order, page, PageSize)
    BY <1>1, <1>10 DEF QueriesAreCurrent
  <2>2. order \in Seq(Rows) /\ Len(order) = Cardinality(Rows) /\ Len(order) \in Nat
    BY <1>8, <2>1, OrderFacts
  <2>3. counted = Len(order)
    BY <1>1, <1>10, <2>2 DEF QueriesAreCurrent
  <2>4. PICK from \in Nat : from = (page - 1) * PageSize
    BY <1>6
  <2>5. ASSUME Len(found) = 0, counted > from PROVE FALSE
    <3>1. from + 1 \in 1 .. Len(order) /\ from < from + 1 /\ from + 1 <= from + PageSize
      BY <1>6, <2>2, <2>3, <2>4, <2>5
    <3>2. order[from + 1] \in ToSet(found)
      BY <1>6, <2>1, <2>2, <2>4, <3>1, PageFacts
    <3>. QED
      BY <1>4, <2>5, <3>2 DEF ToSet
  <2>. QED
    BY <1>6, <2>2, <2>3, <2>4, <2>5
<1>11. ASSUME upset = {}, NEW p \in present \ seen', ~ Tied(p)
       PROVE  /\ Cardinality(Newer(p)) \in Nat
              /\ Cardinality(Newer(p)) >= reached' * PageSize
              /\ Cardinality(Newer(p)) >= page * PageSize
              /\ Cardinality(Newer(p)) < counted
  <2>1. PICK order \in Orders(Rows) : found = PageOf(order, page, PageSize)
    BY <1>1, <1>11 DEF QueriesAreCurrent
  <2>2. p \in Rows /\ p \in present \ seen /\ p \notin ToSet(found)
    BY <1>7 DEF OnlyRows
  <2>3. PICK i \in 1 .. Len(order) : order[i] = p
    BY <1>8, <2>1, <2>2, OrderFacts
  <2>4. order \in Seq(Rows) /\ Len(order) = Cardinality(Rows) /\ Len(order) \in Nat
    BY <1>8, <2>1, OrderFacts
  <2>5. Cardinality(Newer(p)) = i - 1
    BY <1>11, <2>1, <2>3, PlaceOfRow
  <2>6. Cardinality(Newer(p)) >= reached * PageSize
    BY <1>11, <2>2 DEF PushedDown
  <2>7. counted = Len(order)
    BY <1>10, <1>11, <2>4
  <2>8. ~ ((page - 1) * PageSize < i /\ i <= (page - 1) * PageSize + PageSize)
    BY <1>6, <2>1, <2>2, <2>3, <2>4, PageFacts
  <2>9. (page - 1) * PageSize <= reached * PageSize
    BY <1>6, <1>11
  <2>10. /\ reached * PageSize \in Nat /\ (page - 1) * PageSize \in Nat
         /\ page * PageSize = (page - 1) * PageSize + PageSize
    BY <1>6
  <2>11. Cardinality(Newer(p)) >= page * PageSize
    BY <1>6, <2>3, <2>4, <2>5, <2>6, <2>8, <2>9, <2>10
  <2>. QED
    BY <1>6, <1>7, <2>3, <2>4, <2>5, <2>6, <2>7, <2>11
<1>12. PushedDown'
  <2>. SUFFICES ASSUME upset = {}, NEW p \in present \ seen', ~ Tied(p)'
                PROVE  Cardinality(Newer(p)') >= reached' * PageSize
    BY <1>7 DEF PushedDown
  <2>1. p \in Rows
    BY DEF OnlyRows
  <2>. QED
    BY <1>9, <1>11, <2>1
<1>13. SkippedForAReason'
  <2>. SUFFICES ASSUME ButtonsOf(answer) # "more", upset = {}, NEW p \in present \ seen',
                       ~ Tied(p)'
                PROVE  FALSE
    BY <1>7 DEF SkippedForAReason, Ended
  <2>1. p \in Rows
    BY DEF OnlyRows
  <2>2. /\ Cardinality(Newer(p)) \in Nat /\ Cardinality(Newer(p)) >= page * PageSize
        /\ Cardinality(Newer(p)) < counted
    BY <1>9, <1>11, <2>1
  <2>3. counted <= page * PageSize
    BY <1>2, <1>4, <1>6, <1>10, NoNextNoRows
  <2>. QED
    BY <1>6, <2>2, <2>3
<1>. QED
  BY <1>5, <1>12, <1>13

(***************************************************************************)
(* The theorems                                                            *)
(***************************************************************************)

\* Nothing is shown, asked for or cached at first.
LEMMA InitHistory == Init => HistoryInv
<1>. SUFFICES ASSUME Init PROVE HistoryInv
  OBVIOUS
<1>1. Cardinality(Payment) \in Nat
  BY Sizes
<1>2. TypeOK
  <2>1. page \in 0 .. MaxPage /\ reached \in 0 .. MaxPage /\ loading = FALSE /\ loads = 0
    BY HistoryAssumption DEF Init
  <2>2. cached \in [1 .. MaxPage -> Answer \cup {Nothing}]
    BY DEF Init
  <2>3. createdAt \in [Payment -> Nat]
    BY DEF Init
  <2>4. /\ found \in Seq(Payment) \cup {Nothing}
        /\ counted \in (0 .. Cardinality(Payment)) \cup {Nothing}
    BY DEF Init
  <2>5. clock \in Nat \ {0}
    BY DEF Init
  <2>6. buttons = "none"
    BY DEF Init
  <2>7. committed = {} /\ seen = {} /\ present = {} /\ upset = {}
    BY DEF Init
  <2>. QED
    BY <2>1, <2>2, <2>3, <2>4, <2>5, <2>6, <2>7 DEF TypeOK
<1>3. OnlyRows /\ OneByOne /\ QueriesAreCurrent /\ PushedDown /\ SkippedForAReason
  BY HistoryAssumption
     DEF Init, OnlyRows, OneByOne, QueriesAreCurrent, PushedDown, SkippedForAReason, Ended
<1>. QED
  BY <1>2, <1>3 DEF HistoryInv

\* Every step keeps the invariant.
LEMMA NextHistory == HistoryInv /\ [Next]_vars => HistoryInv'
<1>. SUFFICES ASSUME HistoryInv, [Next]_vars PROVE HistoryInv'
  OBVIOUS
<1>0. /\ clock \in Nat \ {0} /\ createdAt \in [Payment -> Nat] /\ committed \subseteq Payment
      /\ upset \subseteq {"torn", "cached", "failed"}
      /\ \A p \in committed : createdAt[p] # 0
  BY DEF HistoryInv, TypeOK, OnlyRows
<1>1. CASE Tick
  BY <1>0, <1>1, PaymentsKeep DEF Tick, screen
<1>2. ASSUME NEW p \in Payment, Begin(p) PROVE HistoryInv'
  <2>1. /\ createdAt' \in [Payment -> Nat] /\ p \notin committed
        /\ \A q \in committed : createdAt'[q] = createdAt[q]
    BY <1>0, <1>2 DEF Begin
  <2>. QED
    BY <1>0, <1>2, <2>1, PaymentsKeep DEF Begin, screen
<1>3. ASSUME NEW p \in Payment, Commit(p) PROVE HistoryInv'
  <2>1. /\ upset \subseteq upset' /\ upset' \subseteq {"torn", "cached", "failed"}
        /\ (upset' # {} \/ ~ loading)
    BY <1>0, <1>3 DEF Commit
  <2>. QED
    BY <1>0, <1>3, <2>1, PaymentsKeep DEF Commit
<1>4. ASSUME NEW pg \in DOMAIN cached, Forget(pg) PROVE HistoryInv'
  BY <1>4, ForgetKeeps
<1>5. CASE UNCHANGED vars
  BY <1>0, <1>5, PaymentsKeep DEF vars, database, screen
<1>. QED
  BY <1>1, <1>2, <1>3, <1>4, <1>5, StartKeeps, AskKeeps, FromCacheKeeps, FindKeeps, CountKeeps,
     RespondKeeps, FailKeeps
     DEF Next

\* Pages, rows and cached answers stay consistent however reading and paying interleave.
THEOREM HistoryInvariant == Spec => []HistoryInv
BY InitHistory, NextHistory, PTL DEF Spec

\* Whoever reads to the end has seen every row there was when he began, unless a page
\* could not be loaded, a payment tore an answer, a page came from the cache, or rows are
\* of one millisecond (src/services/transaction.service.js, orderBy createdAt alone).
THEOREM NothingSkipped == Spec => []SkippedForAReason
BY HistoryInvariant, PTL DEF HistoryInv

\* What the list shows, from the cache too, opens, and nobody else's payment does.
THEOREM ListedOpens == Spec => []OpensWhatItLists
<1>1. HistoryInv => OpensWhatItLists
  BY DEF HistoryInv, OnlyRows, Rows, OpensWhatItLists, StatusOf
<1>. QED
  BY <1>1, HistoryInvariant, PTL

\* Whatever is asked for, the pages are the whole list, each row once, with nothing after
\* them; what is no page number is page 1 (transaction.service.js:163-165, 207).  TLC
\* checks a few texts, this is of all.
THEOREM PagesAreAPartition == Spec => [](PagesPartition /\ CutsExactly(Int, Int))
<1>1. HistoryInv => CutsExactly(Int, Int)
  <2>. SUFFICES ASSUME HistoryInv, NEW limitText \in Int, NEW order \in Orders(Rows)
                PROVE  LET limit == SafeLimit(OrDefault(limitText, 20))
                           pages == TotalPages(Len(order), limit)
                       IN  /\ FlattenSeq([pg \in 1 .. pages |-> PageOf(order, pg, limitText)])
                                = order
                           /\ PageOf(order, pages + 1, limitText) = <<>>
                           /\ \A pageText \in Int : pageText < 1 =>
                                PageOf(order, pageText, limitText) = PageOf(order, 1, limitText)
    BY DEF CutsExactly
  <2>1. order \in Seq(Rows)
    <3>1. Rows \in SUBSET Payment
      BY DEF HistoryInv, TypeOK, Rows
    <3>. QED
      BY <3>1, OrderFacts
  <2>2. PICK limit \in Nat \ {0} : limit = SafeLimit(OrDefault(limitText, 20))
    BY DEF SafeLimit, OrDefault
  <2>3. \A pageText \in Int :
          pageText < 1 => SafePage(OrDefault(pageText, 1)) = SafePage(OrDefault(1, 1))
    BY DEF SafePage, OrDefault
  <2>4. \A pageText \in Int :
          pageText < 1 => PageOf(order, pageText, limitText) = PageOf(order, 1, limitText)
    BY <2>3 DEF PageOf
  <2>5. PICK pages : pages = TotalPages(Len(order), limit)
    OBVIOUS
  <2>6. pages \in Nat /\ Len(order) \in Nat
    BY <2>1, <2>5, PagesHold
  <2>7. \A pg \in Nat \ {0} :
          PageOf(order, pg, limitText)
            = SubSeq(order, (pg - 1) * limit + 1, EndOf(order, limit, pg))
    BY <2>2, PageIs DEF EndOf
  <2>8. [pg \in 1 .. pages |-> PageOf(order, pg, limitText)]
          = [pg \in 1 .. pages |->
               SubSeq(order, (pg - 1) * limit + 1, EndOf(order, limit, pg))]
    BY <2>6, <2>7
  <2>9. PageOf(order, pages + 1, limitText)
          = SubSeq(order, pages * limit + 1, EndOf(order, limit, pages + 1))
    <3>1. PICK next \in Nat \ {0} : next = pages + 1 /\ next - 1 = pages
      BY <2>6
    <3>2. PageOf(order, next, limitText)
            = SubSeq(order, (next - 1) * limit + 1, EndOf(order, limit, next))
      BY <2>7
    <3>. QED
      BY <3>1, <3>2
  <2>10. /\ FlattenSeq([pg \in 1 .. pages |-> PageOf(order, pg, limitText)]) = order
         /\ PageOf(order, pages + 1, limitText) = << >>
    BY <2>1, <2>5, <2>8, <2>9, PagesTogether
  <2>. QED
    BY <2>2, <2>4, <2>5, <2>10
<1>2. CutsExactly(Int, Int) => PagesPartition
  BY DEF CutsExactly, PagesPartition
<1>. QED
  BY <1>1, <1>2, HistoryInvariant, PTL
==============================================================================
