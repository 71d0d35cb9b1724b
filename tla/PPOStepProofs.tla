---------------------------- MODULE PPOStepProofs ----------------------------
(***************************************************************************)
(* What holds of an iteration for every number of ranks, of prompts and of   *)
(* responses to a prompt, every valid configuration and all lengths of the   *)
(* responses.                                                                *)
(*                                                                         *)
(* First the partitions of the balancing: its heap of states is followed     *)
(* through the rounds, and every row stays in one bin (PartitionsAreWhole).   *)
(* Then the iteration: what the driver holds at each stage (Holding) gives    *)
(* the invariant IInv, and a call is followed from the chunks through what    *)
(* the ranks do with them to what is gathered.  On it rest two more           *)
(* invariants, of the collectives that the ranks enter (Entered) and of what  *)
(* the updates have trained (Counted).  Last, how even the partitions are     *)
(* (PartitionsAreBalanced), and that the shares stay so (Balanced).           *)
(***************************************************************************)
EXTENDS PPOStep, SequenceLemmas, FiniteSetTheorems, FunctionTheorems

-----------------------------------------------------------------------------
(* Orders and what is arranged by them. *)

\* A strict order of all members of a set.
TotalOrder(S, lt) ==
  /\ \A x \in S : <<x, x>> \notin lt
  /\ \A x, y, z \in S : <<x, y>> \in lt /\ <<y, z>> \in lt => <<x, z>> \in lt
  /\ \A x, y \in S : x = y \/ <<x, y>> \in lt \/ <<y, x>> \in lt

Smaller(S, lt, x) == {y \in S : <<y, x>> \in lt}

\* In a finite set each member has another number of smaller ones, and each number occurs.
LEMMA Ranking ==
  ASSUME NEW S, IsFiniteSet(S), NEW lt, TotalOrder(S, lt)
  PROVE  /\ Cardinality(S) \in Nat
         /\ \A x \in S : Cardinality(Smaller(S, lt, x)) \in 0..(Cardinality(S) - 1)
         /\ \A x, y \in S : <<x, y>> \in lt =>
              Cardinality(Smaller(S, lt, x)) < Cardinality(Smaller(S, lt, y))
         /\ \A m \in 0..(Cardinality(S) - 1) : \E x \in S : Cardinality(Smaller(S, lt, x)) = m
<1> DEFINE n == Cardinality(S)
           rank(x) == Cardinality(Smaller(S, lt, x))
           T == 0..(n - 1)
           f == [x \in S |-> rank(x)]
<1>1. n \in Nat
  BY FS_CardinalityType
<1>2. ASSUME NEW x \in S
      PROVE  IsFiniteSet(Smaller(S, lt, x)) /\ rank(x) \in Nat /\ rank(x) < n
  <2>1. Smaller(S, lt, x) \in SUBSET S /\ Smaller(S, lt, x) # S
    BY DEF Smaller, TotalOrder
  <2>2. IsFiniteSet(Smaller(S, lt, x)) /\ rank(x) <= n /\ rank(x) # n
    BY <2>1, FS_Subset
  <2> QED BY <1>1, <2>2, FS_CardinalityType
<1>3. ASSUME NEW x \in S, NEW y \in S, <<x, y>> \in lt PROVE rank(x) < rank(y)
  <2>1. Smaller(S, lt, x) \in SUBSET Smaller(S, lt, y)
    BY <1>3 DEF Smaller, TotalOrder
  <2>2. Smaller(S, lt, x) # Smaller(S, lt, y)
    BY <1>3 DEF Smaller, TotalOrder
  <2>3. rank(x) <= rank(y) /\ rank(x) # rank(y)
    BY <1>2, <2>1, <2>2, FS_Subset
  <2> QED BY <1>2, <2>3
<1>4. f \in Injection(S, T)
  <2>1. f \in [S -> T]
    BY <1>1, <1>2
  <2>2. ASSUME NEW x \in S, NEW y \in S, f[x] = f[y] PROVE x = y
    <3>1. rank(x) = rank(y) /\ rank(x) \in Nat /\ rank(y) \in Nat
      BY <1>2, <2>2
    <3>2. x = y \/ <<x, y>> \in lt \/ <<y, x>> \in lt
      BY DEF TotalOrder
    <3> HIDE DEF f, rank
    <3> QED BY <1>3, <3>1, <3>2
  <2> HIDE DEF f, T
  <2> QED BY <2>1, <2>2, Fun_IsInj
<1>5. f \in Surjection(S, T)
  <2>1. IsFiniteSet(T) /\ Cardinality(T) = n
    BY <1>1, FS_Interval
  <2> HIDE DEF f, T
  <2> QED BY <1>4, <2>1, FS_Injection
<1>6. ASSUME NEW m \in T PROVE \E x \in S : rank(x) = m
  <2>1. PICK x \in S : f[x] = m
    BY <1>5 DEF Surjection
  <2> QED BY <2>1
<1> QED BY <1>1, <1>2, <1>3, <1>6

\* A way to take all of n things, one after the other.
Permutes(f, n) ==
  /\ f \in [1..n -> 1..n]
  /\ \A i, j \in 1..n : f[i] = f[j] => i = j
  /\ \A j \in 1..n : \E i \in 1..n : f[i] = j

\* An order of positions which may leave some of them level.
Orders(before, n) ==
  /\ \A i, j \in 1..n : <<i, j>> \in before => <<j, i>> \notin before
  /\ \A i, j, k \in 1..n :
       <<i, j>> \notin before /\ <<j, k>> \notin before => <<i, k>> \notin before

\* What is arranged has the same elements in another order.
LEMMA ArrangedPermutes ==
  ASSUME NEW X, NEW s \in Seq(X), NEW before, Orders(before, Len(s))
  PROVE  \E f : /\ Permutes(f, Len(s))
                /\ Arranged(s, before) = [n \in 1..Len(s) |-> s[f[n]]]
                /\ \A i, j \in 1..Len(s) : i < j => <<f[j], f[i]>> \notin before
<1> DEFINE n == Len(s)
           S == 1..n
           lt == {p \in S \X S : p[1] \in Ahead(s, before, p[2])}
<1>1. n \in Nat /\ DOMAIN s = S /\ IsFiniteSet(S) /\ Cardinality(S) = n
  <2>1. n \in Nat /\ DOMAIN s = S
    BY LenProperties
  <2> HIDE DEF n
  <2>2. IsFiniteSet(S) /\ Cardinality(S) = n
    BY <2>1, FS_Interval
  <2> QED BY <2>1, <2>2
<1>2. ASSUME NEW i \in S, NEW j \in S
      PROVE  <<j, i>> \in lt <=> <<j, i>> \in before \/ (<<i, j>> \notin before /\ j < i)
  BY <1>1 DEF Ahead
<1>3. TotalOrder(S, lt)
  <2>1. ASSUME NEW i \in S PROVE <<i, i>> \notin lt
    BY <1>1, <1>2 DEF Orders
  <2>2. ASSUME NEW i \in S, NEW j \in S, NEW k \in S, <<i, j>> \in lt, <<j, k>> \in lt
        PROVE  <<i, k>> \in lt
    <3>1. i \in Nat /\ j \in Nat /\ k \in Nat
      BY <1>1
    <3>2. /\ <<i, j>> \in before => <<j, i>> \notin before
          /\ <<j, k>> \in before => <<k, j>> \notin before
          /\ <<k, i>> \notin before /\ <<i, j>> \notin before => <<k, j>> \notin before
          /\ <<j, k>> \notin before /\ <<k, i>> \notin before => <<j, i>> \notin before
          /\ <<i, k>> \notin before /\ <<k, j>> \notin before => <<i, j>> \notin before
          /\ <<j, i>> \notin before /\ <<i, k>> \notin before => <<j, k>> \notin before
          /\ <<k, j>> \notin before /\ <<j, i>> \notin before => <<k, i>> \notin before
      BY DEF Orders
    <3>3. <<i, j>> \in before \/ (<<j, i>> \notin before /\ i < j)
      BY <1>2, <2>2
    <3>4. <<j, k>> \in before \/ (<<k, j>> \notin before /\ j < k)
      BY <1>2, <2>2
    <3>5. <<i, k>> \in before \/ (<<k, i>> \notin before /\ i < k)
      <4> HIDE DEF S, lt, n
      <4> QED BY <3>1, <3>2, <3>3, <3>4
    <3> QED BY <1>2, <3>5
  <2>3. ASSUME NEW i \in S, NEW j \in S PROVE i = j \/ <<i, j>> \in lt \/ <<j, i>> \in lt
    BY <1>1, <1>2
  <2> HIDE DEF S, lt
  <2> QED BY <2>1, <2>2, <2>3 DEF TotalOrder
<1>4. ASSUME NEW i \in S PROVE Ahead(s, before, i) = Smaller(S, lt, i)
  BY <1>1 DEF Ahead, Smaller
<1> DEFINE rank(i) == Cardinality(Ahead(s, before, i))
           f == [m \in S |-> CHOOSE i \in S : rank(i) = m - 1]
<1>5. /\ \A i \in S : rank(i) \in 0..(n - 1)
      /\ \A i, j \in S : <<i, j>> \in lt => rank(i) < rank(j)
      /\ \A m \in 0..(n - 1) : \E i \in S : rank(i) = m
  <2> HIDE DEF S, lt, n
  <2> QED BY <1>1, <1>3, <1>4, Ranking, SMTT(20)
<1>6. ASSUME NEW i \in S, NEW j \in S, rank(i) = rank(j) PROVE i = j
  <2>1. i = j \/ <<i, j>> \in lt \/ <<j, i>> \in lt
    BY <1>3 DEF TotalOrder
  <2>2. rank(i) \in Nat
    BY <1>1, <1>5
  <2> HIDE DEF lt, S
  <2> QED BY <1>5, <1>6, <2>1, <2>2
<1>7. ASSUME NEW m \in S PROVE f[m] \in S /\ rank(f[m]) = m - 1
  <2>1. m - 1 \in 0..(n - 1)
    BY <1>1
  <2>2. \E i \in S : rank(i) = m - 1
    BY <1>5, <2>1
  <2> HIDE DEF rank
  <2> QED BY <2>2
<1>8. Permutes(f, n)
  <2>1. f \in [S -> S]
    BY <1>7
  <2>2. ASSUME NEW i \in S, NEW j \in S, f[i] = f[j] PROVE i = j
    <3>1. i - 1 = j - 1
      BY <1>7, <2>2
    <3> QED BY <1>1, <3>1
  <2>3. ASSUME NEW j \in S PROVE \E i \in S : f[i] = j
    <3>1. rank(j) + 1 \in S /\ (rank(j) + 1) - 1 = rank(j)
      BY <1>1, <1>5
    <3>2. f[rank(j) + 1] = j
      <4> HIDE DEF f, rank
      <4> QED BY <1>6, <1>7, <3>1
    <3> QED BY <3>1, <3>2
  <2> HIDE DEF f
  <2> QED BY <2>1, <2>2, <2>3 DEF Permutes
<1>9. Arranged(s, before) = [m \in S |-> s[f[m]]]
  <2> DEFINE t == [m \in S |-> s[f[m]]]
  <2>1. t \in Seq(X) /\ Len(t) = n
    <3>1. \A m \in S : t[m] \in X
      BY <1>1, <1>7, ElementOfSeq
    <3> QED BY <1>1, <3>1
  <2>2. SubSeq(t, 1, n) = t
    BY <2>1, SubSeqFull
  <2>3. t = [m \in DOMAIN s |-> s[CHOOSE i \in DOMAIN s : rank(i) = m - 1]]
    BY <1>1
  <2> QED BY <2>2, <2>3 DEF Arranged
<1>10. ASSUME NEW i \in S, NEW j \in S, i < j PROVE <<f[j], f[i]>> \notin before
  <2>1. rank(f[i]) < rank(f[j]) /\ f[i] \in S /\ f[j] \in S
    BY <1>1, <1>7, <1>10
  <2>2. rank(f[i]) \in Nat /\ rank(f[j]) \in Nat
    BY <1>1, <1>5, <2>1
  <2>3. <<f[j], f[i]>> \notin lt
    <3> HIDE DEF f, rank, lt, S
    <3> QED BY <1>5, <2>1, <2>2
  <2> HIDE DEF f
  <2> QED BY <1>2, <2>1, <2>3
<1> HIDE DEF f
<1> QED BY <1>8, <1>9, <1>10

-----------------------------------------------------------------------------
(* Bins and states. *)

\* The bins that may come of L rows: an empty one weighs nothing.
Bins(L) == [sum : Nat, rows : Seq(1..L)]
IsBin(b, L) == b \in Bins(L) /\ (b.rows = <<>> => b.sum = 0)

\* By sum, number of rows and first row, bins are in order.
LEMMA BelowIsOrder ==
  ASSUME NEW L, NEW a \in Bins(L), NEW b \in Bins(L), NEW c \in Bins(L)
  PROVE  /\ ~ (Below(a, b) /\ Below(b, a))
         /\ ~ Below(a, b) /\ ~ Below(b, c) => ~ Below(a, c)
         /\ ~ Below(a, b) => b.sum <= a.sum
<1> DEFINE first(x) == IF x.rows = <<>> THEN 0 ELSE x.rows[1]
           below(x, y) == \/ x.sum < y.sum
                          \/ x.sum = y.sum /\ Len(x.rows) < Len(y.rows)
                          \/ x.sum = y.sum /\ Len(x.rows) = Len(y.rows) /\ first(x) < first(y)
<1>1. ASSUME NEW x \in Bins(L)
      PROVE  /\ x.sum \in Nat /\ Len(x.rows) \in Nat /\ first(x) \in Int
             /\ x.rows = <<>> <=> Len(x.rows) = 0
  <2>1. x.sum \in Nat /\ x.rows \in Seq(1..L)
    BY DEF Bins
  <2>2. Len(x.rows) \in Nat /\ (x.rows = <<>> <=> Len(x.rows) = 0)
    BY <2>1, EmptySeq, LenProperties
  <2>3. x.rows # <<>> => x.rows[1] \in 1..L
    <3>1. SUFFICES ASSUME x.rows # <<>> PROVE x.rows[1] \in 1..L
      OBVIOUS
    <3>2. 1 \in 1..Len(x.rows)
      BY <2>2, <3>1
    <3> HIDE DEF first
    <3> QED BY <2>1, <3>2, ElementOfSeq
  <2> QED BY <2>1, <2>2, <2>3
<1>2. ASSUME NEW x \in Bins(L), NEW y \in Bins(L) PROVE Below(x, y) <=> below(x, y)
  <2>1. CASE x.rows = <<>> /\ y.rows = <<>>
    BY <1>1, <2>1 DEF Below
  <2>2. CASE x.rows # <<>> /\ y.rows # <<>>
    BY <1>1, <2>2 DEF Below
  <2>3. CASE Len(x.rows) # Len(y.rows)
    BY <1>1, <2>3 DEF Below
  <2>4. \/ x.rows = <<>> /\ y.rows = <<>>
        \/ x.rows # <<>> /\ y.rows # <<>>
        \/ Len(x.rows) # Len(y.rows)
    BY <1>1
  <2> QED BY <2>1, <2>2, <2>3, <2>4
<1>3. /\ ~ (below(a, b) /\ below(b, a))
      /\ ~ below(a, b) /\ ~ below(b, c) => ~ below(a, c)
      /\ ~ below(a, b) => b.sum <= a.sum
  <2> HIDE DEF first
  <2> QED BY <1>1, SMTT(30)
<1> QED BY <1>2, <1>3

\* k bins in decreasing order, the first of which is not empty.
IsState(s, k, L) ==
  /\ s \in Seq(Bins(L)) /\ Len(s) = k
  /\ \A i \in 1..k : IsBin(s[i], L)
  /\ \A i, j \in 1..k : i < j => s[j].sum <= s[i].sum
  /\ s[1].rows # <<>>

\* Some bin is not empty.
IsLoaded(bins, k, L) ==
  /\ k \in Nat \ {0} /\ bins \in Seq(Bins(L)) /\ Len(bins) = k
  /\ \A i \in 1..k : IsBin(bins[i], L)
  /\ \E i \in 1..k : bins[i].rows # <<>>

\* Bins in decreasing order are the same bins, and a state.
LEMMA DecreasingIsState ==
  ASSUME NEW L, NEW k, NEW bins, IsLoaded(bins, k, L)
  PROVE  /\ IsState(Decreasing(bins), k, L)
         /\ \E f : Permutes(f, k) /\ \A i \in 1..k : Decreasing(bins)[i] = bins[f[i]]
<1> DEFINE before == {p \in Pairs(bins) : Below(bins[p[2]], bins[p[1]])}
<1>1. /\ k \in Nat \ {0} /\ bins \in Seq(Bins(L)) /\ Len(bins) = k
      /\ \A i \in 1..k : IsBin(bins[i], L) /\ bins[i] \in Bins(L)
  BY DEF IsLoaded, IsBin
<1>2. ASSUME NEW i \in 1..k, NEW j \in 1..k
      PROVE  <<i, j>> \in before <=> Below(bins[j], bins[i])
  BY <1>1 DEF Pairs
<1>3. Orders(before, k)
  <2>1. ASSUME NEW i \in 1..k, NEW j \in 1..k, <<i, j>> \in before PROVE <<j, i>> \notin before
    <3> HIDE DEF before
    <3> QED BY <1>1, <1>2, <2>1, BelowIsOrder
  <2>2. ASSUME NEW i \in 1..k, NEW j \in 1..k, NEW l \in 1..k,
               <<i, j>> \notin before, <<j, l>> \notin before
        PROVE  <<i, l>> \notin before
    <3>1. ~ Below(bins[j], bins[i]) /\ ~ Below(bins[l], bins[j])
      BY <1>2, <2>2
    <3>2. ~ Below(bins[l], bins[i])
      BY <1>1, <3>1, BelowIsOrder
    <3> QED BY <1>2, <3>2
  <2> HIDE DEF before
  <2> QED BY <2>1, <2>2 DEF Orders
<1>4. PICK f : /\ Permutes(f, k)
               /\ Arranged(bins, before) = [n \in 1..k |-> bins[f[n]]]
               /\ \A i, j \in 1..k : i < j => <<f[j], f[i]>> \notin before
  <2> HIDE DEF before
  <2> QED BY <1>1, <1>3, ArrangedPermutes
<1> DEFINE s == Decreasing(bins)
<1>5. s = [n \in 1..k |-> bins[f[n]]] /\ \A i \in 1..k : f[i] \in 1..k
  BY <1>4 DEF Decreasing, Permutes
<1>6. s \in Seq(Bins(L)) /\ Len(s) = k /\ \A i \in 1..k : s[i] = bins[f[i]]
  <2>1. \A i \in 1..k : bins[f[i]] \in Bins(L)
    BY <1>1, <1>5
  <2> HIDE DEF s
  <2> QED BY <1>1, <1>5, <2>1
<1> HIDE DEF s
<1>7. ASSUME NEW i \in 1..k, NEW j \in 1..k, i < j
      PROVE  ~ Below(s[i], s[j])
  <2>1. <<f[j], f[i]>> \notin before
    BY <1>4, <1>7
  <2> HIDE DEF before
  <2> QED BY <1>2, <1>5, <1>6, <2>1
<1>8. ASSUME NEW i \in 1..k, NEW j \in 1..k, i < j
      PROVE  s[j].sum <= s[i].sum
  BY <1>1, <1>5, <1>6, <1>7, <1>8, BelowIsOrder
<1>9. s[1].rows # <<>>
  <2>1. SUFFICES ASSUME s[1].rows = <<>> PROVE FALSE
    OBVIOUS
  <2>2. PICK m \in 1..k : bins[m].rows # <<>>
    BY DEF IsLoaded
  <2>3. PICK i \in 1..k : f[i] = m
    BY <1>4 DEF Permutes
  <2>4. s[i].rows # <<>> /\ i # 1 /\ 1 \in 1..k /\ s[i] \in Bins(L) /\ s[1] \in Bins(L)
    BY <1>1, <1>5, <1>6, <2>1, <2>2, <2>3
  <2>5. ~ Below(s[1], s[i])
    BY <1>7, <2>4
  <2>6. s[1].sum = 0 /\ s[i].sum \in Nat /\ Len(s[i].rows) \in Nat \ {0} /\ Len(s[1].rows) = 0
    <3>1. IsBin(s[1], L)
      BY <1>1, <1>5, <1>6, <2>4
    <3>2. s[i].rows \in Seq(1..L) /\ s[i].sum \in Nat
      BY <2>4 DEF Bins
    <3> QED BY <2>1, <2>4, <3>1, <3>2, EmptySeq, LenProperties DEF IsBin
  <2> QED BY <2>5, <2>6 DEF Below
<1>10. \A i \in 1..k : IsBin(s[i], L)
  BY <1>1, <1>5, <1>6
<1>11. IsState(s, k, L)
  BY <1>6, <1>8, <1>9, <1>10 DEF IsState
<1> QED BY <1>4, <1>6, <1>11 DEF s

\* Row r is at place j of bin i.  A state has no row at two places.
IsAt(s, i, j, r) == i \in DOMAIN s /\ j \in DOMAIN s[i].rows /\ s[i].rows[j] = r
Holds(s, r) == \E i, j : IsAt(s, i, j, r)
IsOnce(s) == \A r, i, j, a, b : IsAt(s, i, j, r) /\ IsAt(s, a, b, r) => i = a /\ j = b

\* All bins have as many rows.
IsLevel(s) == \A i, j \in DOMAIN s : Len(s[i].rows) = Len(s[j].rows)

\* The states share L rows among them.
Shares(states, k, L, equalSize) ==
  /\ k \in Nat \ {0} /\ IsFiniteSet(states) /\ states # {}
  /\ \A s \in states : IsState(s, k, L) /\ IsOnce(s) /\ (equalSize => IsLevel(s))
  /\ \A s, t \in states : \A r : Holds(s, r) /\ Holds(t, r) => s = t
  /\ \A r \in 1..L : \E s \in states : Holds(s, r)

\* A state holds the first row of its first bin.
LEMMA StateHolds ==
  ASSUME NEW k \in Nat \ {0}, NEW L, NEW s, IsState(s, k, L)
  PROVE  /\ s[1] \in Bins(L) /\ s[k] \in Bins(L) /\ Holds(s, s[1].rows[1])
         /\ s[1].rows # <<>> /\ DOMAIN s = 1..k
<1>1. s \in Seq(Bins(L)) /\ Len(s) = k /\ s[1].rows # <<>>
  BY DEF IsState
<1>2. DOMAIN s = 1..k /\ 1 \in DOMAIN s /\ s[1] \in Bins(L) /\ s[k] \in Bins(L)
  BY <1>1, LenProperties, ElementOfSeq
<1>3. s[1].rows \in Seq(1..L)
  BY <1>2 DEF Bins
<1>4. 1 \in DOMAIN s[1].rows
  BY <1>1, <1>3, EmptySeq, LenProperties
<1> QED BY <1>1, <1>2, <1>4 DEF Holds, IsAt

\* There is a first state.
LEMMA FirstIsOne ==
  ASSUME NEW k, NEW L, NEW equalSize, NEW all, Shares(all, k, L, equalSize),
         NEW states, states \subseteq all, states # {}
  PROVE  First(states) \in states
<1> DEFINE before(s, t) == \/ Spread(s) > Spread(t)
                           \/ Spread(s) = Spread(t) /\ Below(t[1], s[1])
           lt == {p \in states \X states : before(p[1], p[2])}
           level(s, t) == /\ Spread(s) = Spread(t) /\ s[1].sum = t[1].sum
                          /\ Len(s[1].rows) = Len(t[1].rows) /\ s[1].rows[1] = t[1].rows[1]
<1>1. /\ k \in Nat \ {0} /\ IsFiniteSet(states)
      /\ \A s \in states : IsState(s, k, L)
      /\ \A s, t \in states : \A r : Holds(s, r) /\ Holds(t, r) => s = t
  BY FS_Subset DEF Shares
<1>2. ASSUME NEW s \in states
      PROVE  /\ Spread(s) \in Int /\ s[1] \in Bins(L) /\ s[1].sum \in Nat
             /\ Len(s[1].rows) \in Nat /\ s[1].rows # <<>>
             /\ s[1].rows[1] \in Int /\ Holds(s, s[1].rows[1])
  <2>1. /\ s[1] \in Bins(L) /\ s[k] \in Bins(L) /\ Holds(s, s[1].rows[1])
        /\ s[1].rows # <<>> /\ Len(s) = k
    BY <1>1, StateHolds DEF IsState
  <2>2. s[1].sum \in Nat /\ s[k].sum \in Nat /\ s[1].rows \in Seq(1..L)
    BY <2>1 DEF Bins
  <2>3. Len(s[1].rows) \in Nat /\ s[1].rows[1] \in 1..L
    <3>1. 1 \in 1..Len(s[1].rows)
      BY <2>1, <2>2, EmptySeq, LenProperties
    <3> QED BY <2>2, <3>1, ElementOfSeq, LenProperties
  <2> QED BY <2>1, <2>2, <2>3 DEF Spread
<1>3. ASSUME NEW s \in states, NEW t \in states, level(s, t) PROVE s = t
  BY <1>1, <1>2, <1>3
<1>4. TotalOrder(states, lt)
  <2>1. ASSUME NEW s \in states PROVE <<s, s>> \notin lt
    BY <1>2 DEF Below
  <2>2. ASSUME NEW s \in states, NEW t \in states, NEW u \in states, before(s, t), before(t, u)
        PROVE  before(s, u)
    <3>1. /\ ~ (Below(u[1], t[1]) /\ Below(t[1], u[1]))
          /\ ~ Below(u[1], s[1]) /\ ~ Below(s[1], t[1]) => ~ Below(u[1], t[1])
          /\ ~ (Below(t[1], s[1]) /\ Below(s[1], t[1]))
      BY <1>2, BelowIsOrder
    <3> QED BY <1>2, <2>2, <3>1
  <2>3. ASSUME NEW s \in states, NEW t \in states PROVE s = t \/ before(s, t) \/ before(t, s)
    BY <1>2, <1>3 DEF Below
  <2>4. ASSUME NEW s \in states, NEW t \in states PROVE <<s, t>> \in lt <=> before(s, t)
    OBVIOUS
  <2> HIDE DEF lt, before
  <2> QED BY <2>1, <2>2, <2>3, <2>4 DEF TotalOrder
<1>5. PICK s \in states : Cardinality(Smaller(states, lt, s)) = 0
  <2>1. Cardinality(states) \in Nat /\ Cardinality(states) # 0
    BY <1>1, FS_EmptySet, FS_CardinalityType
  <2>2. 0 \in 0..(Cardinality(states) - 1)
    BY <2>1
  <2> HIDE DEF lt
  <2> QED BY <1>1, <1>4, <2>2, Ranking
<1>6. Smaller(states, lt, s) = {}
  <2>1. Smaller(states, lt, s) \in SUBSET states
    BY DEF Smaller
  <2> HIDE DEF lt
  <2> QED BY <1>1, <1>5, <2>1, FS_Subset, FS_EmptySet
<1>7. ASSUME NEW t \in states \ {s} PROVE before(s, t)
  <2>1. <<t, s>> \notin lt
    BY <1>6 DEF Smaller
  <2>2. <<s, t>> \in lt
    <3> HIDE DEF lt
    <3> QED BY <1>4, <2>1 DEF TotalOrder
  <2> QED BY <2>2
<1> QED BY <1>7 DEF First

\* The places of two sequences in the one that joins them.
LEMMA ConcatPlaces ==
  ASSUME NEW X, NEW u \in Seq(X), NEW v \in Seq(X)
  PROVE  /\ u \o v \in Seq(X) /\ Len(u \o v) = Len(u) + Len(v)
         /\ \A j \in DOMAIN (u \o v) :
              \/ j \in DOMAIN u /\ (u \o v)[j] = u[j]
              \/ j - Len(u) \in DOMAIN v /\ (u \o v)[j] = v[j - Len(u)]
         /\ \A j \in DOMAIN u : j \in DOMAIN (u \o v) /\ (u \o v)[j] = u[j]
         /\ \A j \in DOMAIN v :
              /\ j + Len(u) \in DOMAIN (u \o v) /\ (u \o v)[j + Len(u)] = v[j]
              /\ j \in Int
         /\ \A j \in DOMAIN (u \o v) : j \in Int
         /\ Len(u) \in Nat /\ Len(v) \in Nat
<1> DEFINE w == u \o v
           m == Len(u)
           n == Len(v)
<1>1. /\ w \in Seq(X) /\ Len(w) = m + n /\ m \in Nat /\ n \in Nat
      /\ DOMAIN w = 1..(m + n) /\ DOMAIN u = 1..m /\ DOMAIN v = 1..n
      /\ \A j \in 1..(m + n) : w[j] = IF j <= m THEN u[j] ELSE v[j - m]
  BY ConcatProperties, LenProperties
<1> HIDE DEF w, m, n
<1>2. ASSUME NEW j \in 1..(m + n)
      PROVE  (j <= m => j \in 1..m) /\ (~ (j <= m) => j - m \in 1..n)
  BY <1>1
<1>3. ASSUME NEW j \in 1..m PROVE j \in 1..(m + n) /\ j <= m
  BY <1>1
<1>4. ASSUME NEW j \in 1..n PROVE j + m \in 1..(m + n) /\ ~ (j + m <= m) /\ (j + m) - m = j
  BY <1>1
<1>5. \A j \in DOMAIN w : (j \in DOMAIN u /\ w[j] = u[j]) \/ (j - m \in DOMAIN v /\ w[j] = v[j - m])
  BY <1>1, <1>2
<1>6. \A j \in DOMAIN u : j \in DOMAIN w /\ w[j] = u[j]
  BY <1>1, <1>3
<1>7. \A j \in DOMAIN v : j + m \in DOMAIN w /\ w[j + m] = v[j] /\ j \in Int
  BY <1>1, <1>4
<1>8. \A j \in DOMAIN w : j \in Int
  BY <1>1
<1> QED BY <1>1, <1>5, <1>6, <1>7, <1>8 DEF w, m, n

\* The bins of two states, the largest with the smallest.
Paired(s, t) ==
  [i \in DOMAIN s |->
    LET j == Len(s) + 1 - i
    IN  [sum |-> s[i].sum + t[j].sum, rows |-> s[i].rows \o t[j].rows]]

\* A pair of bins is a bin, empty only if both are.
PairsUp(k, L, s, t, i) ==
  LET j == k + 1 - i
      b == Paired(s, t)[i]
  IN  /\ j \in 1..k /\ s[i].rows \in Seq(1..L) /\ t[j].rows \in Seq(1..L)
      /\ IsBin(b, L) /\ b.sum = s[i].sum + t[j].sum /\ b.rows = s[i].rows \o t[j].rows
      /\ s[i].rows # <<>> => b.rows # <<>>

\* That is how the bins of two states go together.
LEMMA PairedBins ==
  ASSUME NEW k \in Nat \ {0}, NEW L, NEW s, NEW t, IsState(s, k, L), IsState(t, k, L),
         NEW i \in 1..k
  PROVE  PairsUp(k, L, s, t, i)
<1> DEFINE j == k + 1 - i
           u == s[i].rows
           v == t[j].rows
           b == Paired(s, t)[i]
<1>1. /\ j \in 1..k /\ DOMAIN s = 1..k /\ Len(s) = k
      /\ s[i] \in Bins(L) /\ t[j] \in Bins(L)
      /\ u = <<>> => s[i].sum = 0
      /\ v = <<>> => t[j].sum = 0
  BY LenProperties DEF IsState, IsBin
<1>2. u \in Seq(1..L) /\ v \in Seq(1..L) /\ s[i].sum \in Nat /\ t[j].sum \in Nat
  BY <1>1 DEF Bins
<1>3. b = [sum |-> s[i].sum + t[j].sum, rows |-> u \o v]
  BY <1>1 DEF Paired
<1> HIDE DEF j, u, v, b
<1>4. b.sum = s[i].sum + t[j].sum /\ b.rows = u \o v
  BY <1>3
<1>5. u \o v \in Seq(1..L) /\ Len(u \o v) = Len(u) + Len(v) /\ Len(u) \in Nat /\ Len(v) \in Nat
  BY <1>2, ConcatPlaces
<1>6. b \in Bins(L)
  BY <1>2, <1>3, <1>5 DEF Bins
<1>7. u \o v = <<>> => Len(u) = 0 /\ Len(v) = 0
  BY <1>5, EmptySeq
<1>8. u \o v = <<>> => u = <<>> /\ v = <<>>
  BY <1>2, <1>7, EmptySeq
<1>9. b.rows = <<>> => b.sum = 0
  BY <1>1, <1>4, <1>8 DEF u, v
<1>10. IsBin(b, L)
  BY <1>6, <1>9 DEF IsBin
<1> QED BY <1>1, <1>2, <1>4, <1>8, <1>10 DEF j, u, v, b, PairsUp

\* Where a row of a pair of bins comes from.
LEMMA PairedPlaces ==
  ASSUME NEW k \in Nat \ {0}, NEW L, NEW s, NEW t, IsState(s, k, L), IsState(t, k, L),
         NEW i, NEW j, NEW r
  PROVE  /\ IsAt(Paired(s, t), i, j, r) =>
              /\ i \in 1..k /\ j \in Int /\ Len(s[i].rows) \in Int
              /\ \/ IsAt(s, i, j, r)
                 \/ IsAt(t, k + 1 - i, j - Len(s[i].rows), r)
         /\ IsAt(s, i, j, r) => IsAt(Paired(s, t), i, j, r)
         /\ IsAt(t, i, j, r) => Holds(Paired(s, t), r)
<1> DEFINE p == Paired(s, t)
<1>1. DOMAIN s = 1..k /\ DOMAIN t = 1..k /\ DOMAIN p = 1..k
  BY LenProperties DEF IsState, Paired
<1>2. ASSUME NEW a \in 1..k
      PROVE  /\ k + 1 - a \in 1..k /\ s[a].rows \in Seq(1..L) /\ t[k + 1 - a].rows \in Seq(1..L)
             /\ p[a].rows = s[a].rows \o t[k + 1 - a].rows
  <2>1. PairsUp(k, L, s, t, a)
    BY PairedBins
  <2> QED BY <2>1 DEF PairsUp
<1> HIDE DEF p
<1>3. ASSUME IsAt(p, i, j, r)
      PROVE  /\ i \in 1..k /\ j \in Int /\ Len(s[i].rows) \in Int
             /\ IsAt(s, i, j, r) \/ IsAt(t, k + 1 - i, j - Len(s[i].rows), r)
  <2> DEFINE u == s[i].rows
             c == k + 1 - i
             v == t[c].rows
  <2>1. i \in 1..k /\ j \in DOMAIN p[i].rows /\ p[i].rows[j] = r
    BY <1>1, <1>3 DEF IsAt
  <2>2. u \in Seq(1..L) /\ v \in Seq(1..L) /\ p[i].rows = u \o v /\ c \in 1..k
    BY <1>2, <2>1
  <2> HIDE DEF u, v, c
  <2>3. /\ (j \in DOMAIN u /\ u[j] = r) \/ (j - Len(u) \in DOMAIN v /\ v[j - Len(u)] = r)
        /\ j \in Int /\ Len(u) \in Int
    BY <2>1, <2>2, ConcatPlaces
  <2>4. j \in DOMAIN u /\ u[j] = r => IsAt(s, i, j, r)
    BY <1>1, <2>1 DEF IsAt, u
  <2>5. j - Len(u) \in DOMAIN v /\ v[j - Len(u)] = r => IsAt(t, c, j - Len(u), r)
    BY <1>1, <2>2 DEF IsAt, v
  <2> QED BY <2>1, <2>3, <2>4, <2>5 DEF u, c
<1>4. ASSUME IsAt(s, i, j, r) PROVE IsAt(p, i, j, r)
  <2> DEFINE u == s[i].rows
             v == t[k + 1 - i].rows
  <2>1. i \in 1..k /\ j \in DOMAIN u /\ u[j] = r
    BY <1>1, <1>4 DEF IsAt
  <2>2. u \in Seq(1..L) /\ v \in Seq(1..L) /\ p[i].rows = u \o v
    BY <1>2, <2>1
  <2> HIDE DEF u, v
  <2>3. j \in DOMAIN (u \o v) /\ (u \o v)[j] = r
    BY <2>1, <2>2, ConcatPlaces
  <2> QED BY <1>1, <2>1, <2>2, <2>3 DEF IsAt
<1>5. ASSUME IsAt(t, i, j, r) PROVE Holds(p, r)
  <2> DEFINE c == k + 1 - i
             u == s[c].rows
             v == t[i].rows
  <2>1. i \in 1..k /\ j \in DOMAIN v /\ v[j] = r
    BY <1>1, <1>5 DEF IsAt
  <2>2. c \in 1..k /\ k + 1 - c = i
    BY <2>1
  <2>3. u \in Seq(1..L) /\ v \in Seq(1..L) /\ p[c].rows = u \o v
    BY <1>2, <2>2
  <2> HIDE DEF u, v, c
  <2>4. j + Len(u) \in DOMAIN (u \o v) /\ (u \o v)[j + Len(u)] = r
    BY <2>1, <2>3, ConcatPlaces
  <2>5. IsAt(p, c, j + Len(u), r)
    BY <1>1, <2>2, <2>3, <2>4 DEF IsAt
  <2> QED BY <2>5 DEF Holds
<1> QED BY <1>3, <1>4, <1>5 DEF p

\* Bins in decreasing order have the same rows, each in one place if it was.
LEMMA DecreasingKeeps ==
  ASSUME NEW k, NEW L, NEW p, IsLoaded(p, k, L)
  PROVE  LET m == Decreasing(p)
         IN  /\ IsState(m, k, L) /\ \A r : Holds(m, r) <=> Holds(p, r)
             /\ IsOnce(p) => IsOnce(m)
             /\ IsLevel(p) => IsLevel(m)
<1> DEFINE m == Decreasing(p)
<1>1. PICK f : Permutes(f, k) /\ \A i \in 1..k : m[i] = p[f[i]]
  BY DecreasingIsState
<1>2. IsState(m, k, L)
  BY DecreasingIsState
<1> HIDE DEF m
<1>3. DOMAIN m = 1..k /\ DOMAIN p = 1..k
  BY <1>2, LenProperties DEF IsState, IsLoaded
<1>4. /\ \A i \in 1..k : f[i] \in 1..k
      /\ \A i, j \in 1..k : f[i] = f[j] => i = j
      /\ \A j \in 1..k : \E i \in 1..k : f[i] = j
  BY <1>1 DEF Permutes
<1>5. ASSUME NEW i, NEW j, NEW r
      PROVE  IsAt(m, i, j, r) => IsAt(p, f[i], j, r) /\ i \in 1..k
  BY <1>1, <1>3, <1>4 DEF IsAt
<1>6. ASSUME NEW i, NEW j, NEW r, IsAt(p, i, j, r)
      PROVE  \E a : IsAt(m, a, j, r)
  <2>1. i \in 1..k /\ j \in DOMAIN p[i].rows /\ p[i].rows[j] = r
    BY <1>3, <1>6 DEF IsAt
  <2>2. PICK a \in 1..k : f[a] = i
    BY <1>4, <2>1
  <2>3. m[a] = p[i]
    BY <1>1, <2>2
  <2> QED BY <1>3, <2>1, <2>2, <2>3 DEF IsAt
<1>7. \A r : Holds(m, r) <=> Holds(p, r)
  BY <1>5, <1>6 DEF Holds
<1>8. ASSUME IsOnce(p) PROVE IsOnce(m)
  <2> SUFFICES ASSUME NEW r, NEW i, NEW j, NEW a, NEW b, IsAt(m, i, j, r), IsAt(m, a, b, r)
               PROVE  i = a /\ j = b
    BY DEF IsOnce
  <2>1. IsAt(p, f[i], j, r) /\ IsAt(p, f[a], b, r) /\ i \in 1..k /\ a \in 1..k
    BY <1>5
  <2>2. f[i] = f[a] /\ j = b
    BY <1>8, <2>1 DEF IsOnce
  <2> QED BY <1>4, <2>1, <2>2
<1>9. ASSUME IsLevel(p) PROVE IsLevel(m)
  <2>1. ASSUME NEW i \in 1..k, NEW a \in 1..k PROVE Len(m[i].rows) = Len(m[a].rows)
    <3>1. m[i] = p[f[i]] /\ m[a] = p[f[a]] /\ f[i] \in 1..k /\ f[a] \in 1..k
      BY <1>1, <1>4
    <3> QED BY <1>3, <1>9, <3>1 DEF IsLevel
  <2> QED BY <1>3, <2>1 DEF IsLevel
<1> QED BY <1>2, <1>7, <1>8, <1>9 DEF m

\* Two states become one with the rows of both.
LEMMA MergeIsState ==
  ASSUME NEW k \in Nat \ {0}, NEW L, NEW s, NEW t, IsState(s, k, L), IsState(t, k, L),
         IsOnce(s), IsOnce(t), \A r : ~ (Holds(s, r) /\ Holds(t, r))
  PROVE  /\ IsState(Merge(s, t), k, L) /\ IsOnce(Merge(s, t))
         /\ \A r : Holds(Merge(s, t), r) <=> Holds(s, r) \/ Holds(t, r)
         /\ IsLevel(s) /\ IsLevel(t) => IsLevel(Merge(s, t))
<1> DEFINE p == Paired(s, t)
           m == Merge(s, t)
<1>1. /\ DOMAIN s = 1..k /\ DOMAIN t = 1..k /\ DOMAIN p = 1..k /\ m = Decreasing(p)
      /\ s[1].rows # <<>>
  BY LenProperties DEF IsState, Paired, Merge
<1>2. ASSUME NEW i \in 1..k
      PROVE  /\ IsBin(p[i], L) /\ p[i].rows = s[i].rows \o t[k + 1 - i].rows
             /\ s[i].rows # <<>> => p[i].rows # <<>>
             /\ k + 1 - i \in 1..k /\ s[i].rows \in Seq(1..L) /\ t[k + 1 - i].rows \in Seq(1..L)
  <2>1. PairsUp(k, L, s, t, i)
    BY PairedBins
  <2> QED BY <2>1 DEF PairsUp
<1>3. IsLoaded(p, k, L)
  <2>1. p \in Seq(Bins(L)) /\ Len(p) = k
    <3>1. \A i \in 1..k : p[i] \in Bins(L)
      BY <1>2 DEF IsBin
    <3>2. p = [i \in 1..k |-> p[i]]
      BY <1>1 DEF Paired
    <3> HIDE DEF p
    <3> QED BY <3>1, <3>2
  <2> HIDE DEF p
  <2>2. p[1].rows # <<>> /\ 1 \in 1..k
    <3>1. 1 \in 1..k
      OBVIOUS
    <3> QED BY <1>1, <1>2, <3>1
  <2> QED BY <1>2, <2>1, <2>2 DEF IsLoaded
<1>4. /\ IsState(m, k, L) /\ \A r : Holds(m, r) <=> Holds(p, r)
      /\ IsOnce(p) => IsOnce(m)
      /\ IsLevel(p) => IsLevel(m)
  <2> HIDE DEF p
  <2> QED BY <1>1, <1>3, DecreasingKeeps
<1>5. ASSUME NEW i, NEW j, NEW r
      PROVE  /\ IsAt(p, i, j, r) =>
                  /\ i \in 1..k /\ j \in Int /\ Len(s[i].rows) \in Int
                  /\ IsAt(s, i, j, r) \/ IsAt(t, k + 1 - i, j - Len(s[i].rows), r)
             /\ IsAt(s, i, j, r) => IsAt(p, i, j, r)
             /\ IsAt(t, i, j, r) => Holds(p, r)
  BY PairedPlaces
<1> HIDE DEF p, m
<1>6. ASSUME NEW r PROVE Holds(p, r) <=> Holds(s, r) \/ Holds(t, r)
  BY <1>5 DEF Holds
<1>7. ASSUME NEW r, NEW i, NEW j, NEW a, NEW b, IsAt(p, i, j, r), IsAt(p, a, b, r)
       PROVE  i = a /\ j = b
  <2>1. /\ i \in 1..k /\ j \in Int /\ Len(s[i].rows) \in Int
        /\ a \in 1..k /\ b \in Int /\ Len(s[a].rows) \in Int
    BY <1>5, <1>7
  <2>2. CASE IsAt(s, i, j, r)
    <3>1. Holds(s, r)
      BY <2>2 DEF Holds
    <3>2. ~ IsAt(t, k + 1 - a, b - Len(s[a].rows), r)
      BY <3>1 DEF Holds
    <3>3. IsAt(s, a, b, r)
      BY <1>5, <1>7, <3>2
    <3> QED BY <2>2, <3>3 DEF IsOnce
  <2>3. CASE IsAt(t, k + 1 - i, j - Len(s[i].rows), r)
    <3>1. Holds(t, r)
      BY <2>3 DEF Holds
    <3>2. ~ IsAt(s, a, b, r)
      BY <3>1 DEF Holds
    <3>3. IsAt(t, k + 1 - a, b - Len(s[a].rows), r)
      BY <1>5, <1>7, <3>2
    <3>4. k + 1 - i = k + 1 - a /\ j - Len(s[i].rows) = b - Len(s[a].rows)
      BY <2>3, <3>3 DEF IsOnce
    <3>5. i = a
      BY <2>1, <3>4
    <3> DEFINE n == Len(s[i].rows)
    <3>6. n \in Int /\ j - n = b - n
      BY <2>1, <3>4, <3>5
    <3> HIDE DEF n
    <3>7. j = b
      BY <2>1, <3>6
    <3> QED BY <3>5, <3>7
  <2> QED BY <1>5, <1>7, <2>2, <2>3
<1>8. IsOnce(m)
  BY <1>4, <1>7 DEF IsOnce
<1>9. ASSUME IsLevel(s), IsLevel(t) PROVE IsLevel(m)
  <2>1. ASSUME NEW i \in 1..k, NEW a \in 1..k PROVE Len(p[i].rows) = Len(p[a].rows)
    <3>1. Len(s[i].rows) = Len(s[a].rows)
      BY <1>1, <1>9 DEF IsLevel
    <3>2. Len(t[k + 1 - i].rows) = Len(t[k + 1 - a].rows)
      BY <1>1, <1>2, <1>9 DEF IsLevel
    <3>3. ASSUME NEW q \in 1..k
          PROVE  Len(p[q].rows) = Len(s[q].rows) + Len(t[k + 1 - q].rows)
      <4>1. /\ p[q].rows = s[q].rows \o t[k + 1 - q].rows
            /\ s[q].rows \in Seq(1..L) /\ t[k + 1 - q].rows \in Seq(1..L)
        BY <1>2
      <4> HIDE DEF p
      <4> QED BY <4>1, ConcatProperties
    <3> HIDE DEF p
    <3> QED BY <3>1, <3>2, <3>3
  <2> QED BY <1>1, <1>4, <2>1 DEF IsLevel
<1>10. \A r : Holds(m, r) <=> Holds(s, r) \/ Holds(t, r)
  BY <1>4, <1>6
<1> QED BY <1>4, <1>8, <1>9, <1>10 DEF m

\* A round leaves one state fewer, with the same rows.
LEMMA RoundShares ==
  ASSUME NEW k, NEW L, NEW equalSize, NEW states, Shares(states, k, L, equalSize),
         Cardinality(states) > 1
  PROVE  /\ Shares(Round(states), k, L, equalSize)
         /\ Cardinality(Round(states)) = Cardinality(states) - 1
<1> DEFINE s == First(states)
           t == First(states \ {s})
           m == Merge(s, t)
           rest == states \ {s, t}
<1>1. IsFiniteSet(states) /\ Cardinality(states) \in Nat /\ k \in Nat \ {0}
  BY FS_CardinalityType DEF Shares
<1>2. s \in states
  <2>1. states # {}
    BY DEF Shares
  <2> QED BY <2>1, FirstIsOne
<1>3. IsFiniteSet(states \ {s}) /\ Cardinality(states \ {s}) = Cardinality(states) - 1
  <2> HIDE DEF s
  <2> QED BY <1>1, <1>2, FS_RemoveElement
<1>4. t \in states \ {s}
  <2>1. states \ {s} # {}
    <3> HIDE DEF s
    <3> QED BY <1>1, <1>3, FS_EmptySet
  <2>2. states \ {s} \subseteq states
    OBVIOUS
  <2> HIDE DEF s
  <2> QED BY <2>1, <2>2, FirstIsOne
<1>5. Round(states) = rest \cup {m}
  BY DEF Round
<1> HIDE DEF s, t
<1>6. IsFiniteSet(rest) /\ Cardinality(rest) = Cardinality(states) - 2
  <2>1. rest = (states \ {s}) \ {t}
    OBVIOUS
  <2>2. IsFiniteSet(rest) /\ Cardinality(rest) = Cardinality(states \ {s}) - 1
    BY <1>3, <1>4, <2>1, FS_RemoveElement
  <2> QED BY <1>1, <1>3, <2>2
<1>7. /\ \A u \in states : IsState(u, k, L) /\ IsOnce(u) /\ (equalSize => IsLevel(u))
      /\ \A u, v \in states : \A r : Holds(u, r) /\ Holds(v, r) => u = v
      /\ \A r \in 1..L : \E u \in states : Holds(u, r)
  BY DEF Shares
<1>8. /\ IsState(s, k, L) /\ IsState(t, k, L) /\ IsOnce(s) /\ IsOnce(t)
      /\ \A r : ~ (Holds(s, r) /\ Holds(t, r))
  BY <1>2, <1>4, <1>7
<1>9. /\ IsState(m, k, L) /\ IsOnce(m) /\ (equalSize => IsLevel(m))
      /\ \A r : Holds(m, r) <=> Holds(s, r) \/ Holds(t, r)
  BY <1>1, <1>2, <1>4, <1>7, <1>8, MergeIsState
<1> HIDE DEF m
<1>10. ASSUME NEW u \in rest, NEW r, Holds(u, r) PROVE ~ Holds(m, r)
  BY <1>2, <1>4, <1>7, <1>9, <1>10
<1>11. m \notin rest
  <2>1. Holds(m, m[1].rows[1])
    BY <1>1, <1>9, StateHolds
  <2> QED BY <1>10, <2>1
<1>12. /\ IsFiniteSet(rest \cup {m}) /\ Cardinality(rest \cup {m}) = Cardinality(states) - 1
  <2>1. Cardinality(rest \cup {m}) = Cardinality(rest) + 1 /\ IsFiniteSet(rest \cup {m})
    <3> HIDE DEF rest
    <3> QED BY <1>6, <1>11, FS_AddElement
  <2> QED BY <1>1, <1>6, <2>1
<1>13. \A u, v \in rest \cup {m} : \A r : Holds(u, r) /\ Holds(v, r) => u = v
  BY <1>7, <1>10
<1>14. ASSUME NEW r \in 1..L PROVE \E u \in rest \cup {m} : Holds(u, r)
  <2>1. PICK u \in states : Holds(u, r)
    BY <1>7
  <2> QED BY <1>9, <2>1
<1>15. \A u \in rest \cup {m} : IsState(u, k, L) /\ IsOnce(u) /\ (equalSize => IsLevel(u))
  BY <1>7, <1>9
<1>16. Shares(rest \cup {m}, k, L, equalSize)
  <2> HIDE DEF rest
  <2> QED BY <1>1, <1>12, <1>13, <1>14, <1>15 DEF Shares
<1> QED BY <1>5, <1>12, <1>16

\* Where rows are taken one to a state, each state has its row in its first bin.
LEMMA SinglesShare ==
  ASSUME NEW ls \in Seq(Nat), NEW k \in Nat \ {0}, Len(ls) # 0
  PROVE  Shares(StartStates(ls, k, FALSE), k, Len(ls), FALSE)
<1> DEFINE L == Len(ls)
           one(r) == [i \in 1..k |-> IF i = 1 THEN Single(ls, r) ELSE Empty]
           states == StartStates(ls, k, FALSE)
<1>1. L \in Nat \ {0} /\ DOMAIN ls = 1..L /\ \A r \in 1..L : ls[r] \in Nat
  BY LenProperties, ElementOfSeq
<1>2. states = {one(r) : r \in 1..L}
  BY <1>1 DEF StartStates
<1> HIDE DEF L, states
<1>3. IsFiniteSet(states) /\ states # {}
  <2> HIDE DEF one
  <2> DEFINE f == [r \in 1..L |-> one(r)]
  <2>4. f \in [1..L -> states] /\ \A s \in states : \E r \in 1..L : f[r] = s
    BY <1>2
  <2>1. f \in Surjection(1..L, states)
    <3> HIDE DEF f
    <3> QED BY <2>4, Fun_IsSurj
  <2>2. IsFiniteSet(1..L)
    BY <1>1, FS_Interval
  <2>3. 1 \in 1..L
    BY <1>1
  <2> HIDE DEF f
  <2> QED BY <1>2, <2>1, <2>2, <2>3, FS_Surjection
<1>4. ASSUME NEW r \in 1..L PROVE IsState(one(r), k, L)
  <2>1. /\ one(r)[1] = Single(ls, r) /\ 1 \in 1..k
        /\ \A i \in 1..k : i # 1 => one(r)[i] = Empty
    OBVIOUS
  <2>2. IsBin(Single(ls, r), L) /\ Single(ls, r).rows # <<>> /\ Single(ls, r).sum \in Nat
    BY <1>1 DEF IsBin, Bins, Single
  <2>3. IsBin(Empty, L) /\ Empty.sum = 0
    BY DEF IsBin, Bins, Empty
  <2> DEFINE s == one(r)
  <2>4. \A i \in 1..k : IsBin(s[i], L)
    <3> HIDE DEF s
    <3> QED BY <2>1, <2>2, <2>3 DEF s
  <2>5. s \in Seq(Bins(L)) /\ Len(s) = k
    <3>1. s = [i \in 1..k |-> s[i]]
      OBVIOUS
    <3>2. \A i \in 1..k : s[i] \in Bins(L)
      BY <2>4 DEF IsBin
    <3> HIDE DEF s
    <3> QED BY <3>1, <3>2
  <2>6. \A i, j \in 1..k : i < j => s[j].sum <= s[i].sum
    <3> SUFFICES ASSUME NEW i \in 1..k, NEW j \in 1..k, i < j PROVE s[j].sum <= s[i].sum
      OBVIOUS
    <3>1. s[j].sum = 0
      BY <2>1, <2>3
    <3>2. s[i].sum \in Nat
      BY <2>4 DEF IsBin, Bins
    <3> HIDE DEF s
    <3> QED BY <3>1, <3>2
  <2> HIDE DEF s
  <2> QED BY <2>1, <2>2, <2>4, <2>5, <2>6 DEF IsState, s
<1>5. ASSUME NEW r \in 1..L, NEW i, NEW j, NEW x
      PROVE  IsAt(one(r), i, j, x) <=> i = 1 /\ j = 1 /\ x = r
  <2>1. DOMAIN one(r) = 1..k /\ 1 \in 1..k
    OBVIOUS
  <2>2. \A a \in 1..k : a # 1 => DOMAIN one(r)[a].rows = {}
    BY DEF Empty
  <2>3. DOMAIN one(r)[1].rows = {1} /\ one(r)[1].rows[1] = r
    BY <2>1 DEF Single
  <2> HIDE DEF one
  <2> QED BY <2>1, <2>2, <2>3 DEF IsAt
<1> HIDE DEF one
<1>9. ASSUME NEW r \in 1..L PROVE IsOnce(one(r)) /\ \A x : Holds(one(r), x) <=> x = r
  <2>1. \A i, j, x : IsAt(one(r), i, j, x) <=> i = 1 /\ j = 1 /\ x = r
    BY <1>5
  <2> QED BY <2>1 DEF IsOnce, Holds
<1>6. \A s \in states : IsState(s, k, L) /\ IsOnce(s)
  BY <1>2, <1>4, <1>9
<1>7. \A s, t \in states : \A x : Holds(s, x) /\ Holds(t, x) => s = t
  BY <1>2, <1>9
<1>8. ASSUME NEW x \in 1..L PROVE \E s \in states : Holds(s, x)
  BY <1>2, <1>9
<1> QED BY <1>1, <1>3, <1>6, <1>7, <1>8 DEF Shares, states, L

\* The rows by their length are all rows.
LEMMA ByLengthPermutes ==
  ASSUME NEW ls \in Seq(Nat)
  PROVE  Permutes(ByLength(ls), Len(ls))
<1> DEFINE L == Len(ls)
           id == [i \in DOMAIN ls |-> i]
           before == {p \in Pairs(ls) : ls[p[1]] < ls[p[2]]}
<1>1. L \in Nat /\ DOMAIN ls = 1..L /\ \A r \in 1..L : ls[r] \in Nat
  BY LenProperties, ElementOfSeq
<1>2. id \in Seq(1..L) /\ Len(id) = L /\ \A i \in 1..L : id[i] = i
  BY <1>1
<1>3. Orders(before, L)
  <2>1. \A i, j \in 1..L : <<i, j>> \in before <=> ls[i] < ls[j]
    BY <1>1 DEF Pairs
  <2>2. \A i, j \in 1..L : <<i, j>> \in before => <<j, i>> \notin before
    BY <1>1, <2>1
  <2>3. \A i, j, k \in 1..L :
          <<i, j>> \notin before /\ <<j, k>> \notin before => <<i, k>> \notin before
    <3> SUFFICES ASSUME NEW i \in 1..L, NEW j \in 1..L, NEW k \in 1..L,
                        ~ (ls[i] < ls[j]), ~ (ls[j] < ls[k])
                 PROVE  ~ (ls[i] < ls[k])
      BY <2>1
    <3> QED BY <1>1
  <2> HIDE DEF before
  <2> QED BY <2>2, <2>3 DEF Orders
<1>4. PICK f : Permutes(f, L) /\ Arranged(id, before) = [n \in 1..L |-> id[f[n]]]
  <2> HIDE DEF before, id
  <2> QED BY <1>2, <1>3, ArrangedPermutes
<1>5. f = [n \in 1..L |-> id[f[n]]]
  BY <1>2, <1>4 DEF Permutes
<1>6. Arranged(id, before) = f
  BY <1>4, <1>5
<1> QED BY <1>4, <1>6 DEF ByLength

\* Where bins are to be of equal size, each state has one row in each bin.
LEMMA RowsShare ==
  ASSUME NEW ls \in Seq(Nat), NEW k \in Nat \ {0}, Len(ls) # 0, Len(ls) % k = 0
  PROVE  Shares(StartStates(ls, k, TRUE), k, Len(ls), TRUE)
<1> DEFINE L == Len(ls)
           n == L \div k
           f == ByLength(ls)
           p(o) == [i \in 1..k |-> Single(ls, f[o * k + i])]
           states == StartStates(ls, k, TRUE)
<1>1. L \in Nat \ {0} /\ DOMAIN ls = 1..L /\ \A r \in 1..L : ls[r] \in Nat
  BY LenProperties, ElementOfSeq
<1>15. states = {Decreasing(p(o)) : o \in 0..(n - 1)} /\ L % k = 0
  BY DEF StartStates
<1>4. /\ \A i \in 1..L : f[i] \in 1..L
      /\ \A i, j \in 1..L : f[i] = f[j] => i = j
      /\ \A j \in 1..L : \E i \in 1..L : f[i] = j
  <2>1. Permutes(f, L)
    BY ByLengthPermutes
  <2> HIDE DEF f, L, n, states
  <2>2. \A i \in 1..L : f[i] \in 1..L
    BY <2>1 DEF Permutes
  <2> QED BY <2>1, <2>2 DEF Permutes
<1> HIDE DEF f, L
<1>2. n \in Nat \ {0} /\ L = k * n
  <2>3. n \in Nat /\ L = k * n + (L % k)
    BY <1>1, Division
  <2>1. n \in Nat /\ L = k * n
    BY <1>15, <2>3
  <2>2. n # 0
    BY <1>1, <2>1
  <2> QED BY <2>1, <2>2
<1>3. states = {Decreasing(p(o)) : o \in 0..(n - 1)}
  BY <1>15
<1> HIDE DEF n, states
<1>5. ASSUME NEW o \in 0..(n - 1), NEW i \in 1..k
      PROVE  /\ o * k + i \in 1..L
             /\ \A q \in 0..(n - 1) : \A j \in 1..k : o * k + i = q * k + j => o = q /\ i = j
  <2>1. /\ o * k = k * o /\ k * o \in Nat /\ k * o + k <= k * n
    <3>1. o \in Nat /\ o < n
      BY <1>2
    <3> QED BY <1>2, <3>1, ProductGrows
  <2>2. o * k + i \in 1..L
    <3> DEFINE a == k * o
    <3>1. a \in Nat /\ a + k <= L
      BY <1>2, <2>1
    <3> HIDE DEF a
    <3>2. a + i \in 1..L
      BY <1>1, <3>1
    <3> QED BY <2>1, <3>2 DEF a
  <2>3. ASSUME NEW q \in 0..(n - 1), NEW j \in 1..k, o * k + i = q * k + j
        PROVE  o = q /\ i = j
    <3>1. o \in Nat /\ q \in Nat /\ i - 1 \in 0..(k - 1) /\ j - 1 \in 0..(k - 1)
      BY <1>2
    <3>2. /\ (k * o + (i - 1)) \div k = o /\ (k * o + (i - 1)) % k = i - 1
          /\ (k * q + (j - 1)) \div k = q /\ (k * q + (j - 1)) % k = j - 1
      <4> DEFINE a == i - 1
                 b == j - 1
      <4>1. a \in 0..(k - 1) /\ b \in 0..(k - 1)
        BY <3>1
      <4> HIDE DEF a, b
      <4>2. (k * o + a) \div k = o /\ (k * o + a) % k = a
        BY <3>1, <4>1, DivisionIsUnique
      <4>3. (k * q + b) \div k = q /\ (k * q + b) % k = b
        BY <3>1, <4>1, DivisionIsUnique
      <4> QED BY <4>2, <4>3 DEF a, b
    <3>3. k * o + (i - 1) = k * q + (j - 1)
      <4> DEFINE a == k * o
                 b == k * q
      <4>1. a \in Nat /\ b \in Nat /\ o * k = a /\ q * k = b
        BY <3>1
      <4> HIDE DEF a, b
      <4>2. a + i = b + j
        BY <2>3, <4>1
      <4>3. a + (i - 1) = b + (j - 1)
        BY <4>1, <4>2
      <4> QED BY <4>3 DEF a, b
    <3>4. i - 1 = j - 1 /\ o = q
      BY <3>2, <3>3
    <3> QED BY <3>4
  <2> QED BY <2>2, <2>3
<1>6. ASSUME NEW o \in 0..(n - 1)
      PROVE  /\ IsLoaded(p(o), k, L) /\ DOMAIN p(o) = 1..k
             /\ \A i \in 1..k : p(o)[i] = Single(ls, f[o * k + i])
  <2>1. \A i \in 1..k : p(o)[i] = Single(ls, f[o * k + i])
    OBVIOUS
  <2>2. \A i \in 1..k : f[o * k + i] \in 1..L
    BY <1>4, <1>5
  <2>3. \A r \in 1..L : IsBin(Single(ls, r), L) /\ Single(ls, r).rows # <<>>
    BY <1>1 DEF IsBin, Bins, Single
  <2>4. \A i \in 1..k : IsBin(p(o)[i], L) /\ p(o)[i].rows # <<>>
    BY <2>1, <2>2, <2>3
  <2>5. p(o) \in Seq(Bins(L)) /\ Len(p(o)) = k
    <3>1. \A i \in 1..k : p(o)[i] \in Bins(L)
      BY <2>4 DEF IsBin
    <3> DEFINE u == p(o)
    <3>2. u = [i \in 1..k |-> u[i]]
      OBVIOUS
    <3>3. \A i \in 1..k : u[i] \in Bins(L)
      BY <3>1
    <3> HIDE DEF u
    <3>4. u \in Seq(Bins(L)) /\ Len(u) = k
      <4>1. u \in [1..k -> Bins(L)]
        BY <3>2, <3>3
      <4> HIDE DEF n, f, L
      <4>2. u \in Seq(Bins(L))
        BY <4>1
      <4>3. DOMAIN u = 1..k
        BY <4>1
      <4>4. Len(u) \in Nat /\ DOMAIN u = 1..Len(u)
        BY <4>2, LenProperties
      <4>5. Len(u) = k
        BY <4>3, <4>4
      <4> QED BY <4>2, <4>5
    <3> QED BY <3>4 DEF u
  <2>6. 1 \in 1..k
    OBVIOUS
  <2>7. IsLoaded(p(o), k, L)
    <3> HIDE DEF p
    <3> QED BY <2>4, <2>5, <2>6 DEF IsLoaded
  <2> QED BY <2>1, <2>7
<1>7. ASSUME NEW o \in 0..(n - 1), NEW i, NEW j, NEW x
      PROVE  IsAt(p(o), i, j, x) <=> i \in 1..k /\ j = 1 /\ x = f[o * k + i]
  <2>1. \A a \in 1..k : DOMAIN p(o)[a].rows = {1} /\ p(o)[a].rows[1] = f[o * k + a]
    BY <1>6 DEF Single
  <2> HIDE DEF p
  <2> QED BY <1>6, <2>1 DEF IsAt
<1>8. ASSUME NEW o \in 0..(n - 1) PROVE IsOnce(p(o)) /\ IsLevel(p(o))
  <2>1. IsOnce(p(o))
    <3> SUFFICES ASSUME NEW x, NEW i, NEW j, NEW a, NEW b, IsAt(p(o), i, j, x), IsAt(p(o), a, b, x)
                 PROVE  i = a /\ j = b
      BY DEF IsOnce
    <3>1. i \in 1..k /\ a \in 1..k /\ j = 1 /\ b = 1 /\ f[o * k + i] = f[o * k + a]
      BY <1>7
    <3>2. o * k + i = o * k + a
      BY <1>4, <1>5, <3>1
    <3> QED BY <1>5, <3>1, <3>2
  <2>2. \A i \in 1..k : Len(p(o)[i].rows) = 1
    BY <1>6 DEF Single
  <2> HIDE DEF p
  <2> QED BY <1>6, <2>1, <2>2 DEF IsLevel
<1> HIDE DEF p
<1>9. ASSUME NEW o \in 0..(n - 1)
      PROVE  /\ IsState(Decreasing(p(o)), k, L) /\ IsOnce(Decreasing(p(o)))
             /\ IsLevel(Decreasing(p(o)))
             /\ \A r : Holds(Decreasing(p(o)), r) <=> \E i \in 1..k : r = f[o * k + i]
  <2>1. /\ IsState(Decreasing(p(o)), k, L) /\ \A r : Holds(Decreasing(p(o)), r) <=> Holds(p(o), r)
        /\ IsOnce(p(o)) => IsOnce(Decreasing(p(o)))
        /\ IsLevel(p(o)) => IsLevel(Decreasing(p(o)))
    BY <1>6, DecreasingKeeps
  <2>3. \A i, j, r : IsAt(p(o), i, j, r) <=> i \in 1..k /\ j = 1 /\ r = f[o * k + i]
    BY <1>7
  <2>2. \A r : Holds(p(o), r) <=> \E i \in 1..k : r = f[o * k + i]
    BY <2>3 DEF Holds
  <2> QED BY <1>8, <2>1, <2>2
<1>10. IsFiniteSet(states) /\ states # {}
  <2> DEFINE g == [o \in 0..(n - 1) |-> Decreasing(p(o))]
  <2>4. g \in [0..(n - 1) -> states] /\ \A s \in states : \E o \in 0..(n - 1) : g[o] = s
    BY <1>3
  <2>1. g \in Surjection(0..(n - 1), states)
    <3> HIDE DEF g
    <3> QED BY <2>4, Fun_IsSurj
  <2>2. IsFiniteSet(0..(n - 1))
    BY <1>2, FS_Interval
  <2>3. 0 \in 0..(n - 1)
    BY <1>2
  <2> HIDE DEF g
  <2> QED BY <1>3, <2>1, <2>2, <2>3, FS_Surjection
<1>11. \A s \in states : IsState(s, k, L) /\ IsOnce(s) /\ IsLevel(s)
  BY <1>3, <1>9
<1>12. ASSUME NEW o \in 0..(n - 1), NEW q \in 0..(n - 1), NEW x,
              Holds(Decreasing(p(o)), x), Holds(Decreasing(p(q)), x)
       PROVE  o = q
  <2>4. \A r : Holds(Decreasing(p(o)), r) <=> \E i \in 1..k : r = f[o * k + i]
    BY <1>9
  <2>5. \A r : Holds(Decreasing(p(q)), r) <=> \E i \in 1..k : r = f[q * k + i]
    BY <1>9
  <2>1. PICK i \in 1..k : x = f[o * k + i]
    BY <1>12, <2>4
  <2>2. PICK j \in 1..k : x = f[q * k + j]
    BY <1>12, <2>5
  <2>3. o * k + i = q * k + j
    BY <1>4, <1>5, <2>1, <2>2
  <2> QED BY <1>5, <2>3
<1>13. \A s, t \in states : \A x : Holds(s, x) /\ Holds(t, x) => s = t
  BY <1>3, <1>12
<1>14. ASSUME NEW x \in 1..L PROVE \E s \in states : Holds(s, x)
  <2>1. PICK i \in 1..L : f[i] = x
    BY <1>4
  <2> DEFINE o == (i - 1) \div k
             a == (i - 1) % k
  <2>2. i - 1 \in Nat /\ i - 1 < k * n
    BY <1>1, <1>2
  <2>3. o \in Nat /\ a \in 0..(k - 1) /\ i - 1 = k * o + a
    BY <2>2, Division
  <2> HIDE DEF o, a
  <2>4. ~ (n <= o)
    <3>1. SUFFICES ASSUME n <= o PROVE FALSE
      OBVIOUS
    <3>2. k * n <= k * o
      <4>1. CASE n = o
        BY <1>2, <4>1
      <4>2. CASE n < o
        <5>1. k * n + k <= k * o /\ k * n \in Nat /\ k * o \in Nat
          BY <1>2, <2>3, <4>2, ProductGrows
        <5> QED BY <5>1
      <4> QED BY <1>2, <2>3, <3>1, <4>1, <4>2
    <3> DEFINE b == k * n
               c == k * o
    <3>3. b \in Nat /\ c \in Nat /\ b <= c /\ i - 1 = c + a /\ i - 1 < b
      BY <1>2, <2>2, <2>3, <3>2
    <3> HIDE DEF b, c
    <3> QED BY <2>3, <3>3
  <2>5. o \in 0..(n - 1) /\ a + 1 \in 1..k
    BY <1>2, <2>3, <2>4
  <2>6. i = o * k + (a + 1)
    <3> DEFINE c == k * o
    <3>1. c \in Nat /\ o * k = c /\ i - 1 = c + a
      BY <2>3
    <3> HIDE DEF c
    <3>2. i = c + (a + 1)
      BY <1>1, <2>3, <3>1
    <3> QED BY <3>1, <3>2
  <2>7. Holds(Decreasing(p(o)), x)
    BY <1>9, <2>1, <2>5, <2>6
  <2> QED BY <1>3, <2>5, <2>7
<1> QED BY <1>1, <1>10, <1>11, <1>13, <1>14 DEF Shares, states, L

\* The states after each of c rounds.
Rounds(f, start, c) == f = [n \in 0..c |-> IF n = 0 THEN start ELSE Round(f[n - 1])]

\* There is such a function.
LEMMA RoundsExist ==
  ASSUME NEW start, NEW c \in Nat
  PROVE  \E f : Rounds(f, start, c)
<1> DEFINE S == {m \in Nat : \E f : Rounds(f, start, m)}
<1>1. 0 \in S
  <2> DEFINE f == [n \in 0..0 |-> start]
  <2>1. Rounds(f, start, 0)
    BY DEF Rounds
  <2> HIDE DEF f
  <2> QED BY <2>1
<1>2. ASSUME NEW m \in S PROVE m + 1 \in S
  <2>1. PICK f : Rounds(f, start, m)
    OBVIOUS
  <2> DEFINE g == [n \in 0..(m + 1) |-> IF n <= m THEN f[n] ELSE Round(f[n - 1])]
  <2>2. ASSUME NEW n \in 0..(m + 1)
        PROVE  g[n] = IF n = 0 THEN start ELSE Round(g[n - 1])
    <3>1. CASE n = 0
      BY <2>1, <3>1 DEF Rounds
    <3>2. CASE n # 0
      <4>1. n - 1 \in 0..m /\ n - 1 \in 0..(m + 1) /\ n - 1 <= m
        BY <3>2
      <4>2. g[n - 1] = f[n - 1]
        BY <4>1
      <4>3. g[n] = Round(f[n - 1])
        <5>1. CASE n <= m
          <6>1. n \in 0..m
            BY <5>1
          <6>2. f[n] = Round(f[n - 1])
            BY <2>1, <3>2, <6>1 DEF Rounds
          <6> QED BY <5>1, <6>2
        <5>2. CASE ~ (n <= m)
          BY <5>2
        <5> QED BY <5>1, <5>2
      <4> HIDE DEF g
      <4> QED BY <3>2, <4>2, <4>3
    <3> QED BY <3>1, <3>2
  <2>3. Rounds(g, start, m + 1)
    <3>1. g = [n \in 0..(m + 1) |-> g[n]]
      OBVIOUS
    <3> HIDE DEF g
    <3> QED BY <2>2, <3>1 DEF Rounds
  <2> HIDE DEF g
  <2> QED BY <2>3
<1>3. S = Nat
  <2>1. S \subseteq Nat
    OBVIOUS
  <2> HIDE DEF S
  <2> QED BY <1>1, <1>2, <2>1, AllNumbers, Zenon
<1> QED BY <1>3

\* What get_seqlen_balanced_partitions asks of its caller.
CanPartition(ls, k, equalSize) ==
  /\ ls \in Seq(Nat) /\ Len(ls) # 0 /\ k \in Nat \ {0}
  /\ equalSize \in BOOLEAN /\ (equalSize => Len(ls) % k = 0)

\* A state with all L rows, each once.
IsWhole(s, k, L, equalSize) ==
  /\ IsState(s, k, L) /\ IsOnce(s) /\ (equalSize => IsLevel(s))
  /\ \A r \in 1..L : Holds(s, r)

\* The states after each of c rounds share the rows, and the last of them is left alone.
Differencing(f, c, ls, k, equalSize) ==
  /\ c \in Nat /\ f[0] = StartStates(ls, k, equalSize)
  /\ \A n \in 0..(c - 1) : f[n + 1] = Round(f[n]) /\ Cardinality(f[n]) > 1
  /\ \A n \in 0..c : Shares(f[n], k, Len(ls), equalSize)
  /\ f[c] = {Differenced(ls, k, equalSize)}

\* Such are the rounds.
LEMMA RoundsGo ==
  ASSUME NEW ls, NEW k, NEW equalSize, CanPartition(ls, k, equalSize)
  PROVE  \E f, c : Differencing(f, c, ls, k, equalSize)
<1> DEFINE L == Len(ls)
           start == StartStates(ls, k, equalSize)
           c == Cardinality(start) - 1
<1>1. Shares(start, k, L, equalSize)
  <2>1. CASE equalSize
    <3>1. equalSize = TRUE
      BY <2>1 DEF CanPartition
    <3>2. Shares(StartStates(ls, k, TRUE), k, L, TRUE)
      BY <2>1, RowsShare DEF CanPartition
    <3> QED BY <3>1, <3>2
  <2>2. CASE ~ equalSize
    <3>1. equalSize = FALSE
      BY <2>2 DEF CanPartition
    <3>2. Shares(StartStates(ls, k, FALSE), k, L, FALSE)
      BY <2>2, SinglesShare DEF CanPartition
    <3> QED BY <3>1, <3>2
  <2> QED BY <2>1, <2>2
<1> HIDE DEF start, L
<1>2. c \in Nat /\ Cardinality(start) = c + 1
  <2>1. IsFiniteSet(start) /\ start # {}
    BY <1>1 DEF Shares
  <2> QED BY <2>1, FS_CardinalityType, FS_EmptySet
<1>3. PICK f : f = CHOOSE g : Rounds(g, start, c)
  OBVIOUS
<1>4. Rounds(f, start, c)
  <2> HIDE DEF c
  <2>1. \E g : Rounds(g, start, c)
    BY <1>2, RoundsExist
  <2> QED BY <1>3, <2>1, Zenon
<1>5. Differenced(ls, k, equalSize) = CHOOSE s \in f[c] : TRUE
  BY <1>3, Zenon DEF Differenced, Rounds, start
<1> HIDE DEF c
<1> DEFINE S == {n \in Nat : n <= c =>
                   Shares(f[n], k, L, equalSize) /\ Cardinality(f[n]) = c + 1 - n}
<1>6. 0 \in S
  <2>1. f[0] = start
    BY <1>2, <1>4 DEF Rounds
  <2> QED BY <1>1, <1>2, <2>1
<1>7. ASSUME NEW n \in S PROVE n + 1 \in S
  <2>1. SUFFICES ASSUME n + 1 <= c
                 PROVE  /\ Shares(f[n + 1], k, L, equalSize)
                        /\ Cardinality(f[n + 1]) = c + 1 - (n + 1)
    OBVIOUS
  <2>2. n \in Nat /\ n <= c
    BY <1>2, <2>1
  <2>3. Shares(f[n], k, L, equalSize) /\ Cardinality(f[n]) = c + 1 - n
    BY <2>2
  <2>4. f[n + 1] = Round(f[n])
    <3>1. n + 1 \in 0..c /\ n + 1 # 0 /\ (n + 1) - 1 = n
      BY <1>2, <2>1, <2>2
    <3> QED BY <1>4, <3>1 DEF Rounds
  <2>5. Cardinality(f[n]) > 1
    BY <1>2, <2>1, <2>2, <2>3
  <2>6. Shares(Round(f[n]), k, L, equalSize) /\ Cardinality(Round(f[n])) = Cardinality(f[n]) - 1
    BY <2>3, <2>5, RoundShares
  <2> QED BY <1>2, <2>2, <2>3, <2>4, <2>6
<1>8. S = Nat
  <2>1. S \subseteq Nat
    OBVIOUS
  <2> HIDE DEF S
  <2> QED BY <1>6, <1>7, <2>1, AllNumbers, Zenon
<1>9. \A n \in 0..c : Shares(f[n], k, L, equalSize) /\ Cardinality(f[n]) = c + 1 - n
  <2> SUFFICES ASSUME NEW n \in 0..c
               PROVE  Shares(f[n], k, L, equalSize) /\ Cardinality(f[n]) = c + 1 - n
    OBVIOUS
  <2>1. n \in Nat /\ n <= c
    BY <1>2
  <2>2. n \in S
    <3> HIDE DEF S
    <3> QED BY <1>8, <2>1
  <2> QED BY <2>1, <2>2
<1>10. c \in 0..c /\ Shares(f[c], k, L, equalSize) /\ Cardinality(f[c]) = 1
  BY <1>2, <1>9
<1>11. PICK s : f[c] = {s}
  <2>1. IsFiniteSet(f[c])
    BY <1>10 DEF Shares
  <2> QED BY <1>10, <2>1, FS_Singleton
<1>12. Differenced(ls, k, equalSize) = s
  BY <1>5, <1>11
<1>13. f[0] = start
  BY <1>2, <1>4 DEF Rounds
<1>14. \A n \in 0..(c - 1) : f[n + 1] = Round(f[n]) /\ Cardinality(f[n]) > 1
  <2> SUFFICES ASSUME NEW n \in 0..(c - 1) PROVE f[n + 1] = Round(f[n]) /\ Cardinality(f[n]) > 1
    OBVIOUS
  <2>1. n + 1 \in 0..c /\ n + 1 # 0 /\ (n + 1) - 1 = n /\ n \in 0..c
    BY <1>2
  <2>2. Cardinality(f[n]) > 1
    BY <1>2, <1>9, <2>1
  <2> QED BY <1>4, <2>1, <2>2 DEF Rounds
<1>15. Differencing(f, c, ls, k, equalSize)
  BY <1>2, <1>9, <1>11, <1>12, <1>13, <1>14 DEF Differencing, start, L
<1> QED BY <1>15

\* The last state has all rows.
LEMMA DifferencedIsWhole ==
  ASSUME NEW ls, NEW k, NEW equalSize, CanPartition(ls, k, equalSize)
  PROVE  IsWhole(Differenced(ls, k, equalSize), k, Len(ls), equalSize)
<1> DEFINE s == Differenced(ls, k, equalSize)
<1>1. PICK f, c : Differencing(f, c, ls, k, equalSize)
  BY RoundsGo
<1>2. c \in 0..c /\ f[c] = {s} /\ Shares(f[c], k, Len(ls), equalSize)
  <2>1. c \in Nat /\ f[c] = {s} /\ \A n \in 0..c : Shares(f[n], k, Len(ls), equalSize)
    BY <1>1 DEF Differencing
  <2>2. c \in 0..c
    BY <2>1
  <2> HIDE DEF s
  <2> QED BY <2>1, <2>2
<1> HIDE DEF s
<1>3. Shares({s}, k, Len(ls), equalSize)
  BY <1>2
<1>4. IsWhole(s, k, Len(ls), equalSize)
  BY <1>3 DEF Shares, IsWhole
<1> QED BY <1>4 DEF s

-----------------------------------------------------------------------------
(* What is put together of pieces. *)

\* Element x is at place j of one of the first n pieces.
InPieces(p, n, i, j, x) == i \in 1..n /\ j \in DOMAIN p[i] /\ p[i][j] = x

\* No element is at two places of the pieces.
PiecesApart(p, n) ==
  \A i, j, a, b, x : InPieces(p, n, i, j, x) /\ InPieces(p, n, a, b, x) => i = a /\ j = b

\* c has the elements of the first n pieces, and each once if the pieces do.
Lists(c, p, n) ==
  /\ \A m \in DOMAIN c : \E i, j : InPieces(p, n, i, j, c[m])
  /\ \A i, j, x : InPieces(p, n, i, j, x) => \E m \in DOMAIN c : c[m] = x
  /\ PiecesApart(p, n) => \A a, b \in DOMAIN c : c[a] = c[b] => a = b

\* Such is what is put together of them.
LEMMA JoinedLists ==
  ASSUME NEW X, NEW p, NEW n, Pieces(X, p, n)
  PROVE  Lists(Joined(p, n), p, n)
<1> DEFINE S == {k \in Nat : k \in 0..n => Lists(Joined(p, k), p, k)}
<1>1. 0 \in S
  <2>1. Joined(p, 0) = <<>>
    BY JoinedNone
  <2>2. Lists(<<>>, p, 0)
    BY DEF Lists, InPieces
  <2> QED BY <2>1, <2>2
<1>2. ASSUME NEW k \in S PROVE k + 1 \in S
  <2>1. SUFFICES ASSUME k + 1 \in 0..n PROVE Lists(Joined(p, k + 1), p, k + 1)
    OBVIOUS
  <2>2. k \in Nat /\ k \in 0..n /\ k < n /\ k + 1 \in 1..n /\ n \in Nat
    BY <2>1 DEF Pieces
  <2>3. Lists(Joined(p, k), p, k)
    BY <2>2
  <2> DEFINE u == Joined(p, k)
             v == p[k + 1]
  <2>4. Joined(p, k) \in Seq(X) /\ Joined(p, k + 1) = Joined(p, k) \o p[k + 1]
    BY <2>2, JoinedNext
  <2>5. p[k + 1] \in Seq(X)
    BY <2>2 DEF Pieces
  <2>6. u \in Seq(X) /\ v \in Seq(X) /\ Joined(p, k + 1) = u \o v /\ Lists(u, p, k)
    BY <2>3, <2>4, <2>5
  <2>7. ASSUME NEW i, NEW j, NEW x
        PROVE  InPieces(p, k + 1, i, j, x) <=>
                 InPieces(p, k, i, j, x) \/ (i = k + 1 /\ j \in DOMAIN v /\ v[j] = x)
    BY <2>2 DEF InPieces
  <2>8. ASSUME NEW i, NEW j, NEW x PROVE InPieces(p, k, i, j, x) => i # k + 1
    BY <2>2 DEF InPieces
  <2> HIDE DEF u, v
  <2> DEFINE w == u \o v
             l == Len(u)
  <2>9. /\ \A m \in DOMAIN w : (m \in DOMAIN u /\ w[m] = u[m]) \/ (m - l \in DOMAIN v /\ w[m] = v[m - l])
        /\ \A m \in DOMAIN u : m \in DOMAIN w /\ w[m] = u[m]
        /\ \A m \in DOMAIN v : m + l \in DOMAIN w /\ w[m + l] = v[m]
        /\ \A m \in DOMAIN w : m \in Int
        /\ l \in Int
    BY <2>6, ConcatPlaces
  <2> HIDE DEF w, l
  <2>10. ASSUME NEW m \in DOMAIN w PROVE \E i, j : InPieces(p, k + 1, i, j, w[m])
    <3>1. CASE m \in DOMAIN u /\ w[m] = u[m]
      BY <2>6, <2>7, <3>1 DEF Lists
    <3>2. CASE m - l \in DOMAIN v /\ w[m] = v[m - l]
      BY <2>7, <3>2
    <3> QED BY <2>9, <3>1, <3>2
  <2>11. ASSUME NEW i, NEW j, NEW x, InPieces(p, k + 1, i, j, x)
         PROVE  \E m \in DOMAIN w : w[m] = x
    <3>1. CASE InPieces(p, k, i, j, x)
      <4>1. PICK m \in DOMAIN u : u[m] = x
        BY <2>6, <3>1 DEF Lists
      <4> QED BY <2>9, <4>1
    <3>2. CASE i = k + 1 /\ j \in DOMAIN v /\ v[j] = x
      BY <2>9, <3>2
    <3> QED BY <2>7, <2>11, <3>1, <3>2
  <2>12. ASSUME PiecesApart(p, k + 1), NEW a \in DOMAIN w, NEW b \in DOMAIN w, w[a] = w[b]
         PROVE  a = b
    <3>1. PiecesApart(p, k)
      BY <2>7, <2>12 DEF PiecesApart
    <3>2. \A i, j, x : InPieces(p, k + 1, i, j, x) <=>
                 InPieces(p, k, i, j, x) \/ (i = k + 1 /\ j \in DOMAIN v /\ v[j] = x)
      BY <2>7
    <3>3. \A i, j, x : InPieces(p, k, i, j, x) => i # k + 1
      BY <2>8
    <3>4. \A m \in DOMAIN u : \E i, j : InPieces(p, k, i, j, u[m])
      BY <2>6 DEF Lists
    <3>5. \A i, j, c, d, x : InPieces(p, k + 1, i, j, x) /\ InPieces(p, k + 1, c, d, x) => i = c /\ j = d
      BY <2>12 DEF PiecesApart
    <3>6. ASSUME NEW e \in DOMAIN u, NEW f \in DOMAIN v PROVE u[e] # v[f]
      <4>1. PICK i, j : InPieces(p, k, i, j, u[e])
        BY <3>4
      <4>2. InPieces(p, k + 1, i, j, u[e]) /\ i # k + 1
        BY <3>2, <3>3, <4>1
      <4>3. InPieces(p, k + 1, k + 1, f, v[f])
        BY <3>2
      <4> QED BY <3>5, <4>2, <4>3
    <3>7. ASSUME NEW e \in DOMAIN v, NEW f \in DOMAIN v, v[e] = v[f] PROVE e = f
      <4>1. InPieces(p, k + 1, k + 1, e, v[e]) /\ InPieces(p, k + 1, k + 1, f, v[f])
        BY <3>2
      <4> QED BY <3>5, <3>7, <4>1
    <3>8. \A e, f \in DOMAIN u : u[e] = u[f] => e = f
      BY <2>6, <3>1 DEF Lists
    <3>9. a \in Int /\ b \in Int /\ l \in Int
      BY <2>9
    <3>10. (a \in DOMAIN u /\ w[a] = u[a]) \/ (a - l \in DOMAIN v /\ w[a] = v[a - l])
      BY <2>9
    <3>11. (b \in DOMAIN u /\ w[b] = u[b]) \/ (b - l \in DOMAIN v /\ w[b] = v[b - l])
      BY <2>9
    <3>12. a = b \/ a - l = b - l
      BY <2>12, <3>6, <3>7, <3>8, <3>10, <3>11
    <3> QED BY <3>9, <3>12
  <2>13. Lists(w, p, k + 1)
    BY <2>10, <2>11, <2>12 DEF Lists
  <2> QED BY <2>6, <2>13 DEF w
<1>3. S = Nat
  <2>1. S \subseteq Nat
    OBVIOUS
  <2> HIDE DEF S
  <2> QED BY <1>1, <1>2, <2>1, AllNumbers, Zenon
<1>4. n \in S /\ n \in 0..n
  <2>1. n \in Nat
    BY DEF Pieces
  <2> HIDE DEF S
  <2> QED BY <1>3, <2>1
<1> QED BY <1>4

\* Rows in increasing order are the same rows.
LEMMA IncreasingPermutes ==
  ASSUME NEW L, NEW s \in Seq(1..L)
  PROVE  \E f : Permutes(f, Len(s)) /\ Increasing(s) = [m \in 1..Len(s) |-> s[f[m]]]
<1> DEFINE n == Len(s)
           before == {p \in Pairs(s) : s[p[1]] < s[p[2]]}
<1>1. n \in Nat /\ DOMAIN s = 1..n
  BY LenProperties
<1>2. \A i \in 1..n : s[i] \in Int
  <2>1. \A i \in 1..n : s[i] \in 1..L
    BY ElementOfSeq
  <2>2. \A x \in 1..L : x \in Int
    OBVIOUS
  <2> QED BY <2>1, <2>2
<1>3. Orders(before, n)
  <2>1. \A i, j \in 1..n : <<i, j>> \in before <=> s[i] < s[j]
    BY <1>1 DEF Pairs
  <2> HIDE DEF n
  <2>2. \A i, j \in 1..n : <<i, j>> \in before => <<j, i>> \notin before
    BY <1>2, <2>1
  <2>3. \A i, j, k \in 1..n :
          <<i, j>> \notin before /\ <<j, k>> \notin before => <<i, k>> \notin before
    <3> SUFFICES ASSUME NEW i \in 1..n, NEW j \in 1..n, NEW k \in 1..n,
                        ~ (s[i] < s[j]), ~ (s[j] < s[k])
                 PROVE  ~ (s[i] < s[k])
      BY <2>1
    <3> QED BY <1>2
  <2> HIDE DEF before
  <2> QED BY <2>2, <2>3 DEF Orders
<1>4. \E f : Permutes(f, n) /\ Arranged(s, before) = [m \in 1..n |-> s[f[m]]]
  <2> HIDE DEF before
  <2> QED BY <1>3, ArrangedPermutes
<1> QED BY <1>4 DEF Increasing

\* The partitions are k sequences of positions, which together have each of the L positions
\* once, and which are equally long if they are to be.
Deals(p, k, L, equalSize) ==
  /\ p = [i \in 1..k |-> p[i]] /\ Pieces(1..L, p, k) /\ PiecesApart(p, k)
  /\ \A r \in 1..L : \E i, j : InPieces(p, k, i, j, r)
  /\ equalSize => \A i, j \in 1..k : Len(p[i]) = Len(p[j])

\* That is what get_seqlen_balanced_partitions gives.
LEMMA PartitionsDeal ==
  ASSUME NEW ls, NEW k, NEW equalSize, CanPartition(ls, k, equalSize)
  PROVE  Deals(Partitions(ls, k, equalSize), k, Len(ls), equalSize)
<1> DEFINE L == Len(ls)
           d == Differenced(ls, k, equalSize)
           p == Partitions(ls, k, equalSize)
<1>1. k \in Nat \ {0}
  BY DEF CanPartition
<1>2. /\ DOMAIN d = 1..k /\ \A i \in 1..k : d[i].rows \in Seq(1..L)
      /\ IsOnce(d) /\ (equalSize => IsLevel(d)) /\ \A r \in 1..L : Holds(d, r)
  <2>1. IsWhole(d, k, L, equalSize)
    BY DifferencedIsWhole
  <2> HIDE DEF d, L
  <2>2. d \in Seq(Bins(L)) /\ Len(d) = k
    BY <2>1 DEF IsWhole, IsState
  <2>3. DOMAIN d = 1..k
    BY <2>2, LenProperties
  <2>4. \A i \in 1..k : d[i] \in Bins(L)
    BY <2>2, <2>3, ElementOfSeq
  <2> QED BY <2>1, <2>3, <2>4 DEF IsWhole, Bins
<1>3. p = [i \in 1..k |-> Increasing(d[i].rows)]
  BY DEF Partitions
<1> HIDE DEF L, d, p
<1>4. ASSUME NEW i \in 1..k
      PROVE  \E f : Permutes(f, Len(d[i].rows)) /\ p[i] = [m \in 1..Len(d[i].rows) |-> d[i].rows[f[m]]]
  <2> DEFINE s == d[i].rows
  <2>1. s \in Seq(1..L) /\ p[i] = Increasing(s)
    BY <1>2, <1>3
  <2> HIDE DEF s
  <2>2. \E f : Permutes(f, Len(s)) /\ Increasing(s) = [m \in 1..Len(s) |-> s[f[m]]]
    BY <2>1, IncreasingPermutes
  <2>3. \E f : Permutes(f, Len(s)) /\ p[i] = [m \in 1..Len(s) |-> s[f[m]]]
    BY <2>1, <2>2
  <2> QED BY <2>3 DEF s
<1>5. ASSUME NEW i \in 1..k
      PROVE  /\ p[i] \in Seq(1..L) /\ Len(p[i]) = Len(d[i].rows)
             /\ \A j, x : InPieces(p, k, i, j, x) => \E a : IsAt(d, i, a, x)
             /\ \A j, b, x : InPieces(p, k, i, j, x) /\ InPieces(p, k, i, b, x) => j = b
             /\ \A a, x : IsAt(d, i, a, x) => \E j : InPieces(p, k, i, j, x)
  <2> DEFINE s == d[i].rows
             n == Len(s)
             q == p[i]
  <2>1. s \in Seq(1..L)
    BY <1>2
  <2>2. PICK f : Permutes(f, n) /\ q = [m \in 1..n |-> s[f[m]]]
    BY <1>4
  <2>3. \A j, x : InPieces(p, k, i, j, x) <=> j \in DOMAIN q /\ q[j] = x
    BY DEF InPieces
  <2>4. \A a, x : IsAt(d, i, a, x) <=> a \in DOMAIN s /\ s[a] = x
    BY <1>2 DEF IsAt
  <2>5. ASSUME NEW a \in DOMAIN s, NEW b \in DOMAIN s, s[a] = s[b] PROVE a = b
    <3>1. IsAt(d, i, a, s[a]) /\ IsAt(d, i, b, s[a])
      BY <2>4, <2>5
    <3> QED BY <1>2, <3>1 DEF IsOnce
  <2> HIDE DEF s, q
  <2>6. n \in Nat /\ DOMAIN s = 1..n
    BY <2>1, LenProperties
  <2> HIDE DEF n
  <2>7. /\ \A m \in 1..n : f[m] \in 1..n
        /\ \A a, b \in 1..n : f[a] = f[b] => a = b
        /\ \A a \in 1..n : \E m \in 1..n : f[m] = a
    BY <2>2 DEF Permutes
  <2>8. DOMAIN q = 1..n /\ \A m \in 1..n : q[m] = s[f[m]]
    BY <2>2
  <2>9. q \in Seq(1..L) /\ Len(q) = n
    <3>1. \A m \in 1..n : s[f[m]] \in 1..L
      BY <2>1, <2>6, <2>7, ElementOfSeq DEF n
    <3> QED BY <2>2, <2>6, <3>1
  <2>10. \A j, x : InPieces(p, k, i, j, x) => \E a : IsAt(d, i, a, x)
    <3> SUFFICES ASSUME NEW j, NEW x, InPieces(p, k, i, j, x) PROVE \E a : IsAt(d, i, a, x)
      OBVIOUS
    <3>1. j \in 1..n /\ q[j] = x
      BY <2>3, <2>8
    <3>2. f[j] \in DOMAIN s /\ s[f[j]] = x
      BY <2>6, <2>7, <2>8, <3>1
    <3> QED BY <2>4, <3>2
  <2>11. \A j, b, x : InPieces(p, k, i, j, x) /\ InPieces(p, k, i, b, x) => j = b
    <3> SUFFICES ASSUME NEW j, NEW b, NEW x, InPieces(p, k, i, j, x), InPieces(p, k, i, b, x)
                 PROVE  j = b
      OBVIOUS
    <3>1. j \in 1..n /\ b \in 1..n /\ q[j] = q[b]
      BY <2>3, <2>8
    <3>2. f[j] \in DOMAIN s /\ f[b] \in DOMAIN s /\ s[f[j]] = s[f[b]]
      BY <2>6, <2>7, <2>8, <3>1
    <3>3. f[j] = f[b]
      BY <2>5, <3>2
    <3> QED BY <2>7, <3>1, <3>3
  <2>12. \A a, x : IsAt(d, i, a, x) => \E j : InPieces(p, k, i, j, x)
    <3> SUFFICES ASSUME NEW a, NEW x, IsAt(d, i, a, x) PROVE \E j : InPieces(p, k, i, j, x)
      OBVIOUS
    <3>1. a \in 1..n /\ s[a] = x
      BY <2>4, <2>6
    <3>2. PICK m \in 1..n : f[m] = a
      BY <2>7, <3>1
    <3>3. m \in DOMAIN q /\ q[m] = x
      BY <2>8, <3>1, <3>2
    <3> QED BY <2>3, <3>3
  <2> QED BY <2>9, <2>10, <2>11, <2>12 DEF q, n, s
<1>6. p = [i \in 1..k |-> p[i]] /\ Pieces(1..L, p, k)
  BY <1>1, <1>3, <1>5 DEF Pieces
<1>7. PiecesApart(p, k)
  <2> SUFFICES ASSUME NEW i, NEW j, NEW a, NEW b, NEW x, InPieces(p, k, i, j, x), InPieces(p, k, a, b, x)
               PROVE  i = a /\ j = b
    BY DEF PiecesApart
  <2>1. i \in 1..k /\ a \in 1..k
    BY DEF InPieces
  <2>2. (\E e : IsAt(d, i, e, x)) /\ (\E e : IsAt(d, a, e, x))
    BY <1>5, <2>1
  <2>3. i = a
    BY <1>2, <2>2 DEF IsOnce
  <2> QED BY <1>5, <2>1, <2>3
<1>8. ASSUME NEW r \in 1..L PROVE \E i, j : InPieces(p, k, i, j, r)
  <2>1. PICK i, a : IsAt(d, i, a, r)
    BY <1>2 DEF Holds
  <2>2. i \in 1..k
    BY <1>2, <2>1 DEF IsAt
  <2> QED BY <1>5, <2>1, <2>2
<1>9. ASSUME equalSize, NEW i \in 1..k, NEW j \in 1..k PROVE Len(p[i]) = Len(p[j])
  <2>1. Len(d[i].rows) = Len(d[j].rows)
    BY <1>2, <1>9 DEF IsLevel
  <2> QED BY <1>5, <2>1
<1> QED BY <1>6, <1>7, <1>8, <1>9 DEF Deals, p, L

\* Put together, they are a way to take all rows.
LEMMA DealtPermute ==
  ASSUME NEW p, NEW k \in Nat, NEW L \in Nat, NEW equalSize, Deals(p, k, L, equalSize)
  PROVE  Permutes(FlattenSeq(p), L) /\ FlattenSeq(p) \in Seq(1..L) /\ FlattenSeq(p) = Joined(p, k)
<1> DEFINE c == Joined(p, k)
           n == Len(c)
<1>1. FlattenSeq(p) = c
  BY DEF Deals, Joined
<1>2. c \in Seq(1..L)
  <2>1. Pieces(1..L, p, k) /\ k \in 0..k
    BY DEF Deals
  <2> QED BY <2>1, JoinedNext
<1>3. Lists(c, p, k)
  BY JoinedLists DEF Deals
<1> HIDE DEF c
<1>4. n \in Nat /\ DOMAIN c = 1..n /\ c \in [1..n -> 1..L]
  BY <1>2, LenProperties
<1> HIDE DEF n
<1>5. \A a, b \in 1..n : c[a] = c[b] => a = b
  BY <1>3, <1>4 DEF Lists, Deals
<1>6. \A r \in 1..L : \E m \in 1..n : c[m] = r
  <2>1. \A r \in 1..L : \E i, j : InPieces(p, k, i, j, r)
    BY DEF Deals
  <2> QED BY <1>3, <1>4, <2>1 DEF Lists
<1>7. n = L
  <2>1. c \in Injection(1..n, 1..L)
    BY <1>4, <1>5, Fun_IsInj
  <2>2. c \in Surjection(1..n, 1..L)
    BY <1>4, <1>6, Fun_IsSurj
  <2>3. IsFiniteSet(1..n) /\ Cardinality(1..n) = n /\ IsFiniteSet(1..L) /\ Cardinality(1..L) = L
    BY <1>4, FS_Interval
  <2>4. Cardinality(1..L) = Cardinality(1..n)
    BY <2>1, <2>2, <2>3, FS_Surjection
  <2> QED BY <2>3, <2>4
<1>8. Permutes(c, L)
  BY <1>4, <1>5, <1>6, <1>7 DEF Permutes
<1> QED BY <1>1, <1>2, <1>8 DEF c

\* Each row is in one part, once, and parts of equal size have as many rows each
\* (_check_and_sort_partitions and the assertion on equal_size).
THEOREM PartitionsAreWhole ==
  ASSUME NEW ls, NEW k, NEW equalSize, CanPartition(ls, k, equalSize)
  PROVE  LET p == Partitions(ls, k, equalSize)
         IN  /\ Permutes(FlattenSeq(p), Len(ls))
             /\ equalSize => \A i \in 1..k : Len(p[i]) = Len(ls) \div k
<1> DEFINE L == Len(ls)
           p == Partitions(ls, k, equalSize)
<1>1. k \in Nat \ {0} /\ L \in Nat
  BY LenProperties DEF CanPartition
<1>2. Deals(p, k, L, equalSize)
  BY PartitionsDeal
<1> HIDE DEF p, L
<1>3. Permutes(FlattenSeq(p), L) /\ FlattenSeq(p) \in Seq(1..L) /\ FlattenSeq(p) = Joined(p, k)
  BY <1>1, <1>2, DealtPermute
<1>4. ASSUME equalSize, NEW i \in 1..k PROVE Len(p[i]) = L \div k
  <2> DEFINE z == Len(p[i])
  <2>1. z \in Nat
    <3>1. p[i] \in Seq(1..L)
      BY <1>2 DEF Deals, Pieces
    <3> QED BY <3>1, LenProperties
  <2>2. EvenPieces(1..L, p, k, z)
    BY <1>2, <1>4, <2>1 DEF Deals, EvenPieces
  <2> HIDE DEF z
  <2>3. Len(Joined(p, k)) = z * k
    BY <2>2, PiecesComeBack
  <2>4. Len(Joined(p, k)) = L
    <3>1. DOMAIN FlattenSeq(p) = 1..L
      BY <1>3 DEF Permutes
    <3> DEFINE c == FlattenSeq(p)
    <3>2. c \in Seq(1..L)
      BY <1>3
    <3> HIDE DEF c
    <3>3. DOMAIN c = 1..Len(c) /\ Len(c) \in Nat
      BY <3>2, LenProperties
    <3>4. 1..Len(c) = 1..L
      BY <3>1, <3>3 DEF c
    <3>5. Len(c) = L
      <4> DEFINE m == Len(c)
      <4> HIDE DEF m
      <4>1. m \in Nat /\ 1..m = 1..L
        BY <3>3, <3>4 DEF m
      <4>2. m = L
        BY <1>1, <4>1, FS_Interval
      <4> QED BY <4>2 DEF m
    <3> QED BY <1>3, <3>5 DEF c
  <2>5. (k * z + 0) \div k = z
    <3>1. 0 \in 0..(k - 1)
      BY <1>1
    <3> QED BY <1>1, <2>1, <3>1, DivisionIsUnique
  <2>6. k * z + 0 = L
    BY <1>1, <2>1, <2>3, <2>4
  <2> QED BY <2>5, <2>6 DEF z
<1> QED BY <1>3, <1>4 DEF p, L

-----------------------------------------------------------------------------
(* The calls of the worker groups. *)

\* The same number of what are not fewer is not less.
LEMMA ProductOrder ==
  ASSUME NEW m \in Nat, NEW a \in Nat, NEW b \in Nat, a <= b
  PROVE  a * m \in Nat /\ b * m \in Nat /\ a * m <= b * m
<1>1. b - a \in Nat /\ b = a + (b - a)
  OBVIOUS
<1> DEFINE d == b - a
<1>2. d \in Nat /\ b = a + d
  BY <1>1
<1> HIDE DEF d
<1>3. b * m = a * m + d * m /\ a * m \in Nat /\ d * m \in Nat
  BY <1>2
<1> QED BY <1>3

\* The group of a rank lies within the ranks.
InGroup(W, size, r) ==
  /\ Base(r, size) \in Nat /\ Base(r, size) + size <= W
  /\ r % size \in 0..(size - 1) /\ r = Base(r, size) + (r % size)

\* So it is when the groups divide the ranks.
LEMMA BaseIs ==
  ASSUME NEW W \in Nat \ {0}, NEW size \in Nat \ {0}, W % size = 0, NEW r \in 0..(W - 1)
  PROVE  InGroup(W, size, r)
<1> DEFINE a == r \div size
           t == r % size
           g == W \div size
<1>7. r \in Nat
  OBVIOUS
<1>1. a \in Nat /\ t \in 0..(size - 1) /\ r = size * a + t
  BY <1>7, Division
<1>2. g \in Nat /\ W = size * g
  <2>1. g \in Nat /\ W = size * g + (W % size)
    BY Division
  <2> QED BY <2>1
<1>3. Base(r, size) = a * size
  BY DEF Base
<1> HIDE DEF a, t, g
<1>4. a < g
  <2>1. SUFFICES ASSUME g <= a PROVE FALSE
    BY <1>1, <1>2
  <2>2. g * size \in Nat /\ a * size \in Nat /\ g * size <= a * size
    BY <1>1, <1>2, <2>1, ProductOrder
  <2>3. size * g = g * size /\ size * a = a * size
    BY <1>1, <1>2
  <2> DEFINE x == a * size
             y == g * size
  <2>4. x \in Nat /\ y \in Nat /\ y <= x /\ W = y /\ r = x + t
    BY <1>1, <1>2, <2>2, <2>3
  <2> HIDE DEF x, y
  <2> QED BY <1>1, <2>4
<1>5. size * a + size <= size * g
  BY <1>1, <1>2, <1>4, ProductGrows
<1>6. size * a = a * size /\ a * size \in Nat
  BY <1>1
<1> QED BY <1>1, <1>2, <1>3, <1>5, <1>6 DEF t, InGroup

\* Rows in chunks for W ranks.
IsChunked(X, all, W, m) ==
  /\ all \in Seq(X) /\ W \in Nat \ {0} /\ m \in Nat /\ Len(all) = W * m
  /\ chunks = Chunk(all, W)

\* What can be chunked is.
LEMMA ChunksFit ==
  ASSUME NEW X, NEW all \in Seq(X), NEW W \in Nat \ {0}, CanChunk(all, W), chunks = Chunk(all, W)
  PROVE  IsChunked(X, all, W, Len(all) \div W)
<1> DEFINE l == Len(all)
           m == l \div W
<1>1. l \in Nat /\ l % W = 0
  BY LenProperties DEF CanChunk
<1> HIDE DEF l
<1>2. m \in Nat /\ l = W * m + (l % W)
  BY <1>1, Division
<1>3. l = W * m
  BY <1>1, <1>2
<1> HIDE DEF m
<1> QED BY <1>2, <1>3 DEF IsChunked, l, m

\* The i-th of k chunks of m rows.
IsChunk(rows, k, m, i) ==
  /\ Chunk(rows, k)[i] = Part(rows, (i - 1) * m, i * m)
  /\ (i - 1) * m \in Nat /\ i * m = (i - 1) * m + m /\ i * m <= Len(rows)

\* A chunk is a part of the rows.
LEMMA ChunkIs ==
  ASSUME NEW X, NEW rows \in Seq(X), NEW k \in Nat \ {0}, NEW m \in Nat, Len(rows) = k * m,
         NEW i \in 1..k
  PROVE  IsChunk(rows, k, m, i)
<1>1. Len(rows) \div k = m
  <2>1. 0 \in 0..(k - 1)
    OBVIOUS
  <2>2. (k * m + 0) \div k = m
    BY <2>1, DivisionIsUnique
  <2>3. k * m + 0 = k * m
    OBVIOUS
  <2> QED BY <2>2, <2>3
<1>2. Chunk(rows, k)[i] = Part(rows, (i - 1) * m, i * m)
  BY <1>1 DEF Chunk, Part
<1>3. (i - 1) * m \in Nat /\ i * m = (i - 1) * m + m
  <2>1. i - 1 \in Nat /\ i = (i - 1) + 1
    OBVIOUS
  <2> QED BY <2>1
<1>4. i * m <= k * m
  BY ProductOrder
<1> QED BY <1>2, <1>3, <1>4 DEF IsChunk

\* What a rank has gathered are the rows of its group.
GatheredRows(X, all, m, r, size) ==
  /\ Gathered(r, size) \in Seq(X) /\ Len(Gathered(r, size)) = size * m
  /\ \A i \in 1..(size * m) :
       /\ Base(r, size) * m + i \in 1..Len(all)
       /\ Gathered(r, size)[i] = all[Base(r, size) * m + i]

\* The gathering in a group puts its chunks together.
LEMMA GatheredIs ==
  ASSUME NEW X, NEW all, NEW W, NEW m, IsChunked(X, all, W, m),
         NEW size \in Nat \ {0}, W % size = 0, NEW r \in 0..(W - 1)
  PROVE  GatheredRows(X, all, m, r, size)
<1> DEFINE b == Base(r, size)
           p == [i \in 1..size |-> chunks[b + i]]
           bound == [k \in 0..size |-> (b + k) * m]
           g == Gathered(r, size)
<1>1. all \in Seq(X) /\ W \in Nat \ {0} /\ m \in Nat /\ Len(all) = W * m /\ chunks = Chunk(all, W)
  BY DEF IsChunked
<1>2. b \in Nat /\ b + size <= W
  <2>1. InGroup(W, size, r)
    BY <1>1, BaseIs
  <2> QED BY <2>1 DEF InGroup
<1>3. g = Joined(p, size)
  BY DEF Gathered, Concat, Joined
<1> HIDE DEF b, g
<1>4. Slices(X, all, p, bound, size)
  <2>1. ASSUME NEW k \in 0..size PROVE bound[k] \in 0..Len(all)
    <3>1. b + k \in Nat /\ b + k <= W
      BY <1>1, <1>2
    <3>2. (b + k) * m \in Nat /\ (b + k) * m <= W * m
      BY <1>1, <3>1, ProductOrder
    <3>3. W * m \in Nat
      BY <1>1
    <3> QED BY <1>1, <3>2, <3>3
  <2>2. ASSUME NEW k \in 1..size
        PROVE  bound[k - 1] <= bound[k] /\ p[k] = Part(all, bound[k - 1], bound[k])
    <3> DEFINE i == b + k
    <3>1. i \in 1..W /\ k - 1 \in 0..size /\ k \in 0..size /\ b + (k - 1) = i - 1
      BY <1>1, <1>2
    <3>2. /\ chunks[i] = Part(all, (i - 1) * m, i * m)
          /\ (i - 1) * m \in Nat /\ i * m = (i - 1) * m + m
      <4> HIDE DEF i
      <4>1. i \in 1..W
        BY <3>1
      <4>2. IsChunk(all, W, m, i)
        BY <1>1, <4>1, ChunkIs
      <4> QED BY <1>1, <4>2 DEF IsChunk
    <3>3. bound[k - 1] = (i - 1) * m /\ bound[k] = i * m
      BY <3>1
    <3>4. (i - 1) * m <= i * m
      <4> DEFINE x == (i - 1) * m
      <4>1. x \in Nat /\ i * m = x + m
        BY <3>2
      <4> HIDE DEF x, i
      <4>2. x <= i * m
        BY <1>1, <4>1
      <4> QED BY <4>2 DEF x
    <3> QED BY <3>2, <3>3, <3>4
  <2> HIDE DEF p, bound
  <2> QED BY <1>1, <2>1, <2>2 DEF Slices
<1>5. g = Part(all, b * m, (b + size) * m)
  <2>1. size \in 0..size /\ bound[0] = b * m /\ bound[size] = (b + size) * m
    <3>1. b + 0 = b
      BY <1>2
    <3> QED BY <3>1
  <2> HIDE DEF p, bound
  <2>2. Joined(p, size) = Part(all, bound[0], bound[size])
    BY <1>4, <2>1, SlicesMakeWhole
  <2> QED BY <1>3, <2>1, <2>2
<1> DEFINE lo == b * m
           z == size * m
<1>6. lo \in Nat /\ z \in Nat /\ (b + size) * m = lo + z /\ lo + z <= Len(all)
  <2>1. b * m \in Nat /\ size * m \in Nat /\ (b + size) * m = b * m + size * m
    BY <1>1, <1>2
  <2>2. (b + size) * m <= W * m
    BY <1>1, <1>2, ProductOrder
  <2> QED BY <1>1, <2>1, <2>2
<1> HIDE DEF lo, z
<1>7. g = SubSeq(all, lo + 1, lo + z) /\ Len(all) \in Nat
  BY <1>1, <1>5, <1>6, LenProperties DEF Part, lo
<1>8. g \in Seq(X) /\ Len(g) = z /\ \A i \in 1..z : g[i] = all[lo + i] /\ lo + i \in 1..Len(all)
  BY <1>1, <1>6, <1>7, SubSeqProperties
<1> QED BY <1>8 DEF g, b, lo, z, GatheredRows

\* Each rank has an output of L rows for each rank of its group.
GroupOutputs(Y, G, W, size, L) ==
  /\ W \in Nat \ {0} /\ size \in Nat \ {0} /\ W % size = 0 /\ L \in Nat
  /\ \A r \in 0..(W - 1) : G[r] \in Seq(Y) /\ Len(G[r]) = size * L

\* The row of an answer is the row at this place of a group's output.
AnswerRows(c, Y, G, W, size, L) ==
  /\ c \in Seq(Y) /\ Len(c) = W * L
  /\ \A j \in 1..(W * L) : \E r \in 0..(W - 1) : \E i \in 1..(size * L) :
       c[j] = G[r][i] /\ j = Base(r, size) * L + i

\* Each rank keeps its part, and the parts are the outputs of the groups.
LEMMA AnswerIs ==
  ASSUME NEW Y, NEW G, NEW size, NEW L, GroupOutputs(Y, G, config.world, size, L)
  PROVE  AnswerRows(Answer([r \in Ranks |-> OwnPart(G[r], r, size)]), Y, G, config.world, size, L)
<1> DEFINE W == config.world
           p == [q \in 1..W |-> OwnPart(G[q - 1], q - 1, size)]
           c == Answer([r \in Ranks |-> OwnPart(G[r], r, size)])
<1>1. /\ W \in Nat \ {0} /\ size \in Nat \ {0} /\ W % size = 0 /\ L \in Nat
      /\ \A r \in 0..(W - 1) : G[r] \in Seq(Y) /\ Len(G[r]) = size * L
  BY DEF GroupOutputs
<1>2. c = Joined(p, W)
  <2> DEFINE f == [r \in Ranks |-> OwnPart(G[r], r, size)]
  <2>1. ASSUME NEW q \in 1..W PROVE f[q - 1] = p[q]
    <3>1. q - 1 \in Ranks
      BY <1>1 DEF Ranks
    <3> QED BY <3>1
  <2> HIDE DEF f, p
  <2>2. [i \in 1..W |-> f[i - 1]] = [i \in 1..W |-> p[i]]
    BY <2>1
  <2>3. Answer(f) = Joined(p, W)
    BY <2>2 DEF Answer, Concat, Joined
  <2> QED BY <2>3 DEF f
<1> HIDE DEF c, W
<1>3. ASSUME NEW r \in 0..(W - 1)
      PROVE  /\ r % size \in 0..(size - 1) /\ r = Base(r, size) + (r % size)
             /\ (r % size) * L \in Nat /\ (r % size) * L + L <= size * L
             /\ OwnPart(G[r], r, size) \in Seq(Y) /\ Len(OwnPart(G[r], r, size)) = L
             /\ \A t \in 1..L : OwnPart(G[r], r, size)[t] = G[r][(r % size) * L + t]
  <2> DEFINE e == r % size
             i == e + 1
             rows == G[r]
             lo == e * L
             part == OwnPart(G[r], r, size)
  <2>1. e \in 0..(size - 1) /\ r = Base(r, size) + e
    <3>1. W \in Nat \ {0} /\ size \in Nat \ {0} /\ W % size = 0 /\ r \in 0..(W - 1)
      BY <1>1
    <3>2. InGroup(W, size, r)
      BY <3>1, BaseIs
    <3> QED BY <3>2 DEF InGroup
  <2>2. rows \in Seq(Y) /\ Len(rows) = size * L
    BY <1>1
  <2>3. part = Chunk(rows, size)[i]
    BY DEF OwnPart
  <2> HIDE DEF e, rows, part
  <2>4. i \in 1..size /\ i - 1 = e
    BY <1>1, <2>1
  <2>5. /\ Chunk(rows, size)[i] = Part(rows, (i - 1) * L, i * L)
        /\ (i - 1) * L \in Nat /\ i * L = (i - 1) * L + L /\ i * L <= Len(rows)
    <3> HIDE DEF i
    <3>1. IsChunk(rows, size, L, i)
      BY <1>1, <2>2, <2>4, ChunkIs
    <3> QED BY <3>1 DEF IsChunk
  <2>6. part = SubSeq(rows, lo + 1, lo + L) /\ lo \in Nat /\ lo + L <= Len(rows) /\ Len(rows) \in Nat
    <3>1. (i - 1) * L = lo /\ i * L = lo + L
      BY <2>4, <2>5
    <3> HIDE DEF i, lo
    <3> QED BY <2>2, <2>3, <2>5, <3>1, LenProperties DEF Part
  <2> HIDE DEF lo
  <2>7. part \in Seq(Y) /\ Len(part) = L /\ \A t \in 1..L : part[t] = rows[lo + t]
    BY <1>1, <2>2, <2>6, SubSeqProperties
  <2> QED BY <2>1, <2>2, <2>6, <2>7 DEF e, rows, lo, part
<1>4. ASSUME NEW q \in 1..W PROVE p[q] \in Seq(Y) /\ Len(p[q]) = L
  <2>1. q - 1 \in 0..(W - 1)
    BY <1>1
  <2> QED BY <1>3, <2>1
<1>5. EvenPieces(Y, p, W, L)
  <2> HIDE DEF p
  <2> QED BY <1>1, <1>4 DEF EvenPieces, Pieces
<1>6. /\ c \in Seq(Y) /\ Len(c) = L * W
      /\ \A q \in 1..W : Part(c, L * (q - 1), L * q) = p[q]
  <2> HIDE DEF p
  <2> QED BY <1>2, <1>5, PiecesComeBack
<1>7. L * W = W * L
  BY <1>1
<1>8. ASSUME NEW j \in 1..(W * L)
      PROVE  \E r \in 0..(W - 1) : \E i \in 1..(size * L) : c[j] = G[r][i] /\ j = Base(r, size) * L + i
  <2> DEFINE r == (j - 1) \div L
             a == (j - 1) % L
             t == a + 1
             e == r % size
             b == Base(r, size)
             i == e * L + t
  <2>1. L # 0
    <3>1. SUFFICES ASSUME L = 0 PROVE FALSE
      OBVIOUS
    <3>2. W * L = 0
      BY <1>1, <3>1
    <3> QED BY <3>2
  <2>2. j - 1 \in Nat /\ j - 1 < W * L /\ W * L \in Nat
    BY <1>1
  <2>3. r \in Nat /\ a \in 0..(L - 1) /\ j - 1 = L * r + a
    BY <1>1, <2>1, <2>2, Division
  <2> HIDE DEF r, a
  <2>4. r \in 0..(W - 1)
    <3>1. SUFFICES ASSUME W <= r PROVE FALSE
      BY <1>1, <2>3
    <3>2. W * L <= r * L /\ r * L \in Nat /\ L * r = r * L
      BY <1>1, <2>3, <3>1, ProductOrder
    <3> DEFINE x == W * L
               y == r * L
    <3>3. x \in Nat /\ y \in Nat /\ x <= y /\ j - 1 < x /\ j - 1 = y + a
      BY <2>2, <2>3, <3>2
    <3> HIDE DEF x, y
    <3> QED BY <2>3, <3>3
  <2>5. /\ e \in 0..(size - 1) /\ r = b + e /\ e * L \in Nat /\ e * L + L <= size * L
        /\ OwnPart(G[r], r, size)[t] = G[r][i]
    <3>1. t \in 1..L
      BY <1>1, <2>3
    <3> QED BY <1>3, <2>4, <3>1
  <2>6. i \in 1..(size * L)
    <3> DEFINE x == e * L
               y == size * L
    <3>1. x \in Nat /\ x + L <= y /\ i = x + t
      BY <2>5
    <3>2. y \in Nat
      BY <1>1
    <3> HIDE DEF x, y, i
    <3>3. i \in 1..y
      BY <1>1, <2>3, <3>1, <3>2
    <3> QED BY <3>3 DEF y
  <2>7. c[j] = p[r + 1][t]
    <3> DEFINE lo == L * r
    <3>1. r + 1 \in 1..W /\ (r + 1) - 1 = r /\ L * (r + 1) = lo + L /\ lo \in Nat
      BY <1>1, <2>4
    <3>2. Part(c, lo, lo + L) = p[r + 1]
      <4>1. Part(c, L * ((r + 1) - 1), L * (r + 1)) = p[r + 1]
        BY <1>6, <3>1
      <4> QED BY <3>1, <4>1
    <3>3. lo + L <= Len(c) /\ Len(c) \in Nat
      <4>1. (r + 1) * L <= W * L /\ L * (r + 1) = (r + 1) * L
        BY <1>1, <2>3, <2>4, ProductOrder
      <4> QED BY <1>6, <1>7, <2>2, <3>1, <4>1
    <3>4. j = lo + t
      <4>1. j - 1 = lo + a
        BY <2>3
      <4> HIDE DEF lo
      <4> QED BY <2>3, <3>1, <4>1
    <3> HIDE DEF lo, p
    <3>5. SubSeq(c, lo + 1, lo + L)[t] = c[lo + t]
      <4>1. \A n \in 1..L : SubSeq(c, lo + 1, lo + L)[n] = c[lo + n]
        BY <1>1, <1>6, <3>1, <3>3, SubSeqProperties
      <4>2. t \in 1..L
        BY <1>1, <2>3
      <4> QED BY <4>1, <4>2
    <3>6. Part(c, lo, lo + L)[t] = c[j]
      BY <3>4, <3>5 DEF Part
    <3> QED BY <3>2, <3>6
  <2>8. p[r + 1] = OwnPart(G[r], r, size)
    <3>1. r + 1 \in 1..W /\ (r + 1) - 1 = r
      BY <1>1, <2>4
    <3> QED BY <3>1
  <2>12. b \in Nat
    <3>1. W \in Nat \ {0} /\ size \in Nat \ {0} /\ W % size = 0
      BY <1>1
    <3>2. InGroup(W, size, r)
      BY <2>4, <3>1, BaseIs
    <3> QED BY <3>2 DEF InGroup
  <2>9. j = b * L + i
    <3>1. L * r = b * L + e * L
      <4>1. b \in Nat /\ e \in Nat
        BY <1>1, <2>5, <2>12
      <4> HIDE DEF b, e
      <4>2. L * (b + e) = b * L + e * L
        BY <1>1, <4>1
      <4> QED BY <2>5, <4>2
    <3> DEFINE x == b * L
               y == e * L
    <3>2. x \in Nat /\ y \in Nat
      <4> HIDE DEF b, e
      <4> QED BY <1>1, <2>5, <2>12
    <3>3. j - 1 = x + y + a /\ i = y + a + 1
      <4>1. j - 1 = (x + y) + a
        BY <2>3, <3>1
      <4>2. i = y + (a + 1)
        OBVIOUS
      <4> HIDE DEF x, y, i
      <4> QED BY <2>3, <3>2, <4>1, <4>2
    <3> HIDE DEF x, y, i
    <3>4. j = x + i
      BY <2>3, <3>2, <3>3
    <3> QED BY <3>4 DEF x
  <2>10. c[j] = G[r][i]
    BY <2>5, <2>7, <2>8
  <2> HIDE DEF b, i
  <2>11. j = b * L + i /\ i \in 1..(size * L)
    BY <2>6, <2>9
  <2> QED BY <2>4, <2>10, <2>11 DEF b
<1> QED BY <1>6, <1>7, <1>8 DEF AnswerRows, W, c

-----------------------------------------------------------------------------
(* Sums, quotients and the largest of some numbers. *)

\* n numbers have a largest one.
LEMMA MaxIsGreatest ==
  ASSUME NEW n \in Nat \ {0}, NEW f, \A q \in 0..(n - 1) : f[q] \in Nat,
         NEW S, S = {f[q] : q \in 0..(n - 1)}
  PROVE  Max(S) \in S /\ \A x \in S : x <= Max(S)
<1> DEFINE Top(k, t) == t \in 0..k /\ \A q \in 0..k : f[q] <= f[t]
           T == {k \in Nat : k < n => \E t : Top(k, t)}
<1>1. 0 \in T
  <2>1. Top(0, 0)
    <3>1. f[0] \in Nat
      OBVIOUS
    <3> QED BY <3>1
  <2> HIDE DEF Top
  <2> QED BY <2>1
<1>2. ASSUME NEW k \in T PROVE k + 1 \in T
  <2>1. SUFFICES ASSUME k + 1 < n PROVE \E t : Top(k + 1, t)
    OBVIOUS
  <2>2. PICK t : Top(k, t)
    <3> HIDE DEF Top
    <3>1. k \in Nat /\ k < n
      BY <2>1
    <3> QED BY <3>1
  <2>3. k \in Nat /\ f[k + 1] \in Nat /\ f[t] \in Nat /\ \A q \in 0..k : f[q] \in Nat
    BY <2>1, <2>2
  <2>4. CASE f[k + 1] <= f[t]
    <3>1. Top(k + 1, t)
      BY <2>2, <2>3, <2>4
    <3> HIDE DEF Top
    <3> QED BY <3>1
  <2>5. CASE ~ (f[k + 1] <= f[t])
    <3>1. \A q \in 0..k : f[q] <= f[k + 1]
      BY <2>2, <2>3, <2>5
    <3>2. Top(k + 1, k + 1)
      BY <2>3, <3>1
    <3> HIDE DEF Top
    <3> QED BY <3>2
  <2> QED BY <2>4, <2>5
<1>3. T = Nat
  <2>1. T \subseteq Nat
    OBVIOUS
  <2> HIDE DEF T
  <2> QED BY <1>1, <1>2, <2>1, AllNumbers, Zenon
<1>4. PICK t : Top(n - 1, t)
  <2>1. n - 1 \in T /\ n - 1 < n
    <3> HIDE DEF T
    <3> QED BY <1>3
  <2> HIDE DEF Top
  <2> QED BY <2>1
<1>5. f[t] \in S /\ \A x \in S : f[t] >= x
  <2>1. \A q \in 0..(n - 1) : f[q] <= f[t] /\ f[q] \in Int
    BY <1>4
  <2>2. t \in 0..(n - 1)
    BY <1>4
  <2> HIDE DEF Top
  <2> QED BY <2>1, <2>2
<1>6. Max(S) \in S /\ \A x \in S : Max(S) >= x
  <2> HIDE DEF Top
  <2> QED BY <1>5, Zenon DEF Max
<1> HIDE DEF Top
<1>7. \A x \in S : x \in Int
  OBVIOUS
<1> QED BY <1>6, <1>7

\* So many pieces of length b hold a elements, and fewer do not.
Covers(a, b, q) ==
  /\ q \in Nat /\ a <= q * b /\ (a > 0 => q > 0)
  /\ \A k \in Nat : a <= k * b => q <= k

\* That is the quotient rounded up.
LEMMA CeilDivIs ==
  ASSUME NEW a \in Nat, NEW b \in Nat \ {0}
  PROVE  Covers(a, b, CeilDiv(a, b))
<1> DEFINE x == a + b - 1
           q == x \div b
           t == x % b
<1>1. x \in Nat
  OBVIOUS
<1>2. q \in Nat /\ t \in 0..(b - 1) /\ x = b * q + t
  <2> HIDE DEF x
  <2> QED BY <1>1, Division
<1>3. CeilDiv(a, b) = q
  BY DEF CeilDiv
<1>4. x = a + b - 1
  OBVIOUS
<1> HIDE DEF x, q, t
<1>5. b * q = q * b /\ q * b \in Nat
  BY <1>2
<1>6. a <= q * b
  <2> DEFINE y == q * b
  <2>1. y \in Nat /\ x = y + t
    BY <1>2, <1>5
  <2> HIDE DEF y
  <2>2. a <= y
    BY <1>2, <1>4, <2>1
  <2> QED BY <2>2 DEF y
<1>7. a > 0 => q > 0
  <2>1. SUFFICES ASSUME a > 0, q = 0 PROVE FALSE
    BY <1>2
  <2>2. q * b = 0
    BY <2>1
  <2> QED BY <1>6, <2>1, <2>2
<1>8. ASSUME NEW k \in Nat, a <= k * b PROVE q <= k
  <2>1. SUFFICES ASSUME k < q PROVE FALSE
    BY <1>2
  <2>2. b * k + b <= b * q /\ b * k = k * b /\ k * b \in Nat
    BY <1>2, <2>1, ProductGrows
  <2> DEFINE y == q * b
             z == k * b
  <2>3. y \in Nat /\ z \in Nat /\ z + b <= y /\ x = y + t /\ a <= z
    BY <1>2, <1>5, <1>8, <2>2
  <2> HIDE DEF y, z
  <2> QED BY <1>2, <1>4, <2>3
<1> QED BY <1>2, <1>3, <1>6, <1>7, <1>8 DEF Covers

\* What Total has of each number of elements.
Sums(f, s) == f = [n \in 0..Len(s) |-> IF n = 0 THEN 0 ELSE f[n - 1] + s[n]]

\* The same of the first l of them.
SumsTo(f, s, l) == f = [n \in 0..l |-> IF n = 0 THEN 0 ELSE f[n - 1] + s[n]]

\* There is such a function.
LEMMA SumsExist ==
  ASSUME NEW s, NEW l \in Nat
  PROVE  \E f : SumsTo(f, s, l)
<1> DEFINE S == {m \in Nat : \E f : SumsTo(f, s, m)}
<1>1. 0 \in S
  <2> DEFINE f == [n \in 0..0 |-> 0]
  <2>1. SumsTo(f, s, 0)
    BY DEF SumsTo
  <2> HIDE DEF f
  <2> QED BY <2>1
<1>2. ASSUME NEW m \in S PROVE m + 1 \in S
  <2>1. PICK f : SumsTo(f, s, m)
    OBVIOUS
  <2> DEFINE g == [n \in 0..(m + 1) |-> IF n <= m THEN f[n] ELSE f[n - 1] + s[n]]
  <2>2. ASSUME NEW n \in 0..(m + 1)
        PROVE  g[n] = IF n = 0 THEN 0 ELSE g[n - 1] + s[n]
    <3>1. CASE n = 0
      BY <2>1, <3>1 DEF SumsTo
    <3>2. CASE n # 0
      <4>1. n - 1 \in 0..m /\ n - 1 \in 0..(m + 1) /\ n - 1 <= m
        BY <3>2
      <4>2. g[n - 1] = f[n - 1]
        BY <4>1
      <4>3. g[n] = f[n - 1] + s[n]
        <5>1. CASE n <= m
          <6>1. n \in 0..m
            BY <5>1
          <6>2. f[n] = f[n - 1] + s[n]
            BY <2>1, <3>2, <6>1 DEF SumsTo
          <6> QED BY <5>1, <6>2
        <5>2. CASE ~ (n <= m)
          BY <5>2
        <5> QED BY <5>1, <5>2
      <4> HIDE DEF g
      <4> QED BY <3>2, <4>2, <4>3
    <3> QED BY <3>1, <3>2
  <2>3. SumsTo(g, s, m + 1)
    <3>1. g = [n \in 0..(m + 1) |-> g[n]]
      OBVIOUS
    <3> HIDE DEF g
    <3> QED BY <2>2, <3>1 DEF SumsTo
  <2> HIDE DEF g
  <2> QED BY <2>3
<1>3. S = Nat
  <2>1. S \subseteq Nat
    OBVIOUS
  <2> HIDE DEF S
  <2> QED BY <1>1, <1>2, <2>1, AllNumbers, Zenon
<1> QED BY <1>3

\* A sum of numbers within bounds is within as many times the bounds.
SumWithin(s, lo, hi) ==
  Total(s) \in Nat /\ Len(s) * lo <= Total(s) /\ Total(s) <= Len(s) * hi

\* Total is such a sum.
LEMMA TotalIsWithin ==
  ASSUME NEW lo \in Nat, NEW hi \in Nat, NEW s \in Seq(lo..hi)
  PROVE  SumWithin(s, lo, hi)
<1> DEFINE l == Len(s)
<1>1. l \in Nat
  BY LenProperties
<1>2. PICK f : f = CHOOSE g : Sums(g, s)
  OBVIOUS
<1>3. Sums(f, s)
  <2>1. \E g : SumsTo(g, s, l)
    BY <1>1, SumsExist
  <2>2. \E g : Sums(g, s)
    BY <2>1 DEF Sums, SumsTo
  <2> QED BY <1>2, <2>2, Zenon
<1>4. Total(s) = f[l]
  BY <1>2, Zenon DEF Total, Sums
<1>5. \A i \in 1..l : s[i] \in lo..hi
  BY ElementOfSeq
<1>6. /\ f[0] = 0
      /\ \A n \in 1..l : f[n] = f[n - 1] + s[n]
  <2>1. f = [n \in 0..l |-> IF n = 0 THEN 0 ELSE f[n - 1] + s[n]]
    BY <1>3 DEF Sums
  <2> HIDE DEF l
  <2>2. \A n \in 0..l : f[n] = IF n = 0 THEN 0 ELSE f[n - 1] + s[n]
    BY <2>1
  <2> QED BY <1>1, <2>2
<1> HIDE DEF l
<1> DEFINE S == {n \in Nat : n <= l => f[n] \in Nat /\ n * lo <= f[n] /\ f[n] <= n * hi}
<1>7. 0 \in S
  BY <1>6
<1>8. ASSUME NEW n \in S PROVE n + 1 \in S
  <2>1. SUFFICES ASSUME n + 1 <= l
                 PROVE  f[n + 1] \in Nat /\ (n + 1) * lo <= f[n + 1] /\ f[n + 1] <= (n + 1) * hi
    OBVIOUS
  <2>2. n \in Nat /\ n <= l
    BY <1>1, <2>1
  <2>3. f[n] \in Nat /\ n * lo <= f[n] /\ f[n] <= n * hi
    BY <2>2
  <2>4. n + 1 \in 1..l /\ (n + 1) - 1 = n
    BY <1>1, <2>1, <2>2
  <2>5. f[n + 1] = f[n] + s[n + 1] /\ s[n + 1] \in lo..hi
    BY <1>5, <1>6, <2>4
  <2>6. (n + 1) * lo = n * lo + lo /\ (n + 1) * hi = n * hi + hi /\ n * lo \in Nat /\ n * hi \in Nat
    BY <2>2
  <2> DEFINE x == n * lo
             y == n * hi
             z == s[n + 1]
             v == f[n]
  <2>7. /\ x \in Nat /\ y \in Nat /\ v \in Nat /\ z \in lo..hi /\ x <= v /\ v <= y
        /\ f[n + 1] = v + z /\ (n + 1) * lo = x + lo /\ (n + 1) * hi = y + hi
    BY <2>3, <2>5, <2>6
  <2> HIDE DEF x, y, z, v
  <2>8. v + z \in Nat /\ x + lo <= v + z /\ v + z <= y + hi
    BY <2>7
  <2> QED BY <2>7, <2>8
<1>9. S = Nat
  <2>1. S \subseteq Nat
    OBVIOUS
  <2> HIDE DEF S
  <2> QED BY <1>7, <1>8, <2>1, AllNumbers, Zenon
<1>10. l \in S /\ l <= l
  <2> HIDE DEF S
  <2> QED BY <1>1, <1>9
<1>11. f[l] \in Nat /\ l * lo <= f[l] /\ f[l] <= l * hi
  BY <1>10
<1> QED BY <1>4, <1>11 DEF SumWithin, l

\* The pieces of split.
SplitPieces(X, rows, size) ==
  /\ Split(rows, size) = [i \in 1..CeilDiv(Len(rows), size) |-> Split(rows, size)[i]]
  /\ Pieces(X, Split(rows, size), CeilDiv(Len(rows), size))
  /\ FlattenSeq(Split(rows, size)) = rows

\* They make the whole.
LEMMA SplitIs ==
  ASSUME NEW X, NEW rows \in Seq(X), NEW size \in Nat \ {0}
  PROVE  SplitPieces(X, rows, size)
<1> DEFINE l == Len(rows)
           k == CeilDiv(l, size)
           p == Split(rows, size)
           low(a, b) == IF a <= b THEN a ELSE b
           bound == [i \in 0..k |-> low(i * size, l)]
<1>1. l \in Nat
  BY LenProperties
<1>2. k \in Nat /\ l <= k * size /\ \A i \in Nat : l <= i * size => k <= i
  <2>1. Covers(l, size, k)
    BY <1>1, CeilDivIs
  <2> QED BY <2>1 DEF Covers
<1>3. ASSUME NEW i \in Nat PROVE Min({i * size, l}) = low(i * size, l)
  <2> DEFINE m == i * size
             S == {m, l}
  <2>1. m \in Nat /\ S \subseteq Nat /\ S # {}
    BY <1>1
  <2>2. Min(S) \in S /\ \A x \in S : Min(S) <= x
    <3> HIDE DEF S
    <3> QED BY <2>1, MinIsLeast
  <2> HIDE DEF m, l
  <2>3. Min({m, l}) = low(m, l)
    BY <1>1, <2>1, <2>2
  <2> QED BY <2>3 DEF m
<1>4. p = [i \in 1..k |-> SubSeq(rows, (i - 1) * size + 1, Min({i * size, l}))]
  BY DEF Split
<1> HIDE DEF l, k, p
<1>5. ASSUME NEW i \in 1..k PROVE p[i] = Part(rows, (i - 1) * size, low(i * size, l))
  <2>1. i \in Nat
    BY <1>2
  <2> QED BY <1>3, <1>4, <2>1 DEF Part
<1>6. ASSUME NEW i \in 1..k
      PROVE  (i - 1) * size \in Nat /\ i * size = (i - 1) * size + size /\ (i - 1) * size < l
  <2>1. i - 1 \in Nat /\ i = (i - 1) + 1
    BY <1>2
  <2>2. (i - 1) * size \in Nat /\ i * size = (i - 1) * size + size
    BY <2>1
  <2>3. ~ (l <= (i - 1) * size)
    <3> DEFINE a == i - 1
    <3>1. a \in Nat /\ ~ (k <= a)
      BY <1>2, <2>1
    <3> HIDE DEF a
    <3>2. ~ (l <= a * size)
      BY <1>2, <3>1, Zenon
    <3> QED BY <3>2 DEF a
  <2> QED BY <1>1, <2>2, <2>3
<1>7. Slices(X, rows, p, bound, k)
  <2>1. ASSUME NEW i \in 0..k PROVE bound[i] \in 0..l
    <3>1. i * size \in Nat
      BY <1>2
    <3> QED BY <1>1, <3>1
  <2>2. ASSUME NEW i \in 1..k
        PROVE  bound[i - 1] <= bound[i] /\ p[i] = Part(rows, bound[i - 1], bound[i])
    <3>1. i - 1 \in 0..k /\ i \in 0..k
      BY <1>2
    <3>2. bound[i - 1] = (i - 1) * size
      <4> DEFINE a == i - 1
      <4>1. a \in 0..k /\ a * size \in Nat /\ a * size < l
        BY <1>6, <3>1
      <4> HIDE DEF a
      <4>2. bound[a] = a * size
        BY <1>1, <4>1
      <4> QED BY <4>2 DEF a
    <3>3. bound[i] = low(i * size, l)
      BY <3>1
    <3>4. (i - 1) * size <= low(i * size, l)
      <4> DEFINE x == (i - 1) * size
                 y == i * size
      <4>1. x \in Nat /\ y = x + size /\ x < l
        BY <1>6
      <4> HIDE DEF x, y
      <4>2. x <= low(y, l)
        BY <1>1, <4>1
      <4> QED BY <4>2 DEF x, y
    <3> HIDE DEF low, bound
    <3> QED BY <1>5, <3>2, <3>3, <3>4
  <2> HIDE DEF bound, low
  <2> QED BY <1>2, <2>1, <2>2 DEF Slices, l
<1>8. bound[0] = 0 /\ bound[k] = l
  <2>1. 0 \in 0..k /\ k \in 0..k /\ 0 * size = 0 /\ k * size \in Nat
    BY <1>2
  <2> QED BY <1>1, <1>2, <2>1
<1>9. Pieces(X, p, k) /\ Joined(p, k) = rows
  <2> HIDE DEF bound, low
  <2>1. Joined(p, k) = Part(rows, 0, l) /\ Pieces(X, p, k)
    <3>1. k \in 0..k
      BY <1>2
    <3> QED BY <1>7, <1>8, <3>1, SlicesMakeWhole
  <2>2. Part(rows, 0, l) = rows
    BY PartIsAll DEF l
  <2> QED BY <2>1, <2>2
<1>10. p = [i \in 1..k |-> p[i]]
  BY <1>4
<1>11. FlattenSeq(p) = Joined(p, k)
  BY <1>10 DEF Joined
<1> QED BY <1>9, <1>10, <1>11 DEF SplitPieces, p, k, l

-----------------------------------------------------------------------------
(* The configuration and the stages. *)

\* The sizes are numbers, and they divide as they should.
Sized ==
  /\ config.world \in Nat \ {0} /\ config.tp \in Nat \ {0} /\ config.sp \in Nat \ {0}
  /\ config.prompts \in Nat \ {0} /\ config.n \in Nat \ {0} /\ config.micro \in Nat \ {0}
  /\ config.maxTokens \in Nat \ {0} /\ config.width \in Nat \ {0}
  /\ config.mini \in Nat \ {0} /\ config.validation \in Nat
  /\ (config.prompts * config.n) % config.world = 0
  /\ config.world % config.tp = 0 /\ config.world % config.sp = 0
  /\ config.lengths \subseteq 1..config.width

\* So it is of every configuration.
LEMMA ConfigIsSized ==
  ASSUME config \in Configs
  PROVE  Sized
<1>1. config \in Config /\ ValidConfig(config) /\ config.lengths \subseteq 1..config.width
  BY ConfigsValid
<1>2. /\ config.world \in Nat \ {0} /\ config.tp \in Nat \ {0} /\ config.sp \in Nat \ {0}
      /\ config.prompts \in Nat \ {0} /\ config.n \in Nat \ {0} /\ config.micro \in Nat \ {0}
      /\ config.maxTokens \in Nat \ {0} /\ config.width \in Nat \ {0}
      /\ config.mini \in Nat \ {0} /\ config.validation \in Nat
  BY <1>1 DEF Config
<1> QED BY <1>1, <1>2 DEF Sized, ValidConfig

\* The stages one by one.
LEMMA OrderIs ==
  /\ DOMAIN Order = 1..12
  /\ Order[1] = "generate" /\ Order[2] = "baseline" /\ Order[3] = "assemble"
  /\ Order[4] = "old_log_prob" /\ Order[5] = "ref" /\ Order[6] = "values" /\ Order[7] = "rm"
  /\ Order[8] = "advantage" /\ Order[9] = "update_critic" /\ Order[10] = "update_actor"
  /\ Order[11] = "validate" /\ Order[12] = "done"
BY DEF Order

\* No stage comes twice.
LEMMA OrderIsOnce ==
  \A i, j \in 1..12 : Order[i] = Order[j] => i = j
<1> SUFFICES ASSUME NEW i \in 1..12, NEW j \in 1..12, Order[i] = Order[j] PROVE i = j
  OBVIOUS
<1>1. /\ i = 1 \/ i = 2 \/ i = 3 \/ i = 4 \/ i = 5 \/ i = 6 \/ i = 7 \/ i = 8 \/ i = 9 \/ i = 10
         \/ i = 11 \/ i = 12
      /\ j = 1 \/ j = 2 \/ j = 3 \/ j = 4 \/ j = 5 \/ j = 6 \/ j = 7 \/ j = 8 \/ j = 9 \/ j = 10
         \/ j = 11 \/ j = 12
  OBVIOUS
<1> QED BY <1>1, OrderIs

\* The columns that a stage adds to the batch.
Gives(s) ==
  CASE s = "baseline" -> {"reward_baselines"}
    [] s = "assemble" -> {"uid", "input_ids"}
    [] s = "old_log_prob" -> {"old_log_probs"}
    [] s = "ref" -> {"ref_log_prob"}
    [] s = "values" -> {"values"}
    [] s = "rm" -> {"rm_scores"}
    [] s = "advantage" -> {"token_level_scores", "token_level_rewards", "advantages", "returns"}
    [] OTHER -> {}

\* The columns of the batch when the i-th stage is reached.
Cols(i) == {"data"} \cup UNION {Gives(Order[j]) : j \in {k \in 1..(i - 1) : Due(Order[k])}}

\* The m-th stage is what follows on the i-th.
Leads(i, m) ==
  /\ m \in (i + 1)..12 /\ Following = Order[m] /\ Due(Order[m])
  /\ \A j \in (i + 1)..(m - 1) : ~ Due(Order[j])

\* Some stage follows, up to the last.
LEMMA SomethingFollows ==
  ASSUME NEW i \in 1..11, stage = Order[i]
  PROVE  \E m : Leads(i, m)
<1> DEFINE S == {j \in DOMAIN Order : j > i /\ Due(Order[j])}
           m == Min(S)
<1>1. DOMAIN Order = 1..12 /\ Order[12] = "done"
  BY OrderIs
<1>2. (CHOOSE j \in DOMAIN Order : Order[j] = stage) = i
  <2>1. \A j \in DOMAIN Order : Order[j] = stage => j = i
    BY <1>1, OrderIsOnce
  <2>2. i \in DOMAIN Order
    BY <1>1
  <2> HIDE DEF S
  <2> QED BY <2>1, <2>2
<1>3. 12 \in S
  <2>1. Due("done")
    BY DEF Due
  <2> QED BY <1>1, <2>1
<1>4. S \subseteq Nat
  BY <1>1
<1>5. m \in S /\ \A j \in S : m <= j
  <2> HIDE DEF S
  <2> QED BY <1>3, <1>4, MinIsLeast
<1>6. Following = Order[m]
  BY <1>2 DEF Following
<1>7. \A j \in (i + 1)..(m - 1) : ~ Due(Order[j])
  <2> SUFFICES ASSUME NEW j \in (i + 1)..(m - 1), Due(Order[j]) PROVE FALSE
    OBVIOUS
  <2>1. m \in 1..12
    BY <1>1, <1>5
  <2> HIDE DEF m
  <2>2. j \in 1..12 /\ j > i /\ j < m
    BY <2>1
  <2>3. j \in S
    BY <1>1, <2>2
  <2> HIDE DEF S
  <2>4. m <= j
    BY <1>5, <2>3
  <2> QED BY <2>1, <2>2, <2>4
<1>8. m \in (i + 1)..12 /\ Due(Order[m])
  BY <1>1, <1>5
<1> HIDE DEF m
<1>9. Leads(i, m)
  BY <1>6, <1>7, <1>8 DEF Leads
<1> QED BY <1>9

\* Until the next stage the batch gets the columns of this one.
LEMMA ColsGrow ==
  ASSUME NEW i \in 1..11, Due(Order[i]), NEW m, Leads(i, m)
  PROVE  Cols(m) = Cols(i) \cup Gives(Order[i])
<1> DEFINE P(a) == {k \in 1..(a - 1) : Due(Order[k])}
<1>1. P(m) = P(i) \cup {i}
  <2>1. m \in (i + 1)..12 /\ \A j \in (i + 1)..(m - 1) : ~ Due(Order[j])
    BY DEF Leads
  <2>2. ASSUME NEW k \in P(m) PROVE k \in P(i) \cup {i}
    <3>1. k \in 1..(m - 1) /\ Due(Order[k])
      OBVIOUS
    <3>2. ~ (k \in (i + 1)..(m - 1))
      BY <2>1, <3>1
    <3>3. k \in 1..(i - 1) \/ k = i
      BY <2>1, <3>1, <3>2
    <3> QED BY <3>1, <3>3
  <2>3. ASSUME NEW k \in P(i) \cup {i} PROVE k \in P(m)
    <3>1. k \in 1..(m - 1)
      BY <2>1
    <3> QED BY <3>1
  <2> HIDE DEF P
  <2> QED BY <2>2, <2>3
<1>2. Cols(m) = {"data"} \cup UNION {Gives(Order[j]) : j \in P(m)}
  BY DEF Cols
<1>3. Cols(i) = {"data"} \cup UNION {Gives(Order[j]) : j \in P(i)}
  BY DEF Cols
<1> HIDE DEF P
<1> QED BY <1>1, <1>2, <1>3

\* Which columns there are.
LEMMA ColumnsAre ==
  ASSUME NEW i \in 1..12
  PROVE  /\ "data" \in Cols(i)
         /\ "uid" \in Cols(i) <=> 3 < i
         /\ "input_ids" \in Cols(i) <=> 3 < i
         /\ "reward_baselines" \in Cols(i) <=> 2 < i /\ Due("baseline")
         /\ "old_log_probs" \in Cols(i) <=> 4 < i
         /\ "ref_log_prob" \in Cols(i) <=> 5 < i /\ Due("ref")
         /\ "values" \in Cols(i) <=> 6 < i /\ Due("values")
         /\ "rm_scores" \in Cols(i) <=> 7 < i /\ Due("rm")
         /\ "token_level_scores" \in Cols(i) <=> 8 < i
         /\ "token_level_rewards" \in Cols(i) <=> 8 < i
         /\ "advantages" \in Cols(i) <=> 8 < i
         /\ "returns" \in Cols(i) <=> 8 < i
<1>1. ASSUME NEW c
      PROVE  c \in Cols(i) <=> c = "data" \/ \E k \in 1..(i - 1) : Due(Order[k]) /\ c \in Gives(Order[k])
  BY DEF Cols
<1>2. /\ \A k \in 1..12 : ("uid" \in Gives(Order[k]) <=> k = 3)
      /\ \A k \in 1..12 : ("input_ids" \in Gives(Order[k]) <=> k = 3)
      /\ \A k \in 1..12 : ("reward_baselines" \in Gives(Order[k]) <=> k = 2)
      /\ \A k \in 1..12 : ("old_log_probs" \in Gives(Order[k]) <=> k = 4)
      /\ \A k \in 1..12 : ("ref_log_prob" \in Gives(Order[k]) <=> k = 5)
      /\ \A k \in 1..12 : ("values" \in Gives(Order[k]) <=> k = 6)
      /\ \A k \in 1..12 : ("rm_scores" \in Gives(Order[k]) <=> k = 7)
      /\ \A k \in 1..12 : ("token_level_scores" \in Gives(Order[k]) <=> k = 8)
      /\ \A k \in 1..12 : ("token_level_rewards" \in Gives(Order[k]) <=> k = 8)
      /\ \A k \in 1..12 : ("advantages" \in Gives(Order[k]) <=> k = 8)
      /\ \A k \in 1..12 : ("returns" \in Gives(Order[k]) <=> k = 8)
  <2>1. /\ \A s : "uid" \in Gives(s) <=> s = "assemble"
        /\ \A s : "input_ids" \in Gives(s) <=> s = "assemble"
        /\ \A s : "reward_baselines" \in Gives(s) <=> s = "baseline"
        /\ \A s : "old_log_probs" \in Gives(s) <=> s = "old_log_prob"
        /\ \A s : "ref_log_prob" \in Gives(s) <=> s = "ref"
        /\ \A s : "values" \in Gives(s) <=> s = "values"
        /\ \A s : "rm_scores" \in Gives(s) <=> s = "rm"
        /\ \A s : "token_level_scores" \in Gives(s) <=> s = "advantage"
        /\ \A s : "token_level_rewards" \in Gives(s) <=> s = "advantage"
        /\ \A s : "advantages" \in Gives(s) <=> s = "advantage"
        /\ \A s : "returns" \in Gives(s) <=> s = "advantage"
    BY DEF Gives
  <2>2. /\ \A k \in 1..12 : Order[k] = "baseline" <=> k = 2
        /\ \A k \in 1..12 : Order[k] = "assemble" <=> k = 3
        /\ \A k \in 1..12 : Order[k] = "old_log_prob" <=> k = 4
        /\ \A k \in 1..12 : Order[k] = "ref" <=> k = 5
        /\ \A k \in 1..12 : Order[k] = "values" <=> k = 6
        /\ \A k \in 1..12 : Order[k] = "rm" <=> k = 7
        /\ \A k \in 1..12 : Order[k] = "advantage" <=> k = 8
    BY OrderIs, OrderIsOnce
  <2> QED BY <2>1, <2>2
<1>3. /\ Due("assemble") /\ Due("old_log_prob") /\ Due("advantage")
      /\ Order[2] = "baseline" /\ Order[3] = "assemble" /\ Order[4] = "old_log_prob"
      /\ Order[5] = "ref" /\ Order[6] = "values" /\ Order[7] = "rm" /\ Order[8] = "advantage"
  BY OrderIs DEF Due
<1>4. ASSUME NEW c, c # "data", NEW j \in 1..12, \A k \in 1..12 : c \in Gives(Order[k]) <=> k = j
      PROVE  c \in Cols(i) <=> j < i /\ Due(Order[j])
  <2>1. \A k \in 1..(i - 1) : k \in 1..12
    OBVIOUS
  <2>2. c \in Cols(i) <=> j \in 1..(i - 1) /\ Due(Order[j])
    BY <1>1, <1>4, <2>1
  <2> QED BY <2>2
<1>5. "data" \in Cols(i)
  BY <1>1
<1>6. /\ "uid" \in Cols(i) <=> 3 < i
      /\ "input_ids" \in Cols(i) <=> 3 < i
  BY <1>2, <1>3, <1>4
<1>7. "reward_baselines" \in Cols(i) <=> 2 < i /\ Due("baseline")
  BY <1>2, <1>3, <1>4
<1>8. "old_log_probs" \in Cols(i) <=> 4 < i
  BY <1>2, <1>3, <1>4
<1>9. "ref_log_prob" \in Cols(i) <=> 5 < i /\ Due("ref")
  BY <1>2, <1>3, <1>4
<1>10. "values" \in Cols(i) <=> 6 < i /\ Due("values")
  BY <1>2, <1>3, <1>4
<1>11. "rm_scores" \in Cols(i) <=> 7 < i /\ Due("rm")
  BY <1>2, <1>3, <1>4
<1>12. /\ "token_level_scores" \in Cols(i) <=> 8 < i
       /\ "token_level_rewards" \in Cols(i) <=> 8 < i
  BY <1>2, <1>3, <1>4
<1>13. /\ "advantages" \in Cols(i) <=> 8 < i
       /\ "returns" \in Cols(i) <=> 8 < i
  BY <1>2, <1>3, <1>4
<1> QED BY <1>5, <1>6, <1>7, <1>8, <1>9, <1>10, <1>11, <1>12, <1>13

-----------------------------------------------------------------------------
(* The generation. *)

\* The responses to a prompt, and their numbers.
PerPrompt == IF stage = "generate" THEN config.n ELSE 1
Number(j) == IF stage = "generate" THEN ((j - 1) % PerPrompt) + 1 ELSE config.n + 1

\* What the responses to the prompts of l rows are.
Responded(c, all, l) ==
  c = [j \in 1..(l * PerPrompt) |->
        [input_ids |-> <<all[((j - 1) \div PerPrompt) + 1].input_ids[1], Number(j)>>]]

\* The place of a row among what one rank's group has, and among all rows.
SamePlace(b, m, e, i, j) ==
  /\ ((i - 1) \div e) + 1 \in Nat /\ i - 1 \in Nat /\ (j - 1) \in Nat
  /\ ((j - 1) \div e) + 1 = b * m + (((i - 1) \div e) + 1)
  /\ (j - 1) % e = (i - 1) % e

\* Repeated rows are found by their place.
LEMMA SamePlaceIs ==
  ASSUME NEW b \in Nat, NEW m \in Nat, NEW e \in Nat \ {0}, NEW i \in Nat \ {0}, NEW j,
         j = b * (m * e) + i
  PROVE  SamePlace(b, m, e, i, j)
<1> DEFINE q == (i - 1) \div e
           t == (i - 1) % e
           a == b * m
<1>1. i - 1 \in Nat
  OBVIOUS
<1>2. q \in Nat /\ t \in 0..(e - 1) /\ i - 1 = e * q + t
  BY <1>1, Division
<1>3. a \in Nat /\ b * (m * e) = e * a
  OBVIOUS
<1> HIDE DEF q, t, a
<1>4. j - 1 = e * (a + q) + t
  <2>1. e * (a + q) = e * a + e * q /\ e * a \in Nat /\ e * q \in Nat
    BY <1>2, <1>3
  <2> DEFINE x == e * a
             y == e * q
             z == b * (m * e)
  <2>2. x \in Nat /\ y \in Nat /\ e * (a + q) = x + y /\ z = x /\ j = z + i /\ i - 1 = y + t
    BY <1>2, <1>3, <2>1
  <2> HIDE DEF x, y, z
  <2> QED BY <1>2, <2>2
<1>5. a + q \in Nat
  BY <1>2, <1>3
<1> DEFINE u == a + q
<1>6. (e * u + t) \div e = u /\ (e * u + t) % e = t /\ e * u + t \in Nat
  <2> HIDE DEF u
  <2>1. u \in Nat
    BY <1>5 DEF u
  <2> QED BY <1>2, <2>1, DivisionIsUnique
<1>7. (j - 1) \div e = u /\ (j - 1) % e = t /\ j - 1 \in Nat
  BY <1>4, <1>6
<1>8. ((j - 1) \div e) + 1 = a + (q + 1) /\ q + 1 \in Nat
  BY <1>2, <1>3, <1>7
<1> QED BY <1>1, <1>7, <1>8 DEF SamePlace, q, t, a

\* The ranks of a group repeat and answer its prompts, and the answers are in the prompts' order.
LEMMA GeneratedIs ==
  ASSUME Sized, NEW X, NEW all, NEW m, IsChunked(X, all, config.world, m)
  PROVE  Responded(Answer([r \in Ranks |-> Generated(r)]), all, config.world * m)
<1> DEFINE W == config.world
           size == config.tp
           e == PerPrompt
           L == m * e
           G == [r \in 0..(W - 1) |->
                  [i \in 1..(Len(Gathered(r, size)) * e) |->
                    [input_ids |-> <<Gathered(r, size)[((i - 1) \div e) + 1].input_ids[1], Number(i)>>]]]
           Y == {G[r][i] : r \in 0..(W - 1), i \in 1..(size * L)}
           c == Answer([r \in Ranks |-> Generated(r)])
           d == Answer([r \in Ranks |-> OwnPart(G[r], r, size)])
<1>1. /\ W \in Nat \ {0} /\ size \in Nat \ {0} /\ W % size = 0 /\ e \in Nat \ {0}
      /\ all \in Seq(X) /\ m \in Nat /\ Len(all) = W * m
  BY DEF Sized, IsChunked, PerPrompt
<1>2. c = d
  <2>1. ASSUME NEW r \in Ranks PROVE Generated(r) = OwnPart(G[r], r, size)
    <3> DEFINE g == Gathered(r, size)
               rows == Repeat(g, e)
               h == [i \in DOMAIN rows |-> [input_ids |-> <<rows[i].input_ids[1], Number(i)>>]]
    <3>1. r \in 0..(W - 1)
      BY DEF Ranks
    <3>2. rows = [i \in 1..(Len(g) * e) |-> g[((i - 1) \div e) + 1]]
      BY DEF Repeat
    <3>3. h = [i \in 1..(Len(g) * e) |-> [input_ids |-> <<g[((i - 1) \div e) + 1].input_ids[1], Number(i)>>]]
      <4> HIDE DEF g
      <4> QED BY <3>2
    <3>4. G[r] = h
      BY <3>1, <3>3
    <3>5. Generated(r) = OwnPart(h, r, size)
      BY DEF Generated, Number, PerPrompt
    <3> QED BY <3>4, <3>5
  <2> HIDE DEF G
  <2>2. [r \in Ranks |-> Generated(r)] = [r \in Ranks |-> OwnPart(G[r], r, size)]
    BY <2>1
  <2> QED BY <2>2
<1>3. ASSUME NEW r \in 0..(W - 1) PROVE GatheredRows(X, all, m, r, size)
  BY <1>1, GatheredIs
<1>4. (size * m) * e = size * L /\ L \in Nat /\ size * L \in Nat /\ (W * m) * e = W * L
  BY <1>1
<1>5. ASSUME NEW r \in 0..(W - 1)
      PROVE  G[r] = [i \in 1..(size * L) |->
                      [input_ids |-> <<Gathered(r, size)[((i - 1) \div e) + 1].input_ids[1], Number(i)>>]]
  <2>1. Len(Gathered(r, size)) * e = size * L
    BY <1>3, <1>4 DEF GatheredRows
  <2> HIDE DEF L, e, size
  <2> QED BY <2>1
<1> HIDE DEF G, c, L, e, size, W
<1>6. GroupOutputs(Y, G, W, size, L)
  <2>1. ASSUME NEW r \in 0..(W - 1) PROVE G[r] \in Seq(Y) /\ Len(G[r]) = size * L
    <3> DEFINE n == size * L
    <3>1. n \in Nat /\ DOMAIN G[r] = 1..n
      BY <1>4, <1>5
    <3>2. \A i \in 1..n : G[r][i] \in Y
      OBVIOUS
    <3>3. G[r] = [i \in 1..n |-> G[r][i]]
      BY <1>5
    <3> HIDE DEF n, Y
    <3>4. G[r] \in Seq(Y) /\ Len(G[r]) = n
      BY <3>1, <3>2, <3>3
    <3> QED BY <3>4 DEF n
  <2> HIDE DEF Y
  <2> QED BY <1>1, <1>4, <2>1 DEF GroupOutputs
<1>7. d \in Seq(Y) /\ Len(d) = W * L
      /\ \A j \in 1..(W * L) : \E r \in 0..(W - 1) : \E i \in 1..(size * L) :
           d[j] = G[r][i] /\ j = Base(r, size) * L + i
  <2>1. AnswerRows(d, Y, G, config.world, size, L)
    <3> HIDE DEF Y, d
    <3>1. GroupOutputs(Y, G, config.world, size, L)
      BY <1>6 DEF W
    <3> QED BY <3>1, AnswerIs DEF d
  <2> HIDE DEF Y, d
  <2> QED BY <2>1 DEF AnswerRows, W
<1> HIDE DEF Y, d
<1>8. ASSUME NEW j \in 1..(W * L)
      PROVE  d[j] = [input_ids |-> <<all[((j - 1) \div e) + 1].input_ids[1], Number(j)>>]
  <2>1. PICK r \in 0..(W - 1), i \in 1..(size * L) : d[j] = G[r][i] /\ j = Base(r, size) * L + i
    BY <1>7
  <2> DEFINE b == Base(r, size)
             k == ((i - 1) \div e) + 1
  <2>2. b \in Nat
    <3>1. InGroup(W, size, r)
      BY <1>1, BaseIs
    <3> QED BY <3>1 DEF InGroup
  <2>3. SamePlace(b, m, e, i, j)
    <3>1. j = b * (m * e) + i /\ i \in Nat \ {0}
      BY <1>4, <2>1 DEF L
    <3> HIDE DEF b
    <3> QED BY <1>1, <2>2, <3>1, SamePlaceIs
  <2>4. k \in 1..(size * m)
    <3> DEFINE q == (i - 1) \div e
               t == (i - 1) % e
               z == size * m
    <3>1. i - 1 \in Nat /\ z \in Nat
      BY <1>1
    <3>2. q \in Nat /\ t \in 0..(e - 1) /\ i - 1 = e * q + t
      BY <1>1, <3>1, Division
    <3>3. i - 1 < z * e
      BY <1>4
    <3> HIDE DEF q, t, z
    <3>4. q < z
      <4>1. SUFFICES ASSUME z <= q PROVE FALSE
        BY <3>1, <3>2
      <4>2. z * e <= q * e /\ q * e = e * q /\ z * e \in Nat /\ q * e \in Nat
        BY <1>1, <3>1, <3>2, <4>1, ProductOrder
      <4> DEFINE x == z * e
                 y == q * e
      <4>3. x \in Nat /\ y \in Nat /\ x <= y /\ i - 1 = y + t /\ i - 1 < x
        BY <3>2, <3>3, <4>2
      <4> HIDE DEF x, y
      <4> QED BY <3>2, <4>3
    <3>5. q + 1 \in 1..z
      BY <3>1, <3>2, <3>4
    <3> QED BY <3>5 DEF q, z
  <2>5. Gathered(r, size)[k] = all[b * m + k]
    <3>1. GatheredRows(X, all, m, r, size)
      BY <1>3
    <3> HIDE DEF k, b
    <3> QED BY <2>4, <3>1 DEF GatheredRows, b
  <2>6. ((j - 1) \div e) + 1 = b * m + k /\ (j - 1) % e = (i - 1) % e
    BY <2>3 DEF SamePlace
  <2>7. Number(j) = Number(i)
    BY <2>6 DEF Number, e
  <2>8. G[r][i] = [input_ids |-> <<Gathered(r, size)[k].input_ids[1], Number(i)>>]
    BY <1>5
  <2> HIDE DEF b, k
  <2> QED BY <2>1, <2>5, <2>6, <2>7, <2>8
<1>9. d = [j \in 1..(W * L) |-> [input_ids |-> <<all[((j - 1) \div e) + 1].input_ids[1], Number(j)>>]]
  <2>1. DOMAIN d = 1..(W * L) /\ d = [j \in 1..(W * L) |-> d[j]]
    <3> DEFINE n == W * L
    <3>1. Len(d) = n
      BY <1>7
    <3> HIDE DEF n
    <3>2. DOMAIN d = 1..n /\ d \in [1..n -> Y]
      BY <1>7, <3>1, LenProperties
    <3> QED BY <3>2 DEF n
  <2> QED BY <1>8, <2>1
<1> QED BY <1>2, <1>4, <1>9 DEF Responded, c, W, e

-----------------------------------------------------------------------------
(* The micro-batches and the forward passes. *)

\* Every rank has rows for its m-th mini-batch, with tokens.
HasRows(X, m) ==
  \A q \in Ranks :
    /\ Minis(q)[m] \in Seq(X) /\ Minis(q)[m] # <<>>
    /\ \A i \in DOMAIN Minis(q)[m] : lens[Minis(q)[m][i].input_ids] \in 1..config.width

\* Pieces of 1..L that together are a way to take all of them.
InAll(p, k, L) ==
  /\ k \in Nat \ {0} /\ p = [i \in 1..k |-> p[i]] /\ Pieces(1..L, p, k)
  /\ Permutes(FlattenSeq(p), L) /\ FlattenSeq(p) \in Seq(1..L) /\ FlattenSeq(p) = Joined(p, k)

\* A permutation of which only its values are kept.
LEMMA IdentityPermutes ==
  ASSUME NEW L \in Nat
  PROVE  Permutes([i \in 1..L |-> i], L) /\ [i \in 1..L |-> i] \in Seq(1..L)
BY DEF Permutes

\* The number of micro-batches that is enough for some tokens.
LEMMA SomeMicros ==
  ASSUME Sized, config.dynamic, NEW X, NEW m, HasRows(X, m), NEW r \in Ranks
  PROVE  CanPartition(LensOf(Minis(r)[m]), NumMicros(r, m), FALSE)
<1> DEFINE W == config.world
           w == config.width
           T == MaxTokens
           f == [q \in 0..(W - 1) |-> CeilDiv(TokensOf(q, m), T)]
           S == {CeilDiv(TokensOf(q, m), T) : q \in Ranks}
<1>1. /\ W \in Nat \ {0} /\ w \in Nat \ {0} /\ T \in Nat \ {0} /\ Ranks = 0..(W - 1)
  <2>1. config.maxTokens \in Nat \ {0} /\ config.sp \in Nat \ {0}
    BY DEF Sized
  <2>2. config.maxTokens * config.sp \in Nat \ {0}
    BY <2>1
  <2> QED BY <2>2 DEF Sized, MaxTokens, Ranks
<1> HIDE DEF W, w, T
<1>2. ASSUME NEW q \in Ranks
      PROVE  /\ LensOf(Minis(q)[m]) \in Seq(1..w) /\ Len(LensOf(Minis(q)[m])) \in Nat \ {0}
             /\ f[q] \in Nat \ {0}
  <2> DEFINE rows == Minis(q)[m]
             s == LensOf(rows)
             l == Len(rows)
  <2>1. rows \in Seq(X) /\ rows # <<>> /\ \A i \in DOMAIN rows : lens[rows[i].input_ids] \in 1..w
    BY DEF HasRows, w
  <2>2. s = [i \in DOMAIN rows |-> lens[rows[i].input_ids]]
    BY DEF LensOf
  <2>3. TokensOf(q, m) = Total(s)
    BY DEF TokensOf
  <2>4. f[q] = CeilDiv(TokensOf(q, m), T)
    BY <1>1
  <2> HIDE DEF rows, s, f
  <2>5. l \in Nat \ {0} /\ DOMAIN rows = 1..l
    BY <2>1, EmptySeq, LenProperties
  <2> HIDE DEF l
  <2>6. s \in Seq(1..w) /\ Len(s) = l
    BY <2>1, <2>2, <2>5
  <2>7. SumWithin(s, 1, w)
    BY <1>1, <2>6, TotalIsWithin
  <2>8. Total(s) \in Nat /\ Total(s) > 0
    <3>1. l * 1 = l
      BY <2>5
    <3> DEFINE t == Total(s)
    <3> HIDE DEF t
    <3>2. t \in Nat /\ l <= t
      BY <2>6, <2>7, <3>1 DEF SumWithin, t
    <3>3. t \in Nat /\ t > 0
      BY <2>5, <3>2
    <3> QED BY <3>3 DEF t
  <2>9. CeilDiv(Total(s), T) \in Nat \ {0}
    <3> DEFINE t == Total(s)
    <3> HIDE DEF t
    <3>1. t \in Nat /\ t > 0
      BY <2>8 DEF t
    <3>2. Covers(t, T, CeilDiv(t, T))
      BY <1>1, <3>1, CeilDivIs
    <3>3. CeilDiv(t, T) \in Nat \ {0}
      BY <3>1, <3>2 DEF Covers
    <3> QED BY <3>3 DEF t
  <2> QED BY <2>3, <2>4, <2>5, <2>6, <2>9 DEF s, rows
<1>3. S = {f[q] : q \in 0..(W - 1)}
  BY <1>1
<1>4. NumMicros(r, m) = Max(S)
  BY DEF NumMicros, T
<1> HIDE DEF f, S
<1>5. Max(S) \in S
  <2>1. \A q \in 0..(W - 1) : f[q] \in Nat
    BY <1>1, <1>2
  <2> QED BY <1>1, <1>3, <2>1, MaxIsGreatest
<1>6. NumMicros(r, m) \in Nat \ {0}
  <2>1. PICK q \in 0..(W - 1) : Max(S) = f[q]
    BY <1>3, <1>5
  <2> QED BY <1>1, <1>2, <1>4, <2>1
<1>7. LensOf(Minis(r)[m]) \in Seq(Nat) /\ Len(LensOf(Minis(r)[m])) # 0
  <2>1. 1..w \subseteq Nat
    OBVIOUS
  <2> DEFINE s == LensOf(Minis(r)[m])
  <2>2. s \in Seq(1..w) /\ Len(s) \in Nat \ {0}
    BY <1>2
  <2> HIDE DEF s
  <2>3. s \in Seq(Nat)
    <3> DEFINE l == Len(s)
    <3>1. l \in Nat /\ s \in [1..l -> 1..w]
      BY <2>2, LenProperties
    <3> HIDE DEF l
    <3>2. s \in [1..l -> Nat]
      BY <2>1, <3>1
    <3> QED BY <3>1, <3>2
  <2> QED BY <2>2, <2>3 DEF s
<1> QED BY <1>6, <1>7 DEF CanPartition

\* The micro-batches hold each row of the mini-batch once.
LEMMA MicrosAre ==
  ASSUME Sized, NEW X, NEW m, HasRows(X, m), NEW r \in Ranks
  PROVE  \E k : InAll(Micros(r, m), k, Len(Minis(r)[m]))
<1> DEFINE rows == Minis(r)[m]
           L == Len(rows)
           p == Micros(r, m)
<1>1. rows \in Seq(X) /\ rows # <<>>
  BY DEF HasRows
<1>2. L \in Nat \ {0} /\ DOMAIN rows = 1..L
  <2> HIDE DEF rows
  <2> QED BY <1>1, EmptySeq, LenProperties
<1>3. CASE config.dynamic
  <2> DEFINE s == LensOf(rows)
             k == NumMicros(r, m)
  <2>1. CanPartition(s, k, FALSE)
    BY <1>3, SomeMicros
  <2>2. p = Partitions(s, k, FALSE)
    BY <1>3 DEF Micros
  <2>3. Len(s) = L
    <3> HIDE DEF rows, L
    <3>1. s = [i \in 1..L |-> lens[rows[i].input_ids]]
      BY <1>2 DEF LensOf
    <3> QED BY <1>2, <3>1
  <2> HIDE DEF s, k, p, L
  <2>4. k \in Nat \ {0}
    BY <2>1 DEF CanPartition
  <2>5. Deals(p, k, L, FALSE)
    BY <2>1, <2>2, <2>3, PartitionsDeal
  <2>6. Permutes(FlattenSeq(p), L) /\ FlattenSeq(p) \in Seq(1..L) /\ FlattenSeq(p) = Joined(p, k)
    BY <1>2, <2>4, <2>5, DealtPermute
  <2>7. InAll(p, k, L)
    BY <2>4, <2>5, <2>6 DEF InAll, Deals
  <2> QED BY <2>7 DEF p, L
<1>4. CASE ~ config.dynamic
  <2> DEFINE id == [i \in 1..L |-> i]
             size == config.micro
             k == CeilDiv(L, size)
  <2>1. p = Split(id, size)
    <3>1. p = Split([i \in DOMAIN rows |-> i], size)
      BY <1>4 DEF Micros
    <3> HIDE DEF rows, L, p
    <3> QED BY <1>2, <3>1
  <2> HIDE DEF rows, L, p
  <2>2. id \in Seq(1..L) /\ Permutes(id, L) /\ Len(id) = L
    BY <1>2, IdentityPermutes
  <2>3. size \in Nat \ {0}
    BY DEF Sized
  <2> HIDE DEF id, size
  <2>4. SplitPieces(1..L, id, size)
    BY <2>2, <2>3, SplitIs
  <2>5. k \in Nat \ {0}
    <3>1. Covers(L, size, k)
      BY <1>2, <2>3, CeilDivIs
    <3> HIDE DEF k
    <3> QED BY <1>2, <3>1 DEF Covers
  <2>6. p = [i \in 1..k |-> p[i]] /\ Pieces(1..L, p, k) /\ FlattenSeq(p) = id
    BY <2>1, <2>2, <2>4 DEF SplitPieces
  <2> HIDE DEF k
  <2>7. FlattenSeq(p) = Joined(p, k)
    BY <2>6 DEF Joined
  <2>8. InAll(p, k, L)
    BY <2>2, <2>5, <2>6, <2>7 DEF InAll
  <2> QED BY <2>8 DEF p, L, rows
<1> QED BY <1>3, <1>4

\* What is put back is where it was.
LEMMA BackIs ==
  ASSUME NEW L, NEW order, Permutes(order, L)
  PROVE  /\ ReverseIdx(order) = [i \in 1..L |-> ReverseIdx(order)[i]]
         /\ \A i \in 1..L : ReverseIdx(order)[i] \in 1..L /\ order[ReverseIdx(order)[i]] = i
<1>1. DOMAIN order = 1..L /\ \A i \in 1..L : \E j \in 1..L : order[j] = i
  BY DEF Permutes
<1>2. ReverseIdx(order) = [i \in 1..L |-> CHOOSE j \in 1..L : order[j] = i]
  BY <1>1 DEF ReverseIdx
<1>3. \A i \in 1..L : (CHOOSE j \in 1..L : order[j] = i) \in 1..L /\ order[CHOOSE j \in 1..L : order[j] = i] = i
  BY <1>1
<1> QED BY <1>2, <1>3

\* The stages of the forward passes.
Passes == {"old_log_prob", "ref", "rm", "values"}

\* An output of a forward pass over the response x.
OfOwn(o, x) ==
  /\ DOMAIN o = Gives(stage)
  /\ stage = "old_log_prob" => o.old_log_probs = x
  /\ stage = "ref" => o.ref_log_prob = x
  /\ stage = "rm" => o.rm_scores = x
  /\ stage = "values" => OwnValues(o.values, x)

\* An output for each of l rows, in their order.
Answered(c, all, l) ==
  /\ c = [j \in 1..l |-> c[j]]
  /\ \A j \in 1..l : OfOwn(c[j], all[j].input_ids)

\* What a rank computes before it keeps its own part.
Outputs(r) ==
  LET rows == Minis(r)[1]
      order == FlattenSeq(Micros(r, 1))
      output(i) ==
        CASE stage = "old_log_prob" -> [old_log_probs |-> rows[order[i]].input_ids]
          [] stage = "ref" -> [ref_log_prob |-> rows[order[i]].input_ids]
          [] stage = "rm" -> [rm_scores |-> rows[order[i]].input_ids]
          [] stage = "values" ->
               [values |-> [of |-> rows[order[i]].input_ids, mask |-> rows[i].input_ids]]
  IN  Reverted([i \in DOMAIN rows |-> output(i)], order)

\* It has an output for each row of its group, in the order of the rows.
LEMMA OutputsAre ==
  ASSUME Sized, stage \in Passes, NEW X, HasRows(X, 1), NEW r \in Ranks
  PROVE  Answered(Outputs(r), Minis(r)[1], Len(Minis(r)[1]))
<1> DEFINE rows == Minis(r)[1]
           order == FlattenSeq(Micros(r, 1))
           output(i) ==
             CASE stage = "old_log_prob" -> [old_log_probs |-> rows[order[i]].input_ids]
               [] stage = "ref" -> [ref_log_prob |-> rows[order[i]].input_ids]
               [] stage = "rm" -> [rm_scores |-> rows[order[i]].input_ids]
               [] stage = "values" ->
                    [values |-> [of |-> rows[order[i]].input_ids, mask |-> rows[i].input_ids]]
           L == Len(rows)
           out == [i \in DOMAIN rows |-> output(i)]
           c == Outputs(r)
<1>1. PICK k : InAll(Micros(r, 1), k, L)
  BY MicrosAre
<1>2. Permutes(order, L)
  BY <1>1 DEF InAll
<1>3. L \in Nat /\ DOMAIN rows = 1..L
  <2>1. rows \in Seq(X)
    BY DEF HasRows
  <2> HIDE DEF rows
  <2> QED BY <2>1, LenProperties
<1>4. c = Reverted(out, order)
  BY DEF Outputs
<1>9. ~ config.dynamic => order = [i \in 1..L |-> i]
  <2> SUFFICES ASSUME ~ config.dynamic PROVE order = [i \in 1..L |-> i]
    OBVIOUS
  <2> DEFINE s == Minis(r)[1]
             id == [i \in 1..Len(s) |-> i]
             size == config.micro
  <2>1. order = FlattenSeq(Split([i \in DOMAIN s |-> i], size))
    BY DEF Micros
  <2>2. [i \in DOMAIN s |-> i] = id /\ Len(s) \in Nat
    <3>1. DOMAIN s = 1..Len(s) /\ Len(s) \in Nat
      BY <1>3
    <3> HIDE DEF s
    <3> QED BY <3>1
  <2> HIDE DEF s
  <2>3. id \in Seq(1..Len(s)) /\ size \in Nat \ {0}
    BY <2>2, IdentityPermutes DEF Sized
  <2> HIDE DEF id, size
  <2>4. FlattenSeq(Split(id, size)) = id
    BY <2>3, SplitIs DEF SplitPieces
  <2> QED BY <2>1, <2>2, <2>4 DEF id, s
<1>5. ASSUME NEW i \in 1..L PROVE OfOwn(output(i), rows[order[i]].input_ids)
  <2> DEFINE x == rows[order[i]].input_ids
             y == rows[i].input_ids
             o == output(i)
  <2>1. o = CASE stage = "old_log_prob" -> [old_log_probs |-> x]
              [] stage = "ref" -> [ref_log_prob |-> x]
              [] stage = "rm" -> [rm_scores |-> x]
              [] stage = "values" -> [values |-> [of |-> x, mask |-> y]]
    OBVIOUS
  <2>6. config.dynamic \/ y = x
    BY <1>9
  <2> HIDE DEF x, y, o
  <2>2. CASE stage = "old_log_prob"
    <3>1. o = [old_log_probs |-> x]
      BY <2>1, <2>2
    <3> QED BY <2>2, <3>1 DEF OfOwn, Gives, x, o
  <2>3. CASE stage = "ref"
    <3>1. o = [ref_log_prob |-> x]
      BY <2>1, <2>3
    <3> QED BY <2>3, <3>1 DEF OfOwn, Gives, x, o
  <2>4. CASE stage = "rm"
    <3>1. o = [rm_scores |-> x]
      BY <2>1, <2>4
    <3> QED BY <2>4, <3>1 DEF OfOwn, Gives, x, o
  <2>5. CASE stage = "values"
    <3>1. o = [values |-> [of |-> x, mask |-> y]]
      BY <2>1, <2>5
    <3> QED BY <2>5, <2>6, <3>1 DEF OfOwn, OwnValues, Gives, x, o
  <2> QED BY <2>2, <2>3, <2>4, <2>5 DEF Passes
<1>6. out = [i \in 1..L |-> out[i]] /\ \A i \in 1..L : OfOwn(out[i], rows[order[i]].input_ids)
  <2> HIDE DEF rows, order, output, L
  <2> QED BY <1>3, <1>5
<1> HIDE DEF rows, order, output, L, out, c
<1>7. CASE config.dynamic
  <2> DEFINE back == ReverseIdx(order)
  <2>1. c = [i \in 1..L |-> out[back[i]]]
    <3>1. DOMAIN out = 1..L
      BY <1>6
    <3> QED BY <1>4, <1>7, <3>1 DEF Reverted
  <2>2. \A i \in 1..L : back[i] \in 1..L /\ order[back[i]] = i
    BY <1>2, BackIs
  <2> HIDE DEF back
  <2>3. \A i \in 1..L : OfOwn(out[back[i]], rows[i].input_ids)
    BY <1>6, <2>2
  <2>4. \A i \in 1..L : OfOwn(c[i], rows[i].input_ids)
    BY <2>1, <2>3
  <2>5. c = [i \in 1..L |-> c[i]]
    BY <2>1
  <2> QED BY <2>4, <2>5 DEF Answered, c, rows, L
<1>8. CASE ~ config.dynamic
  <2>1. c = out
    BY <1>4, <1>8 DEF Reverted
  <2>3. \A i \in 1..L : OfOwn(c[i], rows[i].input_ids)
    BY <1>6, <1>8, <1>9, <2>1
  <2> QED BY <1>6, <2>1, <2>3 DEF Answered, c, rows, L
<1> QED BY <1>7, <1>8

\* Rows whose responses have tokens.
HaveTokens(all) == \A j \in DOMAIN all : lens[all[j].input_ids] \in 1..config.width

\* The answers of a forward pass are those of the rows in their order.
LEMMA ComputedIs ==
  ASSUME Sized, stage \in Passes, NEW X, NEW all, NEW m, IsChunked(X, all, config.world, m), m # 0,
         HaveTokens(all)
  PROVE  Answered(Answer([r \in Ranks |-> Computed(r)]), all, config.world * m)
<1> DEFINE W == config.world
           size == config.sp
           L == m
           G == [r \in 0..(W - 1) |-> Outputs(r)]
           Y == {G[r][i] : r \in 0..(W - 1), i \in 1..(size * L)}
           c == Answer([r \in Ranks |-> Computed(r)])
           d == Answer([r \in Ranks |-> OwnPart(G[r], r, size)])
<1>1. /\ W \in Nat \ {0} /\ size \in Nat \ {0} /\ W % size = 0 /\ L \in Nat \ {0}
      /\ all \in Seq(X) /\ Len(all) = W * L
  BY DEF Sized, IsChunked
<1>2. c = d
  <2>1. ASSUME NEW r \in Ranks PROVE Computed(r) = OwnPart(G[r], r, size)
    <3>1. G[r] = Outputs(r)
      BY DEF Ranks
    <3>2. Computed(r) = OwnPart(Outputs(r), r, size)
      BY DEF Computed, Outputs
    <3> HIDE DEF G
    <3> QED BY <3>1, <3>2
  <2> HIDE DEF G
  <2>2. [r \in Ranks |-> Computed(r)] = [r \in Ranks |-> OwnPart(G[r], r, size)]
    BY <2>1
  <2> QED BY <2>2
<1>3. ASSUME NEW r \in 0..(W - 1) PROVE GatheredRows(X, all, m, r, size)
  BY <1>1, GatheredIs
<1>4. ASSUME NEW r \in 0..(W - 1)
      PROVE  Minis(r)[1] = Gathered(r, size)
  <2>1. stage \notin Updates
    BY DEF Passes, Updates
  <2>2. Minis(r) = <<Gathered(r, size)>>
    BY <2>1 DEF Minis
  <2> QED BY <2>2
<1> HIDE DEF W, size, G, c
<1>5. HasRows(X, 1)
  <2>1. ASSUME NEW q \in Ranks
        PROVE  /\ Minis(q)[1] \in Seq(X) /\ Minis(q)[1] # <<>>
               /\ \A i \in DOMAIN Minis(q)[1] : lens[Minis(q)[1][i].input_ids] \in 1..config.width
    <3> DEFINE g == Gathered(q, size)
               n == size * m
               lo == Base(q, size) * m
    <3>1. q \in 0..(W - 1)
      BY DEF Ranks, W
    <3>2. Minis(q)[1] = g
      BY <1>4, <3>1
    <3>3. /\ g \in Seq(X) /\ Len(g) = n
          /\ \A i \in 1..n : lo + i \in 1..Len(all) /\ g[i] = all[lo + i]
      <4>1. GatheredRows(X, all, m, q, size)
        BY <1>3, <3>1
      <4> QED BY <4>1 DEF GatheredRows
    <3>4. n \in Nat \ {0}
      BY <1>1
    <3> HIDE DEF g, n, lo
    <3>5. g # <<>>
      BY <3>3, <3>4
    <3>6. DOMAIN g = 1..n /\ DOMAIN all = 1..Len(all)
      BY <1>1, <3>3, LenProperties
    <3>7. \A i \in DOMAIN g : lens[g[i].input_ids] \in 1..config.width
      BY <3>3, <3>6 DEF HaveTokens
    <3> QED BY <3>2, <3>3, <3>5, <3>7
  <2> QED BY <2>1 DEF HasRows
<1>6. ASSUME NEW r \in 0..(W - 1)
      PROVE  /\ G[r] = [i \in 1..(size * L) |-> G[r][i]]
             /\ \A i \in 1..(size * L) : OfOwn(G[r][i], Gathered(r, size)[i].input_ids)
  <2>1. r \in Ranks
    BY DEF Ranks, W
  <2>2. Answered(Outputs(r), Minis(r)[1], Len(Minis(r)[1]))
    BY <1>5, <2>1, OutputsAre
  <2>3. Answered(G[r], Gathered(r, size), Len(Gathered(r, size)))
    BY <1>4, <2>2 DEF G
  <2>4. Len(Gathered(r, size)) = size * L
    BY <1>3 DEF GatheredRows
  <2>5. Answered(G[r], Gathered(r, size), size * L)
    BY <2>3, <2>4
  <2> QED BY <2>5 DEF Answered
<1>7. GroupOutputs(Y, G, W, size, L)
  <2>1. ASSUME NEW r \in 0..(W - 1) PROVE G[r] \in Seq(Y) /\ Len(G[r]) = size * L
    <3> DEFINE n == size * L
    <3>1. n \in Nat
      BY <1>1
    <3>2. \A i \in 1..n : G[r][i] \in Y
      OBVIOUS
    <3>3. G[r] = [i \in 1..n |-> G[r][i]]
      BY <1>6
    <3> HIDE DEF n, Y
    <3>4. G[r] \in Seq(Y) /\ Len(G[r]) = n
      BY <3>1, <3>2, <3>3
    <3> QED BY <3>4 DEF n
  <2> HIDE DEF Y
  <2> QED BY <1>1, <2>1 DEF GroupOutputs
<1>8. d \in Seq(Y) /\ Len(d) = W * L
      /\ \A j \in 1..(W * L) : \E r \in 0..(W - 1) : \E i \in 1..(size * L) :
           d[j] = G[r][i] /\ j = Base(r, size) * L + i
  <2>1. AnswerRows(d, Y, G, config.world, size, L)
    <3> HIDE DEF Y, d
    <3>1. GroupOutputs(Y, G, config.world, size, L)
      BY <1>7 DEF W
    <3> QED BY <3>1, AnswerIs DEF d
  <2> HIDE DEF Y, d
  <2> QED BY <2>1 DEF AnswerRows, W
<1> HIDE DEF Y, d
<1>9. ASSUME NEW j \in 1..(W * L) PROVE OfOwn(d[j], all[j].input_ids)
  <2>1. PICK r \in 0..(W - 1), i \in 1..(size * L) : d[j] = G[r][i] /\ j = Base(r, size) * L + i
    BY <1>8
  <2>2. GatheredRows(X, all, m, r, size)
    BY <1>3
  <2>3. Gathered(r, size)[i] = all[Base(r, size) * m + i]
    BY <2>1, <2>2 DEF GatheredRows
  <2>4. Gathered(r, size)[i] = all[j]
    BY <2>1, <2>3
  <2>5. OfOwn(G[r][i], Gathered(r, size)[i].input_ids)
    BY <1>6
  <2> QED BY <2>1, <2>4, <2>5
<1>10. d = [j \in 1..(W * L) |-> d[j]]
  <2> DEFINE n == W * L
  <2>1. Len(d) = n
    BY <1>8
  <2> HIDE DEF n
  <2>2. DOMAIN d = 1..n /\ d \in [1..n -> Y]
    BY <1>8, <2>1, LenProperties
  <2> QED BY <2>2 DEF n
<1>11. Answered(d, all, W * L)
  BY <1>9, <1>10 DEF Answered
<1> QED BY <1>2, <1>11 DEF c, W

-----------------------------------------------------------------------------
(* The inductive invariant. *)

\* What the driver starts with, and the responses it gets first.
Size == config.prompts * config.n
Prompts == [j \in 1..config.prompts |-> [input_ids |-> <<j, 0>>]]
AllResponses ==
  [j \in 1..Size |-> [input_ids |-> <<((j - 1) \div config.n) + 1, ((j - 1) % config.n) + 1>>]]

\* A row for each prompt, before they are repeated.
Fresh(rows, i) ==
  /\ rows = [j \in 1..config.prompts |-> rows[j]]
  /\ \A j \in 1..config.prompts :
       /\ DOMAIN rows[j] = Cols(i) /\ rows[j].data = j
       /\ "reward_baselines" \in Cols(i) => rows[j].reward_baselines = <<j, Greedy(j)>>

\* The advantage of a row is that of its group.
Grouped(row) ==
  /\ config.adv = "grpo" => row.advantages = {row.input_ids[1]} \X (1..config.n)
  /\ config.adv = "remax" => row.advantages = {row.input_ids, Greedy(row.input_ids[1])}

\* A row for each response, with the columns of the stages before and nothing of another one.
Aligned(rows, i) ==
  /\ rows = [j \in 1..Size |-> rows[j]]
  /\ \A j \in 1..Size :
       /\ DOMAIN rows[j] = Cols(i) /\ rows[j].input_ids \in Responses
       /\ Owned(rows[j], rows[j].input_ids)
       /\ 8 < i => Grouped(rows[j])
  /\ \A a, b \in 1..Size : rows[a].input_ids = rows[b].input_ids => a = b
  /\ \A x \in Responses : \E j \in 1..Size : rows[j].input_ids = x

\* What was generated.
Gens(g, i) ==
  /\ g = [batch |-> Prompts, output |-> g.output]
  /\ i > 1 => g.output = AllResponses

\* What the driver holds at the i-th stage.
Holding(rows, g, i) ==
  /\ i \in 1..12 /\ Due(Order[i]) /\ Gens(g, i)
  /\ i <= 3 => Fresh(rows, i)
  /\ 3 < i => Aligned(rows, i)

\* The ranks have the chunks of what the driver sends.
Calling ==
  chunks # <<>> =>
    stage \in Remote /\ CanChunk(Sent, config.world) /\ chunks = Chunk(Sent, config.world)

\* What the sizes of an iteration that fails are like.
BadSizes ==
  \/ config.prompts % config.world # 0
  \/ config.mini < config.world \div config.sp
  \/ config.useKlLoss /\ ~ config.useRef
  \/ config.dynamic /\ MaxTokens < config.width

\* The responses have their lengths.
HasLengths == config \in Configs /\ lens \in [Responses -> config.lengths]

IInv ==
  /\ HasLengths /\ Calling
  /\ \E i : stage \in {Order[i], "failed"} /\ Holding(batch, gen, i)
  /\ stage = "failed" => BadSizes

\* The response of a place, and its place.
Placed(P, n, j) ==
  ((j - 1) \div n) + 1 \in 1..P /\ ((j - 1) % n) + 1 \in 1..n /\ j = n * ((j - 1) \div n) + ((j - 1) % n) + 1

\* The j-th of n responses to each of P prompts.
LEMMA PlaceIs ==
  ASSUME NEW P \in Nat, NEW n \in Nat \ {0}, NEW j \in 1..(P * n)
  PROVE  Placed(P, n, j)
<1> DEFINE a == j - 1
           q == a \div n
           t == a % n
<1>1. a \in Nat /\ a < P * n /\ j = a + 1
  <2>1. P * n \in Nat
    OBVIOUS
  <2> DEFINE z == P * n
  <2>2. z \in Nat /\ j \in 1..z
    BY <2>1
  <2> HIDE DEF z
  <2>3. a \in Nat /\ a < z /\ j = a + 1
    BY <2>2
  <2> QED BY <2>3 DEF z
<1> HIDE DEF a
<1>2. q \in Nat /\ t \in 0..(n - 1) /\ a = n * q + t
  BY <1>1, Division
<1> HIDE DEF q, t
<1>3. q < P
  <2>1. SUFFICES ASSUME P <= q PROVE FALSE
    BY <1>2
  <2>2. P * n <= q * n /\ q * n = n * q /\ P * n \in Nat /\ q * n \in Nat
    BY <1>2, <2>1, ProductOrder
  <2> DEFINE x == P * n
             y == q * n
  <2>3. x \in Nat /\ y \in Nat /\ x <= y /\ a = y + t /\ a < x
    BY <1>1, <1>2, <2>2
  <2> HIDE DEF x, y
  <2> QED BY <1>2, <2>3
<1>4. q + 1 \in 1..P /\ t + 1 \in 1..n
  BY <1>2, <1>3
<1>5. j = n * q + t + 1
  BY <1>1, <1>2
<1> QED BY <1>4, <1>5 DEF Placed, q, t, a

\* The k-th response to the p-th prompt has a place.
IsPlaced(P, n, p, k) == \E j \in 1..(P * n) : ((j - 1) \div n) + 1 = p /\ ((j - 1) % n) + 1 = k

\* Each response has its place.
LEMMA HasPlace ==
  ASSUME NEW P \in Nat, NEW n \in Nat \ {0}, NEW p \in 1..P, NEW k \in 1..n
  PROVE  IsPlaced(P, n, p, k)
<1> DEFINE q == p - 1
           t == k - 1
           a == n * q + t
           j == a + 1
<1>1. q \in Nat /\ q < P /\ t \in 0..(n - 1) /\ p = q + 1 /\ k = t + 1
  OBVIOUS
<1> HIDE DEF q, t
<1>2. a \in Nat /\ a \div n = q /\ a % n = t
  BY <1>1, DivisionIsUnique
<1>3. n * q + n <= n * P /\ n * P = P * n
  BY <1>1, ProductGrows
<1> HIDE DEF a
<1>4. a + 1 <= P * n
  <2> DEFINE x == n * q
             y == P * n
  <2>1. x \in Nat /\ y \in Nat /\ x + n <= y /\ a = x + t
    BY <1>1, <1>3 DEF a
  <2> HIDE DEF x, y
  <2>2. a + 1 <= y
    BY <1>1, <2>1
  <2> QED BY <2>2 DEF y
<1>5. j \in 1..(P * n) /\ j - 1 = a
  <2>1. P * n \in Nat
    OBVIOUS
  <2> DEFINE y == P * n
  <2>2. y \in Nat /\ a + 1 <= y
    BY <1>4, <2>1
  <2> HIDE DEF y
  <2>3. j \in 1..y /\ j - 1 = a
    BY <1>2, <2>2
  <2> QED BY <2>3 DEF y
<1> QED BY <1>1, <1>2, <1>5 DEF IsPlaced

\* The responses that were generated first are all, each once.
ResponsesComplete ==
  /\ Size \in Nat \ {0} /\ config.prompts \in Nat \ {0} /\ config.n \in Nat \ {0}
  /\ \A j \in 1..Size :
       /\ AllResponses[j].input_ids \in Responses /\ DOMAIN AllResponses[j] = {"input_ids"}
       /\ AllResponses[j].input_ids[1] = ((j - 1) \div config.n) + 1
       /\ ((j - 1) \div config.n) + 1 \in 1..config.prompts
  /\ \A a, b \in 1..Size : AllResponses[a].input_ids = AllResponses[b].input_ids => a = b
  /\ \A x \in Responses : \E j \in 1..Size : AllResponses[j].input_ids = x

\* That follows from the sizes.
LEMMA AllResponsesAre ==
  ASSUME Sized
  PROVE  ResponsesComplete
<1> DEFINE P == config.prompts
           n == config.n
           all == AllResponses
<1>1. P \in Nat \ {0} /\ n \in Nat \ {0} /\ Size = P * n /\ Responses = (1..P) \X (1..n)
  BY DEF Sized, Size, Responses
<1>2. Size \in Nat \ {0}
  BY <1>1
<1>3. all = [j \in 1..Size |-> [input_ids |-> <<((j - 1) \div n) + 1, ((j - 1) % n) + 1>>]]
  BY DEF AllResponses
<1> HIDE DEF P, n, all
<1>4. ASSUME NEW j \in 1..Size PROVE Placed(P, n, j)
  BY <1>1, <1>4, PlaceIs
<1>5. ASSUME NEW j \in 1..Size
      PROVE  /\ all[j].input_ids \in Responses /\ DOMAIN all[j] = {"input_ids"}
             /\ all[j].input_ids[1] = ((j - 1) \div n) + 1 /\ ((j - 1) \div n) + 1 \in 1..P
             /\ all[j].input_ids[2] = ((j - 1) % n) + 1
  <2> DEFINE p == ((j - 1) \div n) + 1
             k == ((j - 1) % n) + 1
  <2>1. p \in 1..P /\ k \in 1..n
    BY <1>4 DEF Placed
  <2>2. all[j] = [input_ids |-> <<p, k>>]
    BY <1>3
  <2> HIDE DEF p, k
  <2>3. /\ all[j].input_ids \in Responses /\ DOMAIN all[j] = {"input_ids"}
        /\ all[j].input_ids[1] = p /\ p \in 1..P /\ all[j].input_ids[2] = k
    BY <1>1, <2>1, <2>2
  <2> QED BY <2>3 DEF p, k
<1>6. ASSUME NEW a \in 1..Size, NEW b \in 1..Size, all[a].input_ids = all[b].input_ids
      PROVE  a = b
  <2> DEFINE q(j) == (j - 1) \div n
             t(j) == (j - 1) % n
  <2>1. q(a) + 1 = q(b) + 1 /\ t(a) + 1 = t(b) + 1
    BY <1>5, <1>6
  <2>2. /\ q(a) + 1 \in 1..P /\ t(a) + 1 \in 1..n /\ a = n * q(a) + t(a) + 1
        /\ q(b) + 1 \in 1..P /\ t(b) + 1 \in 1..n /\ b = n * q(b) + t(b) + 1
    BY <1>4 DEF Placed
  <2>3. a - 1 \in Nat /\ b - 1 \in Nat
    BY <1>2
  <2>4. q(a) \in Nat /\ t(a) \in Nat /\ q(b) \in Nat /\ t(b) \in Nat
    <3>1. ASSUME NEW c \in Nat PROVE c \div n \in Nat /\ c % n \in Nat
      BY <1>1, <3>1, Division
    <3> QED BY <2>3, <3>1
  <2> HIDE DEF q, t
  <2>5. q(a) = q(b) /\ t(a) = t(b)
    BY <2>1, <2>4
  <2> QED BY <2>2, <2>5
<1>7. ASSUME NEW x \in Responses PROVE \E j \in 1..Size : all[j].input_ids = x
  <2>1. PICK p \in 1..P, k \in 1..n : x = <<p, k>>
    BY <1>1
  <2>2. PICK j \in 1..(P * n) : ((j - 1) \div n) + 1 = p /\ ((j - 1) % n) + 1 = k
    <3>1. IsPlaced(P, n, p, k)
      BY <1>1, HasPlace
    <3> QED BY <3>1 DEF IsPlaced
  <2>3. j \in 1..Size
    BY <1>1
  <2>4. all[j].input_ids = <<p, k>>
    BY <1>3, <2>2, <2>3
  <2> QED BY <2>1, <2>3, <2>4
<1> QED BY <1>1, <1>2, <1>5, <1>6, <1>7 DEF ResponsesComplete, P, n, all

\* What the driver holds does not change with the rest of the state.
LEMMA HoldingStays ==
  ASSUME config' = config, NEW rows, NEW g, NEW i, Holding(rows, g, i), batch' = rows, gen' = g
  PROVE  Holding(batch, gen, i)'
<1>1. Cols(i)' = Cols(i) /\ Due(Order[i])' = Due(Order[i])
  BY DEF Cols, Due, Order, UseCritic
<1>2. Size' = Size /\ Prompts' = Prompts /\ AllResponses' = AllResponses /\ Responses' = Responses
  BY DEF Size, Prompts, AllResponses, Responses
<1>3. Gens(gen, i)'
  <2>1. Gens(g, i)
    BY DEF Holding
  <2> QED BY <1>2, <2>1 DEF Gens
<1>4. i <= 3 => Fresh(batch, i)'
  <2> SUFFICES ASSUME i <= 3 PROVE Fresh(batch, i)'
    OBVIOUS
  <2>1. Fresh(rows, i)
    BY DEF Holding
  <2> QED BY <1>1, <2>1 DEF Fresh, Greedy
<1>5. 3 < i => Aligned(batch, i)'
  <2> SUFFICES ASSUME 3 < i PROVE Aligned(batch, i)'
    OBVIOUS
  <2>1. Aligned(rows, i)
    BY DEF Holding
  <2>2. ASSUME NEW j \in 1..Size PROVE Owned(batch[j], batch[j].input_ids)' <=> Owned(rows[j], rows[j].input_ids)
    BY DEF Owned, OwnValues, Greedy
  <2>3. ASSUME NEW j \in 1..Size PROVE Grouped(batch[j])' <=> Grouped(rows[j])
    BY DEF Grouped, Greedy
  <2> QED BY <1>1, <1>2, <2>1, <2>2, <2>3 DEF Aligned
<1> QED BY <1>1, <1>3, <1>4, <1>5 DEF Holding

\* The invariant has every row aligned and every group whole.
LEMMA InvariantHolds ==
  ASSUME IInv
  PROVE  RowsAligned /\ GroupsAreWhole
<1>1. PICK i : Holding(batch, gen, i)
  BY DEF IInv
<1>2. Sized
  BY ConfigIsSized DEF IInv, HasLengths
<1>3. i \in 1..12 /\ Size \in Nat \ {0} /\ config.prompts \in Nat \ {0}
  <2>1. Size \in Nat \ {0} /\ config.prompts \in Nat \ {0}
    BY <1>2, AllResponsesAre DEF ResponsesComplete
  <2> QED BY <1>1, <2>1 DEF Holding
<1>4. /\ "input_ids" \in Cols(i) <=> 3 < i
      /\ "advantages" \in Cols(i) <=> 8 < i
  BY <1>3, ColumnsAre
<1>5. CASE i <= 3
  <2>1. Fresh(batch, i)
    BY <1>1, <1>5 DEF Holding
  <2> DEFINE P == config.prompts
  <2>2. P \in Nat \ {0} /\ batch = [j \in 1..P |-> batch[j]] /\ \A j \in 1..P : DOMAIN batch[j] = Cols(i)
    BY <1>3, <2>1 DEF Fresh
  <2> HIDE DEF P
  <2>3. DOMAIN batch = 1..P /\ 1 \in 1..P
    BY <2>2
  <2>4. batch # <<>>
    <3>1. 1 \in DOMAIN batch
      BY <2>3
    <3>2. 1 \notin DOMAIN <<>>
      OBVIOUS
    <3> QED BY <3>1, <3>2
  <2>5. Columns(batch) = Cols(i)
    BY <2>2, <2>3, <2>4 DEF Columns
  <2>6. ~ (3 < i) /\ ~ (8 < i)
    BY <1>3, <1>5
  <2>7. RowsAligned
    BY <1>4, <2>5, <2>6 DEF RowsAligned
  <2>8. ASSUME NEW row \in ToSet(batch) PROVE "advantages" \notin DOMAIN row
    <3>1. PICK j \in DOMAIN batch : row = batch[j]
      BY DEF ToSet
    <3> QED BY <1>4, <2>2, <2>3, <2>6, <3>1
  <2> QED BY <2>7, <2>8 DEF GroupsAreWhole
<1>6. CASE 3 < i
  <2>1. Aligned(batch, i)
    BY <1>1, <1>6 DEF Holding
  <2>2. /\ batch = [j \in 1..Size |-> batch[j]]
        /\ \A j \in 1..Size :
             /\ DOMAIN batch[j] = Cols(i) /\ batch[j].input_ids \in Responses
             /\ Owned(batch[j], batch[j].input_ids)
             /\ 8 < i => Grouped(batch[j])
        /\ \A a, b \in 1..Size : batch[a].input_ids = batch[b].input_ids => a = b
        /\ \A x \in Responses : \E j \in 1..Size : batch[j].input_ids = x
    BY <2>1 DEF Aligned
  <2>3. DOMAIN batch = 1..Size /\ ToSet(batch) = {batch[j] : j \in 1..Size}
    <3>1. DOMAIN batch = 1..Size
      BY <2>2
    <3> QED BY <3>1 DEF ToSet
  <2>4. Len(batch) = Size
    <3> DEFINE n == Size
    <3> HIDE DEF n
    <3>1. n \in Nat /\ batch = [j \in 1..n |-> batch[j]]
      BY <1>3, <2>2 DEF n
    <3>2. Len(batch) = n
      BY <3>1
    <3> QED BY <3>2 DEF n
  <2>5. {row.input_ids : row \in ToSet(batch)} = Responses
    BY <2>2, <2>3
  <2>6. Len(batch) = Cardinality(Responses)
    <3> DEFINE f == [j \in 1..Size |-> batch[j].input_ids]
    <3>1. f \in [1..Size -> Responses]
      BY <2>2
    <3>2. /\ \A a, b \in 1..Size : f[a] = f[b] => a = b
          /\ \A x \in Responses : \E j \in 1..Size : f[j] = x
      BY <2>2
    <3> HIDE DEF f
    <3>3. f \in Injection(1..Size, Responses) /\ f \in Surjection(1..Size, Responses)
      BY <3>1, <3>2, Fun_IsInj, Fun_IsSurj
    <3>4. IsFiniteSet(1..Size) /\ Cardinality(1..Size) = Size
      BY <1>3, FS_Interval
    <3>5. Cardinality(Responses) = Cardinality(1..Size)
      <4>1. IsFiniteSet(Responses) /\ Cardinality(Responses) <= Cardinality(1..Size)
        BY <3>3, <3>4, FS_Surjection
      <4>2. Cardinality(Responses) = Cardinality(1..Size)
        BY <3>3, <3>4, FS_Surjection
      <4> QED BY <4>2
    <3> QED BY <2>4, <3>4, <3>5
  <2>7. \A j \in DOMAIN batch : Owned(batch[j], batch[j].input_ids)
    BY <2>2, <2>3
  <2>8. RowsAligned
    BY <2>5, <2>6, <2>7 DEF RowsAligned
  <2>9. ASSUME NEW row \in ToSet(batch), "advantages" \in DOMAIN row PROVE Grouped(row)
    <3>1. PICK j \in 1..Size : row = batch[j]
      BY <2>3
    <3>2. 8 < i
      BY <1>4, <2>2, <2>9, <3>1
    <3> QED BY <2>2, <3>1, <3>2
  <2>10. GroupsAreWhole
    BY <2>9 DEF GroupsAreWhole, Grouped
  <2> QED BY <2>8, <2>10
<1> QED BY <1>3, <1>5, <1>6

\* It holds at first.
LEMMA InitHolds ==
  ASSUME Init
  PROVE  IInv
<1>1. /\ config \in Configs /\ lens \in [Responses -> config.lengths] /\ stage = "generate"
      /\ batch = [i \in 1..config.prompts |-> [data |-> i]]
      /\ gen = [batch |-> [i \in 1..config.prompts |-> [input_ids |-> <<i, 0>>]], output |-> <<>>]
      /\ chunks = <<>>
  BY DEF Init
<1>2. Cols(1) = {"data"} /\ "reward_baselines" \notin Cols(1)
  <2>1. 1..(1 - 1) = {}
    OBVIOUS
  <2>2. {k \in 1..(1 - 1) : Due(Order[k])} = {}
    BY <2>1
  <2>3. Cols(1) = {"data"}
    BY <2>2 DEF Cols
  <2> QED BY <2>3
<1>3. Fresh(batch, 1)
  <2>1. batch = [j \in 1..config.prompts |-> batch[j]]
    BY <1>1
  <2>2. \A j \in 1..config.prompts : DOMAIN batch[j] = {"data"} /\ batch[j].data = j
    BY <1>1
  <2> QED BY <1>2, <2>1, <2>2 DEF Fresh
<1>4. Gens(gen, 1)
  BY <1>1 DEF Gens, Prompts
<1>5. Due(Order[1]) /\ stage = Order[1]
  BY <1>1, OrderIs DEF Due
<1>6. Holding(batch, gen, 1)
  BY <1>3, <1>4, <1>5 DEF Holding
<1>7. HasLengths
  BY <1>1 DEF HasLengths
<1>8. Calling
  BY <1>1 DEF Calling
<1>9. \E i : stage \in {Order[i], "failed"} /\ Holding(batch, gen, i)
  BY <1>5, <1>6
<1>10. stage # "failed"
  BY <1>1
<1> QED BY <1>7, <1>8, <1>9, <1>10 DEF IInv

-----------------------------------------------------------------------------
(* The steps that generate. *)

\* A step to what the driver holds then.
LEMMA StepKeeps ==
  ASSUME IInv, config' = config, lens' = lens, chunks' = <<>>,
         NEW rows, NEW g, NEW i, Holding(rows, g, i), batch' = rows, gen' = g,
         stage' = Order[i] \/ (stage' = "failed" /\ BadSizes)
  PROVE  IInv'
<1>1. Holding(batch, gen, i)'
  BY HoldingStays
<1>2. HasLengths'
  BY DEF IInv, HasLengths, Responses
<1>3. Calling'
  BY DEF Calling
<1>4. BadSizes => BadSizes'
  BY DEF BadSizes, MaxTokens
<1>5. i \in 1..12
  BY DEF Holding
<1>6. Order[i] # "failed"
  <2>1. i = 1 \/ i = 2 \/ i = 3 \/ i = 4 \/ i = 5 \/ i = 6 \/ i = 7 \/ i = 8 \/ i = 9 \/ i = 10
        \/ i = 11 \/ i = 12
    BY <1>5
  <2> QED BY <2>1, OrderIs
<1>7. (\E k : stage \in {Order[k], "failed"} /\ Holding(batch, gen, k))'
  <2>1. Order[i]' = Order[i]
    BY DEF Order
  <2>2. stage' \in {Order[i]', "failed"}
    BY <2>1
  <2> QED BY <1>1, <2>2
<1>8. (stage = "failed" => BadSizes)'
  BY <1>4, <1>6
<1> QED BY <1>2, <1>3, <1>7, <1>8 DEF IInv

\* The stage is known by its name.
LEMMA StageIs ==
  ASSUME IInv, NEW k \in 1..12, stage = Order[k]
  PROVE  Holding(batch, gen, k) /\ Sized
<1>1. PICK i : stage \in {Order[i], "failed"} /\ Holding(batch, gen, i)
  BY DEF IInv
<1>2. i \in 1..12
  BY <1>1 DEF Holding
<1>3. stage # "failed"
  <2>1. k = 1 \/ k = 2 \/ k = 3 \/ k = 4 \/ k = 5 \/ k = 6 \/ k = 7 \/ k = 8 \/ k = 9 \/ k = 10
        \/ k = 11 \/ k = 12
    OBVIOUS
  <2> QED BY <2>1, OrderIs
<1>4. i = k
  BY <1>1, <1>2, <1>3, OrderIsOnce
<1> QED BY <1>1, <1>4, ConfigIsSized DEF IInv, HasLengths

\* The answers to the prompts.
LEMMA PromptsAnswered ==
  ASSUME Sized, Calling, chunks # <<>>, gen.batch = Prompts, stage \in {"generate", "baseline"}
  PROVE  Responded(Answer([r \in Ranks |-> Generated(r)]), Prompts, config.prompts)
<1> DEFINE P == config.prompts
           W == config.world
           X == {[input_ids |-> <<j, 0>>] : j \in 1..P}
           m == Len(Prompts) \div W
<1>1. P \in Nat \ {0} /\ W \in Nat \ {0}
  BY DEF Sized
<1>2. Prompts = [j \in 1..P |-> [input_ids |-> <<j, 0>>]]
  BY DEF Prompts
<1>3. CanChunk(Prompts, W) /\ chunks = Chunk(Prompts, W)
  <2>1. Sent = gen.batch
    BY DEF Sent
  <2> QED BY <2>1 DEF Calling
<1> HIDE DEF P, W
<1>4. Prompts \in Seq(X) /\ Len(Prompts) = P
  <2>1. \A j \in 1..P : Prompts[j] \in X
    BY <1>2
  <2>2. Prompts = [j \in 1..P |-> Prompts[j]]
    BY <1>2
  <2> HIDE DEF X
  <2> QED BY <1>1, <2>1, <2>2
<1> HIDE DEF X
<1>5. IsChunked(X, Prompts, W, m)
  BY <1>1, <1>3, <1>4, ChunksFit
<1>6. W * m = P
  BY <1>4, <1>5 DEF IsChunked
<1> HIDE DEF m
<1>7. Responded(Answer([r \in Ranks |-> Generated(r)]), Prompts, config.world * m)
  BY <1>5, GeneratedIs DEF W
<1> QED BY <1>6, <1>7 DEF W, P

\* The responses are generated.
LEMMA CollectResponsesKeeps ==
  ASSUME IInv, CollectResponses
  PROVE  IInv'
<1> DEFINE c == Answer([r \in Ranks |-> Generated(r)])
           g == [batch |-> Prompts, output |-> c]
<1>1. /\ stage = Order[1] /\ stage = "generate"
      /\ chunks # <<>> /\ chunks' = <<>> /\ config' = config /\ lens' = lens /\ batch' = batch
      /\ gen' = [gen EXCEPT !.output = c] /\ stage' = Following
  BY OrderIs DEF CollectResponses, Collect
<1>2. Holding(batch, gen, 1) /\ Sized
  <2>1. stage = Order[1] /\ 1 \in 1..12
    BY <1>1
  <2> QED BY <2>1, StageIs
<1>3. Fresh(batch, 1) /\ gen = [batch |-> Prompts, output |-> gen.output] /\ Due(Order[1])
  BY <1>2 DEF Holding, Gens
<1>4. Responded(c, Prompts, config.prompts)
  <2>1. gen.batch = Prompts
    BY <1>3
  <2> HIDE DEF c
  <2>2. Calling /\ stage \in {"generate", "baseline"}
    BY <1>1 DEF IInv
  <2> QED BY <1>1, <1>2, <2>1, <2>2, PromptsAnswered DEF c
<1> HIDE DEF c
<1>5. c = AllResponses
  <2> DEFINE P == config.prompts
             n == config.n
  <2>1. PerPrompt = n /\ \A j : Number(j) = ((j - 1) % n) + 1
    BY <1>1 DEF PerPrompt, Number
  <2>2. c = [j \in 1..(P * n) |->
              [input_ids |-> <<Prompts[((j - 1) \div n) + 1].input_ids[1], ((j - 1) % n) + 1>>]]
    BY <1>4, <2>1 DEF Responded
  <2>3. P \in Nat \ {0} /\ n \in Nat \ {0} /\ Size = P * n
        /\ Prompts = [j \in 1..P |-> [input_ids |-> <<j, 0>>]]
        /\ AllResponses = [j \in 1..Size |-> [input_ids |-> <<((j - 1) \div n) + 1, ((j - 1) % n) + 1>>]]
    BY <1>2 DEF Sized, Size, Prompts, AllResponses
  <2> HIDE DEF P, n
  <2>4. ASSUME NEW j \in 1..(P * n)
        PROVE  Prompts[((j - 1) \div n) + 1].input_ids[1] = ((j - 1) \div n) + 1
    <3> DEFINE p == ((j - 1) \div n) + 1
    <3>1. p \in 1..P
      <4>1. Placed(P, n, j)
        BY <2>3, PlaceIs
      <4> QED BY <4>1 DEF Placed
    <3> HIDE DEF p
    <3>2. Prompts[p].input_ids[1] = p
      BY <2>3, <3>1
    <3> QED BY <3>2 DEF p
  <2> QED BY <2>2, <2>3, <2>4
<1>6. PICK m : Leads(1, m)
  <2>1. stage = Order[1] /\ 1 \in 1..11
    BY <1>1
  <2> QED BY <2>1, SomethingFollows
<1>7. m \in 2..3 /\ Due(Order[m]) /\ stage' = Order[m]
  <2>1. m \in (1 + 1)..12 /\ Following = Order[m] /\ Due(Order[m])
        /\ \A j \in (1 + 1)..(m - 1) : ~ Due(Order[j])
    BY <1>6 DEF Leads
  <2>2. Due(Order[3])
    BY OrderIs DEF Due
  <2>3. ~ (3 \in (1 + 1)..(m - 1))
    BY <2>1, <2>2
  <2> QED BY <1>1, <2>1, <2>3
<1>8. Cols(m) = Cols(1)
  <2>1. Cols(m) = Cols(1) \cup Gives(Order[1])
    BY <1>3, <1>6, ColsGrow
  <2>2. Gives(Order[1]) = {}
    BY OrderIs DEF Gives
  <2> QED BY <2>1, <2>2
<1>9. Fresh(batch, m)
  BY <1>3, <1>8 DEF Fresh
<1>10. gen' = g /\ Gens(g, m)
  <2>1. gen' = g
    BY <1>1, <1>3
  <2> QED BY <1>5, <2>1 DEF Gens
<1> HIDE DEF g
<1>11. Holding(batch, g, m)
  BY <1>7, <1>9, <1>10 DEF Holding
<1> QED BY <1>1, <1>7, <1>10, <1>11, StepKeeps

\* The baselines are generated.
LEMMA CollectBaselineKeeps ==
  ASSUME IInv, CollectBaseline
  PROVE  IInv' /\ stage' = Order[3]
<1> DEFINE P == config.prompts
           c == Answer([r \in Ranks |-> Generated(r)])
           scored == [i \in DOMAIN batch |->
                       With(Union(batch, c)[i],
                            [reward_baselines |-> <<batch[i].data, c[i].input_ids>>])]
           rows == Without(scored, Columns(c))
<1>1. /\ stage = Order[2] /\ stage = "baseline"
      /\ chunks # <<>> /\ chunks' = <<>> /\ config' = config /\ lens' = lens /\ gen' = gen
      /\ Continue(CanUnion(batch, c), rows)
  BY OrderIs DEF CollectBaseline, Collect
<1>2. Holding(batch, gen, 2) /\ Sized
  <2>1. stage = Order[2] /\ 2 \in 1..12
    BY <1>1
  <2> QED BY <2>1, StageIs
<1>3. /\ Fresh(batch, 2) /\ gen = [batch |-> Prompts, output |-> gen.output]
      /\ gen.output = AllResponses /\ Due(Order[2])
  BY <1>2 DEF Holding, Gens
<1>4. P \in Nat \ {0} /\ Prompts = [j \in 1..P |-> [input_ids |-> <<j, 0>>]]
  BY <1>2 DEF Sized, Prompts
<1>5. c = [j \in 1..P |-> [input_ids |-> Greedy(j)]]
  <2>1. Responded(c, Prompts, config.prompts)
    <3>1. gen.batch = Prompts
      BY <1>3
    <3> HIDE DEF c
    <3>2. Calling /\ stage \in {"generate", "baseline"}
      BY <1>1 DEF IInv
    <3> QED BY <1>1, <1>2, <3>1, <3>2, PromptsAnswered DEF c
  <2> HIDE DEF c
  <2>2. PerPrompt = 1 /\ \A j : Number(j) = config.n + 1
    BY <1>1 DEF PerPrompt, Number
  <2>3. c = [j \in 1..(P * 1) |->
              [input_ids |-> <<Prompts[((j - 1) \div 1) + 1].input_ids[1], config.n + 1>>]]
    BY <2>1, <2>2 DEF Responded
  <2> HIDE DEF P
  <2>4. P * 1 = P
    BY <1>4
  <2>5. ASSUME NEW j \in 1..P PROVE Prompts[((j - 1) \div 1) + 1].input_ids[1] = j
    <3>1. ((j - 1) \div 1) + 1 = j
      BY <1>4
    <3> QED BY <1>4, <3>1
  <2>6. c = [j \in 1..P |-> [input_ids |-> <<j, config.n + 1>>]]
    BY <2>3, <2>4, <2>5
  <2> QED BY <2>6 DEF Greedy
<1> HIDE DEF c
<1>6. /\ batch = [j \in 1..P |-> batch[j]]
      /\ \A j \in 1..P : DOMAIN batch[j] = {"data"} /\ batch[j].data = j
  <2>1. Cols(2) = {"data"}
    <3>1. {k \in 1..(2 - 1) : Due(Order[k])} \subseteq {1}
      OBVIOUS
    <3>2. Gives(Order[1]) = {}
      BY OrderIs DEF Gives
    <3> QED BY <3>1, <3>2 DEF Cols
  <2> QED BY <1>3, <2>1 DEF Fresh
<1> HIDE DEF P
<1>7. CanUnion(batch, c)
  <2>1. Len(batch) = P /\ Len(c) = P /\ DOMAIN batch = 1..P
    BY <1>4, <1>5, <1>6
  <2>2. ASSUME NEW i \in 1..P PROVE DOMAIN batch[i] \cap DOMAIN c[i] = {}
    <3>1. DOMAIN c[i] = {"input_ids"}
      BY <1>5
    <3> QED BY <1>6, <3>1
  <2> QED BY <2>1, <2>2 DEF CanUnion
<1>8. ASSUME NEW i \in 1..P
      PROVE  /\ DOMAIN scored[i] = {"data", "input_ids", "reward_baselines"}
             /\ scored[i].data = i /\ scored[i].reward_baselines = <<i, Greedy(i)>>
  <2> DEFINE b == batch[i]
             o == c[i]
             u == Union(batch, c)[i]
             more == [reward_baselines |-> <<b.data, o.input_ids>>]
  <2>1. i \in DOMAIN batch
    BY <1>6
  <2>2. u = With(b, o) /\ scored[i] = With(u, more)
    BY <2>1 DEF Union
  <2>3. DOMAIN b = {"data"} /\ b.data = i /\ o = [input_ids |-> Greedy(i)]
    BY <1>5, <1>6
  <2> HIDE DEF b, o, scored
  <2>4. u = [k \in {"data", "input_ids"} |-> IF k = "data" THEN b[k] ELSE o[k]]
    <3>1. DOMAIN o = {"input_ids"}
      BY <2>3
    <3> HIDE DEF u
    <3> QED BY <2>2, <2>3, <3>1 DEF With
  <2>5. DOMAIN u = {"data", "input_ids"} /\ u.data = i
    BY <2>3, <2>4
  <2>6. more = [reward_baselines |-> <<i, Greedy(i)>>]
    BY <2>3
  <2> HIDE DEF u, more
  <2>7. scored[i] = [k \in {"data", "input_ids", "reward_baselines"} |->
                      IF k \in {"data", "input_ids"} THEN u[k] ELSE more[k]]
    BY <2>2, <2>5, <2>6 DEF With
  <2> QED BY <2>5, <2>6, <2>7
<1>9. DOMAIN scored = 1..P /\ Columns(scored) = {"data", "input_ids", "reward_baselines"}
  <2>1. DOMAIN scored = 1..P
    BY <1>6
  <2> HIDE DEF scored
  <2>2. 1 \in 1..P
    BY <1>4
  <2>3. scored # <<>>
    <3>1. 1 \notin DOMAIN <<>>
      OBVIOUS
    <3> QED BY <2>1, <2>2, <3>1
  <2> QED BY <1>8, <2>1, <2>2, <2>3 DEF Columns
<1>10. Columns(c) = {"input_ids"}
  <2>1. 1 \in 1..P
    BY <1>4
  <2>2. c # <<>>
    <3>1. 1 \notin DOMAIN <<>>
      OBVIOUS
    <3> QED BY <1>5, <2>1, <3>1
  <2>3. DOMAIN c[1] = {"input_ids"}
    BY <1>5, <2>1
  <2> QED BY <2>2, <2>3 DEF Columns
<1>11. rows = [i \in 1..P |-> [k \in {"data", "reward_baselines"} |-> scored[i][k]]]
  <2> HIDE DEF scored
  <2>1. Columns(scored) \ Columns(c) = {"data", "reward_baselines"}
    BY <1>9, <1>10
  <2> QED BY <1>9, <2>1 DEF Without, Select
<1>12. PICK m : Leads(2, m)
  <2>1. stage = Order[2] /\ 2 \in 1..11
    BY <1>1
  <2> QED BY <2>1, SomethingFollows
<1>13. m = 3 /\ Due(Order[m]) /\ Following = Order[m]
  <2>1. m \in (2 + 1)..12 /\ Following = Order[m] /\ Due(Order[m])
        /\ \A j \in (2 + 1)..(m - 1) : ~ Due(Order[j])
    BY <1>12 DEF Leads
  <2>2. Due(Order[3])
    BY OrderIs DEF Due
  <2>3. ~ (3 \in (2 + 1)..(m - 1))
    BY <2>1, <2>2
  <2> QED BY <2>1, <2>3
<1>14. Cols(m) = {"data", "reward_baselines"}
  <2>1. Cols(m) = Cols(2) \cup Gives(Order[2])
    BY <1>3, <1>12, ColsGrow
  <2>2. Gives(Order[2]) = {"reward_baselines"}
    BY OrderIs DEF Gives
  <2>3. Cols(2) = {"data"}
    <3>1. {k \in 1..(2 - 1) : Due(Order[k])} \subseteq {1}
      OBVIOUS
    <3>2. Gives(Order[1]) = {}
      BY OrderIs DEF Gives
    <3> QED BY <3>1, <3>2 DEF Cols
  <2> QED BY <2>1, <2>2, <2>3
<1> HIDE DEF scored, rows
<1>15. Fresh(rows, m)
  <2>1. rows = [i \in 1..P |-> rows[i]]
    BY <1>11
  <2>2. ASSUME NEW i \in 1..P
        PROVE  DOMAIN rows[i] = Cols(m) /\ rows[i].data = i /\ rows[i].reward_baselines = <<i, Greedy(i)>>
    <3>1. rows[i] = [k \in {"data", "reward_baselines"} |-> scored[i][k]]
      BY <1>11
    <3> QED BY <1>8, <1>14, <3>1
  <2> QED BY <2>1, <2>2 DEF Fresh, P
<1>16. Holding(rows, gen, m)
  <2>1. Gens(gen, m)
    BY <1>3 DEF Gens
  <2> QED BY <1>13, <1>15, <2>1 DEF Holding
<1>17. batch' = rows /\ stage' = Order[m]
  BY <1>1, <1>7, <1>13 DEF Continue
<1> QED BY <1>1, <1>13, <1>16, <1>17, StepKeeps

-----------------------------------------------------------------------------
(* The union with the responses, and the balancing. *)

\* A row of the union is of the response x and its prompt.
Joint(row, x) ==
  /\ DOMAIN row = Cols(3) \cup {"uid", "input_ids"}
  /\ row.data = x[1] /\ row.uid = x[1] /\ row.input_ids = x
  /\ "reward_baselines" \in Cols(3) => row.reward_baselines = <<x[1], Greedy(x[1])>>

\* Such is a prompt's row with an identifier and a response.
LEMMA JointIs ==
  ASSUME NEW row, NEW more, NEW x, "uid" \notin Cols(3), "input_ids" \notin Cols(3),
         DOMAIN row = Cols(3) \cup {"uid"}, row.data = x[1], row.uid = x[1], "data" \in Cols(3),
         "reward_baselines" \in Cols(3) => row.reward_baselines = <<x[1], Greedy(x[1])>>,
         DOMAIN more = {"input_ids"}, more.input_ids = x
  PROVE  Joint(With(row, more), x)
<1> DEFINE u == With(row, more)
<1>1. u = [c \in Cols(3) \cup {"uid", "input_ids"} |-> IF c \in Cols(3) \cup {"uid"} THEN row[c] ELSE more[c]]
  <2>1. (Cols(3) \cup {"uid"}) \cup {"input_ids"} = Cols(3) \cup {"uid", "input_ids"}
    OBVIOUS
  <2> QED BY <2>1 DEF With
<1> HIDE DEF u
<1>2. DOMAIN u = Cols(3) \cup {"uid", "input_ids"} /\ u.data = row.data /\ u.uid = row.uid
      /\ u.input_ids = more.input_ids
  BY <1>1
<1>3. "reward_baselines" \in Cols(3) => u.reward_baselines = row.reward_baselines
  BY <1>1
<1> QED BY <1>2, <1>3 DEF Joint, u

\* Rows that are of all responses can be partitioned for the ranks.
LEMMA CanBalance ==
  ASSUME Sized, HasLengths, NEW rows, rows = [j \in 1..Size |-> rows[j]],
         \A j \in 1..Size : rows[j].input_ids \in Responses
  PROVE  /\ CanPartition(LensOf(rows), config.world, TRUE) /\ Len(LensOf(rows)) = Size
         /\ LensOf(rows) = [j \in 1..Size |-> lens[rows[j].input_ids]]
<1> DEFINE N == Size
           s == LensOf(rows)
           W == config.world
<1>1. N \in Nat \ {0} /\ N % W = 0 /\ W \in Nat \ {0}
  <2>1. config.prompts \in Nat \ {0} /\ config.n \in Nat \ {0} /\ W \in Nat \ {0} /\ N % W = 0
    BY DEF Sized, Size
  <2>2. config.prompts * config.n \in Nat \ {0}
    BY <2>1
  <2> QED BY <2>1, <2>2 DEF Size
<1>2. \A x \in Responses : lens[x] \in Nat
  <2>1. config.lengths \subseteq 1..config.width
    BY DEF Sized
  <2>2. \A k \in 1..config.width : k \in Nat
    OBVIOUS
  <2> QED BY <2>1, <2>2 DEF HasLengths
<1>3. DOMAIN rows = 1..N
  OBVIOUS
<1>4. s = [j \in 1..N |-> lens[rows[j].input_ids]]
  BY <1>3 DEF LensOf
<1> HIDE DEF N, s, W
<1>5. \A j \in 1..N : s[j] \in Nat
  BY <1>2, <1>4 DEF N
<1>6. s \in Seq(Nat) /\ Len(s) = N
  <2>1. s \in [1..N -> Nat]
    BY <1>4, <1>5
  <2>2. s \in Seq(Nat)
    BY <1>1, <2>1
  <2>3. Len(s) = N
    BY <1>1, <1>4
  <2> QED BY <2>2, <2>3
<1>7. CanPartition(s, W, TRUE)
  BY <1>1, <1>6 DEF CanPartition
<1> QED BY <1>4, <1>6, <1>7 DEF s, W, N

\* And balanced over them.
LEMMA BalanceIs ==
  ASSUME Sized, HasLengths, NEW rows, rows = [j \in 1..Size |-> rows[j]],
         \A j \in 1..Size : rows[j].input_ids \in Responses
  PROVE  Permutes(FlattenSeq(Partitions(LensOf(rows), config.world, TRUE)), Size)
<1> DEFINE s == LensOf(rows)
<1>1. CanPartition(s, config.world, TRUE) /\ Len(s) = Size
  BY CanBalance
<1> HIDE DEF s
<1>2. Permutes(FlattenSeq(Partitions(s, config.world, TRUE)), Len(s))
  BY <1>1, PartitionsAreWhole
<1> QED BY <1>1, <1>2 DEF s

\* Rows that have been moved are aligned as before.
LEMMA MovedAligned ==
  ASSUME Sized, NEW rows, NEW order, Permutes(order, Size), NEW i, Aligned(rows, i)
  PROVE  Aligned(Reorder(rows, order), i)
<1> DEFINE new == Reorder(rows, order)
           N == Size
<1>1. /\ rows = [j \in 1..N |-> rows[j]]
      /\ \A j \in 1..N :
           /\ DOMAIN rows[j] = Cols(i) /\ rows[j].input_ids \in Responses
           /\ Owned(rows[j], rows[j].input_ids)
           /\ 8 < i => Grouped(rows[j])
      /\ \A a, b \in 1..N : rows[a].input_ids = rows[b].input_ids => a = b
      /\ \A x \in Responses : \E j \in 1..N : rows[j].input_ids = x
  BY DEF Aligned
<1>2. /\ order \in [1..N -> 1..N]
      /\ \A a, b \in 1..N : order[a] = order[b] => a = b
      /\ \A j \in 1..N : \E a \in 1..N : order[a] = j
  BY DEF Permutes
<1>3. new = [j \in 1..N |-> rows[order[j]]]
  BY <1>2 DEF Reorder
<1> HIDE DEF N, new
<1>4. ASSUME NEW j \in 1..N
      PROVE  /\ DOMAIN new[j] = Cols(i) /\ new[j].input_ids \in Responses
             /\ Owned(new[j], new[j].input_ids)
             /\ 8 < i => Grouped(new[j])
  <2>1. order[j] \in 1..N /\ new[j] = rows[order[j]]
    BY <1>2, <1>3
  <2> QED BY <1>1, <2>1
<1>5. \A a, b \in 1..N : new[a].input_ids = new[b].input_ids => a = b
  <2> SUFFICES ASSUME NEW a \in 1..N, NEW b \in 1..N, new[a].input_ids = new[b].input_ids
               PROVE  a = b
    OBVIOUS
  <2>1. /\ order[a] \in 1..N /\ new[a] = rows[order[a]]
        /\ order[b] \in 1..N /\ new[b] = rows[order[b]]
    BY <1>2, <1>3
  <2>2. order[a] = order[b]
    BY <1>1, <2>1
  <2> QED BY <1>2, <2>2
<1>6. \A x \in Responses : \E j \in 1..N : new[j].input_ids = x
  <2> SUFFICES ASSUME NEW x \in Responses PROVE \E j \in 1..N : new[j].input_ids = x
    OBVIOUS
  <2>1. PICK k \in 1..N : rows[k].input_ids = x
    BY <1>1
  <2>2. PICK j \in 1..N : order[j] = k
    BY <1>2
  <2> QED BY <1>3, <2>1, <2>2
<1>7. new = [j \in 1..N |-> new[j]]
  BY <1>3
<1> QED BY <1>4, <1>5, <1>6, <1>7 DEF Aligned, new, N

\* The batch is rows of the responses, balanced over the ranks.
Balances(rows) ==
  /\ rows = [j \in 1..Size |-> rows[j]] /\ \A j \in 1..Size : rows[j].input_ids \in Responses
  /\ batch' = Reorder(rows, FlattenSeq(Partitions(LensOf(rows), config.world, TRUE)))

\* The batch is assembled.
LEMMA AssembleKeeps ==
  ASSUME IInv, Assemble
  PROVE  IInv' /\ \E rows : Balances(rows)
<1> DEFINE P == config.prompts
           n == config.n
           N == Size
           all == gen.output
           identified == [i \in DOMAIN batch |-> With(batch[i], [uid |-> i])]
           repeated == Repeat(identified, n)
           rows == Union(repeated, all)
           order == FlattenSeq(Partitions(LensOf(rows), config.world, TRUE))
           new == Reorder(rows, order)
<1>1. stage = Order[3] /\ stage = "assemble" /\ 3 \in 1..12 /\ 3 \in 1..11
  BY OrderIs DEF Assemble
<1>2. /\ chunks' = chunks /\ config' = config /\ lens' = lens /\ gen' = gen
      /\ Continue(CanUnion(repeated, all), new)
  BY DEF Assemble
<1>3. chunks = <<>>
  BY <1>1 DEF IInv, Calling, Remote
<1>4. Holding(batch, gen, 3) /\ Sized
  BY <1>1, StageIs
<1>5. Fresh(batch, 3) /\ Gens(gen, 3) /\ Due(Order[3]) /\ all = AllResponses
  BY <1>4 DEF Holding, Gens
<1>6. /\ P \in Nat \ {0} /\ n \in Nat \ {0} /\ N = P * n /\ N \in Nat \ {0}
      /\ \A j \in 1..N :
           /\ all[j].input_ids \in Responses /\ DOMAIN all[j] = {"input_ids"}
           /\ all[j].input_ids[1] = ((j - 1) \div n) + 1
           /\ ((j - 1) \div n) + 1 \in 1..P
      /\ \A a, b \in 1..N : all[a].input_ids = all[b].input_ids => a = b
      /\ \A x \in Responses : \E j \in 1..N : all[j].input_ids = x
  <2>1. ResponsesComplete
    BY <1>4, AllResponsesAre
  <2>2. N = P * n
    BY DEF Size
  <2> QED BY <1>5, <2>1, <2>2 DEF ResponsesComplete
<1>7. /\ "uid" \notin Cols(3) /\ "input_ids" \notin Cols(3) /\ "data" \in Cols(3)
  <2>1. 3 \in 1..12
    OBVIOUS
  <2>2. /\ "uid" \in Cols(3) <=> 3 < 3
        /\ "input_ids" \in Cols(3) <=> 3 < 3
        /\ "data" \in Cols(3)
    BY <2>1, ColumnsAre
  <2> QED BY <2>2
<1>8. /\ batch = [j \in 1..P |-> batch[j]]
      /\ \A j \in 1..P :
           /\ DOMAIN batch[j] = Cols(3) /\ batch[j].data = j
           /\ "reward_baselines" \in Cols(3) => batch[j].reward_baselines = <<j, Greedy(j)>>
  BY <1>5 DEF Fresh
<1>9. Len(all) = N /\ DOMAIN all = 1..N
  <2>1. all = [j \in 1..N |-> AllResponses[j]]
    BY <1>5 DEF AllResponses
  <2> HIDE DEF N, all
  <2> QED BY <1>6, <2>1
<1>10. ASSUME NEW p \in 1..P
      PROVE  /\ DOMAIN identified[p] = Cols(3) \cup {"uid"}
             /\ identified[p].data = p /\ identified[p].uid = p
             /\ "reward_baselines" \in Cols(3) => identified[p].reward_baselines = <<p, Greedy(p)>>
  <2> DEFINE u == identified[p]
             b == batch[p]
  <2>1. u = With(b, [uid |-> p])
    BY <1>8
  <2>2. /\ DOMAIN b = Cols(3) /\ b.data = p
        /\ "reward_baselines" \in Cols(3) => b.reward_baselines = <<p, Greedy(p)>>
    BY <1>8
  <2> HIDE DEF u, b
  <2>3. u = [c \in Cols(3) \cup {"uid"} |-> IF c \in Cols(3) THEN b[c] ELSE [uid |-> p][c]]
    <3>1. DOMAIN [uid |-> p] = {"uid"}
      OBVIOUS
    <3> QED BY <2>1, <2>2, <3>1 DEF With
  <2>4. DOMAIN u = Cols(3) \cup {"uid"} /\ u.data = p /\ u.uid = p
    BY <1>7, <2>2, <2>3
  <2>5. "reward_baselines" \in Cols(3) => u.reward_baselines = <<p, Greedy(p)>>
    BY <2>2, <2>3
  <2> QED BY <2>4, <2>5 DEF u
<1>11. repeated = [j \in 1..N |-> identified[((j - 1) \div n) + 1]]
  <2>1. Len(identified) = P
    <3>1. identified = [i \in 1..P |-> With(batch[i], [uid |-> i])]
      BY <1>8
    <3> HIDE DEF identified, P
    <3> QED BY <1>6, <3>1
  <2> HIDE DEF identified, P, n, N
  <2> QED BY <1>6, <2>1 DEF Repeat
<1> HIDE DEF identified, P, n, N, all
<1>12. ASSUME NEW j \in 1..N
       PROVE  Joint(rows[j], all[j].input_ids) /\ DOMAIN repeated[j] \cap DOMAIN all[j] = {}
  <2> DEFINE p == ((j - 1) \div n) + 1
             x == all[j].input_ids
             o == all[j]
             b == repeated[j]
  <2>1. p \in 1..P /\ x[1] = p /\ DOMAIN o = {"input_ids"} /\ o.input_ids = x
    BY <1>6
  <2>2. b = identified[p]
    BY <1>11
  <2>3. rows[j] = With(b, o)
    <3>1. j \in DOMAIN repeated
      BY <1>11
    <3> QED BY <3>1 DEF Union
  <2> HIDE DEF p, x, o, b, repeated, rows
  <2>4. /\ DOMAIN b = Cols(3) \cup {"uid"} /\ b.data = x[1] /\ b.uid = x[1]
        /\ "reward_baselines" \in Cols(3) => b.reward_baselines = <<x[1], Greedy(x[1])>>
    BY <1>10, <2>1, <2>2
  <2>5. Joint(With(b, o), x)
    BY <1>7, <2>1, <2>4, JointIs
  <2>6. DOMAIN b \cap DOMAIN o = {}
    BY <1>7, <2>1, <2>4
  <2> QED BY <2>3, <2>5, <2>6 DEF x, b, o
<1>13. rows = [j \in 1..N |-> rows[j]] /\ DOMAIN repeated = 1..N /\ Len(repeated) = N
  <2>1. DOMAIN repeated = 1..N
    BY <1>11
  <2>2. rows = [j \in 1..N |-> With(repeated[j], all[j])]
    BY <2>1 DEF Union
  <2> HIDE DEF rows
  <2>3. rows = [j \in 1..N |-> rows[j]]
    BY <2>2
  <2> HIDE DEF repeated
  <2>4. Len(repeated) = N
    BY <1>6, <1>11
  <2> QED BY <2>1, <2>3, <2>4
<1> HIDE DEF repeated, rows
<1>14. CanUnion(repeated, all)
  BY <1>9, <1>12, <1>13 DEF CanUnion
<1>15. PICK m : Leads(3, m)
  BY <1>1, SomethingFollows
<1>16. m = 4 /\ Due(Order[m]) /\ Following = Order[m]
  <2>1. m \in (3 + 1)..12 /\ Following = Order[m] /\ Due(Order[m])
        /\ \A j \in (3 + 1)..(m - 1) : ~ Due(Order[j])
    BY <1>15 DEF Leads
  <2>2. Due(Order[4])
    BY OrderIs DEF Due
  <2>3. ~ (4 \in (3 + 1)..(m - 1))
    BY <2>1, <2>2
  <2> QED BY <2>1, <2>3
<1>17. Cols(4) = Cols(3) \cup {"uid", "input_ids"}
  <2>1. Cols(m) = Cols(3) \cup Gives(Order[3])
    BY <1>1, <1>5, <1>15, ColsGrow
  <2>2. Gives(Order[3]) = {"uid", "input_ids"}
    BY OrderIs DEF Gives
  <2> QED BY <1>16, <2>1, <2>2
<1>18. /\ "old_log_probs" \notin Cols(4) /\ "ref_log_prob" \notin Cols(4) /\ "rm_scores" \notin Cols(4)
       /\ "values" \notin Cols(4) /\ "token_level_rewards" \notin Cols(4)
       /\ ("reward_baselines" \in Cols(4) => "reward_baselines" \in Cols(3))
  <2>1. 4 \in 1..12
    OBVIOUS
  <2>2. /\ "old_log_probs" \in Cols(4) <=> 4 < 4
        /\ "ref_log_prob" \in Cols(4) <=> 5 < 4 /\ Due("ref")
        /\ "values" \in Cols(4) <=> 6 < 4 /\ Due("values")
        /\ "rm_scores" \in Cols(4) <=> 7 < 4 /\ Due("rm")
        /\ "token_level_rewards" \in Cols(4) <=> 8 < 4
    BY <2>1, ColumnsAre
  <2> QED BY <1>17, <2>2
<1>19. ASSUME NEW j \in 1..N
       PROVE  /\ DOMAIN rows[j] = Cols(4) /\ rows[j].input_ids = all[j].input_ids
              /\ rows[j].input_ids \in Responses /\ Owned(rows[j], rows[j].input_ids)
  <2> DEFINE row == rows[j]
             x == all[j].input_ids
  <2>1. Joint(row, x) /\ x \in Responses
    BY <1>6, <1>12
  <2> HIDE DEF row, x
  <2>2. DOMAIN row = Cols(4) /\ row.input_ids = x /\ row.data = x[1] /\ row.uid = x[1]
        /\ ("reward_baselines" \in Cols(3) => row.reward_baselines = <<x[1], Greedy(x[1])>>)
    BY <1>17, <2>1 DEF Joint
  <2>3. Owned(row, x)
    BY <1>18, <2>2 DEF Owned
  <2> QED BY <2>1, <2>2, <2>3 DEF row, x
<1>20. Aligned(rows, 4)
  <2>1. ~ (8 < 4)
    OBVIOUS
  <2>2. \A a, b \in 1..N : rows[a].input_ids = rows[b].input_ids => a = b
    BY <1>6, <1>19
  <2>3. \A x \in Responses : \E j \in 1..N : rows[j].input_ids = x
    BY <1>6, <1>19
  <2> QED BY <1>13, <1>19, <2>1, <2>2, <2>3 DEF Aligned, N
<1>21. Aligned(new, 4)
  <2>1. \A j \in 1..N : rows[j].input_ids \in Responses
    BY <1>19
  <2>2. HasLengths
    BY DEF IInv
  <2>3. Permutes(order, Size)
    BY <1>4, <1>13, <2>1, <2>2, BalanceIs DEF N
  <2> HIDE DEF order
  <2> QED BY <1>4, <1>20, <2>3, MovedAligned
<1> DEFINE z == rows
<1>22. new = Reorder(z, FlattenSeq(Partitions(LensOf(z), config.world, TRUE)))
  OBVIOUS
<1> HIDE DEF new
<1>23. Holding(new, gen, 4)
  <2>1. Gens(gen, 4)
    BY <1>5 DEF Gens
  <2>2. ~ (4 <= 3)
    OBVIOUS
  <2> QED BY <1>16, <1>21, <2>1, <2>2 DEF Holding
<1>24. batch' = new /\ stage' = Order[4]
  BY <1>2, <1>14, <1>16 DEF Continue
<1>25. Balances(z)
  <2>1. z = [j \in 1..Size |-> z[j]] /\ \A j \in 1..Size : z[j].input_ids \in Responses
    BY <1>13, <1>19 DEF N
  <2>2. batch' = Reorder(z, FlattenSeq(Partitions(LensOf(z), config.world, TRUE)))
    BY <1>24, <1>22
  <2> HIDE DEF z
  <2> QED BY <2>1, <2>2 DEF Balances
<1>26. \E y : Balances(y)
  <2> HIDE DEF z
  <2> QED BY <1>25
<1> QED BY <1>2, <1>3, <1>23, <1>24, <1>26, StepKeeps

-----------------------------------------------------------------------------
(* The columns of the forward passes. *)

\* The batch that is sent is chunked, and its rows have tokens.
BatchSent(m) ==
  /\ IsChunked({batch[j] : j \in 1..Size}, batch, config.world, m)
  /\ m # 0 /\ config.world * m = Size /\ HaveTokens(batch)

\* So it is in every call that sends the batch.
LEMMA BatchIsSent ==
  ASSUME IInv, Sized, NEW i, Aligned(batch, i), chunks # <<>>, Sent = batch
  PROVE  \E m : BatchSent(m)
<1> DEFINE N == Size
           W == config.world
           X == {batch[j] : j \in 1..N}
           m == Len(batch) \div W
<1>1. N \in Nat \ {0} /\ W \in Nat \ {0}
  <2>1. ResponsesComplete
    BY AllResponsesAre
  <2> QED BY <2>1 DEF ResponsesComplete, Sized
<1>2. CanChunk(batch, W) /\ chunks = Chunk(batch, W)
  BY DEF IInv, Calling
<1>3. batch = [j \in 1..N |-> batch[j]] /\ \A j \in 1..N : batch[j].input_ids \in Responses
  BY DEF Aligned
<1> HIDE DEF N, W
<1>4. batch \in Seq(X) /\ Len(batch) = N /\ DOMAIN batch = 1..N
  <2>1. \A j \in 1..N : batch[j] \in X
    OBVIOUS
  <2> HIDE DEF X
  <2> QED BY <1>1, <1>3, <2>1
<1> HIDE DEF X
<1>5. IsChunked(X, batch, W, m)
  BY <1>1, <1>2, <1>4, ChunksFit
<1>6. W * m = N
  BY <1>4, <1>5 DEF IsChunked
<1>7. m # 0
  <2> SUFFICES ASSUME m = 0 PROVE FALSE
    OBVIOUS
  <2> HIDE DEF m
  <2>1. W * m = 0
    BY <1>1
  <2> QED BY <1>1, <1>6, <2>1
<1>8. HaveTokens(batch)
  <2>1. \A x \in Responses : lens[x] \in 1..config.width
    <3>1. lens \in [Responses -> config.lengths] /\ config.lengths \subseteq 1..config.width
      BY DEF IInv, HasLengths, Sized
    <3> QED BY <3>1
  <2> QED BY <1>3, <1>4, <2>1 DEF HaveTokens
<1> HIDE DEF m
<1>9. BatchSent(m)
  BY <1>5, <1>6, <1>7, <1>8 DEF BatchSent, X, N, W
<1> QED BY <1>9

\* A forward pass adds its columns and no others.
NewColumns(k) ==
  /\ Order[k] \in Passes /\ Sent = batch
  /\ Cols(k) \cap Gives(Order[k]) = {}
  /\ {"data", "uid", "input_ids"} \subseteq Cols(k)
  /\ "token_level_rewards" \notin Cols(k) \cup Gives(Order[k])
  /\ {"data", "uid", "input_ids", "reward_baselines"} \cap Gives(Order[k]) = {}
  /\ "old_log_probs" \in Gives(Order[k]) => Order[k] = "old_log_prob"
  /\ "ref_log_prob" \in Gives(Order[k]) => Order[k] = "ref"
  /\ "rm_scores" \in Gives(Order[k]) => Order[k] = "rm"
  /\ "values" \in Gives(Order[k]) => Order[k] = "values"

\* The four of them.
LEMMA NewColumnsAre ==
  ASSUME NEW k \in 4..7, stage = Order[k]
  PROVE  NewColumns(k)
<1>1. k \in 1..12 /\ 3 < k /\ ~ (8 < k) /\ (k = 4 \/ k = 5 \/ k = 6 \/ k = 7)
  OBVIOUS
<1>2. /\ "data" \in Cols(k) /\ "uid" \in Cols(k) /\ "input_ids" \in Cols(k)
      /\ "old_log_probs" \in Cols(k) <=> 4 < k
      /\ "ref_log_prob" \in Cols(k) <=> 5 < k /\ Due("ref")
      /\ "values" \in Cols(k) <=> 6 < k /\ Due("values")
      /\ "rm_scores" \in Cols(k) <=> 7 < k /\ Due("rm")
      /\ "token_level_rewards" \notin Cols(k)
  BY <1>1, ColumnsAre
<1>3. \/ k = 4 /\ Order[k] = "old_log_prob" /\ Gives(Order[k]) = {"old_log_probs"}
      \/ k = 5 /\ Order[k] = "ref" /\ Gives(Order[k]) = {"ref_log_prob"}
      \/ k = 6 /\ Order[k] = "values" /\ Gives(Order[k]) = {"values"}
      \/ k = 7 /\ Order[k] = "rm" /\ Gives(Order[k]) = {"rm_scores"}
  BY <1>1, OrderIs DEF Gives
<1>4. Order[k] \in Passes /\ Sent = batch
  BY <1>3 DEF Passes, Sent
<1>5. Cols(k) \cap Gives(Order[k]) = {}
  BY <1>2, <1>3
<1> QED BY <1>2, <1>3, <1>4, <1>5 DEF NewColumns

\* A row with one more output of its own response is of this response.
LEMMA WithOwn ==
  ASSUME NEW k, NewColumns(k), stage = Order[k], NEW b, NEW o, NEW x,
         DOMAIN b = Cols(k), b.input_ids = x, Owned(b, x), OfOwn(o, x)
  PROVE  /\ DOMAIN With(b, o) = Cols(k) \cup Gives(Order[k])
         /\ With(b, o).input_ids = x /\ Owned(With(b, o), x)
         /\ DOMAIN b \cap DOMAIN o = {}
<1> DEFINE row == With(b, o)
           K == Cols(k)
           G == Gives(Order[k])
<1>1. DOMAIN o = G
  BY DEF OfOwn
<1>2. /\ DOMAIN row = K \cup G
      /\ \A c \in K : row[c] = b[c]
      /\ \A c \in G : row[c] = o[c]
  <2>1. K \cap G = {}
    BY DEF NewColumns
  <2>2. row = [c \in K \cup G |-> IF c \in K THEN b[c] ELSE o[c]]
    BY <1>1 DEF With
  <2> HIDE DEF row, K, G
  <2> QED BY <2>1, <2>2
<1>3. row.input_ids = x /\ row.data = x[1] /\ row.uid = x[1]
  <2>1. {"data", "uid", "input_ids"} \subseteq K
    BY DEF NewColumns
  <2>2. b.data = x[1] /\ b.uid = x[1]
    BY DEF Owned
  <2> HIDE DEF row, K, G
  <2> QED BY <1>2, <2>1, <2>2
<1>4. ASSUME NEW c \in {"old_log_probs", "ref_log_prob", "rm_scores"} \cap DOMAIN row
      PROVE  row[c] = x
  <2>1. CASE c \in K
    <3>1. b[c] = x
      BY <2>1 DEF Owned
    <3> HIDE DEF row
    <3> QED BY <1>2, <2>1, <3>1
  <2>2. CASE c \in G
    <3>1. c = "old_log_probs" \/ c = "ref_log_prob" \/ c = "rm_scores"
      OBVIOUS
    <3>2. o[c] = x
      BY <2>2, <3>1 DEF NewColumns, OfOwn
    <3> HIDE DEF row, G
    <3> QED BY <1>2, <2>2, <3>2
  <2> HIDE DEF row, K, G
  <2> QED BY <1>2, <2>1, <2>2
<1>5. "values" \in DOMAIN row => OwnValues(row.values, x)
  <2> SUFFICES ASSUME "values" \in DOMAIN row PROVE OwnValues(row.values, x)
    OBVIOUS
  <2>1. CASE "values" \in K
    <3>1. OwnValues(b.values, x)
      BY <2>1 DEF Owned
    <3> HIDE DEF row
    <3> QED BY <1>2, <2>1, <3>1
  <2>2. CASE "values" \in G
    <3>1. OwnValues(o.values, x)
      BY <2>2 DEF NewColumns, OfOwn
    <3> HIDE DEF row, G
    <3> QED BY <1>2, <2>2, <3>1
  <2> HIDE DEF row, K, G
  <2> QED BY <1>2, <2>1, <2>2
<1>6. "token_level_rewards" \notin DOMAIN row
  <2>1. "token_level_rewards" \notin K \cup G
    BY DEF NewColumns
  <2> HIDE DEF row, K, G
  <2> QED BY <1>2, <2>1
<1>7. "reward_baselines" \in DOMAIN row => row.reward_baselines = <<x[1], Greedy(x[1])>>
  <2> SUFFICES ASSUME "reward_baselines" \in DOMAIN row
               PROVE  row.reward_baselines = <<x[1], Greedy(x[1])>>
    OBVIOUS
  <2>1. "reward_baselines" \in K
    <3>1. "reward_baselines" \notin G
      BY DEF NewColumns
    <3> HIDE DEF row, K, G
    <3> QED BY <1>2, <3>1
  <2>2. b.reward_baselines = <<x[1], Greedy(x[1])>>
    BY <2>1 DEF Owned
  <2> HIDE DEF row
  <2> QED BY <1>2, <2>1, <2>2
<1>8. DOMAIN b \cap DOMAIN o = {}
  BY <1>1 DEF NewColumns
<1> HIDE DEF row
<1>9. Owned(row, x)
  BY <1>3, <1>4, <1>5, <1>6, <1>7 DEF Owned
<1> QED BY <1>2, <1>3, <1>8, <1>9 DEF row

\* Each row of the batch is of the same response as before.
SameResponses ==
  /\ batch = [j \in 1..Size |-> batch[j]] /\ batch' = [j \in 1..Size |-> batch'[j]]
  /\ \A j \in 1..Size : batch'[j].input_ids = batch[j].input_ids

\* A forward pass is collected.
LEMMA CollectColumnKeeps ==
  ASSUME IInv, CollectColumn
  PROVE  IInv' /\ SameResponses
<1> DEFINE N == Size
           c == Answer([r \in Ranks |-> Computed(r)])
           rows == Union(batch, c)
<1>1. /\ chunks # <<>> /\ chunks' = <<>> /\ config' = config /\ lens' = lens /\ gen' = gen
      /\ Continue(CanUnion(batch, c), rows)
  BY DEF CollectColumn, Collect
<1>2. PICK k \in 4..7 : stage = Order[k]
  <2>1. stage = Order[4] \/ stage = Order[5] \/ stage = Order[6] \/ stage = Order[7]
    BY OrderIs DEF CollectColumn
  <2>2. 4 \in 4..7 /\ 5 \in 4..7 /\ 6 \in 4..7 /\ 7 \in 4..7
    OBVIOUS
  <2> QED BY <2>1, <2>2
<1>3. k \in 1..12 /\ k \in 1..11 /\ 3 < k
  OBVIOUS
<1>4. Holding(batch, gen, k) /\ Sized
  BY <1>2, <1>3, StageIs
<1>5. NewColumns(k)
  BY <1>2, NewColumnsAre
<1>6. /\ batch = [j \in 1..N |-> batch[j]]
      /\ \A j \in 1..N :
           /\ DOMAIN batch[j] = Cols(k) /\ batch[j].input_ids \in Responses
           /\ Owned(batch[j], batch[j].input_ids)
      /\ \A a, b \in 1..N : batch[a].input_ids = batch[b].input_ids => a = b
      /\ \A x \in Responses : \E j \in 1..N : batch[j].input_ids = x
      /\ Aligned(batch, k) /\ Gens(gen, k) /\ Due(Order[k])
  BY <1>3, <1>4 DEF Holding, Aligned
<1> HIDE DEF c
<1>7. c = [j \in 1..N |-> c[j]] /\ \A j \in 1..N : OfOwn(c[j], batch[j].input_ids)
  <2>1. PICK m : BatchSent(m)
    BY <1>1, <1>4, <1>5, <1>6, BatchIsSent DEF NewColumns
  <2>2. stage \in Passes
    BY <1>2, <1>5 DEF NewColumns
  <2>3. Answered(c, batch, config.world * m)
    <3> DEFINE X == {batch[j] : j \in 1..Size}
    <3>1. IsChunked(X, batch, config.world, m) /\ m # 0 /\ HaveTokens(batch)
      BY <2>1 DEF BatchSent
    <3> HIDE DEF X
    <3> QED BY <1>4, <2>2, <3>1, ComputedIs DEF c
  <2>4. config.world * m = N
    BY <2>1 DEF BatchSent
  <2>5. Answered(c, batch, N)
    BY <2>3, <2>4
  <2> QED BY <2>5 DEF Answered
<1>8. N \in Nat \ {0}
  BY <1>4, AllResponsesAre DEF ResponsesComplete
<1> HIDE DEF N
<1>9. DOMAIN batch = 1..N /\ Len(batch) = N /\ Len(c) = N
  BY <1>6, <1>7, <1>8
<1>10. ASSUME NEW j \in 1..N
       PROVE  /\ DOMAIN rows[j] = Cols(k) \cup Gives(Order[k])
              /\ rows[j].input_ids = batch[j].input_ids
              /\ Owned(rows[j], rows[j].input_ids)
              /\ DOMAIN batch[j] \cap DOMAIN c[j] = {}
  <2> DEFINE b == batch[j]
             o == c[j]
             x == batch[j].input_ids
  <2>1. rows[j] = With(b, o)
    BY <1>9 DEF Union
  <2>2. DOMAIN b = Cols(k) /\ b.input_ids = x /\ Owned(b, x) /\ OfOwn(o, x)
    BY <1>6, <1>7
  <2> HIDE DEF b, o, x, rows
  <2>3. /\ DOMAIN With(b, o) = Cols(k) \cup Gives(Order[k])
        /\ With(b, o).input_ids = x /\ Owned(With(b, o), x)
        /\ DOMAIN b \cap DOMAIN o = {}
    BY <1>2, <1>5, <2>2, WithOwn
  <2> QED BY <2>1, <2>3 DEF b, o, x
<1>11. CanUnion(batch, c)
  BY <1>9, <1>10 DEF CanUnion
<1>12. rows = [j \in 1..N |-> rows[j]]
  BY <1>9 DEF Union
<1> HIDE DEF rows
<1>13. PICK m : Leads(k, m)
  BY <1>2, <1>3, SomethingFollows
<1>14. m \in 4..8 /\ Due(Order[m]) /\ Following = Order[m]
  <2>1. m \in (k + 1)..12 /\ Following = Order[m] /\ Due(Order[m])
        /\ \A j \in (k + 1)..(m - 1) : ~ Due(Order[j])
    BY <1>13 DEF Leads
  <2>2. Due(Order[8])
    BY OrderIs DEF Due
  <2>3. ~ (8 \in (k + 1)..(m - 1))
    BY <2>1, <2>2
  <2> QED BY <2>1, <2>3
<1>15. Cols(m) = Cols(k) \cup Gives(Order[k])
  BY <1>3, <1>6, <1>13, ColsGrow
<1>16. m \in 1..12 /\ 3 < m /\ ~ (8 < m) /\ ~ (m <= 3)
  BY <1>14
<1>17. Aligned(rows, m)
  <2>1. \A a, b \in 1..N : rows[a].input_ids = rows[b].input_ids => a = b
    BY <1>6, <1>10
  <2>2. \A x \in Responses : \E j \in 1..N : rows[j].input_ids = x
    BY <1>6, <1>10
  <2>3. \A j \in 1..N :
          /\ DOMAIN rows[j] = Cols(m) /\ rows[j].input_ids \in Responses
          /\ Owned(rows[j], rows[j].input_ids)
    BY <1>6, <1>10, <1>15
  <2> QED BY <1>12, <1>16, <2>1, <2>2, <2>3 DEF Aligned, N
<1>18. Holding(rows, gen, m)
  <2>1. Gens(gen, m)
    BY <1>3, <1>6 DEF Gens
  <2> QED BY <1>14, <1>16, <1>17, <2>1 DEF Holding
<1>19. batch' = rows /\ stage' = Order[m]
  BY <1>1, <1>11, <1>14 DEF Continue
<1>20. SameResponses
  BY <1>6, <1>10, <1>12, <1>19 DEF SameResponses, N
<1> QED BY <1>1, <1>18, <1>19, <1>20, StepKeeps

-----------------------------------------------------------------------------
(* The rewards and the advantages. *)

\* A row after its reward: the response's own scores and rewards.
Scored(row, b, x) ==
  /\ DOMAIN row = Cols(8) \cup {"token_level_scores", "token_level_rewards"}
  /\ \A c \in Cols(8) : row[c] = b[c]
  /\ row.token_level_scores = <<x[1], x>> /\ row.token_level_rewards = {x}

\* The columns there are before the rewards.
Column8 ==
  /\ {"data", "uid", "input_ids", "old_log_probs"} \subseteq Cols(8)
  /\ (config.useRm => "rm_scores" \in Cols(8)) /\ (config.useRef => "ref_log_prob" \in Cols(8))
  /\ (config.adv = "remax" => "reward_baselines" \in Cols(8))
  /\ Cols(8) \cap {"token_level_scores", "token_level_rewards", "advantages", "returns"} = {}

\* By what is due.
LEMMA Column8Is == Column8
<1>1. 8 \in 1..12 /\ 3 < 8 /\ 4 < 8 /\ 5 < 8 /\ 7 < 8 /\ 2 < 8 /\ ~ (8 < 8)
  OBVIOUS
<1>2. /\ "data" \in Cols(8) /\ "uid" \in Cols(8) /\ "input_ids" \in Cols(8)
      /\ "reward_baselines" \in Cols(8) <=> Due("baseline")
      /\ "old_log_probs" \in Cols(8)
      /\ "ref_log_prob" \in Cols(8) <=> Due("ref")
      /\ "rm_scores" \in Cols(8) <=> Due("rm")
      /\ "token_level_scores" \notin Cols(8) /\ "token_level_rewards" \notin Cols(8)
      /\ "advantages" \notin Cols(8) /\ "returns" \notin Cols(8)
  BY <1>1, ColumnsAre
<1>3. /\ Due("baseline") <=> config.adv = "remax"
      /\ Due("ref") <=> config.useRef
      /\ Due("rm") <=> config.useRm
  BY DEF Due
<1> QED BY <1>2, <1>3 DEF Column8

\* The reward is of the row's own response, whatever it is taken from.
LEMMA RewardedIs ==
  ASSUME NEW b, NEW x, DOMAIN b = Cols(8), b.input_ids = x, Owned(b, x)
  PROVE  Scored(Rewarded(b), b, x)
<1> DEFINE own == IF config.useRm THEN b.rm_scores ELSE b.input_ids
           score == <<b.data, own>>
           kl == IF ~ config.useKlLoss /\ config.useRef THEN {b.old_log_probs, b.ref_log_prob} ELSE {}
           more == [token_level_scores |-> score, token_level_rewards |-> {score[2]} \cup kl]
           row == Rewarded(b)
           K == Cols(8)
<1>1. row = With(b, more)
  BY DEF Rewarded
<1>2. Column8
  BY Column8Is
<1>3. own = x
  <2>1. CASE config.useRm
    <3>1. b.rm_scores = x
      BY <1>2, <2>1 DEF Owned, Column8
    <3> QED BY <2>1, <3>1
  <2>2. CASE ~ config.useRm
    BY <2>2
  <2> QED BY <2>1, <2>2
<1>4. b.data = x[1]
  BY DEF Owned
<1>5. kl \subseteq {x}
  <2>1. b.old_log_probs = x
    BY <1>2 DEF Owned, Column8
  <2>2. config.useRef => b.ref_log_prob = x
    BY <1>2 DEF Owned, Column8
  <2> QED BY <2>1, <2>2
<1> HIDE DEF own, kl
<1>6. more = [token_level_scores |-> <<x[1], x>>, token_level_rewards |-> {x}]
  <2>1. score = <<x[1], x>> /\ score[2] = x
    BY <1>3, <1>4
  <2>2. {x} \cup kl = {x}
    BY <1>5
  <2> QED BY <2>1, <2>2
<1> HIDE DEF more, row
<1>7. DOMAIN more = {"token_level_scores", "token_level_rewards"}
  BY <1>6
<1>8. row = [c \in K \cup {"token_level_scores", "token_level_rewards"} |-> IF c \in K THEN b[c] ELSE more[c]]
  BY <1>1, <1>7 DEF With
<1>9. "token_level_scores" \notin K /\ "token_level_rewards" \notin K
  BY <1>2 DEF Column8
<1> HIDE DEF K
<1>10. /\ DOMAIN row = K \cup {"token_level_scores", "token_level_rewards"}
       /\ \A c \in K : row[c] = b[c]
       /\ row.token_level_scores = <<x[1], x>> /\ row.token_level_rewards = {x}
  <2>1. row.token_level_scores = more.token_level_scores /\ row.token_level_rewards = more.token_level_rewards
    BY <1>8, <1>9
  <2> QED BY <1>6, <1>8, <2>1
<1> QED BY <1>10 DEF Scored, row, K

\* Rows of all responses with rewards of their own.
AllRewarded(rows, N) ==
  /\ rows = [j \in 1..N |-> rows[j]]
  /\ \A j \in 1..N : /\ rows[j].input_ids \in Responses
                     /\ rows[j].uid = rows[j].input_ids[1]
                     /\ rows[j].token_level_rewards = {rows[j].input_ids}
  /\ \A y \in Responses : \E j \in 1..N : rows[j].input_ids = y

\* The rewards of a prompt's rows are of its n responses.
IsGroup(rows, p) ==
  UNION {r.token_level_rewards : r \in {q \in ToSet(rows) : q.uid = p}} = {p} \X (1..config.n)

\* The responses of one prompt are a group.
LEMMA GroupIs ==
  ASSUME NEW N, NEW rows, AllRewarded(rows, N), NEW x \in Responses
  PROVE  IsGroup(rows, x[1])
<1> DEFINE S == {q \in ToSet(rows) : q.uid = x[1]}
           U == UNION {r.token_level_rewards : r \in S}
           H == {x[1]} \X (1..config.n)
<1>0. /\ rows = [j \in 1..N |-> rows[j]]
      /\ \A j \in 1..N : /\ rows[j].input_ids \in Responses
                         /\ rows[j].uid = rows[j].input_ids[1]
                         /\ rows[j].token_level_rewards = {rows[j].input_ids}
      /\ \A y \in Responses : \E j \in 1..N : rows[j].input_ids = y
  BY DEF AllRewarded
<1>1. ToSet(rows) = {rows[j] : j \in 1..N}
  <2>1. DOMAIN rows = 1..N
    BY <1>0
  <2> QED BY <2>1 DEF ToSet
<1>2. ASSUME NEW y \in U PROVE y \in H
  <2>1. PICK r \in S : y \in r.token_level_rewards
    OBVIOUS
  <2>2. PICK j \in 1..N : r = rows[j]
    BY <1>1
  <2>3. y = r.input_ids /\ r.uid = x[1] /\ r.uid = r.input_ids[1] /\ y \in Responses
    BY <1>0, <2>1, <2>2
  <2> HIDE DEF S, U
  <2>4. y[1] = x[1] /\ \E k \in 1..config.n : y = <<y[1], k>>
    <3>1. PICK p \in 1..config.prompts, k \in 1..config.n : y = <<p, k>>
      BY <2>3 DEF Responses
    <3> QED BY <2>3, <3>1
  <2> QED BY <2>4
<1>3. ASSUME NEW y \in H PROVE y \in U
  <2>1. PICK k \in 1..config.n : y = <<x[1], k>>
    OBVIOUS
  <2>2. x[1] \in 1..config.prompts
    BY DEF Responses
  <2>3. y \in Responses /\ y[1] = x[1]
    BY <2>1, <2>2 DEF Responses
  <2>4. PICK j \in 1..N : rows[j].input_ids = y
    BY <1>0, <2>3
  <2>5. rows[j] \in S
    BY <1>0, <1>1, <2>3, <2>4
  <2>6. y \in rows[j].token_level_rewards
    BY <1>0, <2>4
  <2> HIDE DEF S
  <2> QED BY <2>5, <2>6
<1> HIDE DEF U, H
<1>4. U = H
  BY <1>2, <1>3
<1> QED BY <1>4 DEF IsGroup, U, H, S

\* The advantages are computed.
LEMMA ComputeAdvantageKeeps ==
  ASSUME IInv, ComputeAdvantage
  PROVE  IInv' /\ SameResponses
<1> DEFINE N == Size
           rows == [i \in DOMAIN batch |-> Rewarded(batch[i])]
           new == [i \in DOMAIN rows |-> With(rows[i], Advantages(rows, rows[i]))]
<1>0. stage = Order[8] /\ stage = "advantage" /\ 8 \in 1..12 /\ 8 \in 1..11
  BY OrderIs DEF ComputeAdvantage
<1>1. /\ chunks' = chunks /\ config' = config /\ lens' = lens /\ gen' = gen
      /\ batch' = new /\ stage' = Following
  BY DEF ComputeAdvantage
<1>2. chunks = <<>>
  BY <1>0 DEF IInv, Calling, Remote
<1>3. Holding(batch, gen, 8) /\ Sized
  BY <1>0, StageIs
<1>4. /\ batch = [j \in 1..N |-> batch[j]]
      /\ \A j \in 1..N :
           /\ DOMAIN batch[j] = Cols(8) /\ batch[j].input_ids \in Responses
           /\ Owned(batch[j], batch[j].input_ids)
      /\ \A a, b \in 1..N : batch[a].input_ids = batch[b].input_ids => a = b
      /\ \A x \in Responses : \E j \in 1..N : batch[j].input_ids = x
      /\ Gens(gen, 8) /\ Due(Order[8])
  <2>1. 3 < 8
    OBVIOUS
  <2> QED BY <1>3, <2>1 DEF Holding, Aligned
<1>5. Column8
  BY Column8Is
<1> HIDE DEF N
<1>6. DOMAIN batch = 1..N
  BY <1>4
<1>7. rows = [j \in 1..N |-> Rewarded(batch[j])]
  BY <1>6
<1>8. new = [j \in 1..N |-> With(rows[j], Advantages(rows, rows[j]))]
  BY <1>7
<1> HIDE DEF rows, new
<1>9. ASSUME NEW j \in 1..N
      PROVE  Scored(rows[j], batch[j], batch[j].input_ids)
  <2> DEFINE b == batch[j]
             x == b.input_ids
  <2>1. DOMAIN b = Cols(8) /\ Owned(b, x)
    BY <1>4
  <2> HIDE DEF b
  <2>2. Scored(Rewarded(b), b, x)
    BY <2>1, RewardedIs
  <2> QED BY <1>7, <2>2 DEF b
<1>10. ASSUME NEW j \in 1..N
       PROVE  /\ rows[j].input_ids = batch[j].input_ids /\ rows[j].input_ids \in Responses
              /\ rows[j].uid = rows[j].input_ids[1]
              /\ rows[j].token_level_rewards = {rows[j].input_ids}
  <2>1. Scored(rows[j], batch[j], batch[j].input_ids)
    BY <1>9
  <2>2. rows[j].input_ids = batch[j].input_ids /\ rows[j].uid = batch[j].uid
    BY <1>5, <2>1 DEF Scored, Column8
  <2>3. batch[j].uid = batch[j].input_ids[1]
    BY <1>4 DEF Owned
  <2> QED BY <1>4, <2>1, <2>2, <2>3 DEF Scored
<1>11. PICK m : Leads(8, m)
  BY <1>0, SomethingFollows
<1>12. m \in 9..12 /\ Due(Order[m]) /\ Following = Order[m]
  BY <1>11 DEF Leads
<1>13. Cols(m) = Cols(8) \cup {"token_level_scores", "token_level_rewards", "advantages", "returns"}
  <2>1. Gives(Order[8]) = {"token_level_scores", "token_level_rewards", "advantages", "returns"}
    BY OrderIs DEF Gives
  <2> QED BY <1>0, <1>4, <1>11, <2>1, ColsGrow
<1>14. ASSUME NEW j \in 1..N
       PROVE  /\ DOMAIN new[j] = Cols(m) /\ new[j].input_ids = batch[j].input_ids
              /\ Owned(new[j], batch[j].input_ids) /\ Grouped(new[j])
  <2> DEFINE x == batch[j].input_ids
             b == batch[j]
             r == rows[j]
             o == Advantages(rows, r)
             w == new[j]
             K == Cols(8)
             group == UNION {q.token_level_rewards : q \in {s \in ToSet(rows) : s.uid = r.uid}}
  <2>1. w = With(r, o) /\ Scored(r, b, x) /\ Owned(b, x) /\ DOMAIN b = K /\ x \in Responses
    BY <1>4, <1>8, <1>9
  <2>2. /\ DOMAIN r = K \cup {"token_level_scores", "token_level_rewards"}
        /\ \A c \in K : r[c] = b[c]
        /\ r.token_level_scores = <<x[1], x>> /\ r.token_level_rewards = {x}
    BY <2>1 DEF Scored
  <2>3. r.uid = x[1]
    BY <1>10
  <2>4. group = {x[1]} \X (1..config.n)
    <3>1. rows = [i \in 1..N |-> rows[i]]
      BY <1>7
    <3>2. \A y \in Responses : \E i \in 1..N : rows[i].input_ids = y
      BY <1>4, <1>10
    <3>3. \A i \in 1..N : /\ rows[i].input_ids \in Responses
                          /\ rows[i].uid = rows[i].input_ids[1]
                          /\ rows[i].token_level_rewards = {rows[i].input_ids}
      BY <1>10
    <3> HIDE DEF x, r
    <3>4. AllRewarded(rows, N)
      BY <3>1, <3>2, <3>3 DEF AllRewarded
    <3>5. IsGroup(rows, x[1])
      BY <2>1, <3>4, GroupIs
    <3> QED BY <2>3, <3>5 DEF IsGroup
  <2>5. /\ DOMAIN o = {"advantages", "returns"}
        /\ config.adv = "grpo" => o.advantages = group
        /\ config.adv = "remax" => o.advantages = r.token_level_rewards \cup {r.reward_baselines[2]}
    <3>1. CASE config.adv = "grpo"
      <4>1. o = [advantages |-> group, returns |-> group]
        BY <3>1 DEF Advantages
      <4> HIDE DEF o, group
      <4> QED BY <3>1, <4>1
    <3>2. CASE config.adv = "remax"
      <4>1. o = [advantages |-> r.token_level_rewards \cup {r.reward_baselines[2]},
                 returns |-> r.token_level_rewards]
        BY <3>2 DEF Advantages
      <4> HIDE DEF o, group, r
      <4> QED BY <3>2, <4>1
    <3>3. CASE config.adv # "grpo" /\ config.adv # "remax"
      <4> DEFINE all == UNION {q.token_level_rewards : q \in ToSet(rows)}
      <4>1. \/ o = [advantages |-> all, returns |-> r.token_level_rewards \cup {r.values.of}]
            \/ o = [advantages |-> all, returns |-> r.token_level_rewards]
        BY <3>3 DEF Advantages
      <4> HIDE DEF o, group, r, all
      <4>2. DOMAIN o = {"advantages", "returns"}
        BY <4>1
      <4> QED BY <3>3, <4>2
    <3> QED BY <3>1, <3>2, <3>3
  <2> HIDE DEF x, b, r, o, w, group
  <2>6. /\ DOMAIN w = Cols(m)
        /\ \A c \in K : w[c] = b[c]
        /\ w.token_level_scores = <<x[1], x>> /\ w.token_level_rewards = {x}
        /\ w.advantages = o.advantages
    <3>1. K \cap {"token_level_scores", "token_level_rewards", "advantages", "returns"} = {}
      BY <1>5 DEF Column8
    <3> DEFINE R == DOMAIN r
               D == DOMAIN o
    <3>2. w = [c \in R \cup D |-> IF c \in R THEN r[c] ELSE o[c]]
      BY <2>1 DEF With
    <3>3. R = K \cup {"token_level_scores", "token_level_rewards"} /\ D = {"advantages", "returns"}
      BY <2>2, <2>5
    <3> HIDE DEF R, D, K
    <3>4. R \cup D = Cols(m) /\ "advantages" \notin R /\ "advantages" \in D /\ K \subseteq R
          /\ "token_level_scores" \in R /\ "token_level_rewards" \in R
      BY <1>13, <3>1, <3>3 DEF K
    <3>5. DOMAIN w = Cols(m) /\ (\A c \in R : w[c] = r[c]) /\ w.advantages = o.advantages
      BY <3>2, <3>4
    <3>6. \A c \in K : w[c] = b[c]
      BY <2>2, <3>4, <3>5 DEF K
    <3>7. w.token_level_scores = r.token_level_scores /\ w.token_level_rewards = r.token_level_rewards
      BY <3>4, <3>5
    <3> QED BY <2>2, <3>5, <3>6, <3>7 DEF K
  <2>7. w.input_ids = x /\ w.data = x[1] /\ w.uid = x[1]
    <3>1. b.input_ids = x
      BY DEF b, x
    <3> QED BY <1>5, <2>1, <2>6, <3>1 DEF Column8, Owned
  <2>8. \A c \in {"old_log_probs", "ref_log_prob", "rm_scores"} \cap DOMAIN w : w[c] = x
    <3> SUFFICES ASSUME NEW c \in {"old_log_probs", "ref_log_prob", "rm_scores"}, c \in DOMAIN w
                 PROVE  w[c] = x
      OBVIOUS
    <3>1. c \in K
      BY <1>13, <2>6
    <3>2. b[c] = x
      BY <2>1, <3>1 DEF Owned
    <3> QED BY <2>6, <3>1, <3>2
  <2>9. "values" \in DOMAIN w => OwnValues(w.values, x)
    <3> SUFFICES ASSUME "values" \in DOMAIN w PROVE OwnValues(w.values, x)
      OBVIOUS
    <3>1. "values" \in K
      BY <1>13, <2>6
    <3>2. OwnValues(b.values, x)
      BY <2>1, <3>1 DEF Owned
    <3> QED BY <2>6, <3>1, <3>2
  <2>10. "reward_baselines" \in DOMAIN w => w.reward_baselines = <<x[1], Greedy(x[1])>>
    <3> SUFFICES ASSUME "reward_baselines" \in DOMAIN w
                 PROVE  w.reward_baselines = <<x[1], Greedy(x[1])>>
      OBVIOUS
    <3>1. "reward_baselines" \in K
      BY <1>13, <2>6
    <3>2. b.reward_baselines = <<x[1], Greedy(x[1])>>
      BY <2>1, <3>1 DEF Owned
    <3> QED BY <2>6, <3>1, <3>2
  <2>11. Owned(w, x)
    BY <2>6, <2>7, <2>8, <2>9, <2>10 DEF Owned
  <2>12. Grouped(w)
    <3>1. config.adv = "grpo" => w.advantages = {x[1]} \X (1..config.n)
      BY <2>4, <2>5, <2>6
    <3>2. ASSUME config.adv = "remax" PROVE w.advantages = {x, Greedy(x[1])}
      <4>1. "reward_baselines" \in K
        BY <1>5, <3>2 DEF Column8
      <4>2. b.reward_baselines = <<x[1], Greedy(x[1])>>
        BY <2>1, <4>1 DEF Owned
      <4>3. r.reward_baselines[2] = Greedy(x[1])
        BY <2>2, <4>1, <4>2
      <4> QED BY <2>2, <2>5, <2>6, <3>2, <4>3
    <3> QED BY <2>7, <3>1, <3>2 DEF Grouped
  <2> QED BY <2>6, <2>7, <2>11, <2>12 DEF w, x
<1>15. Aligned(new, m)
  <2>1. new = [j \in 1..N |-> new[j]]
    BY <1>8
  <2>2. \A j \in 1..N :
          /\ DOMAIN new[j] = Cols(m) /\ new[j].input_ids \in Responses
          /\ Owned(new[j], new[j].input_ids) /\ Grouped(new[j])
    BY <1>4, <1>14
  <2>3. \A a, b \in 1..N : new[a].input_ids = new[b].input_ids => a = b
    BY <1>4, <1>14
  <2>4. \A x \in Responses : \E j \in 1..N : new[j].input_ids = x
    BY <1>4, <1>14
  <2> QED BY <2>1, <2>2, <2>3, <2>4 DEF Aligned, N
<1>16. Holding(new, gen, m)
  <2>1. m \in 1..12 /\ 3 < m /\ ~ (m <= 3)
    BY <1>12
  <2>2. Gens(gen, m)
    BY <1>4 DEF Gens
  <2> QED BY <1>12, <1>15, <2>1, <2>2 DEF Holding
<1>17. SameResponses
  <2>1. new = [j \in 1..N |-> new[j]] /\ \A j \in 1..N : new[j].input_ids = batch[j].input_ids
    BY <1>8, <1>14
  <2> QED BY <1>1, <1>4, <2>1 DEF SameResponses, N
<1> QED BY <1>1, <1>2, <1>12, <1>16, <1>17, StepKeeps

-----------------------------------------------------------------------------
(* The updates, the validation and the calls. *)

\* Behind the advantages the batch stays as it is.
LEMMA PassBy ==
  ASSUME NEW k \in 9..11, stage = Order[k], Holding(batch, gen, k)
  PROVE  \E m : Holding(batch, gen, m) /\ Following = Order[m]
<1>1. k \in 1..11 /\ 3 < k /\ 8 < k
  OBVIOUS
<1>2. PICK m : Leads(k, m)
  BY <1>1, SomethingFollows
<1>3. m \in 10..12 /\ Due(Order[m]) /\ Following = Order[m]
  BY <1>2 DEF Leads
<1>4. Aligned(batch, k) /\ Gens(gen, k) /\ Due(Order[k])
  BY <1>1 DEF Holding
<1>5. Cols(m) = Cols(k)
  <2>1. k = 9 \/ k = 10 \/ k = 11
    OBVIOUS
  <2>2. Gives(Order[k]) = {}
    BY <2>1, OrderIs DEF Gives
  <2>3. Cols(m) = Cols(k) \cup Gives(Order[k])
    BY <1>1, <1>2, <1>4, ColsGrow
  <2> QED BY <2>2, <2>3
<1>6. Aligned(batch, m)
  BY <1>1, <1>3, <1>4, <1>5 DEF Aligned
<1>7. Gens(gen, m)
  BY <1>1, <1>4 DEF Gens
<1>8. Holding(batch, gen, m)
  <2>1. m \in 1..12 /\ 3 < m /\ ~ (m <= 3)
    BY <1>3
  <2> QED BY <1>3, <1>6, <1>7, <2>1 DEF Holding
<1> QED BY <1>3, <1>8

\* An update is collected.
LEMMA CollectUpdateKeeps ==
  ASSUME IInv, CollectUpdate
  PROVE  IInv'
<1>1. /\ chunks' = <<>> /\ config' = config /\ lens' = lens /\ gen' = gen /\ batch' = batch
      /\ stage' = Following
  BY DEF CollectUpdate, Collect
<1>2. PICK k \in 9..11 : stage = Order[k]
  <2>1. stage = Order[9] \/ stage = Order[10]
    BY OrderIs DEF CollectUpdate, Updates
  <2>2. 9 \in 9..11 /\ 10 \in 9..11
    OBVIOUS
  <2> QED BY <2>1, <2>2
<1>3. Holding(batch, gen, k)
  <2>1. k \in 1..12
    OBVIOUS
  <2> QED BY <1>2, <2>1, StageIs
<1>4. PICK m : Holding(batch, gen, m) /\ Following = Order[m]
  BY <1>2, <1>3, PassBy
<1> QED BY <1>1, <1>4, StepKeeps

\* The rows of the validation with their padding.
PaddedRows == Pad([i \in 1..config.validation |-> [input_ids |-> <<i, 0>>]], config.world)

\* There are as many as the ranks can share.
PaddedIs ==
  /\ config.validation \in Nat \ {0} /\ config.world \in Nat \ {0}
  /\ Padding \in Nat /\ config.validation + Padding = CeilDiv(config.validation, config.world) * config.world
  /\ PaddedRows = [j \in 1..(config.validation + Padding) |->
                    [input_ids |-> <<((j - 1) % config.validation) + 1, 0>>]]
  /\ CanChunk(PaddedRows, config.world)

\* Padding is what is missing to the next multiple.
LEMMA PaddingIs ==
  ASSUME Sized, config.validation > 0
  PROVE  PaddedIs
<1> DEFINE v == config.validation
           W == config.world
           q == CeilDiv(v, W)
           z == q * W
           V == [i \in 1..v |-> [input_ids |-> <<i, 0>>]]
<1>1. v \in Nat \ {0} /\ W \in Nat \ {0}
  BY DEF Sized
<1>2. Covers(v, W, q)
  BY <1>1, CeilDivIs
<1>3. Padding = z - v
  BY DEF Padding
<1>4. PaddedRows = [j \in 1..(CeilDiv(Len(V), W) * W) |-> V[((j - 1) % Len(V)) + 1]]
  BY DEF PaddedRows, Pad
<1> HIDE DEF v, W, q
<1>5. q \in Nat /\ z \in Nat /\ v <= z
  BY <1>1, <1>2 DEF Covers
<1>6. Len(V) = v
  BY <1>1
<1> HIDE DEF V
<1>7. PaddedRows = [j \in 1..z |-> V[((j - 1) % v) + 1]]
  BY <1>4, <1>6 DEF q
<1>8. Padding \in Nat /\ v + Padding = z
  <2> HIDE DEF z
  <2> QED BY <1>1, <1>3, <1>5
<1>9. z % W = 0
  <2>1. 0 \in 0..(W - 1)
    BY <1>1
  <2>2. (W * q + 0) % W = 0
    BY <1>1, <1>5, <2>1, DivisionIsUnique
  <2>3. W * q + 0 = z
    BY <1>1, <1>5
  <2> QED BY <2>2, <2>3
<1> HIDE DEF z
<1>10. PaddedRows = [j \in 1..z |-> [input_ids |-> <<((j - 1) % v) + 1, 0>>]]
  <2>1. ASSUME NEW j \in 1..z PROVE V[((j - 1) % v) + 1] = [input_ids |-> <<((j - 1) % v) + 1, 0>>]
    <3> DEFINE t == (j - 1) % v
    <3>1. j - 1 \in Nat
      BY <1>5
    <3>2. t \in 0..(v - 1)
      BY <1>1, <3>1, Division
    <3> HIDE DEF t
    <3>3. t + 1 \in 1..v
      BY <1>1, <3>2
    <3>4. V[t + 1] = [input_ids |-> <<t + 1, 0>>]
      BY <3>3 DEF V
    <3> QED BY <3>4 DEF t
  <2> QED BY <1>7, <2>1
<1>11. CanChunk(PaddedRows, W)
  <2>1. Len(PaddedRows) = z
    BY <1>5, <1>7
  <2> QED BY <1>9, <2>1 DEF CanChunk
<1> QED BY <1>1, <1>8, <1>10, <1>11 DEF PaddedIs, v, W, z, q

\* The answers for the validation without those for the padding.
LEMMA ValidationAnswered ==
  ASSUME IInv, Sized, stage = "validate", Due(stage), chunks # <<>>
  PROVE  Unpad(Answer([r \in Ranks |-> Generated(r)]), Padding) =
         [j \in 1..config.validation |-> [input_ids |-> Greedy(j)]]
<1> DEFINE v == config.validation
           W == config.world
           z == v + Padding
           X == {PaddedRows[j] : j \in 1..z}
           m == Len(PaddedRows) \div W
           c == Answer([r \in Ranks |-> Generated(r)])
           rows == Unpad(c, Padding)
<1>0. v > 0
  BY DEF Due
<1>1. /\ v \in Nat \ {0} /\ W \in Nat \ {0} /\ Padding \in Nat
      /\ PaddedRows = [j \in 1..z |-> [input_ids |-> <<((j - 1) % v) + 1, 0>>]]
      /\ CanChunk(PaddedRows, W)
  BY <1>0, PaddingIs DEF PaddedIs
<1>2. chunks = Chunk(PaddedRows, W)
  BY DEF IInv, Calling, Sent, PaddedRows
<1> HIDE DEF c
<1>3. z \in Nat
  BY <1>1
<1> HIDE DEF z, v, W
<1>4. PaddedRows \in Seq(X) /\ Len(PaddedRows) = z
  <2>1. PaddedRows = [j \in 1..z |-> PaddedRows[j]] /\ \A j \in 1..z : PaddedRows[j] \in X
    BY <1>1
  <2> HIDE DEF X
  <2> QED BY <1>3, <2>1
<1> HIDE DEF X
<1>5. IsChunked(X, PaddedRows, W, m)
  BY <1>1, <1>2, <1>4, ChunksFit
<1>6. W * m = z
  BY <1>4, <1>5 DEF IsChunked
<1> HIDE DEF m
<1>7. Responded(c, PaddedRows, config.world * m)
  BY <1>5, GeneratedIs DEF W, c
<1>8. PerPrompt = 1 /\ \A j : Number(j) = config.n + 1
  BY DEF PerPrompt, Number
<1>9. c = [j \in 1..(z * 1) |->
            [input_ids |-> <<PaddedRows[((j - 1) \div 1) + 1].input_ids[1], config.n + 1>>]]
  <2>1. Responded(c, PaddedRows, z)
    BY <1>6, <1>7 DEF W
  <2> QED BY <1>8, <2>1 DEF Responded
<1>10. c = [j \in 1..z |-> [input_ids |-> <<((j - 1) % v) + 1, config.n + 1>>]]
  <2>1. z * 1 = z
    BY <1>3
  <2>2. ASSUME NEW j \in 1..z
        PROVE  PaddedRows[((j - 1) \div 1) + 1].input_ids[1] = ((j - 1) % v) + 1
    <3>1. ((j - 1) \div 1) + 1 = j
      BY <1>3
    <3> QED BY <1>1, <3>1
  <2> QED BY <1>9, <2>1, <2>2
<1>11. rows = SubSeq(c, 1, v) /\ Len(c) = z
  <2>1. Len(c) = z
    BY <1>3, <1>10
  <2>2. z - Padding = v /\ z = v + Padding
    BY <1>1 DEF z
  <2> QED BY <2>1, <2>2 DEF Unpad
<1> DEFINE Y == {c[j] : j \in 1..z}
<1>12. c \in Seq(Y)
  <2>1. c = [j \in 1..z |-> c[j]] /\ \A j \in 1..z : c[j] \in Y
    BY <1>10
  <2> HIDE DEF Y
  <2> QED BY <1>3, <2>1
<1> HIDE DEF Y, rows
<1>13. rows \in Seq(Y) /\ Len(rows) = v /\ \A j \in 1..v : rows[j] = c[j]
  <2>1. v <= z
    BY <1>1 DEF z
  <2>2. SubSeq(c, 1, v) = SubSeq(c, 0 + 1, 0 + v)
    BY <1>1
  <2>3. rows \in Seq(Y) /\ Len(rows) = v /\ \A j \in 1..v : rows[j] = c[0 + j]
    <3>1. 0 + 1 \in 1..(Len(c) + 1) /\ 0 + v \in 0..Len(c)
      BY <1>1, <1>3, <1>11, <2>1
    <3> QED BY <1>1, <1>3, <1>11, <1>12, <2>1, <2>2, <3>1, SubSeqProperties
  <2>4. \A j \in 1..v : 0 + j = j
    OBVIOUS
  <2> QED BY <2>3, <2>4
<1>14. ASSUME NEW j \in 1..v PROVE rows[j] = [input_ids |-> <<j, config.n + 1>>]
  <2>1. j \in 1..z
    BY <1>1 DEF z
  <2>2. ((j - 1) % v) + 1 = j
    <3> DEFINE a == j - 1
    <3>1. a \in 0..(v - 1) /\ a + 1 = j
      BY <1>1
    <3> HIDE DEF a
    <3>2. (v * 0 + a) % v = a /\ v * 0 + a = a
      BY <1>1, <3>1, DivisionIsUnique
    <3> QED BY <3>1, <3>2 DEF a
  <2> QED BY <1>10, <1>13, <2>1, <2>2
<1>15. rows = [j \in 1..v |-> rows[j]]
  <2>1. DOMAIN rows = 1..v /\ rows \in [1..v -> Y]
    BY <1>13, LenProperties
  <2> QED BY <2>1
<1>16. rows = [j \in 1..v |-> [input_ids |-> <<j, config.n + 1>>]]
  BY <1>14, <1>15
<1> QED BY <1>16 DEF Greedy, rows, c, v

\* The validation is collected, and its rows have their scores.
LEMMA CollectValidationKeeps ==
  ASSUME IInv, CollectValidation
  PROVE  IInv' /\ scores' = [i \in 1..config.validation |-> <<i, Greedy(i)>>]
<1> DEFINE v == config.validation
           rows == Unpad(Answer([r \in Ranks |-> Generated(r)]), Padding)
           G == [j \in 1..v |-> [input_ids |-> Greedy(j)]]
<1>0. stage = Order[11] /\ stage = "validate" /\ 11 \in 1..12 /\ 11 \in 9..11
  BY OrderIs DEF CollectValidation
<1>1. /\ chunks # <<>> /\ chunks' = <<>> /\ config' = config /\ lens' = lens
      /\ gen' = gen /\ batch' = batch
      /\ IF CanUnion(Validated, rows)
         THEN /\ scores' = [i \in DOMAIN rows |-> <<Validated[i].data, rows[i].input_ids>>]
              /\ stage' = Following
         ELSE stage' = "failed" /\ UNCHANGED scores
  BY DEF CollectValidation, Collect
<1>2. Holding(batch, gen, 11) /\ Sized
  BY <1>0, StageIs
<1>3. Due(stage)
  BY <1>0, <1>2 DEF Holding
<1>4. v \in Nat
  BY <1>2 DEF Sized
<1>5. rows = G
  BY <1>0, <1>1, <1>2, <1>3, ValidationAnswered
<1>6. Validated = [i \in 1..v |-> [data |-> i]]
  BY DEF Validated
<1> HIDE DEF rows
<1>7. CanUnion(Validated, rows)
  <2>1. Len(Validated) = v /\ Len(rows) = v /\ DOMAIN Validated = 1..v
    BY <1>4, <1>5, <1>6
  <2>2. ASSUME NEW i \in 1..v PROVE DOMAIN Validated[i] \cap DOMAIN rows[i] = {}
    <3>1. DOMAIN Validated[i] = {"data"} /\ DOMAIN rows[i] = {"input_ids"}
      BY <1>5, <1>6
    <3> QED BY <3>1
  <2> QED BY <2>1, <2>2 DEF CanUnion
<1>8. scores' = [i \in 1..v |-> <<i, Greedy(i)>>]
  <2>1. scores' = [i \in DOMAIN rows |-> <<Validated[i].data, rows[i].input_ids>>]
    BY <1>1, <1>7
  <2> QED BY <1>5, <1>6, <2>1
<1>9. PICK m : Holding(batch, gen, m) /\ Following = Order[m]
  BY <1>0, <1>2, PassBy
<1>10. IInv'
  BY <1>1, <1>7, <1>9, StepKeeps
<1> QED BY <1>8, <1>10

\* A call is sent, or it cannot be as the prompts do not divide.
LEMMA DispatchKeeps ==
  ASSUME IInv, Dispatch
  PROVE  IInv'
<1>1. /\ stage \in Remote /\ config' = config /\ lens' = lens /\ batch' = batch /\ gen' = gen
      /\ chunks = <<>>
      /\ IF CanChunk(Sent, config.world)
         THEN /\ chunks' = Chunk(Sent, config.world)
              /\ UNCHANGED stage
         ELSE stage' = "failed" /\ UNCHANGED chunks
  BY DEF Dispatch
<1>2. PICK i : stage \in {Order[i], "failed"} /\ Holding(batch, gen, i)
  BY DEF IInv
<1>3. stage # "failed" /\ stage = Order[i]
  BY <1>1, <1>2 DEF Remote
<1>4. i \in 1..12
  BY <1>2 DEF Holding
<1>5. CASE CanChunk(Sent, config.world)
  <2>1. Holding(batch, gen, i)'
    BY <1>1, <1>2, HoldingStays
  <2>2. HasLengths'
    BY <1>1 DEF IInv, HasLengths, Responses
  <2>3. Sent' = Sent
    BY <1>1, <1>5 DEF Sent
  <2>4. Calling'
    <3>1. CanChunk(Sent, config.world)'
      BY <1>1, <1>5, <2>3 DEF CanChunk
    <3>2. chunks' = Chunk(Sent', config'.world)
      BY <1>1, <1>5, <2>3
    <3>3. (stage \in Remote)'
      BY <1>1, <1>5 DEF Remote, Stages, Order
    <3> QED BY <3>1, <3>2, <3>3 DEF Calling, Chunk
  <2>5. (\E k : stage \in {Order[k], "failed"} /\ Holding(batch, gen, k))'
    <3>1. stage' = Order[i]'
      BY <1>1, <1>3, <1>5 DEF Order
    <3> QED BY <2>1, <3>1
  <2>6. stage' # "failed"
    BY <1>1, <1>3, <1>5
  <2> QED BY <2>2, <2>4, <2>5, <2>6 DEF IInv
<1>6. CASE ~ CanChunk(Sent, config.world)
  <2>1. chunks' = <<>> /\ stage' = "failed"
    BY <1>1, <1>6
  <2>2. Sized
    BY <1>3, <1>4, StageIs
  <2>3. BadSizes
    <3>1. CASE stage \in {"generate", "baseline"}
      <4>1. Sent = Prompts
        BY <1>2, <3>1 DEF Sent, Holding, Gens
      <4>2. Len(Prompts) = config.prompts
        <5> DEFINE P == config.prompts
        <5>1. P \in Nat /\ Prompts = [j \in 1..P |-> [input_ids |-> <<j, 0>>]]
          BY <2>2 DEF Sized, Prompts
        <5> HIDE DEF P
        <5>2. Len(Prompts) = P
          BY <5>1
        <5> QED BY <5>2 DEF P
      <4>3. config.prompts % config.world # 0
        BY <1>6, <4>1, <4>2 DEF CanChunk
      <4> QED BY <4>3 DEF BadSizes
    <3>2. CASE stage = "validate"
      <4>1. Due(stage)
        BY <1>2, <1>3 DEF Holding
      <4>2. config.validation > 0
        BY <3>2, <4>1 DEF Due
      <4>3. CanChunk(PaddedRows, config.world)
        BY <2>2, <4>2, PaddingIs DEF PaddedIs
      <4>4. Sent = PaddedRows
        BY <3>2 DEF Sent, PaddedRows
      <4> QED BY <1>6, <4>3, <4>4
    <3>3. CASE stage \notin {"generate", "baseline", "validate"}
      <4>1. Sent = batch
        BY <3>3 DEF Sent
      <4>2. 3 < i
        <5>1. i # 1 /\ i # 2
          BY <1>3, <3>3, OrderIs
        <5>2. i # 3
          BY <1>1, <1>3, OrderIs DEF Remote
        <5> QED BY <1>4, <5>1, <5>2
      <4>3. batch = [j \in 1..Size |-> batch[j]]
        BY <1>2, <4>2 DEF Holding, Aligned
      <4>4. Len(batch) = Size
        <5> DEFINE N == Size
        <5>1. N \in Nat
          BY <2>2, AllResponsesAre DEF ResponsesComplete
        <5> HIDE DEF N
        <5>2. batch = [j \in 1..N |-> batch[j]]
          BY <4>3 DEF N
        <5>3. Len(batch) = N
          BY <5>1, <5>2
        <5> QED BY <5>3 DEF N
      <4>5. Size % config.world = 0
        BY <2>2 DEF Sized, Size
      <4> QED BY <1>6, <4>1, <4>4, <4>5 DEF CanChunk
    <3> QED BY <3>1, <3>2, <3>3
  <2> QED BY <1>1, <1>2, <2>1, <2>3, StepKeeps
<1> QED BY <1>5, <1>6

-----------------------------------------------------------------------------
(* The mini-batches, and why a rank may raise. *)

\* The i-th piece of split, and its length.
SplitPiece(rows, size, i) ==
  /\ (i - 1) * size \in Nat /\ (i - 1) * size < Len(rows)
  /\ Len(Split(rows, size)[i]) = Min({i * size, Len(rows)}) - (i - 1) * size
  /\ Split(rows, size)[i] # <<>>
  /\ \A t \in DOMAIN Split(rows, size)[i] :
       (i - 1) * size + t \in DOMAIN rows /\ Split(rows, size)[i][t] = rows[(i - 1) * size + t]

\* None is empty.
LEMMA SplitPieceIs ==
  ASSUME NEW X, NEW rows \in Seq(X), NEW size \in Nat \ {0}, NEW i \in 1..CeilDiv(Len(rows), size)
  PROVE  SplitPiece(rows, size, i)
<1> DEFINE l == Len(rows)
           k == CeilDiv(l, size)
           lo == (i - 1) * size
           m == i * size
           hi == Min({m, l})
           p == Split(rows, size)[i]
<1>1. l \in Nat /\ DOMAIN rows = 1..l
  BY LenProperties
<1>2. Covers(l, size, k)
  BY <1>1, CeilDivIs
<1>3. p = SubSeq(rows, lo + 1, hi)
  BY DEF Split
<1>4. i \in 1..k
  OBVIOUS
<1> HIDE DEF l, k, p
<1>5. i \in Nat /\ i - 1 \in Nat /\ i = (i - 1) + 1
  BY <1>2, <1>4 DEF Covers
<1>6. lo \in Nat /\ m = lo + size
  BY <1>5
<1>7. lo < l
  <2> DEFINE a == i - 1
  <2>1. a \in Nat /\ ~ (k <= a) /\ \A q \in Nat : l <= q * size => k <= q
    <3>1. k \in Nat /\ i <= k
      BY <1>2, <1>4 DEF Covers
    <3>2. a \in Nat /\ ~ (k <= a)
      BY <1>5, <3>1
    <3>3. \A q \in Nat : l <= q * size => k <= q
      BY <1>2 DEF Covers
    <3> QED BY <3>2, <3>3
  <2> HIDE DEF a
  <2>2. ~ (l <= a * size)
    BY <2>1
  <2>3. a * size \in Nat
    BY <2>1
  <2>4. a * size < l
    <3> DEFINE x == a * size
    <3>1. x \in Nat /\ ~ (l <= x)
      BY <2>2, <2>3
    <3> HIDE DEF x
    <3>2. x < l
      BY <1>1, <3>1
    <3> QED BY <3>2 DEF x
  <2> QED BY <2>4 DEF a
<1> HIDE DEF lo, m
<1>8. hi \in {m, l} /\ hi <= l /\ hi <= m
  <2> DEFINE S == {m, l}
  <2>1. S \subseteq Nat /\ S # {}
    BY <1>1, <1>6
  <2>2. Min(S) \in S /\ \A x \in S : Min(S) <= x
    <3> HIDE DEF S
    <3> QED BY <2>1, MinIsLeast
  <2> QED BY <2>2
<1> HIDE DEF hi
<1>9. hi \in Nat /\ lo < hi /\ hi <= l
  BY <1>1, <1>6, <1>7, <1>8
<1> DEFINE n == hi - lo
<1>10. n \in Nat \ {0} /\ hi = lo + n
  BY <1>6, <1>9
<1> HIDE DEF n
<1>11. p \in Seq(X) /\ Len(p) = n /\ \A t \in 1..n : p[t] = rows[lo + t]
  <2>1. rows \in Seq(X) /\ p = SubSeq(rows, lo + 1, lo + n) /\ lo + n <= Len(rows) /\ Len(rows) \in Nat
    BY <1>1, <1>3, <1>9, <1>10 DEF l
  <2> QED BY <1>6, <1>10, <2>1, SubSeqProperties
<1>12. DOMAIN p = 1..n /\ p # <<>>
  <2>1. DOMAIN p = 1..n
    BY <1>11, LenProperties
  <2>2. 1 \in 1..n /\ 1 \notin DOMAIN <<>>
    BY <1>10
  <2> QED BY <2>1, <2>2
<1>13. \A t \in 1..n : lo + t \in DOMAIN rows
  BY <1>1, <1>6, <1>9, <1>10
<1>14. Len(p) = hi - lo
  BY <1>11 DEF n
<1>15. SplitPiece(rows, size, i)
  BY <1>6, <1>7, <1>11, <1>12, <1>13, <1>14 DEF SplitPiece, lo, m, hi, l, p
<1> QED BY <1>15

\* The ranks have as many mini-batches each, of the same sizes, and together a rank's are the
\* rows of its group.
Level(X, c, ln) ==
  /\ c \in Nat \ {0}
  /\ \A q \in Ranks :
       /\ Minis(q) = [i \in 1..c |-> Minis(q)[i]] /\ Pieces(X, Minis(q), c)
       /\ Joined(Minis(q), c) = Gathered(q, config.sp)
       /\ \A i \in 1..c : Len(Minis(q)[i]) = ln[i]
  /\ \A i \in 1..c : HasRows(X, i)

\* The stages that send the batch.
SendsBatch == stage \in Passes \/ (stage \in Updates /\ MiniSize \in Nat \ {0})

\* So it is in each of them.
LEMMA MinisAreLevel ==
  ASSUME Sized, NEW X, X = {batch[j] : j \in 1..Size}, NEW m, BatchSent(m), SendsBatch
  PROVE  \E c, ln : Level(X, c, ln)
<1> DEFINE W == config.world
           sp == config.sp
           L == sp * m
           g(q) == Gathered(q, sp)
           size == MiniSize
<1>1. /\ IsChunked(X, batch, W, m) /\ m # 0 /\ HaveTokens(batch)
      /\ W \in Nat \ {0} /\ sp \in Nat \ {0} /\ W % sp = 0 /\ m \in Nat /\ batch \in Seq(X)
  BY DEF BatchSent, IsChunked, Sized
<1>2. L \in Nat \ {0}
  BY <1>1
<1>3. ASSUME NEW q \in Ranks
      PROVE  /\ g(q) \in Seq(X) /\ Len(g(q)) = L /\ DOMAIN g(q) = 1..L
             /\ \A i \in 1..L : lens[g(q)[i].input_ids] \in 1..config.width
  <2> DEFINE f == g(q)
             lo == Base(q, sp) * m
  <2>1. q \in 0..(W - 1)
    BY DEF Ranks
  <2>2. GatheredRows(X, batch, m, q, sp)
    BY <1>1, <2>1, GatheredIs
  <2>3. f \in Seq(X) /\ Len(f) = L /\ \A i \in 1..L : lo + i \in 1..Len(batch) /\ f[i] = batch[lo + i]
    BY <2>2 DEF GatheredRows
  <2> HIDE DEF f, lo, L
  <2>4. DOMAIN f = 1..L /\ DOMAIN batch = 1..Len(batch)
    BY <1>1, <2>3, LenProperties
  <2>5. \A i \in 1..L : lens[f[i].input_ids] \in 1..config.width
    BY <1>1, <2>3, <2>4 DEF HaveTokens
  <2> QED BY <2>3, <2>4, <2>5 DEF f
<1> HIDE DEF L
<1>4. CASE stage \in Passes
  <2> DEFINE ln == [i \in 1..1 |-> L]
  <2>1. ASSUME NEW q \in Ranks
        PROVE  Minis(q) = <<g(q)>> /\ g(q) # <<>>
    <3>1. stage \notin Updates
      BY <1>4 DEF Passes, Updates
    <3>2. Minis(q) = <<g(q)>>
      BY <3>1 DEF Minis
    <3> HIDE DEF g
    <3>3. 1 \in DOMAIN g(q) /\ 1 \notin DOMAIN <<>>
      <4>1. 1 \in 1..L
        BY <1>2
      <4>2. DOMAIN g(q) = 1..L
        BY <1>3 DEF g
      <4> QED BY <4>1, <4>2
    <3>4. g(q) # <<>>
      BY <3>3
    <3> QED BY <3>2, <3>4
  <2> HIDE DEF g
  <2>2. ASSUME NEW q \in Ranks
        PROVE  /\ Minis(q) = [i \in 1..1 |-> Minis(q)[i]] /\ Pieces(X, Minis(q), 1)
               /\ Joined(Minis(q), 1) = g(q)
               /\ \A i \in 1..1 : Len(Minis(q)[i]) = ln[i]
    <3> DEFINE p == Minis(q)
    <3>1. p = <<g(q)>> /\ g(q) \in Seq(X) /\ Len(g(q)) = L
      BY <1>3, <2>1
    <3> HIDE DEF p
    <3>2. p = [i \in 1..1 |-> p[i]] /\ p[1] = g(q)
      BY <3>1
    <3>3. \A i \in 1..1 : i = 1
      OBVIOUS
    <3>4. Pieces(X, p, 1)
      BY <3>1, <3>2, <3>3 DEF Pieces
    <3>5. Joined(p, 1) = g(q)
      <4>1. 0 \in 0..1 /\ 0 < 1 /\ 0 + 1 = 1
        OBVIOUS
      <4>2. Joined(p, 0 + 1) = Joined(p, 0) \o p[0 + 1]
        BY <3>4, <4>1, JoinedNext
      <4>3. Joined(p, 0) = <<>>
        BY JoinedNone
      <4>4. <<>> \o g(q) = g(q)
        BY <3>1
      <4> QED BY <3>2, <4>1, <4>2, <4>3, <4>4
    <3> QED BY <3>1, <3>2, <3>3, <3>4, <3>5 DEF p
  <2>3. HasRows(X, 1)
    <3>1. ASSUME NEW q \in Ranks
          PROVE  /\ Minis(q)[1] \in Seq(X) /\ Minis(q)[1] # <<>>
                 /\ \A i \in DOMAIN Minis(q)[1] : lens[Minis(q)[1][i].input_ids] \in 1..config.width
      <4>1. Minis(q)[1] = g(q)
        BY <2>1
      <4> QED BY <1>3, <2>1, <4>1
    <3> QED BY <3>1 DEF HasRows
  <2>4. \A i \in 1..1 : i = 1
    OBVIOUS
  <2> HIDE DEF ln
  <2>5. Level(X, 1, ln)
    <3>1. 1 \in Nat \ {0}
      OBVIOUS
    <3>2. \A i \in 1..1 : HasRows(X, i)
      BY <2>3, <2>4
    <3> QED BY <2>2, <3>1, <3>2 DEF Level, g
  <2> QED BY <2>5
<1>5. CASE stage \in Updates /\ MiniSize \in Nat \ {0}
  <2> DEFINE c == CeilDiv(L, size)
             ln == [i \in 1..c |-> Min({i * size, L}) - (i - 1) * size]
  <2>1. size \in Nat \ {0}
    BY <1>5
  <2> HIDE DEF size
  <2>2. ASSUME NEW q \in Ranks PROVE Minis(q) = Split(g(q), size)
    BY <1>5 DEF Minis, size
  <2>3. c \in Nat \ {0}
    <3>1. Covers(L, size, c)
      BY <1>2, <2>1, CeilDivIs
    <3> HIDE DEF c
    <3> QED BY <1>2, <3>1 DEF Covers
  <2> HIDE DEF g
  <2>4. ASSUME NEW q \in Ranks
        PROVE  /\ Minis(q) = [i \in 1..c |-> Minis(q)[i]] /\ Pieces(X, Minis(q), c)
               /\ Joined(Minis(q), c) = g(q)
               /\ \A i \in 1..c : /\ Len(Minis(q)[i]) = ln[i] /\ Minis(q)[i] # <<>>
                                  /\ \A t \in DOMAIN Minis(q)[i] :
                                       lens[Minis(q)[i][t].input_ids] \in 1..config.width
    <3> DEFINE f == g(q)
               p == Minis(q)
    <3>1. f \in Seq(X) /\ Len(f) = L /\ DOMAIN f = 1..L /\ p = Split(f, size)
          /\ \A i \in 1..L : lens[f[i].input_ids] \in 1..config.width
      BY <1>3, <2>2
    <3> HIDE DEF f, p
    <3>2. SplitPieces(X, f, size)
      BY <2>1, <3>1, SplitIs
    <3>3. p = [i \in 1..c |-> p[i]] /\ Pieces(X, p, c) /\ FlattenSeq(p) = f
      BY <3>1, <3>2 DEF SplitPieces
    <3>4. Joined(p, c) = f
      <4> HIDE DEF c
      <4> QED BY <3>3 DEF Joined
    <3>5. ASSUME NEW i \in 1..c
          PROVE  /\ Len(p[i]) = ln[i] /\ p[i] # <<>>
                 /\ \A t \in DOMAIN p[i] : lens[p[i][t].input_ids] \in 1..config.width
      <4>1. i \in 1..CeilDiv(Len(f), size)
        BY <3>1
      <4>2. SplitPiece(f, size, i)
        BY <2>1, <3>1, <4>1, SplitPieceIs
      <4>3. Len(p[i]) = Min({i * size, L}) - (i - 1) * size
        BY <3>1, <4>2 DEF SplitPiece
      <4>4. p[i] # <<>> /\ \A t \in DOMAIN p[i] : (i - 1) * size + t \in DOMAIN f /\ p[i][t] = f[(i - 1) * size + t]
        BY <3>1, <4>2 DEF SplitPiece
      <4>5. \A t \in DOMAIN p[i] : lens[p[i][t].input_ids] \in 1..config.width
        BY <3>1, <4>4
      <4> QED BY <4>3, <4>4, <4>5
    <3> HIDE DEF c, ln
    <3> QED BY <3>3, <3>4, <3>5 DEF p, f
  <2> HIDE DEF c, ln
  <2>5. ASSUME NEW i \in 1..c PROVE HasRows(X, i)
    <3>1. ASSUME NEW q \in Ranks PROVE Minis(q)[i] \in Seq(X)
      BY <2>4 DEF Pieces
    <3> QED BY <2>4, <3>1 DEF HasRows
  <2>6. Level(X, c, ln)
    BY <2>3, <2>4, <2>5 DEF Level, g
  <2> QED BY <2>6
<1> QED BY <1>4, <1>5 DEF SendsBatch

\* Enough tokens for a row each are enough micro-batches with one row each.
LEMMA MicrosSuffice ==
  ASSUME Sized, config.dynamic, MaxTokens >= config.width, NEW X, NEW c, NEW ln, Level(X, c, ln),
         NEW i \in 1..c, NEW r \in Ranks
  PROVE  NumMicros(r, i) <= Len(Minis(r)[i])
<1> DEFINE W == config.world
           w == config.width
           T == MaxTokens
           l == ln[i]
           f == [q \in 0..(W - 1) |-> CeilDiv(TokensOf(q, i), T)]
           S == {CeilDiv(TokensOf(q, i), T) : q \in Ranks}
<1>1. /\ W \in Nat \ {0} /\ w \in Nat \ {0} /\ T \in Nat \ {0} /\ Ranks = 0..(W - 1) /\ w <= T
  <2>1. config.maxTokens \in Nat \ {0} /\ config.sp \in Nat \ {0}
    BY DEF Sized
  <2>2. config.maxTokens * config.sp \in Nat \ {0}
    BY <2>1
  <2>3. T \in Nat \ {0} /\ w \in Nat \ {0}
    BY <2>2 DEF Sized, MaxTokens
  <2> HIDE DEF T, w
  <2>4. T >= w
    BY DEF T, w
  <2> QED BY <2>3, <2>4 DEF Sized, Ranks
<1> HIDE DEF W, w, T, l
<1>2. ASSUME NEW q \in Ranks
      PROVE  CeilDiv(TokensOf(q, i), T) \in Nat /\ CeilDiv(TokensOf(q, i), T) <= l /\ l \in Nat
  <2> DEFINE rows == Minis(q)[i]
             s == LensOf(rows)
  <2>1. HasRows(X, i) /\ Len(rows) = l
    BY DEF Level, l
  <2>2. rows \in Seq(X) /\ \A j \in DOMAIN rows : lens[rows[j].input_ids] \in 1..w
    BY <2>1 DEF HasRows, w
  <2>3. TokensOf(q, i) = Total(s)
    BY DEF TokensOf
  <2>4. s = [j \in DOMAIN rows |-> lens[rows[j].input_ids]]
    BY DEF LensOf
  <2> HIDE DEF rows, s
  <2>5. l \in Nat /\ DOMAIN rows = 1..l
    BY <2>1, <2>2, LenProperties
  <2>6. s \in Seq(1..w) /\ Len(s) = l
    BY <2>2, <2>4, <2>5
  <2>7. SumWithin(s, 1, w)
    BY <1>1, <2>6, TotalIsWithin
  <2> DEFINE t == Total(s)
  <2>8. t \in Nat /\ t <= l * w
    BY <2>6, <2>7 DEF SumWithin
  <2> HIDE DEF t
  <2>9. l * w <= l * T
    <3>1. w * l <= T * l
      BY <1>1, <2>5, ProductOrder
    <3>2. w * l = l * w /\ T * l = l * T
      BY <1>1, <2>5
    <3> QED BY <3>1, <3>2
  <2>10. t <= l * T
    <3> DEFINE x == l * w
               y == l * T
    <3>1. x \in Nat /\ y \in Nat /\ x <= y /\ t <= x
      BY <1>1, <2>5, <2>8, <2>9
    <3> HIDE DEF x, y
    <3>2. t <= y
      BY <2>8, <3>1
    <3> QED BY <3>2 DEF y
  <2>11. Covers(t, T, CeilDiv(t, T))
    BY <1>1, <2>8, CeilDivIs
  <2>12. CeilDiv(t, T) \in Nat /\ CeilDiv(t, T) <= l
    BY <2>5, <2>10, <2>11 DEF Covers
  <2> QED BY <2>3, <2>5, <2>12 DEF t
<1>3. S = {f[q] : q \in 0..(W - 1)}
  BY <1>1
<1>4. NumMicros(r, i) = Max(S)
  BY DEF NumMicros, T
<1>5. Len(Minis(r)[i]) = l
  BY DEF Level, l
<1>6. \A q \in 0..(W - 1) : f[q] \in Nat /\ f[q] <= l
  BY <1>1, <1>2
<1> HIDE DEF f, S
<1>7. Max(S) \in S
  BY <1>1, <1>3, <1>6, MaxIsGreatest
<1>8. Max(S) <= l
  BY <1>3, <1>6, <1>7
<1> QED BY <1>4, <1>5, <1>8

\* The sent rows have the columns D, and there is one for each rank.
SentWith(X, all, m, D) ==
  /\ IsChunked(X, all, config.world, m) /\ m # 0
  /\ \A j \in DOMAIN all : DOMAIN all[j] = D

\* Then the chunks have these columns.
LEMMA ChunkColumns ==
  ASSUME NEW X, NEW all, NEW m, NEW D, SentWith(X, all, m, D), NEW r \in Ranks
  PROVE  Columns(chunks[r + 1]) = D
<1> DEFINE W == config.world
           lo == r * m
           p == chunks[r + 1]
<1>1. /\ all \in Seq(X) /\ W \in Nat \ {0} /\ m \in Nat /\ m # 0 /\ Len(all) = W * m
      /\ chunks = Chunk(all, W) /\ r \in 0..(W - 1)
      /\ \A j \in DOMAIN all : DOMAIN all[j] = D
  BY DEF SentWith, IsChunked, Ranks
<1>2. r \in Nat /\ r + 1 \in 1..W /\ (r + 1) - 1 = r
  BY <1>1
<1>3. IsChunk(all, W, m, r + 1)
  <2> HIDE DEF W
  <2> QED BY <1>1, <1>2, ChunkIs
<1>4. p = SubSeq(all, lo + 1, lo + m) /\ lo \in Nat /\ lo + m <= Len(all)
  <2>1. /\ p = Part(all, ((r + 1) - 1) * m, (r + 1) * m)
        /\ (r + 1) * m = ((r + 1) - 1) * m + m /\ ((r + 1) - 1) * m \in Nat /\ (r + 1) * m <= Len(all)
    BY <1>1, <1>3 DEF IsChunk
  <2>2. ((r + 1) - 1) * m = lo
    BY <1>2
  <2>3. p = Part(all, lo, lo + m)
    BY <2>1, <2>2
  <2> HIDE DEF p, lo
  <2>4. Part(all, lo, lo + m) = SubSeq(all, lo + 1, lo + m)
    BY DEF Part
  <2> QED BY <2>1, <2>2, <2>3, <2>4
<1> HIDE DEF lo, W, p
<1>5. Len(all) \in Nat /\ DOMAIN all = 1..Len(all)
  BY <1>1, LenProperties
<1>6. p \in Seq(X) /\ Len(p) = m /\ \A t \in 1..m : p[t] = all[lo + t]
  BY <1>1, <1>4, <1>5, SubSeqProperties
<1>7. 1 \in DOMAIN p /\ 1 \notin DOMAIN <<>> /\ p[1] = all[lo + 1]
  <2>1. 1 \in 1..m
    BY <1>1
  <2>2. DOMAIN p = 1..m
    BY <1>6, LenProperties
  <2> QED BY <1>6, <2>1, <2>2
<1>8. lo + 1 \in DOMAIN all
  BY <1>1, <1>4, <1>5
<1>9. DOMAIN p[1] = D /\ p # <<>>
  BY <1>1, <1>7, <1>8
<1>10. Columns(p) = D
  BY <1>9 DEF Columns
<1> QED BY <1>10 DEF p

\* Rows that can be chunked and are not none.
LEMMA SentRows ==
  ASSUME NEW rows, NEW N \in Nat \ {0}, rows = [j \in 1..N |-> rows[j]], NEW D,
         \A j \in 1..N : DOMAIN rows[j] = D, config.world \in Nat \ {0},
         CanChunk(rows, config.world), chunks = Chunk(rows, config.world)
  PROVE  \E X, m : SentWith(X, rows, m, D)
<1> DEFINE W == config.world
           X == {rows[j] : j \in 1..N}
           m == Len(rows) \div W
<1>1. rows \in Seq(X) /\ Len(rows) = N /\ DOMAIN rows = 1..N
  <2>1. \A j \in 1..N : rows[j] \in X
    OBVIOUS
  <2> HIDE DEF X
  <2> QED BY <2>1
<1> HIDE DEF X
<1>2. IsChunked(X, rows, W, m)
  BY <1>1, ChunksFit
<1>3. W * m = N /\ W \in Nat
  BY <1>1, <1>2 DEF IsChunked
<1>4. m # 0
  <2> SUFFICES ASSUME m = 0 PROVE FALSE
    OBVIOUS
  <2> HIDE DEF m, W
  <2>1. W * m = 0
    BY <1>3
  <2> QED BY <1>3, <2>1
<1> HIDE DEF m, W
<1>5. SentWith(X, rows, m, D)
  BY <1>1, <1>2, <1>4 DEF SentWith, W
<1> QED BY <1>5

\* A mini-batch of a rank has a row, unless there are fewer of them than groups.
LEMMA MiniSizeIs ==
  ASSUME Sized, ~ (config.mini < config.world \div config.sp)
  PROVE  MiniSize \in Nat \ {0}
<1> DEFINE d == config.world \div config.sp
           n == config.n
           mini == config.mini
<1>1. config.world \in Nat \ {0} /\ config.sp \in Nat \ {0} /\ n \in Nat \ {0} /\ mini \in Nat \ {0}
  BY DEF Sized
<1>2. d \in Nat \ {0}
  <2>1. d \in Nat /\ config.world = config.sp * d + (config.world % config.sp)
    BY <1>1, Division
  <2>2. config.world % config.sp = 0
    BY DEF Sized
  <2> DEFINE W == config.world
             sp == config.sp
  <2>3. W = sp * d /\ W # 0 /\ sp \in Nat
    BY <1>1, <2>1, <2>2
  <2>4. d # 0
    <3> SUFFICES ASSUME d = 0 PROVE FALSE
      OBVIOUS
    <3> HIDE DEF d, W, sp
    <3> QED BY <2>3
  <2> QED BY <2>1, <2>4
<1>3. d <= mini
  <2>1. ~ (mini < d)
    OBVIOUS
  <2> HIDE DEF d, mini
  <2> QED BY <1>1, <1>2, <2>1
<1>4. MiniSize \in {(mini * n) \div d, mini \div d}
  BY DEF MiniSize
<1> HIDE DEF d, mini, n
<1>5. ASSUME NEW a \in Nat, d <= a PROVE a \div d \in Nat \ {0}
  <2> DEFINE q == a \div d
             t == a % d
  <2>1. q \in Nat /\ t \in 0..(d - 1) /\ a = d * q + t
    BY <1>2, Division
  <2> HIDE DEF q, t
  <2>2. q # 0
    <3> SUFFICES ASSUME q = 0 PROVE FALSE
      OBVIOUS
    <3>1. d * q = 0
      BY <1>2
    <3> QED BY <1>2, <1>5, <2>1, <3>1
  <2> QED BY <2>1, <2>2 DEF q
<1>6. mini * n \in Nat /\ d <= mini * n
  <2>1. 1 * mini <= n * mini
    BY <1>1, ProductOrder
  <2>2. 1 * mini = mini /\ n * mini = mini * n /\ mini * n \in Nat
    BY <1>1
  <2> DEFINE z == mini * n
  <2>3. z \in Nat /\ mini <= z
    BY <2>1, <2>2
  <2> HIDE DEF z
  <2>4. d <= z
    BY <1>1, <1>2, <1>3, <2>3
  <2> QED BY <2>3, <2>4 DEF z
<1> QED BY <1>1, <1>3, <1>4, <1>5, <1>6

\* The call has what it needs.
Provided == \E X, all, m, D : SentWith(X, all, m, D) /\ ColumnsNeeded \subseteq D

\* The batch carries what the updates read.
LEMMA BatchProvides ==
  ASSUME NEW i \in 4..12, stage = Order[i], Due(stage), ~ (config.useKlLoss /\ ~ config.useRef)
  PROVE  ColumnsNeeded \subseteq Cols(i)
<1>1. i \in 1..12 /\ 3 < i
  OBVIOUS
<1>2. "input_ids" \in Cols(i)
  BY <1>1, ColumnsAre
<1>3. CASE stage = "update_critic"
  <2>1. i = 9 /\ 9 \in 1..12
    <3>1. 9 \in 1..12
      OBVIOUS
    <3>2. stage = Order[9]
      BY <1>3, OrderIs
    <3> QED BY <1>1, <3>1, <3>2, OrderIsOnce
  <2>2. UseCritic
    BY <1>3 DEF Due
  <2>3. Due("values")
    BY <2>2 DEF Due
  <2>4. "values" \in Cols(9) /\ "returns" \in Cols(9)
    BY <2>1, <2>3, ColumnsAre
  <2> QED BY <1>2, <1>3, <2>1, <2>4 DEF ColumnsNeeded
<1>4. CASE stage = "update_actor"
  <2>1. i = 10 /\ 10 \in 1..12
    <3>1. 10 \in 1..12
      OBVIOUS
    <3>2. stage = Order[10]
      BY <1>4, OrderIs
    <3> QED BY <1>1, <3>1, <3>2, OrderIsOnce
  <2>2. "old_log_probs" \in Cols(10) /\ "advantages" \in Cols(10)
    BY <2>1, ColumnsAre
  <2>3. config.useKlLoss => "ref_log_prob" \in Cols(10)
    <3> SUFFICES ASSUME config.useKlLoss PROVE "ref_log_prob" \in Cols(10)
      OBVIOUS
    <3>1. Due("ref")
      BY DEF Due
    <3> QED BY <2>1, <3>1, ColumnsAre
  <2> QED BY <1>2, <1>4, <2>1, <2>2, <2>3 DEF ColumnsNeeded
<1>5. CASE stage # "update_critic" /\ stage # "update_actor"
  <2>1. ColumnsNeeded = {"input_ids"}
    BY <1>5 DEF ColumnsNeeded
  <2> QED BY <1>2, <2>1
<1> QED BY <1>3, <1>4, <1>5

\* The i-th stage is the one that is called.
Called(i) ==
  /\ i \in 1..12 /\ stage \in Remote /\ stage = Order[i] /\ Due(stage) /\ Holding(batch, gen, i)
  /\ CanChunk(Sent, config.world) /\ chunks = Chunk(Sent, config.world)
  /\ stage \notin {"generate", "baseline", "validate"} =>
       Aligned(batch, i) /\ Sent = batch /\ i \in 4..12

\* In a call the stage is one of those that are due.
LEMMA CallIs ==
  ASSUME IInv, chunks # <<>>
  PROVE  Sized /\ \E i : Called(i)
<1>1. /\ stage \in Remote /\ CanChunk(Sent, config.world) /\ chunks = Chunk(Sent, config.world)
  BY DEF IInv, Calling
<1>2. PICK i : stage \in {Order[i], "failed"} /\ Holding(batch, gen, i)
  BY DEF IInv
<1>3. stage # "failed" /\ stage = Order[i] /\ i \in 1..12
  BY <1>1, <1>2 DEF Remote, Holding
<1>4. Sized
  BY <1>3, StageIs
<1>5. Due(stage)
  BY <1>2, <1>3 DEF Holding
<1>6. ASSUME stage \notin {"generate", "baseline", "validate"}
      PROVE  Aligned(batch, i) /\ Sent = batch /\ i \in 4..12
  <2>1. Sent = batch
    BY <1>6 DEF Sent
  <2>2. i # 1 /\ i # 2
    BY <1>3, <1>6, OrderIs
  <2>3. i # 3
    BY <1>1, <1>3, OrderIs DEF Remote
  <2>4. i \in 4..12 /\ 3 < i
    BY <1>3, <2>2, <2>3
  <2> QED BY <1>2, <2>1, <2>4 DEF Holding
<1>7. Called(i)
  BY <1>1, <1>2, <1>3, <1>5, <1>6 DEF Called
<1> QED BY <1>4, <1>7

\* In a call with the batch the ranks have mini-batches of the same sizes.
LevelCall(m, c, ln) == BatchSent(m) /\ Level({batch[j] : j \in 1..Size}, c, ln)

\* Each call but the generations is one.
LEMMA CallIsLevel ==
  ASSUME IInv, chunks # <<>>, stage \notin {"generate", "baseline", "validate"},
         stage \in Updates => MiniSize \in Nat \ {0}
  PROVE  \E m, c, ln : LevelCall(m, c, ln)
<1>1. PICK i : Called(i)
  BY CallIs
<1>2. Sized /\ Aligned(batch, i) /\ Sent = batch /\ stage \in Remote
  BY <1>1, CallIs DEF Called
<1>3. SendsBatch
  <2>1. stage \in Passes \/ stage \in Updates
    BY <1>2 DEF Remote, Stages, Order, ToSet, Passes, Updates
  <2> QED BY <2>1 DEF SendsBatch
<1>4. PICK m : BatchSent(m)
  BY <1>2, BatchIsSent
<1> DEFINE X == {batch[j] : j \in 1..Size}
<1>5. X = {batch[j] : j \in 1..Size}
  OBVIOUS
<1> HIDE DEF X
<1>6. PICK c, ln : Level(X, c, ln)
  BY <1>2, <1>3, <1>4, <1>5, MinisAreLevel
<1>7. LevelCall(m, c, ln)
  BY <1>4, <1>6 DEF LevelCall, X
<1> QED BY <1>7

\* No rank raises unless the sizes are bad.
LEMMA RunsOtherwise ==
  ASSUME IInv, chunks # <<>>, ~ BadSizes
  PROVE  CanRun
<1> DEFINE W == config.world
<1>1. PICK i : Called(i)
  BY CallIs
<1>2. Sized /\ Holding(batch, gen, i) /\ Due(stage) /\ stage = Order[i]
      /\ CanChunk(Sent, W) /\ chunks = Chunk(Sent, W) /\ i \in 1..12
  BY <1>1, CallIs DEF Called
<1>6. ResponsesComplete
  BY <1>2, AllResponsesAre
<1>7. /\ Size \in Nat \ {0} /\ config.prompts \in Nat \ {0} /\ W \in Nat \ {0}
      /\ config.validation \in Nat
  BY <1>2, <1>6 DEF ResponsesComplete, Sized
<1>8. stage \notin {"generate", "baseline", "validate"} => Aligned(batch, i) /\ Sent = batch /\ i \in 4..12
  BY <1>1 DEF Called
<1>9. Provided
  <2>1. CASE stage \in {"generate", "baseline"}
    <3> DEFINE P == config.prompts
               D == {"input_ids"}
               rows == Prompts
    <3>1. Sent = rows
      BY <1>2, <2>1 DEF Sent, Holding, Gens
    <3>2. rows = [j \in 1..P |-> [input_ids |-> <<j, 0>>]] /\ P \in Nat \ {0}
      BY <1>7 DEF Prompts
    <3>3. ColumnsNeeded = D
      BY <2>1 DEF ColumnsNeeded
    <3> HIDE DEF P, rows
    <3>4. rows = [j \in 1..P |-> rows[j]] /\ \A j \in 1..P : DOMAIN rows[j] = D
      BY <3>2
    <3>5. CanChunk(rows, W) /\ chunks = Chunk(rows, W)
      BY <1>2, <3>1
    <3> HIDE DEF D
    <3>6. \E X, m : SentWith(X, rows, m, D)
      BY <1>7, <3>2, <3>4, <3>5, SentRows
    <3> QED BY <3>3, <3>6 DEF Provided
  <2>2. CASE stage = "validate"
    <3> DEFINE v == config.validation
               z == v + Padding
               D == {"input_ids"}
               rows == PaddedRows
    <3>1. Sent = rows
      BY <2>2 DEF Sent, PaddedRows
    <3>2. /\ v \in Nat \ {0} /\ Padding \in Nat
          /\ rows = [j \in 1..z |-> [input_ids |-> <<((j - 1) % v) + 1, 0>>]]
      <4>1. v > 0
        BY <1>2, <2>2 DEF Due
      <4>2. PaddedIs
        BY <1>2, <4>1, PaddingIs
      <4> QED BY <4>2 DEF PaddedIs
    <3>3. ColumnsNeeded = D
      BY <2>2 DEF ColumnsNeeded
    <3>4. z \in Nat \ {0}
      <4> DEFINE pad == Padding
      <4> HIDE DEF v
      <4>1. pad \in Nat /\ v \in Nat \ {0}
        BY <3>2
      <4> HIDE DEF pad
      <4>2. v + pad \in Nat \ {0}
        BY <4>1
      <4> QED BY <4>2 DEF pad
    <3> HIDE DEF z, v, rows
    <3>5. rows = [j \in 1..z |-> rows[j]] /\ \A j \in 1..z : DOMAIN rows[j] = D
      BY <3>2
    <3>6. CanChunk(rows, W) /\ chunks = Chunk(rows, W)
      BY <1>2, <3>1
    <3> HIDE DEF D
    <3>7. \E X, m : SentWith(X, rows, m, D)
      BY <1>7, <3>4, <3>5, <3>6, SentRows
    <3> QED BY <3>3, <3>7 DEF Provided
  <2>3. CASE stage \notin {"generate", "baseline", "validate"}
    <3> DEFINE N == Size
               D == Cols(i)
    <3>1. batch = [j \in 1..N |-> batch[j]] /\ \A j \in 1..N : DOMAIN batch[j] = D
      BY <1>8, <2>3 DEF Aligned
    <3>2. CanChunk(batch, W) /\ chunks = Chunk(batch, W)
      BY <1>2, <1>8, <2>3
    <3>3. ColumnsNeeded \subseteq D
      <4>1. ~ (config.useKlLoss /\ ~ config.useRef)
        BY DEF BadSizes
      <4> QED BY <1>2, <1>8, <2>3, <4>1, BatchProvides
    <3>4. N \in Nat \ {0}
      BY <1>7
    <3> HIDE DEF D, N
    <3>5. \E X, m : SentWith(X, batch, m, D)
      BY <1>7, <3>1, <3>2, <3>4, SentRows
    <3> QED BY <3>3, <3>5 DEF Provided
  <2> QED BY <2>1, <2>2, <2>3
<1>10. \A r \in Ranks : ColumnsNeeded \subseteq Columns(chunks[r + 1])
  <2>1. PICK X, all, m, D : SentWith(X, all, m, D) /\ ColumnsNeeded \subseteq D
    BY <1>9 DEF Provided
  <2>2. ASSUME NEW r \in Ranks PROVE Columns(chunks[r + 1]) = D
    BY <2>1, ChunkColumns
  <2> QED BY <2>1, <2>2
<1>11. MiniSize \in Nat \ {0}
  <2>1. ~ (config.mini < config.world \div config.sp)
    BY DEF BadSizes
  <2> QED BY <1>2, <2>1, MiniSizeIs
<1>12. MiniSize > 0
  <2> DEFINE size == MiniSize
  <2>1. size \in Nat \ {0}
    BY <1>11
  <2> HIDE DEF size
  <2>2. size > 0
    BY <2>1
  <2> QED BY <2>2 DEF size
<1>13. config.dynamic /\ stage \notin {"generate", "baseline", "validate"} =>
         /\ MaxTokens >= config.width
         /\ \A r \in Ranks : \A m \in DOMAIN Minis(r) : NumMicros(r, m) <= Len(Minis(r)[m])
  <2> SUFFICES ASSUME config.dynamic, stage \notin {"generate", "baseline", "validate"}
               PROVE  /\ MaxTokens >= config.width
                      /\ \A r \in Ranks : \A m \in DOMAIN Minis(r) :
                           NumMicros(r, m) <= Len(Minis(r)[m])
    OBVIOUS
  <2>1. MaxTokens >= config.width
    <3> DEFINE t == MaxTokens
               w == config.width
    <3>1. ~ (t < w)
      BY DEF BadSizes
    <3>2. w \in Nat /\ t \in Nat
      <4>1. config.maxTokens \in Nat /\ config.sp \in Nat /\ w \in Nat
        BY <1>2 DEF Sized
      <4>2. config.maxTokens * config.sp \in Nat
        BY <4>1
      <4> QED BY <4>1, <4>2 DEF MaxTokens
    <3> HIDE DEF t, w
    <3>3. t >= w
      BY <3>1, <3>2
    <3> QED BY <3>3 DEF t, w
  <2>2. PICK m, c, ln : LevelCall(m, c, ln)
    BY <1>11, CallIsLevel
  <2> DEFINE X == {batch[j] : j \in 1..Size}
  <2>3. Level(X, c, ln)
    BY <2>2 DEF LevelCall
  <2> HIDE DEF X
  <2>6. ASSUME NEW r \in Ranks, NEW k \in DOMAIN Minis(r)
        PROVE  NumMicros(r, k) <= Len(Minis(r)[k])
    <3>1. Minis(r) = [j \in 1..c |-> Minis(r)[j]]
      BY <2>3 DEF Level
    <3> DEFINE g == Minis(r)
    <3>2. DOMAIN g = 1..c
      <4>1. g = [j \in 1..c |-> g[j]]
        BY <3>1
      <4> HIDE DEF g
      <4> QED BY <4>1
    <3>3. k \in 1..c
      BY <3>2
    <3> QED BY <1>2, <2>1, <2>3, <3>3, MicrosSuffice
  <2> QED BY <2>1, <2>6
<1> QED BY <1>10, <1>12, <1>13 DEF CanRun

\* The error of a rank ends the iteration.
LEMMA RaiseKeeps ==
  ASSUME IInv, Raise
  PROVE  IInv'
<1>1. /\ chunks # <<>> /\ ~ CanRun /\ chunks' = <<>> /\ stage' = "failed"
      /\ config' = config /\ lens' = lens /\ batch' = batch /\ gen' = gen
  BY DEF Raise
<1>2. BadSizes
  BY <1>1, RunsOtherwise
<1>3. PICK i : Holding(batch, gen, i)
  BY DEF IInv
<1> QED BY <1>1, <1>2, <1>3, StepKeeps

\* What a rank enters changes nothing else.
LEMMA RestKeeps ==
  ASSUME IInv, config' = config, lens' = lens, stage' = stage, batch' = batch, gen' = gen,
         chunks' = chunks
  PROVE  IInv'
<1>1. PICK i : stage \in {Order[i], "failed"} /\ Holding(batch, gen, i)
  BY DEF IInv
<1>2. Holding(batch, gen, i)'
  BY <1>1, HoldingStays
<1>3. HasLengths'
  BY DEF IInv, HasLengths, Responses
<1>4. Calling'
  <2>1. Sent' = Sent
    BY DEF Sent
  <2>2. (stage \in Remote)' <=> stage \in Remote
    BY DEF Remote, Stages, Order
  <2> QED BY <2>1, <2>2 DEF IInv, Calling, CanChunk, Chunk
<1>5. (\E k : stage \in {Order[k], "failed"} /\ Holding(batch, gen, k))'
  <2>1. stage' \in {Order[i]', "failed"}
    BY <1>1 DEF Order
  <2> QED BY <1>2, <2>1
<1>6. (stage = "failed" => BadSizes)'
  BY DEF IInv, BadSizes, MaxTokens
<1> QED BY <1>3, <1>4, <1>5, <1>6 DEF IInv

\* Every step keeps the invariant.
LEMMA NextKeeps ==
  ASSUME IInv, [Next]_vars
  PROVE  IInv'
<1>1. CASE Dispatch
  BY <1>1, DispatchKeeps
<1>2. CASE Raise
  BY <1>2, RaiseKeeps
<1>3. CASE CollectResponses
  BY <1>3, CollectResponsesKeeps
<1>4. CASE CollectBaseline
  BY <1>4, CollectBaselineKeeps
<1>5. CASE CollectColumn
  BY <1>5, CollectColumnKeeps
<1>6. CASE CollectUpdate
  BY <1>6, CollectUpdateKeeps
<1>7. CASE CollectValidation
  BY <1>7, CollectValidationKeeps
<1>8. CASE Assemble
  BY <1>8, AssembleKeeps
<1>9. CASE ComputeAdvantage
  BY <1>9, ComputeAdvantageKeeps
<1>10. CASE \E r \in Ranks : Join(r)
  BY <1>10, RestKeeps DEF Join
<1>11. CASE UNCHANGED vars
  BY <1>11, RestKeeps DEF vars
<1> QED BY <1>1, <1>2, <1>3, <1>4, <1>5, <1>6, <1>7, <1>8, <1>9, <1>10, <1>11 DEF Next, Driver

-----------------------------------------------------------------------------
(* The collectives of a call. *)

\* A sum of numbers is a number.
LEMMA TotalIsNumber ==
  ASSUME NEW s \in Seq(Nat)
  PROVE  Total(s) \in Nat
<1> DEFINE l == Len(s)
<1>1. l \in Nat
  BY LenProperties
<1>2. PICK f : f = CHOOSE g : Sums(g, s)
  OBVIOUS
<1>3. Sums(f, s)
  <2>1. \E g : SumsTo(g, s, l)
    BY <1>1, SumsExist
  <2>2. \E g : Sums(g, s)
    BY <2>1 DEF Sums, SumsTo
  <2> QED BY <1>2, <2>2, Zenon
<1>4. Total(s) = f[l]
  BY <1>2, Zenon DEF Total, Sums
<1>5. \A i \in 1..l : s[i] \in Nat
  BY ElementOfSeq
<1>6. /\ f[0] = 0
      /\ \A n \in 1..l : f[n] = f[n - 1] + s[n]
  BY <1>1, <1>3 DEF Sums
<1> HIDE DEF l
<1> DEFINE S == {n \in Nat : n <= l => f[n] \in Nat}
<1>7. 0 \in S
  BY <1>6
<1>8. ASSUME NEW n \in S PROVE n + 1 \in S
  <2>1. SUFFICES ASSUME n + 1 <= l PROVE f[n + 1] \in Nat
    OBVIOUS
  <2>2. n \in Nat /\ n <= l
    BY <1>1, <2>1
  <2>3. n + 1 \in 1..l /\ (n + 1) - 1 = n
    BY <1>1, <2>1, <2>2
  <2>4. f[n + 1] = f[n] + s[n + 1] /\ s[n + 1] \in Nat /\ f[n] \in Nat
    BY <1>5, <1>6, <2>2, <2>3
  <2> QED BY <2>4
<1>9. S = Nat
  <2>1. S \subseteq Nat
    OBVIOUS
  <2> HIDE DEF S
  <2> QED BY <1>7, <1>8, <2>1, AllNumbers, Zenon
<1>10. l \in S /\ l <= l
  <2> HIDE DEF S
  <2> QED BY <1>1, <1>9
<1> QED BY <1>4, <1>10

\* The size of a mini-batch is a number.
LEMMA MiniSizeIsNumber ==
  ASSUME Sized
  PROVE  MiniSize \in Nat
<1> DEFINE W == config.world
           sp == config.sp
           d == W \div sp
           n == config.n
           mini == config.mini
<1>1. W \in Nat \ {0} /\ sp \in Nat \ {0} /\ n \in Nat \ {0} /\ mini \in Nat \ {0} /\ W % sp = 0
  BY DEF Sized
<1>2. MiniSize \in {(mini * n) \div d, mini \div d}
  BY DEF MiniSize
<1> HIDE DEF W, sp, n, mini
<1>3. d \in Nat /\ W = sp * d + 0
  <2>1. d \in Nat /\ W = sp * d + (W % sp)
    BY <1>1, Division
  <2> QED BY <1>1, <2>1
<1>4. d \in Nat \ {0}
  <2> SUFFICES ASSUME d = 0 PROVE FALSE
    BY <1>3
  <2> HIDE DEF d
  <2>1. sp * d = 0
    BY <1>1
  <2> QED BY <1>1, <1>3, <2>1
<1> HIDE DEF d
<1>5. mini * n \in Nat
  BY <1>1
<1>6. \A a \in Nat : a \div d \in Nat
  BY <1>4
<1> QED BY <1>1, <1>2, <1>5, <1>6

\* The mini-batches of a rank have as many micro-batches as those of the others.
LEMMA MicrosAgree ==
  ASSUME Sized, NEW X, NEW c, NEW ln, Level(X, c, ln), NEW i \in 1..c
  PROVE  \E k \in Nat : \A r \in Ranks : NumMicros(r, i) = k
<1>1. HasRows(X, i) /\ \A q \in Ranks : Len(Minis(q)[i]) = ln[i]
  BY DEF Level
<1>2. 0 \in Ranks
  <2>1. config.world \in Nat \ {0}
    BY DEF Sized
  <2> DEFINE W == config.world
  <2>2. W \in Nat \ {0}
    BY <2>1
  <2> HIDE DEF W
  <2>3. 0 \in 0..(W - 1)
    BY <2>2
  <2> QED BY <2>3 DEF Ranks, W
<1>3. CASE config.dynamic
  <2>1. \A r \in Ranks : NumMicros(r, i) = NumMicros(0, i)
    BY <1>3 DEF NumMicros
  <2>2. CanPartition(LensOf(Minis(0)[i]), NumMicros(0, i), FALSE)
    BY <1>1, <1>2, <1>3, SomeMicros
  <2>3. NumMicros(0, i) \in Nat
    BY <2>2 DEF CanPartition
  <2> QED BY <2>1, <2>3
<1>4. CASE ~ config.dynamic
  <2> DEFINE k == CeilDiv(ln[i], config.micro)
  <2>1. \A r \in Ranks : NumMicros(r, i) = k
    BY <1>1, <1>4 DEF NumMicros
  <2>2. ln[i] \in Nat
    <3>1. Minis(0)[i] \in Seq(X)
      BY <1>1, <1>2 DEF HasRows
    <3>2. Len(Minis(0)[i]) \in Nat
      BY <3>1, LenProperties
    <3> QED BY <1>1, <1>2, <3>2
  <2>3. config.micro \in Nat \ {0}
    BY DEF Sized
  <2>4. Covers(ln[i], config.micro, k)
    BY <2>2, <2>3, CeilDivIs
  <2> HIDE DEF k
  <2>5. k \in Nat
    BY <2>4 DEF Covers
  <2> QED BY <2>1, <2>5
<1> QED BY <1>3, <1>4

\* The ranks have as many collectives each.
Agreed == chunks # <<>> /\ CanRun => \E n \in Nat : \A r \in Ranks : Collectives(r) = n

\* So it is in every call: the all-reduce has them take the same number of micro-batches.
LEMMA CollectivesAgree ==
  ASSUME IInv
  PROVE  Agreed
<1> SUFFICES ASSUME chunks # <<>>, CanRun
             PROVE  \E n \in Nat : \A r \in Ranks : Collectives(r) = n
  BY DEF Agreed
<1>1. Sized
  BY CallIs
<1>2. CASE stage \in {"generate", "baseline", "validate"}
  <2>1. \A r \in Ranks : Collectives(r) = 2
    BY <1>2 DEF Collectives
  <2>2. 2 \in Nat
    OBVIOUS
  <2> QED BY <2>1, <2>2
<1>3. CASE stage \notin {"generate", "baseline", "validate"}
  <2>1. stage \in Updates => MiniSize \in Nat \ {0}
    <3> SUFFICES ASSUME stage \in Updates PROVE MiniSize \in Nat \ {0}
      OBVIOUS
    <3> DEFINE size == MiniSize
    <3>1. size > 0
      BY DEF CanRun
    <3>2. size \in Nat
      BY <1>1, MiniSizeIsNumber
    <3> HIDE DEF size
    <3>3. size \in Nat \ {0}
      BY <3>1, <3>2
    <3> QED BY <3>3 DEF size
  <2>2. PICK m, c, ln : LevelCall(m, c, ln)
    BY <1>3, <2>1, CallIsLevel
  <2> DEFINE X == {batch[j] : j \in 1..Size}
  <2>3. Level(X, c, ln)
    BY <2>2 DEF LevelCall
  <2> HIDE DEF X
  <2> DEFINE a == IF config.dynamic THEN 1 ELSE 0
             b == IF stage \in Updates THEN 1 ELSE 0
             k(i) == NumMicros(0, i)
             s == [i \in 1..c |-> k(i) + a + b]
  <2>4. ASSUME NEW i \in 1..c
        PROVE  k(i) \in Nat /\ \A r \in Ranks : NumMicros(r, i) = k(i)
    <3>1. PICK n \in Nat : \A r \in Ranks : NumMicros(r, i) = n
      BY <1>1, <2>3, MicrosAgree
    <3>2. 0 \in Ranks
      <4>1. config.world \in Nat \ {0}
        BY <1>1 DEF Sized
      <4> DEFINE W == config.world
      <4>2. W \in Nat \ {0}
        BY <4>1
      <4> HIDE DEF W
      <4>3. 0 \in 0..(W - 1)
        BY <4>2
      <4> QED BY <4>3 DEF Ranks, W
    <3> QED BY <3>1, <3>2
  <2>5. a \in Nat /\ b \in Nat
    OBVIOUS
  <2>6. ASSUME NEW r \in Ranks PROVE Collectives(r) = Total(s)
    <3>1. Collectives(r) = Total([m2 \in DOMAIN Minis(r) |-> NumMicros(r, m2) + a + b])
      BY <1>3 DEF Collectives
    <3>2. DOMAIN Minis(r) = 1..c
      <4> DEFINE g == Minis(r)
      <4>1. g = [i \in 1..c |-> g[i]]
        BY <2>3 DEF Level
      <4> HIDE DEF g
      <4>2. DOMAIN g = 1..c
        BY <4>1
      <4> QED BY <4>2 DEF g
    <3> HIDE DEF a, b
    <3>3. [m2 \in DOMAIN Minis(r) |-> NumMicros(r, m2) + a + b] = s
      BY <2>4, <3>2
    <3> QED BY <3>1, <3>3
  <2>7. c \in Nat
    BY <2>3 DEF Level
  <2>8. s \in Seq(Nat)
    <3> HIDE DEF a, b, k
    <3>1. s = [i \in 1..c |-> s[i]] /\ \A i \in 1..c : s[i] \in Nat
      BY <2>4, <2>5
    <3> HIDE DEF s
    <3> QED BY <2>7, <3>1
  <2> HIDE DEF s
  <2>9. Total(s) \in Nat
    BY <2>8, TotalIsNumber
  <2> QED BY <2>6, <2>9
<1> QED BY <1>2, <1>3

\* No rank has entered more collectives than its call has.
Entered ==
  /\ \A r \in Ranks : joined[r] \in Nat
  /\ joined = [r \in Ranks |-> joined[r]]
  /\ chunks # <<>> /\ CanRun => \A r \in Ranks : joined[r] <= Collectives(r)

\* Nothing has been entered at first.
LEMMA EnteredAtFirst ==
  ASSUME Init
  PROVE  Entered
BY DEF Init, Entered

\* They depend on the call alone.
LEMMA CollectivesStay ==
  ASSUME config' = config, lens' = lens, stage' = stage, chunks' = chunks, NEW q
  PROVE  Collectives(q)' = Collectives(q)
<1>1. ASSUME NEW r PROVE Minis(r)' = Minis(r)
  <2>1. Gathered(r, config.sp)' = Gathered(r, config.sp)
    BY DEF Gathered
  <2>2. MiniSize' = MiniSize
    BY DEF MiniSize
  <2> QED BY <2>1, <2>2 DEF Minis, Updates
<1>2. ASSUME NEW r, NEW m PROVE TokensOf(r, m)' = TokensOf(r, m)
  BY <1>1 DEF TokensOf, LensOf
<1>3. ASSUME NEW r, NEW m PROVE NumMicros(r, m)' = NumMicros(r, m)
  <2>1. MaxTokens' = MaxTokens /\ Ranks' = Ranks
    BY DEF MaxTokens, Ranks
  <2> QED BY <1>1, <1>2, <2>1 DEF NumMicros
<1> QED BY <1>1, <1>3 DEF Collectives, Updates

\* And no step makes it more.
LEMMA EnteredStays ==
  ASSUME IInv, Entered, Agreed, Agreed', [Next]_vars
  PROVE  Entered'
<1>1. config' = config /\ Ranks' = Ranks
  BY DEF Next, Driver, Dispatch, Raise, CollectResponses, CollectBaseline, CollectColumn,
         CollectUpdate, CollectValidation, Collect, Assemble, ComputeAdvantage, Join, vars, Ranks
<1>2. ASSUME joined' = joined, chunks' = <<>>
      PROVE  Entered'
  BY <1>1, <1>2 DEF Entered
<1>3. ASSUME Collect PROVE joined' = joined /\ chunks' = <<>>
  BY <1>3 DEF Collect
<1>4. ASSUME stage \in {"assemble", "advantage"} PROVE chunks = <<>>
  <2>1. stage \notin Remote
    BY <1>4 DEF Remote
  <2> QED BY <2>1 DEF IInv, Calling
<1>5. CASE Dispatch
  <2>1. CASE joined' = [r \in Ranks |-> 0]
    <3>1. chunks' # <<>> /\ CanRun' => \A r \in Ranks : joined'[r] <= Collectives(r)'
      <4> SUFFICES ASSUME chunks' # <<>>, CanRun', NEW r \in Ranks
                   PROVE  joined'[r] <= Collectives(r)'
        OBVIOUS
      <4>1. PICK n \in Nat : \A q \in Ranks' : Collectives(q)' = n
        BY DEF Agreed
      <4>2. Collectives(r)' = n /\ joined'[r] = 0
        BY <1>1, <2>1, <4>1
      <4> DEFINE x == Collectives(r)'
      <4> HIDE DEF x
      <4>3. joined'[r] <= n
        BY <4>2
      <4> QED BY <4>2, <4>3
    <3>2. joined' = [r \in Ranks |-> joined'[r]] /\ \A r \in Ranks : joined'[r] \in Nat
      BY <2>1
    <3> QED BY <1>1, <3>1, <3>2 DEF Entered
  <2>2. CASE joined' = joined /\ chunks' = <<>>
    BY <1>2, <2>2
  <2>3. (joined' = joined /\ chunks' = <<>>) \/ joined' = [r \in Ranks |-> 0]
    BY <1>5 DEF Dispatch
  <2> QED BY <2>1, <2>2, <2>3
<1>6. CASE \E r \in Ranks : Join(r)
  <2>1. PICK r \in Ranks : Join(r)
    BY <1>6
  <2>2. /\ chunks # <<>> /\ CanRun /\ joined[r] < Collectives(r)
        /\ joined' = [joined EXCEPT ![r] = @ + 1]
        /\ chunks' = chunks /\ lens' = lens /\ stage' = stage
    BY <2>1 DEF Join, CanJoin
  <2>3. \A q \in Ranks : Collectives(q)' = Collectives(q)
    BY <1>1, <2>2, CollectivesStay
  <2>4. PICK n \in Nat : \A q \in Ranks : Collectives(q) = n
    BY <2>2 DEF Agreed
  <2>5. ASSUME NEW q \in Ranks
        PROVE  joined'[q] \in Nat /\ joined'[q] <= n
    <3>1. joined[q] \in Nat /\ joined[q] <= n /\ joined[r] \in Nat /\ joined[r] < n
      BY <2>2, <2>4 DEF Entered
    <3>2. joined = [p \in Ranks |-> joined[p]]
      BY DEF Entered
    <3>3. joined'[q] = IF q = r THEN joined[r] + 1 ELSE joined[q]
      BY <2>2, <3>2
    <3> DEFINE a == joined[q]
               b == joined[r]
    <3>4. a \in Nat /\ a <= n /\ b \in Nat /\ b < n /\ joined'[q] = IF q = r THEN b + 1 ELSE a
      BY <3>1, <3>3
    <3> HIDE DEF a, b
    <3> QED BY <3>4
  <2>6. joined' = [q \in Ranks |-> joined'[q]]
    <3>1. joined = [p \in Ranks |-> joined[p]]
      BY DEF Entered
    <3> QED BY <2>2, <3>1
  <2>7. \A q \in Ranks : joined'[q] <= Collectives(q)'
    BY <2>3, <2>4, <2>5
  <2> QED BY <1>1, <2>5, <2>6, <2>7 DEF Entered
<1>7. CASE Raise
  BY <1>2, <1>7 DEF Raise
<1>8. CASE CollectResponses
  BY <1>2, <1>3, <1>8 DEF CollectResponses
<1>9. CASE CollectBaseline
  BY <1>2, <1>3, <1>9 DEF CollectBaseline
<1>10. CASE CollectColumn
  BY <1>2, <1>3, <1>10 DEF CollectColumn
<1>11. CASE CollectUpdate
  BY <1>2, <1>3, <1>11 DEF CollectUpdate
<1>12. CASE CollectValidation
  BY <1>2, <1>3, <1>12 DEF CollectValidation
<1>13. CASE Assemble
  BY <1>2, <1>4, <1>13 DEF Assemble
<1>14. CASE ComputeAdvantage
  BY <1>2, <1>4, <1>14 DEF ComputeAdvantage
<1>15. CASE UNCHANGED vars
  <2>1. \A q \in Ranks : Collectives(q)' = Collectives(q)
    BY <1>15, CollectivesStay DEF vars
  <2>2. CanRun' <=> CanRun
    BY <1>1, <1>15 DEF vars, CanRun, ColumnsNeeded, Minis, NumMicros, TokensOf, LensOf, MiniSize,
                       MaxTokens, Gathered, Ranks, Updates
  <2> QED BY <1>1, <1>15, <2>1, <2>2 DEF vars, Entered
<1> QED BY <1>5, <1>6, <1>7, <1>8, <1>9, <1>10, <1>11, <1>12, <1>13, <1>14, <1>15 DEF Next, Driver

\* So the call is at its end or goes on.
LEMMA CallGoesOn ==
  ASSUME IInv, Entered, Agreed
  PROVE  NobodyLeftWaiting
<1> SUFFICES ASSUME chunks # <<>>, CanRun
             PROVE  (\A r \in Ranks : Returned(r)) \/ (\E r \in Ranks : CanJoin(r))
  BY DEF NobodyLeftWaiting
<1>1. PICK n \in Nat : \A r \in Ranks : Collectives(r) = n
  BY DEF Agreed
<1> DEFINE S == {joined[r] : r \in Ranks}
<1>2. \A r \in Ranks : joined[r] \in Nat /\ joined[r] <= n
  BY <1>1 DEF Entered
<1>3. S \subseteq Nat
  BY <1>2
<1>4. Ranks # {}
  <2>1. Sized
    BY CallIs
  <2> DEFINE W == config.world
  <2>2. W \in Nat \ {0}
    BY <2>1 DEF Sized
  <2> HIDE DEF W
  <2>3. 0 \in 0..(W - 1)
    BY <2>2
  <2> QED BY <2>3 DEF Ranks, W
<1>5. S # {}
  BY <1>4
<1>6. PICK x \in S : \A y \in S : x <= y
  <2> HIDE DEF S
  <2> QED BY <1>3, <1>5, MinIsLeast
<1>7. PICK r \in Ranks : x = joined[r]
  BY <1>6
<1>8. \A q \in Ranks : joined[q] >= joined[r]
  <2> SUFFICES ASSUME NEW q \in Ranks PROVE joined[q] >= joined[r]
    OBVIOUS
  <2>1. joined[r] <= joined[q] /\ joined[r] \in Nat /\ joined[q] \in Nat
    BY <1>2, <1>6, <1>7
  <2> QED BY <2>1
<1>9. CASE joined[r] < n
  <2>1. joined[r] < Collectives(r)
    BY <1>1, <1>9
  <2>2. CanJoin(r)
    BY <1>8, <2>1 DEF CanJoin
  <2> QED BY <2>2
<1>10. CASE ~ (joined[r] < n)
  <2>1. \A q \in Ranks : joined[q] = n
    <3> SUFFICES ASSUME NEW q \in Ranks PROVE joined[q] = n
      OBVIOUS
    <3>1. joined[r] \in Nat /\ joined[q] \in Nat /\ joined[q] <= n /\ joined[q] >= joined[r]
      BY <1>2, <1>8
    <3> QED BY <1>10, <3>1
  <2>2. \A q \in Ranks : Returned(q)
    <3>1. n >= n
      OBVIOUS
    <3> QED BY <1>1, <2>1, <3>1 DEF Returned
  <2> QED BY <2>2
<1> QED BY <1>9, <1>10

-----------------------------------------------------------------------------
(* The theorems. *)

\* The invariant holds throughout.
LEMMA AlwaysInv ==
  Spec => []IInv
<1>1. Init => IInv
  BY InitHolds
<1>2. IInv /\ [Next]_vars => IInv'
  BY NextKeeps
<1> QED BY <1>1, <1>2, PTL DEF Spec

\* From the union on the batch has one row for every response, and each column of a row is of
\* its own response or prompt: balancing, chunks, gathering and micro-batches lose, double or
\* mix no row.  Of the critic's values this says that they were masked by the row's own mask
\* too, but not with use_dynamic_bsz, which mixes the masks (fit, _balance_batch,
\* dispatch_dp_compute_data_proto, rearrange_micro_batches, compute_values).
THEOREM RowsStayAligned ==
  Spec => []RowsAligned
<1>1. IInv => RowsAligned
  BY InvariantHolds
<1> QED BY <1>1, AlwaysInv, PTL

\* The advantage of a row is computed from all n responses of its own prompt, or against the
\* greedy response of its own prompt, although the rows were reordered before
\* (compute_advantage, _balance_batch).
THEOREM GroupsStayWhole ==
  Spec => []GroupsAreWhole
<1>1. IInv => GroupsAreWhole
  BY InvariantHolds
<1> QED BY <1>1, AlwaysInv, PTL

\* No rank waits in a collective that another rank never enters, and an iteration fails only for
\* sizes that do not divide, or that lack what the update needs (the all-reduce in
\* rearrange_micro_batches, the assertions on sizes).
THEOREM StepsComplete ==
  Spec => []StepCompletes
<1>1. Init => Entered
  BY EnteredAtFirst
<1>2. IInv => Agreed
  BY CollectivesAgree
<1>3. IInv /\ Entered /\ Agreed /\ Agreed' /\ [Next]_vars => Entered'
  BY EnteredStays
<1>4. IInv /\ Entered /\ Agreed => NobodyLeftWaiting
  BY CallGoesOn
<1>5. IInv => RunsWhenDivisible
  BY DEF IInv, BadSizes, RunsWhenDivisible
<1>6. NobodyLeftWaiting /\ RunsWhenDivisible => StepCompletes
  BY DEF StepCompletes
<1> QED BY <1>1, <1>2, <1>3, <1>4, <1>5, <1>6, AlwaysInv, PTL DEF Spec

-----------------------------------------------------------------------------
(* What the updates train. *)

\* Each element replaced by what f has of it.
Through(f, s) == [j \in DOMAIN s |-> f[s[j]]]

\* A function that has something of each element.
Replaces(f, X, Y) == f \in [X -> Y]

\* That is a sequence of the same length.
LEMMA ThroughIs ==
  ASSUME NEW X, NEW Y, NEW f, Replaces(f, X, Y), NEW s \in Seq(X)
  PROVE  Through(f, s) \in Seq(Y) /\ Len(Through(f, s)) = Len(s)
<1>1. Len(s) \in Nat /\ DOMAIN s = 1..Len(s) /\ \A j \in 1..Len(s) : s[j] \in X
  BY LenProperties, ElementOfSeq
<1> DEFINE n == Len(s)
           t == Through(f, s)
<1>2. t = [j \in 1..n |-> t[j]] /\ \A j \in 1..n : t[j] \in Y
  BY <1>1 DEF Through, Replaces
<1>3. n \in Nat
  BY <1>1
<1> HIDE DEF n, t
<1>4. t \in Seq(Y) /\ Len(t) = n
  BY <1>2, <1>3
<1> QED BY <1>4 DEF n, t

\* It does not matter whether the elements are replaced before or after.
LEMMA ThroughConcat ==
  ASSUME NEW X, NEW Y, NEW f, Replaces(f, X, Y), NEW a \in Seq(X), NEW b \in Seq(X)
  PROVE  Through(f, a \o b) = Through(f, a) \o Through(f, b)
<1> DEFINE u == Through(f, a)
           v == Through(f, b)
           c == a \o b
           w == Through(f, c)
           n == Len(a)
           m == Len(b)
<1>1. /\ c \in Seq(X) /\ Len(c) = n + m
      /\ \A i \in 1..(n + m) : c[i] = IF i <= n THEN a[i] ELSE b[i - n]
  BY ConcatProperties
<1> HIDE DEF c
<1>2. u \in Seq(Y) /\ Len(u) = n /\ v \in Seq(Y) /\ Len(v) = m /\ w \in Seq(Y) /\ Len(w) = n + m
  <2>1. u \in Seq(Y) /\ Len(u) = n
    BY ThroughIs
  <2>2. v \in Seq(Y) /\ Len(v) = m
    BY ThroughIs
  <2>3. w \in Seq(Y) /\ Len(w) = n + m
    BY <1>1, ThroughIs
  <2> QED BY <2>1, <2>2, <2>3
<1>3. n \in Nat /\ m \in Nat /\ DOMAIN a = 1..n /\ DOMAIN b = 1..m /\ DOMAIN c = 1..(n + m)
  BY <1>1, LenProperties
<1>4. /\ \A i \in 1..n : u[i] = f[a[i]]
      /\ \A i \in 1..m : v[i] = f[b[i]]
      /\ \A i \in 1..(n + m) : w[i] = f[c[i]]
  BY <1>3 DEF Through
<1> HIDE DEF u, v, w, n, m
<1>5. /\ u \o v \in Seq(Y) /\ Len(u \o v) = n + m
      /\ \A i \in 1..(n + m) : (u \o v)[i] = IF i <= n THEN u[i] ELSE v[i - n]
  BY <1>2, ConcatProperties
<1>6. ASSUME NEW i \in 1..(n + m) PROVE w[i] = (u \o v)[i]
  <2>1. CASE i <= n
    <3>1. i \in 1..n
      BY <1>3, <2>1
    <3>2. c[i] = a[i]
      BY <1>1, <2>1
    <3>3. (u \o v)[i] = u[i]
      BY <1>5, <2>1
    <3> QED BY <1>4, <3>1, <3>2, <3>3
  <2>2. CASE ~ (i <= n)
    <3>1. i - n \in 1..m
      BY <1>3, <2>2
    <3>2. c[i] = b[i - n]
      BY <1>1, <2>2
    <3>3. (u \o v)[i] = v[i - n]
      BY <1>5, <2>2
    <3> QED BY <1>4, <3>1, <3>2, <3>3
  <2> QED BY <2>1, <2>2
<1> DEFINE x == u \o v
<1>7. x \in Seq(Y) /\ Len(x) = Len(w) /\ \A i \in 1..Len(w) : w[i] = x[i]
  BY <1>2, <1>5, <1>6
<1> HIDE DEF x
<1>8. w = x
  BY <1>2, <1>7, SeqEqual
<1> QED BY <1>8 DEF x, u, v, w, c

\* Pieces whose elements are replaced.
PiecesThrough(X, Y, f, p, q, n) ==
  /\ Replaces(f, X, Y) /\ Pieces(X, p, n)
  /\ \A i \in 1..n : q[i] = Through(f, p[i])

\* They make what is made of the pieces, replaced.
LEMMA JoinedThrough ==
  ASSUME NEW X, NEW Y, NEW f, NEW p, NEW q, NEW n, PiecesThrough(X, Y, f, p, q, n)
  PROVE  Pieces(Y, q, n) /\ Joined(q, n) = Through(f, Joined(p, n))
<1>1. Replaces(f, X, Y) /\ Pieces(X, p, n) /\ n \in Nat /\ \A i \in 1..n : q[i] = Through(f, p[i]) /\ p[i] \in Seq(X)
  BY DEF PiecesThrough, Pieces
<1>2. Pieces(Y, q, n)
  <2>1. ASSUME NEW i \in 1..n PROVE q[i] \in Seq(Y)
    BY <1>1, ThroughIs
  <2> QED BY <1>1, <2>1 DEF Pieces
<1> DEFINE S == {k \in Nat : k <= n => Joined(q, k) = Through(f, Joined(p, k))}
<1>3. 0 \in S
  <2>1. Joined(q, 0) = <<>> /\ Joined(p, 0) = <<>>
    BY JoinedNone
  <2>2. Through(f, <<>>) = <<>>
    BY DEF Through
  <2> QED BY <2>1, <2>2
<1>4. ASSUME NEW k \in S PROVE k + 1 \in S
  <2>1. SUFFICES ASSUME k + 1 <= n PROVE Joined(q, k + 1) = Through(f, Joined(p, k + 1))
    OBVIOUS
  <2>2. k \in 0..n /\ k < n /\ k + 1 \in 1..n /\ Joined(q, k) = Through(f, Joined(p, k))
    BY <1>1, <2>1
  <2>3. Joined(p, k + 1) = Joined(p, k) \o p[k + 1] /\ Joined(p, k) \in Seq(X)
    BY <1>1, <2>2, JoinedNext
  <2>4. Joined(q, k + 1) = Joined(q, k) \o q[k + 1]
    BY <1>2, <2>2, JoinedNext
  <2>5. p[k + 1] \in Seq(X) /\ q[k + 1] = Through(f, p[k + 1])
    BY <1>1, <2>2
  <2> DEFINE a == Joined(p, k)
             b == p[k + 1]
  <2>7. Joined(q, k + 1) = Through(f, a) \o Through(f, b) /\ a \in Seq(X) /\ b \in Seq(X)
    BY <2>2, <2>3, <2>4, <2>5
  <2> HIDE DEF a, b
  <2>8. Joined(p, k + 1) = a \o b
    BY <2>3 DEF a, b
  <2>6. Through(f, a \o b) = Through(f, a) \o Through(f, b)
    BY <1>1, <2>7, ThroughConcat
  <2> QED BY <2>6, <2>7, <2>8
<1>5. S = Nat
  <2>1. S \subseteq Nat
    OBVIOUS
  <2> HIDE DEF S
  <2> QED BY <1>3, <1>4, <2>1, AllNumbers, Zenon
<1>6. n \in S /\ n <= n
  <2> HIDE DEF S
  <2> QED BY <1>1, <1>5
<1>7. Joined(q, n) = Through(f, Joined(p, n))
  BY <1>6
<1> QED BY <1>2, <1>7

\* As many elements, and the same ones.
Alike(s, t) == Len(s) = Len(t) /\ ToSet(s) = ToSet(t)

\* The elements of two sequences one behind the other.
LEMMA ConcatSet ==
  ASSUME NEW X, NEW a \in Seq(X), NEW b \in Seq(X)
  PROVE  ToSet(a \o b) = ToSet(a) \cup ToSet(b) /\ Len(a \o b) = Len(a) + Len(b)
<1> DEFINE c == a \o b
           n == Len(a)
           m == Len(b)
<1>1. /\ c \in Seq(X) /\ Len(c) = n + m
      /\ \A i \in 1..(n + m) : c[i] = IF i <= n THEN a[i] ELSE b[i - n]
  BY ConcatProperties
<1> HIDE DEF c
<1>2. n \in Nat /\ m \in Nat /\ DOMAIN a = 1..n /\ DOMAIN b = 1..m /\ DOMAIN c = 1..(n + m)
  BY <1>1, LenProperties
<1> HIDE DEF n, m
<1>3. ASSUME NEW x \in ToSet(c) PROVE x \in ToSet(a) \cup ToSet(b)
  <2>1. PICK i \in 1..(n + m) : x = c[i]
    BY <1>2 DEF ToSet
  <2>2. CASE i <= n
    <3>1. i \in 1..n /\ x = a[i]
      BY <1>1, <1>2, <2>1, <2>2
    <3> QED BY <1>2, <3>1 DEF ToSet
  <2>3. CASE ~ (i <= n)
    <3>1. i - n \in 1..m /\ x = b[i - n]
      BY <1>1, <1>2, <2>1, <2>3
    <3> QED BY <1>2, <3>1 DEF ToSet
  <2> QED BY <2>2, <2>3
<1>4. ASSUME NEW x \in ToSet(a) PROVE x \in ToSet(c)
  <2>1. PICK i \in 1..n : x = a[i]
    BY <1>2 DEF ToSet
  <2>2. i \in 1..(n + m) /\ x = c[i]
    BY <1>1, <1>2, <2>1
  <2> QED BY <1>2, <2>2 DEF ToSet
<1>5. ASSUME NEW x \in ToSet(b) PROVE x \in ToSet(c)
  <2>1. PICK i \in 1..m : x = b[i]
    BY <1>2 DEF ToSet
  <2>2. n + i \in 1..(n + m) /\ ~ (n + i <= n) /\ (n + i) - n = i
    BY <1>2
  <2>3. x = c[n + i]
    BY <1>1, <2>1, <2>2
  <2> QED BY <1>2, <2>2, <2>3 DEF ToSet
<1>6. ToSet(c) = ToSet(a) \cup ToSet(b)
  BY <1>3, <1>4, <1>5
<1> QED BY <1>1, <1>6 DEF c, n, m

\* Pieces that are alike.
PiecesAlike(X, p, q, n) ==
  Pieces(X, p, n) /\ Pieces(X, q, n) /\ \A i \in 1..n : Alike(p[i], q[i])

\* Put together they are alike, too.
LEMMA JoinedAlike ==
  ASSUME NEW X, NEW p, NEW q, NEW n, PiecesAlike(X, p, q, n)
  PROVE  Alike(Joined(p, n), Joined(q, n))
<1>1. Pieces(X, p, n) /\ Pieces(X, q, n) /\ n \in Nat
      /\ \A i \in 1..n : Alike(p[i], q[i]) /\ p[i] \in Seq(X) /\ q[i] \in Seq(X)
  BY DEF PiecesAlike, Pieces
<1> DEFINE S == {k \in Nat : k <= n => Alike(Joined(p, k), Joined(q, k))}
<1>2. 0 \in S
  <2>1. Joined(q, 0) = Joined(p, 0)
    BY JoinedNone
  <2> QED BY <2>1 DEF Alike
<1>3. ASSUME NEW k \in S PROVE k + 1 \in S
  <2>1. SUFFICES ASSUME k + 1 <= n PROVE Alike(Joined(p, k + 1), Joined(q, k + 1))
    OBVIOUS
  <2>2. k \in 0..n /\ k < n /\ k + 1 \in 1..n /\ Alike(Joined(p, k), Joined(q, k))
    BY <1>1, <2>1
  <2>3. Joined(p, k + 1) = Joined(p, k) \o p[k + 1] /\ Joined(p, k) \in Seq(X)
    BY <1>1, <2>2, JoinedNext
  <2>4. Joined(q, k + 1) = Joined(q, k) \o q[k + 1] /\ Joined(q, k) \in Seq(X)
    BY <1>1, <2>2, JoinedNext
  <2>5. p[k + 1] \in Seq(X) /\ q[k + 1] \in Seq(X) /\ Alike(p[k + 1], q[k + 1])
    BY <1>1, <2>2
  <2> DEFINE a == Joined(p, k)
             b == p[k + 1]
             c == Joined(q, k)
             d == q[k + 1]
  <2>6. /\ ToSet(a \o b) = ToSet(a) \cup ToSet(b) /\ Len(a \o b) = Len(a) + Len(b)
        /\ ToSet(c \o d) = ToSet(c) \cup ToSet(d) /\ Len(c \o d) = Len(c) + Len(d)
    BY <2>3, <2>4, <2>5, ConcatSet
  <2>7. Joined(p, k + 1) = a \o b /\ Joined(q, k + 1) = c \o d /\ Alike(a, c) /\ Alike(b, d)
    BY <2>2, <2>3, <2>4, <2>5
  <2> HIDE DEF a, b, c, d
  <2>8. Alike(a \o b, c \o d)
    BY <2>6, <2>7 DEF Alike
  <2> QED BY <2>7, <2>8
<1>4. S = Nat
  <2>1. S \subseteq Nat
    OBVIOUS
  <2> HIDE DEF S
  <2> QED BY <1>2, <1>3, <2>1, AllNumbers, Zenon
<1>5. n \in S /\ n <= n
  <2> HIDE DEF S
  <2> QED BY <1>1, <1>4
<1> QED BY <1>5

\* There are as many micro-batches as NumMicros says.
LEMMA MicrosCount ==
  ASSUME Sized, NEW X, NEW m, HasRows(X, m), NEW r \in Ranks
  PROVE  Len(Micros(r, m)) = NumMicros(r, m)
<1> DEFINE rows == Minis(r)[m]
           k == NumMicros(r, m)
           p == Micros(r, m)
<1>1. CASE config.dynamic
  <2>1. CanPartition(LensOf(rows), k, FALSE)
    BY <1>1, SomeMicros
  <2>2. p = Partitions(LensOf(rows), k, FALSE)
    BY <1>1 DEF Micros
  <2> HIDE DEF rows, k, p
  <2>3. k \in Nat
    BY <2>1 DEF CanPartition
  <2>4. p = [i \in 1..k |-> p[i]]
    BY <2>2 DEF Partitions
  <2>5. Len(p) = k
    BY <2>3, <2>4
  <2> QED BY <2>5 DEF p, k
<1>2. CASE ~ config.dynamic
  <2> DEFINE L == Len(rows)
             id == [i \in DOMAIN rows |-> i]
  <2>1. L \in Nat /\ DOMAIN rows = 1..L
    <3>1. rows \in Seq(X)
      BY DEF HasRows
    <3> HIDE DEF rows
    <3> QED BY <3>1, LenProperties
  <2>2. p = Split(id, config.micro) /\ k = CeilDiv(L, config.micro)
    BY <1>2 DEF Micros, NumMicros
  <2> HIDE DEF rows, k, p, L
  <2>3. Len(id) = L
    BY <2>1
  <2> HIDE DEF id
  <2>4. p = [i \in 1..k |-> p[i]]
    BY <2>2, <2>3 DEF Split
  <2>5. k \in Nat
    <3>1. config.micro \in Nat \ {0}
      BY DEF Sized
    <3>2. Covers(L, config.micro, k)
      BY <2>1, <2>2, <3>1, CeilDivIs
    <3> QED BY <3>2 DEF Covers
  <2>6. Len(p) = k
    BY <2>4, <2>5
  <2> QED BY <2>6 DEF p, k
<1> QED BY <1>1, <1>2

\* The response of each row.
Ids(X) == [x \in X |-> x.input_ids]

\* The rows of some mini-batch are trained each once.
TrainsMini(X, r, m) ==
  /\ FlattenSeq(Update(r)[m]) \in Seq(Responses)
  /\ Alike(FlattenSeq(Update(r)[m]), Through(Ids(X), Minis(r)[m]))

\* The micro-batches see to that.
LEMMA MiniIsTrained ==
  ASSUME Sized, NEW X, Replaces(Ids(X), X, Responses), NEW m, HasRows(X, m), NEW r \in Ranks,
         m \in DOMAIN Minis(r)
  PROVE  TrainsMini(X, r, m)
<1> DEFINE rows == Minis(r)[m]
           L == Len(rows)
           M == Micros(r, m)
           f == Ids(X)
           h == [j \in 1..L |-> rows[j].input_ids]
           q == Update(r)[m]
           u == Through(f, rows)
<1>1. rows \in Seq(X)
  BY DEF HasRows
<1>2. L \in Nat /\ DOMAIN rows = 1..L /\ \A j \in 1..L : rows[j] \in X
  <2> HIDE DEF rows
  <2> QED BY <1>1, LenProperties, ElementOfSeq
<1>3. PICK k : InAll(M, k, L)
  BY MicrosAre
<1>4. q = [a \in DOMAIN M |-> [i \in DOMAIN M[a] |-> rows[M[a][i]].input_ids]]
  BY DEF Update
<1> HIDE DEF M, q, rows, L
<1>5. Replaces(h, 1..L, Responses)
  <2>1. \A x \in X : x.input_ids \in Responses
    BY DEF Replaces, Ids
  <2> QED BY <1>2, <2>1 DEF Replaces
<1>6. /\ k \in Nat \ {0} /\ M = [i \in 1..k |-> M[i]] /\ Pieces(1..L, M, k)
      /\ Permutes(FlattenSeq(M), L) /\ FlattenSeq(M) \in Seq(1..L) /\ FlattenSeq(M) = Joined(M, k)
  BY <1>3 DEF InAll
<1>7. DOMAIN M = 1..k /\ q = [a \in 1..k |-> q[a]]
  <2>1. DOMAIN M = 1..k
    BY <1>6
  <2> QED BY <1>4, <2>1
<1>8. ASSUME NEW a \in 1..k PROVE q[a] = Through(h, M[a])
  <2>1. M[a] \in Seq(1..L)
    BY <1>6 DEF Pieces
  <2>2. \A i \in DOMAIN M[a] : M[a][i] \in 1..L
    BY <2>1, LenProperties, ElementOfSeq
  <2>3. q[a] = [i \in DOMAIN M[a] |-> rows[M[a][i]].input_ids]
    BY <1>4, <1>7
  <2> QED BY <2>2, <2>3 DEF Through
<1> HIDE DEF h
<1>9. Pieces(Responses, q, k) /\ Joined(q, k) = Through(h, Joined(M, k))
  <2>1. PiecesThrough(1..L, Responses, h, M, q, k)
    BY <1>5, <1>6, <1>8 DEF PiecesThrough
  <2> QED BY <2>1, JoinedThrough
<1> DEFINE order == FlattenSeq(M)
           v == Through(h, order)
<1>10. FlattenSeq(q) = v
  <2>1. FlattenSeq(q) = Joined(q, k)
    BY <1>7 DEF Joined
  <2> QED BY <1>6, <1>9, <2>1
<1>11. order \in Seq(1..L) /\ Permutes(order, L)
  BY <1>6
<1> HIDE DEF order
<1>12. v \in Seq(Responses) /\ Len(v) = L
  <2>1. v \in Seq(Responses) /\ Len(v) = Len(order)
    BY <1>5, <1>11, ThroughIs
  <2>2. DOMAIN order = 1..L /\ DOMAIN order = 1..Len(order) /\ Len(order) \in Nat
    <3>1. DOMAIN order = 1..L
      BY <1>11 DEF Permutes
    <3> QED BY <1>11, <3>1, LenProperties
  <2> DEFINE z == Len(order)
  <2>3. 1..z = 1..L /\ z \in Nat
    BY <2>2
  <2> HIDE DEF z
  <2>4. z = L
    BY <1>2, <2>3
  <2> QED BY <2>1, <2>4 DEF z
<1>13. ToSet(v) = {h[j] : j \in 1..L}
  <2>1. /\ DOMAIN order = 1..L /\ \A j \in 1..L : order[j] \in 1..L
        /\ \A j \in 1..L : \E i \in 1..L : order[i] = j
    BY <1>11 DEF Permutes
  <2>2. DOMAIN v = 1..L /\ \A j \in 1..L : v[j] = h[order[j]]
    BY <2>1 DEF Through
  <2> HIDE DEF v
  <2>3. ToSet(v) = {v[j] : j \in 1..L}
    BY <2>2 DEF ToSet
  <2>4. ASSUME NEW j \in 1..L PROVE v[j] \in {h[i] : i \in 1..L}
    BY <2>1, <2>2
  <2>5. ASSUME NEW j \in 1..L PROVE h[j] \in {v[i] : i \in 1..L}
    <3>1. PICK i \in 1..L : order[i] = j
      BY <2>1
    <3>2. v[i] = h[j]
      BY <2>2, <3>1
    <3> QED BY <3>2
  <2> QED BY <2>3, <2>4, <2>5
<1>14. u \in Seq(Responses) /\ Len(u) = L
  <2>1. u \in Seq(Responses) /\ Len(u) = Len(rows)
    <3> HIDE DEF f
    <3>1. Replaces(f, X, Responses)
      BY DEF f
    <3> QED BY <1>1, <3>1, ThroughIs
  <2> QED BY <2>1 DEF L
<1>15. ToSet(u) = {h[j] : j \in 1..L}
  <2>1. DOMAIN u = 1..L /\ \A j \in 1..L : u[j] = h[j]
    BY <1>2 DEF Through, Ids, h
  <2> HIDE DEF u
  <2>2. ToSet(u) = {u[j] : j \in 1..L}
    BY <2>1 DEF ToSet
  <2> QED BY <2>1, <2>2
<1> HIDE DEF u, v
<1>16. Alike(v, u)
  BY <1>12, <1>13, <1>14, <1>15 DEF Alike
<1> QED BY <1>10, <1>12, <1>16 DEF TrainsMini, q, u, f, rows

\* The rows of t that one rank was trained on.
RowsOf(t, r) == FlattenSeq([m \in DOMAIN t[r] |-> FlattenSeq(t[r][m])])

\* The rank is trained on the rows of its group.
TrainsGroup(X, t, r) ==
  /\ RowsOf(t, r) \in Seq(Responses)
  /\ Alike(RowsOf(t, r), Through(Ids(X), Gathered(r, config.sp)))

\* The mini-batches see to that.
LEMMA GroupIsTrained ==
  ASSUME Sized, NEW X, Replaces(Ids(X), X, Responses), NEW c, NEW ln, Level(X, c, ln), NEW r \in Ranks,
         NEW t, t[r] = Update(r)
  PROVE  TrainsGroup(X, t, r)
<1> DEFINE g == Minis(r)
           f == Ids(X)
           q == [m \in 1..c |-> Through(f, g[m])]
           p == [m \in 1..c |-> FlattenSeq(t[r][m])]
<1>1. /\ g = [i \in 1..c |-> g[i]] /\ Pieces(X, g, c) /\ Joined(g, c) = Gathered(r, config.sp)
      /\ c \in Nat /\ \A i \in 1..c : HasRows(X, i)
  BY DEF Level
<1>2. DOMAIN g = 1..c
  <2> HIDE DEF g
  <2> QED BY <1>1
<1>3. DOMAIN t[r] = 1..c
  BY <1>2 DEF Update
<1>4. ASSUME NEW m \in 1..c
      PROVE  p[m] \in Seq(Responses) /\ Alike(p[m], q[m])
  <2>1. TrainsMini(X, r, m)
    BY <1>1, <1>2, MiniIsTrained
  <2>2. p[m] = FlattenSeq(Update(r)[m]) /\ q[m] = Through(Ids(X), Minis(r)[m])
    OBVIOUS
  <2> HIDE DEF p, q
  <2> QED BY <2>1, <2>2 DEF TrainsMini
<1>5. RowsOf(t, r) = Joined(p, c)
  BY <1>3 DEF RowsOf, Joined
<1> HIDE DEF p, f, g
<1>6. Pieces(Responses, q, c) /\ Joined(q, c) = Through(f, Joined(g, c))
  <2>1. \A m \in 1..c : q[m] = Through(f, g[m])
    OBVIOUS
  <2> HIDE DEF q
  <2>2. PiecesThrough(X, Responses, f, g, q, c)
    BY <1>1, <2>1 DEF PiecesThrough, f
  <2> QED BY <2>2, JoinedThrough
<1> HIDE DEF q
<1>7. Pieces(Responses, p, c)
  BY <1>1, <1>4 DEF Pieces
<1>8. Joined(p, c) \in Seq(Responses)
  <2>1. c \in 0..c
    BY <1>1
  <2> QED BY <1>7, <2>1, JoinedNext
<1>9. Alike(Joined(p, c), Joined(q, c))
  <2>1. PiecesAlike(Responses, p, q, c)
    BY <1>4, <1>6, <1>7 DEF PiecesAlike
  <2> QED BY <2>1, JoinedAlike
<1> QED BY <1>1, <1>5, <1>6, <1>8, <1>9 DEF TrainsGroup, f

\* The groups one behind the other are the rows that were sent.
LEMMA GroupsAreAll ==
  ASSUME Sized, NEW X, NEW all, NEW m, IsChunked(X, all, config.world, m)
  PROVE  FlattenSeq([g \in 1..(config.world \div config.sp) |-> Gathered((g - 1) * config.sp, config.sp)]) = all
<1> DEFINE W == config.world
           sp == config.sp
           G == W \div sp
           L == sp * m
           p == [g \in 1..G |-> Gathered((g - 1) * sp, sp)]
           bound == [k \in 0..G |-> k * L]
<1>1. /\ all \in Seq(X) /\ W \in Nat \ {0} /\ sp \in Nat \ {0} /\ W % sp = 0 /\ m \in Nat
      /\ Len(all) = W * m
  BY DEF Sized, IsChunked
<1>2. G \in Nat /\ W = sp * G
  <2> HIDE DEF W, sp
  <2>1. G \in Nat /\ W = sp * G + (W % sp)
    BY <1>1, Division
  <2> QED BY <1>1, <2>1
<1>3. ASSUME NEW g \in 1..G
      PROVE  /\ p[g] = Part(all, (g - 1) * L, g * L)
             /\ (g - 1) * L \in Nat /\ g * L = (g - 1) * L + L /\ g * L <= Len(all)
  <2> DEFINE r == (g - 1) * sp
             lo == (g - 1) * L
             e == Gathered(r, sp)
  <2>0. g \in Nat /\ g - 1 \in Nat /\ g - 1 < G /\ g = (g - 1) + 1 /\ g <= G
    <3> HIDE DEF G
    <3> QED BY <1>2
  <2>1. r \in Nat /\ r + sp <= W
    <3> DEFINE a == g - 1
    <3>1. a \in Nat /\ a < G
      BY <2>0
    <3> HIDE DEF a, G, sp, W
    <3>2. sp * a + sp <= sp * G
      BY <1>1, <1>2, <3>1, ProductGrows
    <3>3. a * sp = sp * a /\ a * sp \in Nat
      BY <1>1, <3>1
    <3>4. a * sp + sp <= W /\ a * sp \in Nat
      BY <1>2, <3>2, <3>3
    <3> QED BY <3>4 DEF a
  <2>2. r \in 0..(W - 1)
    <3> HIDE DEF r, W, sp
    <3> QED BY <1>1, <2>1
  <2>3. Base(r, sp) = r
    <3> DEFINE a == g - 1
    <3>1. a \in Nat /\ 0 \in 0..(sp - 1)
      <4>1. a \in Nat
        BY <2>0
      <4> HIDE DEF a, sp
      <4> QED BY <1>1, <4>1
    <3> HIDE DEF a, sp, G
    <3>2. (sp * a + 0) \div sp = a
      BY <1>1, <3>1, DivisionIsUnique
    <3>3. sp * a + 0 = a * sp
      BY <1>1, <3>1
    <3>4. Base(a * sp, sp) = a * sp
      BY <3>2, <3>3 DEF Base
    <3> QED BY <3>4 DEF a
  <2>4. /\ e \in Seq(X) /\ Len(e) = L
        /\ \A i \in 1..L : r * m + i \in 1..Len(all) /\ e[i] = all[r * m + i]
    <3>1. GatheredRows(X, all, m, r, sp)
      <4> HIDE DEF r
      <4> QED BY <1>1, <2>2, GatheredIs
    <3> QED BY <2>3, <3>1 DEF GatheredRows
  <2>5. r * m = lo
    <3> DEFINE a == g - 1
    <3>1. a \in Nat
      BY <2>0
    <3> HIDE DEF a, sp, G
    <3>2. (a * sp) * m = a * (sp * m)
      BY <1>1, <3>1
    <3> QED BY <3>2 DEF a
  <2>6. lo \in Nat /\ g * L = lo + L /\ g * L <= Len(all) /\ L \in Nat
    <3> HIDE DEF G, W, sp
    <3>1. sp * m \in Nat
      BY <1>1
    <3> HIDE DEF L
    <3>2. (g - 1) * L \in Nat /\ g * L = (g - 1) * L + L
      BY <2>0, <3>1 DEF L
    <3>3. g * L <= G * L
      BY <1>2, <2>0, <3>1, ProductOrder DEF L
    <3>4. G * L = W * m
      <4>1. G * (sp * m) = (sp * G) * m
        BY <1>1, <1>2
      <4> QED BY <1>2, <4>1 DEF L
    <3> QED BY <1>1, <3>1, <3>2, <3>3, <3>4 DEF L
  <2> DEFINE d == SubSeq(all, lo + 1, lo + L)
  <2>7. Len(all) \in Nat /\ lo + L <= Len(all)
    BY <1>1, <2>6, LenProperties
  <2> HIDE DEF lo, L, e
  <2>8. d \in Seq(X) /\ Len(d) = L /\ \A i \in 1..L : d[i] = all[lo + i]
    BY <1>1, <2>6, <2>7, SubSeqProperties
  <2> HIDE DEF d
  <2>9. \A i \in 1..L : e[i] = d[i]
    BY <2>4, <2>5, <2>8
  <2>10. e = d
    BY <2>4, <2>8, <2>9, SeqEqual
  <2>11. p[g] = Part(all, lo, lo + L)
    BY <2>10 DEF e, d, Part
  <2> HIDE DEF p
  <2> QED BY <2>6, <2>11 DEF lo
<1> HIDE DEF p, G, L, W, sp
<1>4. Len(all) \in Nat /\ L \in Nat
  <2>1. sp * m \in Nat
    BY <1>1
  <2> QED BY <1>1, <2>1, LenProperties DEF L
<1>5. G * L = Len(all)
  <2>1. G * (sp * m) = (sp * G) * m
    BY <1>1, <1>2
  <2> QED BY <1>1, <1>2, <2>1 DEF L
<1>6. Slices(X, all, p, bound, G)
  <2>1. ASSUME NEW k \in 0..G PROVE bound[k] \in 0..Len(all)
    <3>1. k \in Nat /\ k <= G
      BY <1>2
    <3>2. k * L \in Nat /\ k * L <= G * L
      BY <1>2, <1>4, <3>1, ProductOrder
    <3> QED BY <1>4, <1>5, <3>2
  <2>2. ASSUME NEW k \in 1..G
        PROVE  bound[k - 1] <= bound[k] /\ p[k] = Part(all, bound[k - 1], bound[k])
    <3>1. k - 1 \in 0..G /\ k \in 0..G
      BY <1>2
    <3>2. bound[k - 1] = (k - 1) * L /\ bound[k] = k * L
      BY <3>1
    <3> DEFINE x == (k - 1) * L
               y == k * L
    <3>3. x \in Nat /\ y = x + L /\ p[k] = Part(all, x, y)
      BY <1>3
    <3>4. bound[k - 1] = x /\ bound[k] = y
      BY <3>2
    <3> HIDE DEF x, y, bound
    <3>5. x <= y
      BY <1>4, <3>3
    <3> QED BY <3>3, <3>4, <3>5
  <2> HIDE DEF bound
  <2> QED BY <1>1, <1>2, <2>1, <2>2 DEF Slices
<1>7. bound[0] = 0 /\ bound[G] = Len(all) /\ G \in 0..G
  <2>1. 0 \in 0..G /\ G \in 0..G /\ 0 * L = 0
    BY <1>2, <1>4
  <2> QED BY <1>5, <2>1
<1> HIDE DEF bound
<1>8. Joined(p, G) = Part(all, 0, Len(all))
  BY <1>6, <1>7, SlicesMakeWhole
<1>9. Part(all, 0, Len(all)) = all
  BY <1>1, PartIsAll
<1>10. Joined(p, G) = FlattenSeq([g \in 1..G |-> Gathered((g - 1) * sp, sp)])
  <2>1. [g \in 1..G |-> p[g]] = [g \in 1..G |-> Gathered((g - 1) * sp, sp)]
    BY DEF p
  <2> QED BY <2>1 DEF Joined
<1> QED BY <1>8, <1>9, <1>10 DEF G, W, sp

\* The ranks of a group have the same rows.
LEMMA GroupIsOne ==
  ASSUME Sized, NEW r \in Ranks
  PROVE  /\ Base(r, config.sp) \in Ranks
         /\ Update(r) = Update(Base(r, config.sp))
<1> DEFINE W == config.world
           sp == config.sp
           b == Base(r, sp)
<1>1. W \in Nat \ {0} /\ sp \in Nat \ {0} /\ W % sp = 0 /\ Ranks = 0..(W - 1) /\ r \in 0..(W - 1)
  BY DEF Sized, Ranks
<1> HIDE DEF W, sp
<1>2. b \in Nat /\ b + sp <= W /\ b = (r \div sp) * sp
  <2>1. InGroup(W, sp, r)
    BY <1>1, BaseIs
  <2> QED BY <2>1 DEF InGroup, Base
<1>3. Base(b, sp) = b
  <2> DEFINE a == r \div sp
  <2>1. a \in Nat
    <3>1. r \in Nat
      BY <1>1
    <3> QED BY <1>1, <3>1, Division
  <2>2. b = a * sp
    BY <1>2
  <2> HIDE DEF a, b
  <2>3. 0 \in 0..(sp - 1)
    BY <1>1
  <2>4. (sp * a + 0) \div sp = a
    BY <1>1, <2>1, <2>3, DivisionIsUnique
  <2>5. sp * a + 0 = a * sp
    BY <1>1, <2>1
  <2>6. Base(a * sp, sp) = a * sp
    BY <2>4, <2>5 DEF Base
  <2> QED BY <2>2, <2>6
<1>4. b \in Ranks
  <2> HIDE DEF b
  <2>1. b \in 0..(W - 1)
    BY <1>1, <1>2
  <2> QED BY <1>1, <2>1
<1> HIDE DEF b
<1>5. Gathered(r, sp) = Gathered(b, sp)
  BY <1>3 DEF Gathered, b
<1>6. Minis(r) = Minis(b)
  BY <1>5 DEF Minis, sp
<1>7. ASSUME NEW m PROVE Micros(r, m) = Micros(b, m)
  <2>1. NumMicros(r, m) = NumMicros(b, m)
    BY <1>6 DEF NumMicros
  <2> QED BY <1>6, <2>1 DEF Micros
<1>8. Update(r) = Update(b)
  BY <1>6, <1>7 DEF Update
<1> QED BY <1>4, <1>8 DEF b, sp

\* An update that trains each response once, with the same steps on all ranks.
Complete(t) ==
  LET rows == FlattenSeq([g \in 1..(config.world \div config.sp) |-> RowsOf(t, (g - 1) * config.sp)])
  IN  /\ ToSet(rows) = Responses /\ Len(rows) = Cardinality(Responses)
      /\ \A r \in Ranks :
           /\ t[r] = t[Base(r, config.sp)]
           /\ [m \in DOMAIN t[r] |-> Len(t[r][m])] = [m \in DOMAIN t[0] |-> Len(t[0][m])]

\* The rows of the batch are all responses.
LEMMA BatchIsWhole ==
  ASSUME IInv, NEW i, Aligned(batch, i), i \in 4..12
  PROVE  /\ Len(batch) = Cardinality(Responses) /\ DOMAIN batch = 1..Size
         /\ {row.input_ids : row \in ToSet(batch)} = Responses
<1>1. Sized
  BY ConfigIsSized DEF IInv, HasLengths
<1>2. Size \in Nat \ {0}
  BY <1>1, AllResponsesAre DEF ResponsesComplete
<1> DEFINE N == Size
<1>3. /\ batch = [j \in 1..N |-> batch[j]] /\ \A j \in 1..N : DOMAIN batch[j] = Cols(i)
      /\ N \in Nat \ {0}
  BY <1>2 DEF Aligned
<1> HIDE DEF N
<1>4. DOMAIN batch = 1..N /\ 1 \in 1..N
  BY <1>3
<1>5. batch # <<>>
  <2>1. 1 \in DOMAIN batch /\ 1 \notin DOMAIN <<>>
    BY <1>4
  <2> QED BY <2>1
<1>6. "input_ids" \in Columns(batch)
  <2>1. i \in 1..12 /\ 3 < i
    OBVIOUS
  <2>2. "input_ids" \in Cols(i)
    BY <2>1, ColumnsAre
  <2> QED BY <1>3, <1>4, <1>5, <2>2 DEF Columns
<1>7. RowsAligned
  BY InvariantHolds
<1> QED BY <1>4, <1>6, <1>7 DEF RowsAligned, N

\* An update is complete when it is collected.
LEMMA UpdateIsComplete ==
  ASSUME IInv, chunks # <<>>, CanRun, stage \in Updates
  PROVE  Complete([r \in Ranks |-> Update(r)])
<1> DEFINE W == config.world
           sp == config.sp
           G == W \div sp
           X == {batch[j] : j \in 1..Size}
           f == Ids(X)
           t == [r \in Ranks |-> Update(r)]
<1>1. PICK i : Called(i)
  BY CallIs
<1>2. Sized /\ stage \notin {"generate", "baseline", "validate"}
  BY CallIs DEF Updates
<1>3. Aligned(batch, i) /\ i \in 4..12
  BY <1>1, <1>2 DEF Called
<1>4. MiniSize \in Nat \ {0}
  <2> DEFINE size == MiniSize
  <2>1. size > 0
    BY DEF CanRun
  <2>2. size \in Nat
    BY <1>2, MiniSizeIsNumber
  <2> HIDE DEF size
  <2>3. size \in Nat \ {0}
    BY <2>1, <2>2
  <2> QED BY <2>3 DEF size
<1>5. PICK m, c, ln : LevelCall(m, c, ln)
  BY <1>2, <1>4, CallIsLevel
<1>6. Level(X, c, ln) /\ IsChunked(X, batch, W, m)
  BY <1>5 DEF LevelCall, BatchSent
<1>7. Replaces(f, X, Responses)
  <2>1. \A j \in 1..Size : batch[j].input_ids \in Responses
    BY <1>3 DEF Aligned
  <2>2. \A x \in X : x.input_ids \in Responses
    BY <2>1
  <2> HIDE DEF X
  <2> QED BY <2>2 DEF Replaces, Ids
<1>8. /\ W \in Nat \ {0} /\ sp \in Nat \ {0} /\ W % sp = 0 /\ Ranks = 0..(W - 1)
  BY <1>2 DEF Sized, Ranks
<1>9. ToSet(batch) = X /\ {x.input_ids : x \in X} = Responses /\ Len(batch) = Cardinality(Responses)
  <2>1. /\ Len(batch) = Cardinality(Responses) /\ DOMAIN batch = 1..Size
        /\ {row.input_ids : row \in ToSet(batch)} = Responses
    BY <1>3, BatchIsWhole
  <2>2. ToSet(batch) = X
    BY <2>1 DEF ToSet
  <2> QED BY <2>1, <2>2
<1> HIDE DEF X
<1>10. \A r \in Ranks : t[r] = Update(r)
  OBVIOUS
<1> HIDE DEF t
<1>11. ASSUME NEW r \in Ranks PROVE TrainsGroup(X, t, r)
  BY <1>2, <1>6, <1>7, <1>10, GroupIsTrained DEF f
<1> DEFINE p == [g \in 1..G |-> RowsOf(t, (g - 1) * sp)]
           d == [g \in 1..G |-> Gathered((g - 1) * sp, sp)]
           q == [g \in 1..G |-> Through(f, Gathered((g - 1) * sp, sp))]
<1>12. G \in Nat /\ W = sp * G
  <2> HIDE DEF W, sp
  <2>1. G \in Nat /\ W = sp * G + (W % sp)
    BY <1>8, Division
  <2> QED BY <1>8, <2>1
<1>13. ASSUME NEW g \in 1..G PROVE (g - 1) * sp \in Ranks
  <2> DEFINE a == g - 1
  <2>1. a \in Nat /\ a < G
    <3> HIDE DEF G
    <3> QED BY <1>12
  <2> HIDE DEF a, G, sp, W
  <2>2. sp * a + sp <= sp * G
    BY <1>8, <1>12, <2>1, ProductGrows
  <2>3. a * sp = sp * a /\ a * sp \in Nat
    BY <1>8, <2>1
  <2> DEFINE z == a * sp
  <2>4. z \in Nat /\ z + sp <= W
    BY <1>12, <2>2, <2>3
  <2> HIDE DEF z
  <2>5. z \in 0..(W - 1)
    BY <1>8, <2>4
  <2> QED BY <1>8, <2>5 DEF z, a
<1>14. ASSUME NEW g \in 1..G
       PROVE  /\ p[g] \in Seq(Responses) /\ q[g] \in Seq(Responses) /\ Alike(p[g], q[g])
              /\ d[g] \in Seq(X) /\ q[g] = Through(f, d[g])
  <2> DEFINE r == (g - 1) * sp
  <2>1. r \in Ranks
    BY <1>13
  <2>2. p[g] = RowsOf(t, r) /\ d[g] = Gathered(r, sp) /\ q[g] = Through(f, Gathered(r, sp))
    OBVIOUS
  <2> HIDE DEF r, p, d, q, f
  <2>3. TrainsGroup(X, t, r)
    BY <1>11, <2>1
  <2>4. Gathered(r, sp) \in Seq(X)
    <3>1. r \in 0..(W - 1)
      BY <1>8, <2>1
    <3>2. GatheredRows(X, batch, m, r, sp)
      BY <1>6, <1>8, <3>1, GatheredIs
    <3> QED BY <3>2 DEF GatheredRows
  <2>5. Through(f, Gathered(r, sp)) \in Seq(Responses)
    BY <1>7, <2>4, ThroughIs
  <2>6. RowsOf(t, r) \in Seq(Responses) /\ Alike(RowsOf(t, r), Through(f, Gathered(r, sp)))
    BY <2>3 DEF TrainsGroup, f
  <2> QED BY <2>2, <2>4, <2>5, <2>6
<1>15. FlattenSeq(d) = batch
  BY <1>2, <1>6, GroupsAreAll
<1>16. FlattenSeq(p) = Joined(p, G) /\ FlattenSeq(d) = Joined(d, G)
  <2>1. p = [g \in 1..G |-> p[g]] /\ d = [g \in 1..G |-> d[g]]
    OBVIOUS
  <2> HIDE DEF p, d, G
  <2> QED BY <2>1 DEF Joined
<1> HIDE DEF f, G, p, q, d
<1>17. Joined(q, G) = Through(f, batch)
  <2>1. PiecesThrough(X, Responses, f, d, q, G)
    BY <1>7, <1>12, <1>14 DEF PiecesThrough, Pieces
  <2>2. Joined(q, G) = Through(f, Joined(d, G))
    BY <2>1, JoinedThrough
  <2> QED BY <1>15, <1>16, <2>2
<1>18. Alike(Joined(p, G), Joined(q, G))
  <2>1. PiecesAlike(Responses, p, q, G)
    BY <1>12, <1>14 DEF PiecesAlike, Pieces
  <2> QED BY <2>1, JoinedAlike
<1>19. Len(Through(f, batch)) = Len(batch) /\ ToSet(Through(f, batch)) = Responses
  <2>1. batch \in Seq(X)
    BY <1>6 DEF IsChunked
  <2>2. Len(Through(f, batch)) = Len(batch)
    BY <1>7, <2>1, ThroughIs
  <2> DEFINE u == Through(f, batch)
  <2>3. DOMAIN u = DOMAIN batch /\ \A j \in DOMAIN batch : u[j] = batch[j].input_ids
    <3>1. \A j \in DOMAIN batch : batch[j] \in X
      BY <1>9 DEF ToSet
    <3> QED BY <3>1 DEF Through, f, Ids
  <2> HIDE DEF u
  <2>4. ToSet(u) = {u[j] : j \in DOMAIN batch} /\ X = {batch[j] : j \in DOMAIN batch}
    BY <1>9, <2>3 DEF ToSet
  <2>5. ToSet(u) = {x.input_ids : x \in X}
    BY <2>3, <2>4
  <2> QED BY <1>9, <2>2, <2>5 DEF u
<1> DEFINE rows == FlattenSeq(p)
<1>20. ToSet(rows) = Responses /\ Len(rows) = Cardinality(Responses)
  BY <1>9, <1>16, <1>17, <1>18, <1>19 DEF Alike
<1>21. ASSUME NEW r \in Ranks
       PROVE  /\ t[r] = t[Base(r, sp)]
              /\ [k \in DOMAIN t[r] |-> Len(t[r][k])] = [k \in DOMAIN t[0] |-> Len(t[0][k])]
  <2>1. Base(r, sp) \in Ranks /\ Update(r) = Update(Base(r, sp))
    BY <1>2, GroupIsOne
  <2>2. 0 \in Ranks
    <3> HIDE DEF W
    <3>1. 0 \in 0..(W - 1)
      BY <1>8
    <3> QED BY <1>8, <3>1
  <2>3. ASSUME NEW q2 \in Ranks
        PROVE  /\ DOMAIN t[q2] = 1..c
               /\ \A k \in 1..c : Len(t[q2][k]) = NumMicros(q2, k)
    <3> DEFINE g == Minis(q2)
    <3>1. DOMAIN g = 1..c
      <4>1. g = [k \in 1..c |-> g[k]]
        BY <1>6 DEF Level
      <4> HIDE DEF g
      <4> QED BY <4>1
    <3>2. DOMAIN t[q2] = 1..c
      BY <1>10, <3>1 DEF Update
    <3>3. ASSUME NEW k \in 1..c PROVE Len(t[q2][k]) = NumMicros(q2, k)
      <4> DEFINE M == Micros(q2, k)
                 z == Len(g[k])
                 v == t[q2][k]
      <4>1. HasRows(X, k)
        BY <1>6 DEF Level
      <4>2. Len(M) = NumMicros(q2, k)
        BY <1>2, <4>1, MicrosCount
      <4>3. PICK y : InAll(M, y, z)
        BY <1>2, <4>1, MicrosAre
      <4>4. v = [a \in DOMAIN M |-> [j \in DOMAIN M[a] |-> g[k][M[a][j]].input_ids]]
        BY <1>10, <3>1 DEF Update
      <4>5. y \in Nat /\ M = [a \in 1..y |-> M[a]]
        BY <4>3 DEF InAll
      <4> HIDE DEF M, g, v
      <4>6. DOMAIN M = 1..y /\ Len(M) = y
        BY <4>5
      <4>7. v = [a \in 1..y |-> v[a]]
        BY <4>4, <4>6
      <4>8. Len(v) = y
        BY <4>5, <4>7
      <4> QED BY <4>2, <4>6, <4>8 DEF v
    <3> QED BY <3>2, <3>3
  <2>4. ASSUME NEW k \in 1..c PROVE NumMicros(r, k) = NumMicros(0, k)
    <3>1. PICK n \in Nat : \A q2 \in Ranks : NumMicros(q2, k) = n
      BY <1>2, <1>6, MicrosAgree
    <3> QED BY <2>2, <3>1
  <2>5. [k \in DOMAIN t[r] |-> Len(t[r][k])] = [k \in DOMAIN t[0] |-> Len(t[0][k])]
    <3>1. DOMAIN t[r] = 1..c /\ DOMAIN t[0] = 1..c
      BY <2>2, <2>3
    <3>2. \A k \in 1..c : Len(t[r][k]) = Len(t[0][k])
      BY <2>2, <2>3, <2>4
    <3> QED BY <3>1, <3>2
  <2>6. t[r] = t[Base(r, sp)]
    BY <1>10, <2>1
  <2> QED BY <2>5, <2>6
<1> HIDE DEF rows
<1>22. Complete(t)
  <2>1. rows = FlattenSeq([g \in 1..(config.world \div config.sp) |-> RowsOf(t, (g - 1) * config.sp)])
    BY DEF rows, p, G, W, sp
  <2> QED BY <1>20, <1>21, <2>1 DEF Complete, sp
<1> QED BY <1>22 DEF t

\* What was trained is complete, and the validation is scored once.
Counted ==
  /\ trained = [u \in Updates |-> trained[u]]
  /\ \A u \in Updates : trained[u] = [r \in Ranks |-> <<>>] \/ Complete(trained[u])
  /\ stage \notin {"done", "failed"} => scores = <<>>
  /\ stage = "done" => scores = [i \in 1..config.validation |-> <<i, Greedy(i)>>]

\* So every row counts.
LEMMA CountedIsEnough ==
  ASSUME IInv, Counted
  PROVE  EveryRowCounts
<1>1. Sized
  BY ConfigIsSized DEF IInv, HasLengths
<1>2. ASSUME NEW u \in Updates, trained[u][0] # <<>> PROVE Complete(trained[u])
  <2>1. 0 \in Ranks
    <3> DEFINE W == config.world
    <3>1. W \in Nat \ {0}
      BY <1>1 DEF Sized
    <3> HIDE DEF W
    <3>2. 0 \in 0..(W - 1)
      BY <3>1
    <3> QED BY <3>2 DEF Ranks, W
  <2>2. trained[u] # [r \in Ranks |-> <<>>]
    <3> SUFFICES ASSUME trained[u] = [r \in Ranks |-> <<>>] PROVE FALSE
      OBVIOUS
    <3> QED BY <1>2, <2>1
  <2> QED BY <2>2 DEF Counted
<1>3. ASSUME NEW u, NEW r PROVE RowsOf(trained[u], r) = TrainedRows(u, r)
  BY DEF RowsOf, TrainedRows
<1>4. TrainedOnce
  <2> SUFFICES ASSUME NEW u \in Updates, trained[u][0] # <<>>
               PROVE  LET rows == FlattenSeq([g \in 1..(config.world \div config.sp) |->
                                               TrainedRows(u, (g - 1) * config.sp)])
                      IN  /\ ToSet(rows) = Responses /\ Len(rows) = Cardinality(Responses)
                          /\ \A r \in Ranks :
                               /\ trained[u][r] = trained[u][Base(r, config.sp)]
                               /\ [m \in DOMAIN trained[u][r] |-> Len(trained[u][r][m])] =
                                  [m \in DOMAIN trained[u][0] |-> Len(trained[u][0][m])]
    BY DEF TrainedOnce
  <2>1. Complete(trained[u])
    BY <1>2
  <2> QED BY <1>3, <2>1 DEF Complete
<1>5. ValidationCovers
  BY DEF Counted, ValidationCovers
<1> QED BY <1>4, <1>5 DEF EveryRowCounts

\* It is so at first.
LEMMA CountedAtFirst ==
  ASSUME Init
  PROVE  Counted
BY DEF Init, Counted

\* Without a validation that is due the iteration is done with no scores.
LEMMA NoneDue ==
  ASSUME IInv, NEW k \in 1..10, stage = Order[k], Following = "done"
  PROVE  [i \in 1..config.validation |-> <<i, Greedy(i)>>] = <<>>
<1>1. k \in 1..11 /\ k \in 1..12
  OBVIOUS
<1>2. PICK m : Leads(k, m)
  BY <1>1, SomethingFollows
<1>3. m = 12
  <2>1. m \in 1..12 /\ Order[m] = "done"
    BY <1>2 DEF Leads
  <2>2. 12 \in 1..12 /\ Order[12] = "done"
    BY OrderIs
  <2> QED BY <2>1, <2>2, OrderIsOnce
<1>4. ~ Due(Order[11])
  <2>1. 11 \in (k + 1)..(12 - 1)
    OBVIOUS
  <2> QED BY <1>2, <1>3, <2>1 DEF Leads
<1>5. ~ (config.validation > 0)
  BY <1>4, OrderIs DEF Due
<1>6. config.validation \in Nat
  BY <1>1, StageIs DEF Sized
<1>7. config.validation = 0
  <2> DEFINE v == config.validation
  <2>1. v \in Nat /\ ~ (v > 0)
    BY <1>5, <1>6
  <2> HIDE DEF v
  <2>2. v = 0
    BY <2>1
  <2> QED BY <2>2 DEF v
<1> QED BY <1>7

\* What is complete does not depend on the rest of the state.
LEMMA CompleteStays ==
  ASSUME config' = config, NEW t, NEW u, Complete(t), trained'[u] = t
  PROVE  Complete(trained[u])'
<1>1. Complete(t)'
  <2>1. Responses' = Responses /\ Ranks' = Ranks
    BY DEF Responses, Ranks
  <2>2. \A r : RowsOf(t, r)' = RowsOf(t, r)
    BY DEF RowsOf
  <2> QED BY <2>1, <2>2 DEF Complete
<1>2. Complete(t)' <=> Complete(trained[u])'
  BY DEF Complete, RowsOf
<1> QED BY <1>1, <1>2

\* The driver goes on, with the updates as they are or one of them made.
GoesOn == stage' = stage \/ stage' = "failed" \/ \E k \in 1..10 : stage = Order[k] /\ stage' = Following

\* The scores are as they should be.
LEMMA ScoresStay ==
  ASSUME IInv, Counted, config' = config, scores' = scores, GoesOn
  PROVE  (stage \notin {"done", "failed"} => scores = <<>>)'
         /\ (stage = "done" => scores = [i \in 1..config.validation |-> <<i, Greedy(i)>>])'
<1> DEFINE all == [i \in 1..config.validation |-> <<i, Greedy(i)>>]
<1>1. all' = all
  BY DEF Greedy
<1>2. /\ stage \notin {"done", "failed"} => scores = <<>>
      /\ stage = "done" => scores = all
  BY DEF Counted
<1>3. CASE stage' = stage \/ stage' = "failed"
  BY <1>1, <1>2, <1>3
<1>4. CASE \E k \in 1..10 : stage = Order[k] /\ stage' = Following
  <2>1. PICK k \in 1..10 : stage = Order[k] /\ stage' = Following
    BY <1>4
  <2>2. stage \notin {"done", "failed"}
    <3>1. k = 1 \/ k = 2 \/ k = 3 \/ k = 4 \/ k = 5 \/ k = 6 \/ k = 7 \/ k = 8 \/ k = 9 \/ k = 10
      OBVIOUS
    <3> QED BY <2>1, <3>1, OrderIs
  <2>3. stage' = "done" => all = <<>>
    BY <2>1, NoneDue
  <2> QED BY <1>1, <1>2, <2>2, <2>3
<1> QED BY <1>3, <1>4 DEF GoesOn

\* No update is made.
LEMMA CountedGoesOn ==
  ASSUME IInv, Counted, config' = config, trained' = trained, scores' = scores, GoesOn
  PROVE  Counted'
<1>1. Updates' = Updates /\ Ranks' = Ranks
  BY DEF Updates, Ranks
<1>2. ASSUME NEW u \in Updates PROVE trained'[u] = [r \in Ranks |-> <<>>] \/ Complete(trained[u])'
  <2>1. CASE trained[u] = [r \in Ranks |-> <<>>]
    BY <2>1
  <2>2. CASE Complete(trained[u])
    BY <2>2, CompleteStays
  <2> QED BY <2>1, <2>2 DEF Counted
<1>3. trained' = [u \in Updates |-> trained'[u]]
  BY DEF Counted
<1> QED BY <1>1, <1>2, <1>3, ScoresStay DEF Counted

\* An update is made.
LEMMA UpdateCounts ==
  ASSUME IInv, Counted, CollectUpdate
  PROVE  Counted'
<1>1. /\ chunks # <<>> /\ CanRun /\ stage \in Updates /\ config' = config /\ scores' = scores
      /\ stage' = Following
      /\ trained' = [trained EXCEPT ![stage] = [r \in Ranks |-> Update(r)]]
  BY DEF CollectUpdate, Collect
<1>2. PICK t : t = [r \in Ranks |-> Update(r)]
  OBVIOUS
<1>3. Complete(t)
  BY <1>1, <1>2, UpdateIsComplete
<1>4. trained = [u \in Updates |-> trained[u]]
  BY DEF Counted
<1>5. /\ trained' = [u \in Updates |-> trained'[u]]
      /\ \A u \in Updates : trained'[u] = IF u = stage THEN t ELSE trained[u]
  BY <1>1, <1>2, <1>4
<1>6. Updates' = Updates /\ Ranks' = Ranks
  BY <1>1 DEF Updates, Ranks
<1>7. ASSUME NEW u \in Updates PROVE trained'[u] = [r \in Ranks |-> <<>>] \/ Complete(trained[u])'
  <2>1. CASE u = stage
    <3>1. trained'[u] = t
      BY <1>5, <2>1
    <3> QED BY <1>1, <1>3, <3>1, CompleteStays
  <2>2. CASE u # stage
    <3>1. trained'[u] = trained[u]
      BY <1>5, <2>2
    <3>2. CASE trained[u] = [r \in Ranks |-> <<>>]
      BY <3>1, <3>2
    <3>3. CASE Complete(trained[u])
      BY <1>1, <3>1, <3>3, CompleteStays
    <3> QED BY <3>2, <3>3 DEF Counted
  <2> QED BY <2>1, <2>2
<1>8. GoesOn
  <2>1. stage = Order[9] \/ stage = Order[10]
    BY <1>1, OrderIs DEF Updates
  <2>2. 9 \in 1..10 /\ 10 \in 1..10
    OBVIOUS
  <2> QED BY <1>1, <2>1, <2>2 DEF GoesOn
<1> QED BY <1>1, <1>5, <1>6, <1>7, <1>8, ScoresStay DEF Counted

\* The validation is scored.
LEMMA ValidationCounts ==
  ASSUME IInv, Counted, CollectValidation
  PROVE  Counted'
<1>1. /\ config' = config /\ trained' = trained /\ stage = "validate"
      /\ stage' = Following \/ stage' = "failed"
  BY DEF CollectValidation, Collect
<1>2. scores' = [i \in 1..config.validation |-> <<i, Greedy(i)>>]
  BY CollectValidationKeeps
<1>3. stage' \in {"done", "failed"}
  <2>1. stage = Order[11] /\ 11 \in 1..11
    BY <1>1, OrderIs
  <2>2. PICK m : Leads(11, m)
    BY <2>1, SomethingFollows
  <2>3. m = 12
    <3>1. m \in (11 + 1)..12
      BY <2>2 DEF Leads
    <3> QED BY <3>1
  <2>4. Following = "done"
    BY <2>2, <2>3, OrderIs DEF Leads
  <2> QED BY <1>1, <2>4
<1>4. Updates' = Updates /\ Ranks' = Ranks
  BY <1>1 DEF Updates, Ranks
<1>5. ASSUME NEW u \in Updates PROVE trained'[u] = [r \in Ranks |-> <<>>] \/ Complete(trained[u])'
  <2>1. CASE trained[u] = [r \in Ranks |-> <<>>]
    BY <1>1, <2>1
  <2>2. CASE Complete(trained[u])
    BY <1>1, <2>2, CompleteStays
  <2> QED BY <2>1, <2>2 DEF Counted
<1>6. trained' = [u \in Updates |-> trained'[u]]
  BY <1>1 DEF Counted
<1>7. (stage = "done" => scores = [i \in 1..config.validation |-> <<i, Greedy(i)>>])'
  BY <1>1, <1>2 DEF Greedy
<1> QED BY <1>3, <1>4, <1>5, <1>6, <1>7 DEF Counted

\* Every step keeps it.
LEMMA CountedStays ==
  ASSUME IInv, Counted, [Next]_vars
  PROVE  Counted'
<1>1. ASSUME NEW k \in 1..10, stage = Order[k], stage' = Following \/ stage' = "failed"
      PROVE  GoesOn
  BY <1>1 DEF GoesOn
<1>2. /\ 1 \in 1..10 /\ 2 \in 1..10 /\ 3 \in 1..10 /\ 4 \in 1..10 /\ 5 \in 1..10 /\ 6 \in 1..10
      /\ 7 \in 1..10 /\ 8 \in 1..10
  OBVIOUS
<1>3. CASE Dispatch \/ Raise \/ (\E r \in Ranks : Join(r)) \/ UNCHANGED vars
  <2>1. config' = config /\ trained' = trained /\ scores' = scores /\ GoesOn
    BY <1>3 DEF Dispatch, Raise, Join, vars, GoesOn
  <2> QED BY <2>1, CountedGoesOn
<1>4. CASE CollectResponses
  <2>1. config' = config /\ trained' = trained /\ scores' = scores
        /\ stage = Order[1] /\ stage' = Following
    BY <1>4, OrderIs DEF CollectResponses, Collect
  <2>2. GoesOn
    BY <1>1, <1>2, <2>1
  <2> QED BY <2>1, <2>2, CountedGoesOn
<1>5. CASE CollectBaseline
  <2>1. config' = config /\ trained' = trained /\ scores' = scores
        /\ stage = Order[2] /\ (stage' = Following \/ stage' = "failed")
    BY <1>5, OrderIs DEF CollectBaseline, Collect, Continue
  <2>2. GoesOn
    BY <1>1, <1>2, <2>1
  <2> QED BY <2>1, <2>2, CountedGoesOn
<1>6. CASE CollectColumn
  <2>1. config' = config /\ trained' = trained /\ scores' = scores
        /\ stage \in {"old_log_prob", "ref", "values", "rm"} /\ (stage' = Following \/ stage' = "failed")
    BY <1>6 DEF CollectColumn, Collect, Continue
  <2>2. stage = Order[4] \/ stage = Order[5] \/ stage = Order[6] \/ stage = Order[7]
    BY <2>1, OrderIs
  <2>3. GoesOn
    BY <1>1, <1>2, <2>1, <2>2
  <2> QED BY <2>1, <2>3, CountedGoesOn
<1>7. CASE Assemble
  <2>1. config' = config /\ trained' = trained /\ scores' = scores
        /\ stage = Order[3] /\ (stage' = Following \/ stage' = "failed")
    BY <1>7, OrderIs DEF Assemble, Continue
  <2>2. GoesOn
    BY <1>1, <1>2, <2>1
  <2> QED BY <2>1, <2>2, CountedGoesOn
<1>8. CASE ComputeAdvantage
  <2>1. config' = config /\ trained' = trained /\ scores' = scores
        /\ stage = Order[8] /\ stage' = Following
    BY <1>8, OrderIs DEF ComputeAdvantage
  <2>2. GoesOn
    BY <1>1, <1>2, <2>1
  <2> QED BY <2>1, <2>2, CountedGoesOn
<1>9. CASE CollectUpdate
  BY <1>9, UpdateCounts
<1>10. CASE CollectValidation
  BY <1>10, ValidationCounts
<1> QED BY <1>3, <1>4, <1>5, <1>6, <1>7, <1>8, <1>9, <1>10 DEF Next, Driver

\* An update trains every response exactly once, with the same steps on all ranks, and the
\* validation scores every row once and in its place (update_policy, update_critic, _validate,
\* pad_dataproto_to_divisor).
THEOREM RowsCount ==
  Spec => []EveryRowCounts
<1>1. Init => Counted
  BY CountedAtFirst
<1>2. IInv /\ Counted /\ [Next]_vars => Counted'
  BY CountedStays
<1>3. IInv /\ Counted => EveryRowCounts
  BY CountedIsEnough
<1> QED BY <1>1, <1>2, <1>3, AlwaysInv, PTL DEF Spec

-----------------------------------------------------------------------------
(* What sums are: of two sequences put together, and without one element. *)

\* A sequence of elements of X.
LEMMA IndexedIsSeq ==
  ASSUME NEW X, NEW n \in Nat, NEW s, s = [j \in 1..n |-> s[j]], \A j \in 1..n : s[j] \in X
  PROVE  s \in Seq(X) /\ Len(s) = n
<1>1. s \in Seq(X) /\ DOMAIN s = 1..n
  OBVIOUS
<1>2. Len(s) \in Nat /\ DOMAIN s = 1..Len(s)
  BY <1>1, LenProperties
<1>3. Len(s) = n
  BY <1>1, <1>2
<1> QED BY <1>1, <1>3

\* g has what the elements of s add up to, one after the other.
Runs(g, s) ==
  /\ g[0] = 0 /\ \A n \in 1..Len(s) : g[n] = g[n - 1] + s[n]
  /\ \A n \in 0..Len(s) : g[n] \in Nat

\* There is one such, and its last is the total.
LEMMA TotalRuns ==
  ASSUME NEW s \in Seq(Nat)
  PROVE  \E g : Runs(g, s) /\ Total(s) = g[Len(s)]
<1> DEFINE l == Len(s)
<1>1. l \in Nat
  BY LenProperties
<1>2. PICK f : f = CHOOSE g : Sums(g, s)
  OBVIOUS
<1>3. Sums(f, s)
  <2>1. \E g : SumsTo(g, s, l)
    BY <1>1, SumsExist
  <2>2. \E g : Sums(g, s)
    BY <2>1 DEF Sums, SumsTo
  <2> QED BY <1>2, <2>2, Zenon
<1>4. Total(s) = f[l]
  BY <1>2, Zenon DEF Total, Sums
<1>5. \A i \in 1..l : s[i] \in Nat
  BY ElementOfSeq
<1>6. f[0] = 0 /\ \A n \in 1..l : f[n] = f[n - 1] + s[n]
  <2>1. f = [n \in 0..l |-> IF n = 0 THEN 0 ELSE f[n - 1] + s[n]]
    BY <1>3 DEF Sums
  <2> HIDE DEF l
  <2>2. \A n \in 0..l : f[n] = IF n = 0 THEN 0 ELSE f[n - 1] + s[n]
    BY <2>1
  <2> QED BY <1>1, <2>2
<1> DEFINE S == {n \in Nat : n <= l => f[n] \in Nat}
<1>7. \A n \in 0..l : f[n] \in Nat
  <2> HIDE DEF l
  <2>1. 0 \in S
    BY <1>6
  <2>2. ASSUME NEW n \in S PROVE n + 1 \in S
    <3>1. SUFFICES ASSUME n + 1 <= l PROVE f[n + 1] \in Nat
      OBVIOUS
    <3>2. n \in Nat /\ n <= l
      BY <1>1, <3>1
    <3>3. n + 1 \in 1..l /\ (n + 1) - 1 = n
      BY <1>1, <3>1, <3>2
    <3>4. f[n + 1] = f[n] + s[n + 1] /\ s[n + 1] \in Nat /\ f[n] \in Nat
      BY <1>5, <1>6, <3>2, <3>3
    <3> QED BY <3>4
  <2>3. S = Nat
    <3>1. S \subseteq Nat
      OBVIOUS
    <3> HIDE DEF S
    <3> QED BY <2>1, <2>2, <3>1, AllNumbers, Zenon
  <2>4. ASSUME NEW n \in 0..l PROVE f[n] \in Nat
    <3>1. n \in Nat /\ n <= l
      BY <1>1
    <3>2. n \in S
      BY <2>3, <3>1
    <3> QED BY <3>1, <3>2
  <2> QED BY <2>4
<1> QED BY <1>4, <1>6, <1>7 DEF Runs

\* Whatever adds them up has the total at last.
LEMMA RunsToTotal ==
  ASSUME NEW s \in Seq(Nat), NEW g, g[0] = 0, \A n \in 1..Len(s) : g[n] = g[n - 1] + s[n]
  PROVE  Total(s) = g[Len(s)] /\ Runs(g, s)
<1>1. PICK f : Runs(f, s) /\ Total(s) = f[Len(s)]
  BY TotalRuns
<1> DEFINE l == Len(s)
           S == {n \in Nat : n <= l => g[n] = f[n]}
<1>2. l \in Nat /\ f[0] = 0 /\ \A n \in 1..l : f[n] = f[n - 1] + s[n]
  BY <1>1, LenProperties DEF Runs
<1>3. \A n \in 0..l : f[n] \in Nat
  BY <1>1 DEF Runs
<1>4. \A n \in 0..l : g[n] = f[n]
  <2>1. g[0] = 0 /\ \A n \in 1..l : g[n] = g[n - 1] + s[n]
    OBVIOUS
  <2> HIDE DEF l
  <2>2. 0 \in S
    BY <1>2, <2>1
  <2>3. ASSUME NEW n \in S PROVE n + 1 \in S
    <3>1. SUFFICES ASSUME n + 1 <= l PROVE g[n + 1] = f[n + 1]
      OBVIOUS
    <3>2. n + 1 \in 1..l /\ (n + 1) - 1 = n /\ n <= l
      BY <1>2, <3>1
    <3>3. g[n] = f[n]
      BY <3>2
    <3>4. g[n + 1] = g[n] + s[n + 1] /\ f[n + 1] = f[n] + s[n + 1]
      BY <1>2, <2>1, <3>2
    <3> QED BY <3>3, <3>4
  <2>4. S = Nat
    <3>1. S \subseteq Nat
      OBVIOUS
    <3> HIDE DEF S
    <3> QED BY <2>2, <2>3, <3>1, AllNumbers, Zenon
  <2>5. ASSUME NEW n \in 0..l PROVE g[n] = f[n]
    <3>1. n \in Nat /\ n <= l
      BY <1>2
    <3>2. n \in S
      BY <2>4, <3>1
    <3> QED BY <3>1, <3>2
  <2> QED BY <2>5
<1>5. l \in 0..l
  BY <1>2
<1> QED BY <1>1, <1>3, <1>4, <1>5 DEF Runs

\* The total of none and of one.
LEMMA TotalOfOne ==
  ASSUME NEW x \in Nat
  PROVE  Total(<<x>>) = x /\ Total(<<>>) = 0
<1>1. Total(<<x>>) = x
  <2> DEFINE s == <<x>>
             g == [n \in 0..1 |-> IF n = 0 THEN 0 ELSE x]
  <2>1. s \in Seq(Nat) /\ Len(s) = 1 /\ s[1] = x
    OBVIOUS
  <2>2. g[0] = 0 /\ g[1] = x
    OBVIOUS
  <2> HIDE DEF s, g
  <2>3. \A n \in 1..Len(s) : g[n] = g[n - 1] + s[n]
    BY <2>1, <2>2
  <2>4. Total(s) = g[Len(s)]
    BY <2>1, <2>2, <2>3, RunsToTotal
  <2> QED BY <2>1, <2>2, <2>4 DEF s
<1>2. Total(<<>>) = 0
  <2>1. <<>> \in Seq(Nat) /\ Len(<<>>) = 0
    BY EmptySeq
  <2>2. PICK g : Runs(g, <<>>) /\ Total(<<>>) = g[Len(<<>>)]
    BY <2>1, TotalRuns
  <2> QED BY <2>1, <2>2 DEF Runs
<1> QED BY <1>1, <1>2

\* The total of two sequences one after the other.
LEMMA TotalConcat ==
  ASSUME NEW a \in Seq(Nat), NEW b \in Seq(Nat)
  PROVE  Total(a \o b) = Total(a) + Total(b)
<1> DEFINE n == Len(a)
           m == Len(b)
           c == a \o b
<1>1. /\ n \in Nat /\ m \in Nat /\ c \in Seq(Nat) /\ Len(c) = n + m
      /\ \A i \in 1..(n + m) : c[i] = IF i <= n THEN a[i] ELSE b[i - n]
  BY ConcatProperties, LenProperties
<1>2. PICK f : Runs(f, a) /\ Total(a) = f[n]
  BY TotalRuns
<1>3. PICK h : Runs(h, b) /\ Total(b) = h[m]
  BY TotalRuns
<1>4. /\ f[0] = 0 /\ \A i \in 1..n : f[i] = f[i - 1] + a[i]
      /\ \A i \in 0..n : f[i] \in Nat
  BY <1>2 DEF Runs
<1>5. /\ h[0] = 0 /\ \A i \in 1..m : h[i] = h[i - 1] + b[i]
      /\ \A i \in 0..m : h[i] \in Nat
  BY <1>3 DEF Runs
<1>6. \A i \in 1..m : b[i] \in Nat
  BY ElementOfSeq
<1> HIDE DEF n, m, c
<1> DEFINE g == [i \in 0..(n + m) |-> IF i <= n THEN f[i] ELSE f[n] + h[i - n]]
<1>7. ASSUME NEW i \in 1..(n + m) PROVE g[i] = g[i - 1] + c[i]
  <2>1. i \in 0..(n + m) /\ i - 1 \in 0..(n + m) /\ i \in Int
    BY <1>1
  <2>2. CASE i <= n
    <3>1. i \in 1..n /\ i - 1 <= n
      BY <1>1, <2>2
    <3>2. g[i] = f[i] /\ g[i - 1] = f[i - 1] /\ c[i] = a[i]
      BY <1>1, <2>1, <2>2, <3>1
    <3> QED BY <1>4, <3>1, <3>2
  <2>3. CASE ~ (i <= n)
    <3>1. i - n \in 1..m /\ (i - n) - 1 = (i - 1) - n /\ (i - n) - 1 \in 0..m /\ n \in 0..n
      BY <1>1, <2>1, <2>3
    <3>2. g[i] = f[n] + h[i - n] /\ c[i] = b[i - n]
      BY <1>1, <2>1, <2>3
    <3>3. h[i - n] = h[(i - n) - 1] + b[i - n] /\ b[i - n] \in Nat /\ h[(i - n) - 1] \in Nat
      BY <1>5, <1>6, <3>1
    <3>4. g[i - 1] = f[n] + h[(i - n) - 1]
      <4>1. CASE i - 1 = n
        <5>1. (i - n) - 1 = 0 /\ i - 1 <= n /\ n \in 0..(n + m)
          BY <1>1, <2>1, <4>1
        <5>2. g[i - 1] = f[n] /\ f[n] \in Nat
          BY <1>4, <3>1, <4>1, <5>1
        <5> QED BY <1>5, <5>1, <5>2
      <4>2. CASE i - 1 # n
        <5>1. ~ (i - 1 <= n)
          BY <1>1, <2>1, <2>3, <4>2
        <5> QED BY <2>1, <3>1, <5>1
      <4> QED BY <4>1, <4>2
    <3>5. f[n] \in Nat
      BY <1>4, <3>1
    <3> HIDE DEF g
    <3> QED BY <3>2, <3>3, <3>4, <3>5
  <2> QED BY <2>2, <2>3
<1>8. g[0] = 0
  <2>1. 0 \in 0..(n + m) /\ 0 <= n
    BY <1>1
  <2> QED BY <1>4, <2>1
<1>9. g[n + m] = f[n] + h[m]
  <2>1. n + m \in 0..(n + m) /\ n \in 0..n
    BY <1>1
  <2>2. CASE m = 0
    BY <1>1, <1>4, <1>5, <2>1, <2>2
  <2>3. CASE m # 0
    <3>1. ~ (n + m <= n) /\ (n + m) - n = m
      BY <1>1, <2>3
    <3> QED BY <2>1, <3>1
  <2> QED BY <2>2, <2>3
<1> HIDE DEF g
<1>10. Total(c) = g[n + m]
  BY <1>1, <1>7, <1>8, RunsToTotal
<1> QED BY <1>2, <1>3, <1>9, <1>10 DEF c

\* All but the m-th element.
Dropped(s, m) == [i \in 1..(Len(s) - 1) |-> IF i < m THEN s[i] ELSE s[i + 1]]

\* Their total.
LEMMA TotalDropped ==
  ASSUME NEW s \in Seq(Nat), NEW m \in 1..Len(s)
  PROVE  /\ Dropped(s, m) \in Seq(Nat) /\ Len(Dropped(s, m)) = Len(s) - 1
         /\ Total(s) = Total(Dropped(s, m)) + s[m]
<1> DEFINE n == Len(s) - 1
           d == Dropped(s, m)
<1>1. n \in Nat /\ Len(s) = n + 1 /\ m \in 1..(n + 1)
  BY LenProperties
<1>2. \A i \in 1..(n + 1) : s[i] \in Nat
  BY <1>1, ElementOfSeq
<1>3. PICK f : Runs(f, s) /\ Total(s) = f[n + 1]
  BY <1>1, TotalRuns
<1>4. /\ f[0] = 0 /\ \A i \in 1..(n + 1) : f[i] = f[i - 1] + s[i]
      /\ \A i \in 0..(n + 1) : f[i] \in Nat
  BY <1>1, <1>3 DEF Runs
<1>5. d = [i \in 1..n |-> IF i < m THEN s[i] ELSE s[i + 1]]
  BY DEF Dropped
<1> HIDE DEF n, d
<1>6. \A i \in 1..n : d[i] = IF i < m THEN s[i] ELSE s[i + 1]
  BY <1>5
<1>7. d \in Seq(Nat) /\ Len(d) = n
  <2>1. ASSUME NEW i \in 1..n PROVE d[i] \in Nat
    <3>1. i \in 1..(n + 1) /\ i + 1 \in 1..(n + 1)
      BY <1>1
    <3>2. s[i] \in Nat /\ s[i + 1] \in Nat
      BY <1>2, <3>1
    <3> QED BY <1>6, <3>2
  <2>2. d = [i \in 1..n |-> d[i]]
    BY <1>5
  <2> QED BY <1>1, <2>1, <2>2, IndexedIsSeq
<1> DEFINE g == [i \in 0..n |-> IF i < m THEN f[i] ELSE f[i + 1] - s[m]]
<1>8. \A i \in 0..n : g[i] = IF i < m THEN f[i] ELSE f[i + 1] - s[m]
  OBVIOUS
<1> HIDE DEF g
<1>9. g[0] = 0
  BY <1>1, <1>4, <1>8
<1>10. ASSUME NEW i \in 1..n PROVE g[i] = g[i - 1] + d[i]
  <2>1. /\ i \in 0..n /\ i - 1 \in 0..n /\ i \in 1..(n + 1) /\ i + 1 \in 1..(n + 1) /\ i \in Int
        /\ (i + 1) - 1 = i /\ (i - 1) + 1 = i /\ i \in 0..(n + 1) /\ i - 1 \in 0..(n + 1)
        /\ i + 1 \in 0..(n + 1) /\ m \in Int
    BY <1>1
  <2>2. /\ f[i] = f[i - 1] + s[i] /\ f[i + 1] = f[i] + s[i + 1]
        /\ f[i] \in Nat /\ f[i - 1] \in Nat /\ f[i + 1] \in Nat
        /\ s[i] \in Nat /\ s[i + 1] \in Nat /\ s[m] \in Nat
    BY <1>1, <1>2, <1>4, <2>1
  <2>3. CASE i < m
    <3>1. i - 1 < m
      BY <2>1, <2>3
    <3>2. g[i] = f[i] /\ g[i - 1] = f[i - 1] /\ d[i] = s[i]
      BY <1>6, <1>8, <2>1, <2>3, <3>1
    <3> QED BY <2>2, <3>2
  <2>4. CASE i = m
    <3>1. i - 1 < m /\ ~ (i < m)
      BY <2>1, <2>4
    <3>2. g[i] = f[i + 1] - s[i] /\ g[i - 1] = f[i - 1] /\ d[i] = s[i + 1]
      BY <1>6, <1>8, <2>1, <2>4, <3>1
    <3> DEFINE x == f[i - 1]
               y == s[i]
               z == s[i + 1]
    <3>3. x \in Nat /\ y \in Nat /\ z \in Nat /\ f[i] = x + y /\ f[i + 1] = f[i] + z
      BY <2>2
    <3> HIDE DEF x, y, z
    <3>4. f[i + 1] - y = x + z
      BY <3>3
    <3> QED BY <3>2, <3>4 DEF x, y, z
  <2>5. CASE m < i
    <3>1. ~ (i - 1 < m) /\ ~ (i < m)
      BY <2>1, <2>5
    <3>2. g[i] = f[i + 1] - s[m] /\ g[i - 1] = f[(i - 1) + 1] - s[m] /\ d[i] = s[i + 1]
      BY <1>6, <1>8, <2>1, <3>1
    <3>3. g[i - 1] = f[i] - s[m]
      BY <2>1, <3>2
    <3> DEFINE x == f[i]
               y == s[m]
               z == s[i + 1]
    <3>4. x \in Nat /\ y \in Nat /\ z \in Nat /\ f[i + 1] = x + z
      BY <2>2
    <3> HIDE DEF x, y, z
    <3>5. f[i + 1] - y = (x - y) + z
      BY <3>4
    <3> QED BY <3>2, <3>3, <3>5 DEF x, y, z
  <2> QED BY <2>1, <2>3, <2>4, <2>5
<1>11. Total(d) = g[n]
  BY <1>7, <1>9, <1>10, RunsToTotal
<1>12. g[n] = f[n + 1] - s[m] /\ f[n + 1] \in Nat /\ s[m] \in Nat
  <2>1. n \in 0..n /\ n \in 0..(n + 1) /\ n + 1 \in 0..(n + 1) /\ n + 1 \in 1..(n + 1) /\ (n + 1) - 1 = n
    BY <1>1
  <2>2. f[n + 1] \in Nat /\ f[n] \in Nat /\ f[n + 1] = f[n] + s[n + 1] /\ s[n + 1] \in Nat /\ s[m] \in Nat
    BY <1>1, <1>2, <1>4, <2>1
  <2>3. CASE n < m
    <3>1. m = n + 1
      BY <1>1, <2>3
    <3>2. g[n] = f[n]
      BY <1>8, <2>1, <2>3
    <3> DEFINE x == f[n]
               y == s[n + 1]
    <3>3. x \in Nat /\ y \in Nat /\ f[n + 1] = x + y /\ s[m] = y
      BY <2>2, <3>1
    <3> HIDE DEF x, y
    <3>4. x = f[n + 1] - y
      BY <3>3
    <3> QED BY <2>2, <3>2, <3>3, <3>4 DEF x
  <2>4. CASE ~ (n < m)
    BY <1>8, <2>1, <2>2, <2>4
  <2> QED BY <2>3, <2>4
<1>13. Total(s) = Total(d) + s[m]
  BY <1>3, <1>11, <1>12
<1> QED BY <1>7, <1>13 DEF d, n

\* t has the elements of s, in the order of f.
Arrangement(t, s, f) == Permutes(f, Len(s)) /\ t = [i \in 1..Len(s) |-> s[f[i]]]

\* Without the last of t, they are arranged without it.
LEMMA ArrangedWithout ==
  ASSUME NEW X, NEW s \in Seq(X), NEW t, NEW f, Arrangement(t, s, f), NEW n \in Nat, Len(s) = n + 1
  PROVE  /\ f[n + 1] \in 1..(n + 1) /\ t[n + 1] = s[f[n + 1]]
         /\ \E g : Arrangement(Dropped(t, n + 1), Dropped(s, f[n + 1]), g)
<1> DEFINE m == f[n + 1]
           g == [i \in 1..n |-> IF f[i] < m THEN f[i] ELSE f[i] - 1]
           d == Dropped(s, m)
           e == Dropped(t, n + 1)
<1>1. /\ \A i \in 1..(n + 1) : f[i] \in 1..(n + 1)
      /\ \A i, j \in 1..(n + 1) : f[i] = f[j] => i = j
      /\ \A j \in 1..(n + 1) : \E i \in 1..(n + 1) : f[i] = j
      /\ t = [i \in 1..(n + 1) |-> s[f[i]]]
  BY DEF Arrangement, Permutes
<1>2. n + 1 \in 1..(n + 1) /\ m \in 1..(n + 1) /\ Len(t) = n + 1
  <2>1. n + 1 \in 1..(n + 1)
    OBVIOUS
  <2> DEFINE Y == {t[i] : i \in 1..(n + 1)}
             l == n + 1
  <2>2. DOMAIN t = 1..l /\ l \in Nat /\ \A i \in 1..l : t[i] \in Y
    BY <1>1
  <2>3. t = [i \in 1..l |-> t[i]]
    BY <1>1
  <2> HIDE DEF Y, l
  <2>4. t \in Seq(Y) /\ DOMAIN t = 1..l
    BY <2>2, <2>3
  <2>5. t \in Seq(Y) /\ DOMAIN t = 1..(n + 1)
    BY <2>4 DEF l
  <2>6. Len(t) \in Nat /\ DOMAIN t = 1..Len(t)
    BY <2>5, LenProperties
  <2>7. Len(t) = n + 1
    BY <2>5, <2>6
  <2> QED BY <1>1, <2>1, <2>7
<1>3. /\ d = [i \in 1..n |-> IF i < m THEN s[i] ELSE s[i + 1]]
      /\ e = [i \in 1..n |-> IF i < n + 1 THEN t[i] ELSE t[i + 1]]
  <2>1. (n + 1) - 1 = n
    OBVIOUS
  <2> QED BY <1>2, <2>1 DEF Dropped
<1> HIDE DEF m, d, e
<1>4. ASSUME NEW i \in 1..n
      PROVE  /\ f[i] \in 1..(n + 1) /\ f[i] # m
             /\ f[i] < m => g[i] = f[i] /\ g[i] < m
             /\ m < f[i] => g[i] = f[i] - 1 /\ m <= g[i]
             /\ g[i] \in 1..n /\ i \in 1..(n + 1)
  <2>1. i \in 1..(n + 1) /\ i # n + 1
    OBVIOUS
  <2>2. f[i] \in 1..(n + 1) /\ f[i] # m
    BY <1>1, <1>2, <2>1 DEF m
  <2>3. g[i] = IF f[i] < m THEN f[i] ELSE f[i] - 1
    OBVIOUS
  <2> HIDE DEF g
  <2> DEFINE x == f[i]
  <2>4. x \in 1..(n + 1) /\ x # m /\ g[i] = IF x < m THEN x ELSE x - 1
    BY <2>2, <2>3
  <2> HIDE DEF x
  <2>5. /\ x < m => g[i] = x /\ g[i] < m
        /\ m < x => g[i] = x - 1 /\ m <= g[i]
        /\ g[i] \in 1..n
    BY <1>2, <2>4
  <2> QED BY <2>1, <2>2, <2>5 DEF x
<1>5. ASSUME NEW i \in 1..n, NEW j \in 1..n, g[i] = g[j] PROVE i = j
  <2> DEFINE x == f[i]
             y == f[j]
             u == g[i]
             v == g[j]
  <2>1. /\ x \in 1..(n + 1) /\ x # m /\ y \in 1..(n + 1) /\ y # m
        /\ x < m => u = x /\ u < m
        /\ m < x => u = x - 1 /\ m <= u
        /\ y < m => v = y /\ v < m
        /\ m < y => v = y - 1 /\ m <= v
        /\ u = v
    BY <1>4, <1>5
  <2> HIDE DEF x, y, u, v
  <2>2. x = y
    BY <1>2, <2>1
  <2>3. i \in 1..(n + 1) /\ j \in 1..(n + 1)
    OBVIOUS
  <2> QED BY <1>1, <2>2, <2>3 DEF x, y
<1>6. ASSUME NEW j \in 1..n PROVE \E i \in 1..n : g[i] = j
  <2> DEFINE y == IF j < m THEN j ELSE j + 1
  <2>1. y \in 1..(n + 1) /\ y # m
    BY <1>2
  <2>2. PICK i \in 1..(n + 1) : f[i] = y
    BY <1>1, <2>1
  <2>3. i # n + 1
    BY <2>1, <2>2 DEF m
  <2>4. i \in 1..n
    BY <2>3
  <2>5. /\ y < m => g[i] = y
        /\ m < y => g[i] = y - 1
    BY <1>4, <2>2, <2>4
  <2> HIDE DEF g
  <2>6. g[i] = j
    BY <1>2, <2>5
  <2> QED BY <2>4, <2>6
<1>7. Permutes(g, n)
  <2>1. g \in [1..n -> 1..n]
    <3>1. \A i \in 1..n : g[i] \in 1..n
      BY <1>4
    <3>2. g = [i \in 1..n |-> g[i]]
      OBVIOUS
    <3> HIDE DEF g
    <3> QED BY <3>1, <3>2
  <2> HIDE DEF g
  <2> QED BY <1>5, <1>6, <2>1 DEF Permutes
<1>8. \A i \in 1..n : e[i] = d[g[i]]
  <2> SUFFICES ASSUME NEW i \in 1..n PROVE e[i] = d[g[i]]
    OBVIOUS
  <2>1. e[i] = s[f[i]]
    <3>1. i < n + 1 /\ i \in 1..(n + 1)
      OBVIOUS
    <3>2. e[i] = t[i]
      BY <1>3, <3>1
    <3> QED BY <1>1, <3>1, <3>2
  <2> DEFINE x == f[i]
             u == g[i]
  <2>2. /\ x \in 1..(n + 1) /\ x # m /\ u \in 1..n
        /\ x < m => u = x /\ u < m
        /\ m < x => u = x - 1 /\ m <= u
    BY <1>4
  <2>3. d[u] = IF u < m THEN s[u] ELSE s[u + 1]
    BY <1>3, <2>2
  <2> HIDE DEF x, u
  <2>4. d[u] = s[x]
    <3>1. CASE x < m
      BY <2>2, <2>3, <3>1
    <3>2. CASE m < x
      <4>1. ~ (u < m) /\ u + 1 = x
        BY <1>2, <2>2, <3>2
      <4> QED BY <2>3, <4>1
    <3> QED BY <1>2, <2>2, <3>1, <3>2
  <2> QED BY <2>1, <2>4 DEF x, u
<1>9. Len(d) = n /\ e = [i \in 1..n |-> e[i]]
  <2>1. d \in Seq({d[i] : i \in 1..n}) /\ DOMAIN d = 1..n
    BY <1>3
  <2>2. Len(d) \in Nat /\ DOMAIN d = 1..Len(d)
    BY <2>1, LenProperties
  <2>3. Len(d) = n
    BY <2>1, <2>2
  <2> QED BY <1>3, <2>3
<1> HIDE DEF g
<1>10. Arrangement(e, d, g)
  BY <1>7, <1>8, <1>9 DEF Arrangement
<1>11. t[n + 1] = s[m]
  BY <1>1, <1>2 DEF m
<1> QED BY <1>2, <1>10, <1>11 DEF m, d, e

\* The total does not depend on the order.
LEMMA TotalArranged ==
  ASSUME NEW s \in Seq(Nat), NEW t, NEW f, Arrangement(t, s, f)
  PROVE  t \in Seq(Nat) /\ Total(t) = Total(s)
<1> DEFINE P(n) == \A a \in Seq(Nat) : \A b, g : Len(a) = n /\ Arrangement(b, a, g) => Total(b) = Total(a)
           S == {n \in Nat : P(n)}
<1>1. ASSUME NEW a \in Seq(Nat), NEW b, NEW g, Arrangement(b, a, g)
      PROVE  b \in Seq(Nat) /\ Len(b) = Len(a)
  <2> DEFINE n == Len(a)
  <2>1. n \in Nat /\ \A i \in 1..n : a[i] \in Nat
    BY LenProperties, ElementOfSeq
  <2>2. \A i \in 1..n : g[i] \in 1..n
    BY <1>1 DEF Arrangement, Permutes
  <2>3. b = [i \in 1..n |-> a[g[i]]]
    BY <1>1 DEF Arrangement
  <2> HIDE DEF n
  <2>4. \A i \in 1..n : b[i] \in Nat
    BY <2>1, <2>2, <2>3
  <2>5. b \in Seq(Nat) /\ DOMAIN b = 1..n
    BY <2>1, <2>3, <2>4
  <2>6. Len(b) \in Nat /\ DOMAIN b = 1..Len(b)
    BY <2>5, LenProperties
  <2>7. Len(b) = n
    BY <2>1, <2>5, <2>6
  <2> QED BY <2>5, <2>7 DEF n
<1>2. 0 \in S
  <2> SUFFICES ASSUME NEW a \in Seq(Nat), NEW b, NEW g, Len(a) = 0, Arrangement(b, a, g)
               PROVE  Total(b) = Total(a)
    OBVIOUS
  <2>1. b \in Seq(Nat) /\ Len(b) = 0
    BY <1>1
  <2>2. a = <<>> /\ b = <<>>
    BY <2>1, EmptySeq
  <2> QED BY <2>2
<1>3. ASSUME NEW n \in S PROVE n + 1 \in S
  <2>1. n \in Nat /\ P(n)
    OBVIOUS
  <2> SUFFICES ASSUME NEW a \in Seq(Nat), NEW b, NEW g, Len(a) = n + 1, Arrangement(b, a, g)
               PROVE  Total(b) = Total(a)
    BY <2>1
  <2>2. b \in Seq(Nat) /\ Len(b) = n + 1
    BY <1>1
  <2>3. g[n + 1] \in 1..(n + 1) /\ b[n + 1] = a[g[n + 1]]
    BY <2>1, ArrangedWithout
  <2>4. PICK h : Arrangement(Dropped(b, n + 1), Dropped(a, g[n + 1]), h)
    BY <2>1, ArrangedWithout
  <2>5. /\ Dropped(a, g[n + 1]) \in Seq(Nat) /\ Len(Dropped(a, g[n + 1])) = (n + 1) - 1
        /\ Total(a) = Total(Dropped(a, g[n + 1])) + a[g[n + 1]]
    BY <2>3, TotalDropped
  <2>6. n + 1 \in 1..Len(b)
    BY <2>1, <2>2
  <2>7. Total(b) = Total(Dropped(b, n + 1)) + b[n + 1]
    BY <2>2, <2>6, TotalDropped
  <2>8. (n + 1) - 1 = n
    BY <2>1
  <2>9. Total(Dropped(b, n + 1)) = Total(Dropped(a, g[n + 1]))
    BY <2>1, <2>4, <2>5, <2>8
  <2> QED BY <2>3, <2>5, <2>7, <2>9
<1>4. S = Nat
  <2>1. S \subseteq Nat
    OBVIOUS
  <2> HIDE DEF S
  <2> QED BY <1>2, <1>3, <2>1, AllNumbers, Zenon
<1>5. Len(s) \in S
  <2>1. Len(s) \in Nat
    BY LenProperties
  <2> HIDE DEF S
  <2> QED BY <1>4, <2>1
<1>6. P(Len(s))
  BY <1>5
<1> QED BY <1>1, <1>6

-----------------------------------------------------------------------------
(* How heavy the bins are, from the first states to the last. *)

\* What a concatenation is.
Appends(X, a, b) ==
  /\ a \o b \in Seq(X) /\ Len(a \o b) = Len(a) + Len(b)
  /\ \A i \in 1..(Len(a) + Len(b)) : (a \o b)[i] = IF i <= Len(a) THEN a[i] ELSE b[i - Len(a)]

\* One of two sequences is.
LEMMA ConcatIs ==
  ASSUME NEW X, NEW a \in Seq(X), NEW b \in Seq(X)
  PROVE  Appends(X, a, b)
BY ConcatProperties DEF Appends

\* The tokens of the rows r.
Weight(ls, r) == Total([j \in DOMAIN r |-> ls[r[j]]])

\* The sums are the tokens of the rows.
IsWeighed(s, ls) == \A i \in DOMAIN s : s[i].sum = Weight(ls, s[i].rows)

\* The sums differ by at most D.
IsNarrow(s, D) == \A i, j \in DOMAIN s : s[i].sum <= s[j].sum + D

\* No bin is empty, or none has more than a row.
IsSpare(s) ==
  \/ \A i \in DOMAIN s : s[i].rows # <<>>
  \/ \A i \in DOMAIN s : Len(s[i].rows) <= 1

IsFair(s, ls, D) == IsWeighed(s, ls) /\ IsNarrow(s, D) /\ IsSpare(s)

\* The lengths are within bounds, which are positive.
Bounded(ls, lo, hi) ==
  /\ ls \in Seq(Nat) /\ lo \in Nat \ {0} /\ hi \in Nat
  /\ \A i \in 1..Len(ls) : lo <= ls[i] /\ ls[i] <= hi

\* The tokens of none, of a row, and of more rows.
LEMMA WeightIs ==
  ASSUME NEW ls \in Seq(Nat)
  PROVE  /\ \A a \in Seq(1..Len(ls)) : Weight(ls, a) \in Nat
         /\ Weight(ls, <<>>) = 0 /\ \A x \in 1..Len(ls) : Weight(ls, <<x>>) = ls[x]
         /\ \A a, b \in Seq(1..Len(ls)) : Weight(ls, a \o b) = Weight(ls, a) + Weight(ls, b)
<1> DEFINE L == Len(ls)
           w(a) == [j \in DOMAIN a |-> ls[a[j]]]
<1>1. \A x \in 1..L : ls[x] \in Nat
  BY ElementOfSeq
<1>2. ASSUME NEW a \in Seq(1..L)
      PROVE  w(a) \in Seq(Nat) /\ Len(w(a)) = Len(a) /\ \A j \in 1..Len(a) : w(a)[j] = ls[a[j]]
  <2> DEFINE n == Len(a)
             v == w(a)
  <2>1. n \in Nat /\ DOMAIN a = 1..n /\ \A j \in 1..n : a[j] \in 1..L
    BY LenProperties, ElementOfSeq
  <2>2. v = [j \in 1..n |-> ls[a[j]]]
    BY <2>1
  <2> HIDE DEF v, n, L
  <2>3. \A j \in 1..n : v[j] \in Nat
    BY <1>1, <2>1, <2>2
  <2>4. v \in Seq(Nat) /\ DOMAIN v = 1..n
    BY <2>1, <2>2, <2>3
  <2>5. Len(v) \in Nat /\ DOMAIN v = 1..Len(v)
    BY <2>4, LenProperties
  <2>6. Len(v) = n
    BY <2>1, <2>4, <2>5
  <2> QED BY <2>2, <2>4, <2>6 DEF v, n
<1>3. \A a : Weight(ls, a) = Total(w(a))
  BY DEF Weight
<1> HIDE DEF L
<1>4. ASSUME NEW a \in Seq(1..L) PROVE Weight(ls, a) \in Nat
  <2>1. w(a) \in Seq(Nat)
    BY <1>2
  <2> HIDE DEF w
  <2> QED BY <1>3, <2>1, TotalIsNumber
<1>5. Weight(ls, <<>>) = 0
  <2>1. w(<<>>) = <<>>
    OBVIOUS
  <2>2. 0 \in Nat
    OBVIOUS
  <2> HIDE DEF w
  <2> QED BY <1>3, <2>1, <2>2, TotalOfOne
<1>6. ASSUME NEW x \in 1..L PROVE Weight(ls, <<x>>) = ls[x]
  <2>1. w(<<x>>) = <<ls[x]>>
    OBVIOUS
  <2> HIDE DEF w
  <2> QED BY <1>1, <1>3, <2>1, TotalOfOne
<1>7. ASSUME NEW a \in Seq(1..L), NEW b \in Seq(1..L)
      PROVE  Weight(ls, a \o b) = Weight(ls, a) + Weight(ls, b)
  <2> DEFINE c == a \o b
             n == Len(a)
             m == Len(b)
             u == w(a)
             v == w(b)
             x == w(c)
             y == u \o v
  <2>1. /\ c \in Seq(1..L) /\ Len(c) = n + m
        /\ \A i \in 1..(n + m) : c[i] = IF i <= n THEN a[i] ELSE b[i - n]
    BY ConcatProperties
  <2>2. n \in Nat /\ m \in Nat
    BY LenProperties
  <2> HIDE DEF c
  <2>3. u \in Seq(Nat) /\ Len(u) = n /\ \A j \in 1..n : u[j] = ls[a[j]]
    BY <1>2
  <2>4. v \in Seq(Nat) /\ Len(v) = m /\ \A j \in 1..m : v[j] = ls[b[j]]
    BY <1>2
  <2>5. x \in Seq(Nat) /\ Len(x) = n + m /\ \A j \in 1..(n + m) : x[j] = ls[c[j]]
    BY <1>2, <2>1
  <2> HIDE DEF u, v, x, n, m
  <2>6. /\ y \in Seq(Nat) /\ Len(y) = n + m
        /\ \A i \in 1..(n + m) : y[i] = IF i <= n THEN u[i] ELSE v[i - n]
    <3>1. Appends(Nat, u, v)
      BY <2>3, <2>4, ConcatIs
    <3>2. /\ y \in Seq(Nat) /\ Len(y) = Len(u) + Len(v)
          /\ \A i \in 1..(Len(u) + Len(v)) : y[i] = IF i <= Len(u) THEN u[i] ELSE v[i - Len(u)]
      BY <3>1 DEF Appends
    <3> HIDE DEF y
    <3> QED BY <2>3, <2>4, <3>2
  <2> HIDE DEF y
  <2>7. ASSUME NEW i \in 1..(n + m) PROVE x[i] = y[i]
    <3>1. CASE i <= n
      <4>1. i \in 1..n
        BY <2>2, <3>1
      <4>2. c[i] = a[i] /\ y[i] = u[i]
        BY <2>1, <2>6, <3>1
      <4> QED BY <2>3, <2>5, <4>1, <4>2
    <3>2. CASE ~ (i <= n)
      <4>1. i - n \in 1..m
        BY <2>2, <3>2
      <4>2. c[i] = b[i - n] /\ y[i] = v[i - n]
        BY <2>1, <2>6, <3>2
      <4> QED BY <2>4, <2>5, <4>1, <4>2
    <3> QED BY <3>1, <3>2
  <2>8. x = y
    BY <2>5, <2>6, <2>7, SeqEqual
  <2>9. Total(y) = Total(u) + Total(v)
    BY <2>3, <2>4, TotalConcat DEF y
  <2>10. Weight(ls, a) = Total(u) /\ Weight(ls, b) = Total(v) /\ Weight(ls, c) = Total(x)
    BY <1>3 DEF u, v, x
  <2>11. Weight(ls, c) = Weight(ls, a) + Weight(ls, b)
    BY <2>8, <2>9, <2>10
  <2> QED BY <2>11 DEF c
<1> QED BY <1>4, <1>5, <1>6, <1>7 DEF L

\* Arranged rows have as many tokens.
LEMMA WeightArranged ==
  ASSUME NEW ls \in Seq(Nat), NEW s \in Seq(1..Len(ls)), NEW t, NEW f, Arrangement(t, s, f)
  PROVE  Weight(ls, t) = Weight(ls, s)
<1> DEFINE n == Len(s)
           u == [j \in DOMAIN s |-> ls[s[j]]]
           v == [j \in DOMAIN t |-> ls[t[j]]]
<1>1. n \in Nat /\ DOMAIN s = 1..n /\ \A j \in 1..n : s[j] \in 1..Len(ls)
  BY LenProperties, ElementOfSeq
<1>2. \A x \in 1..Len(ls) : ls[x] \in Nat
  BY ElementOfSeq
<1>3. t = [j \in 1..n |-> s[f[j]]] /\ Permutes(f, n)
  BY DEF Arrangement
<1>4. \A j \in 1..n : f[j] \in 1..n
  BY <1>3 DEF Permutes
<1>5. u = [j \in 1..n |-> ls[s[j]]] /\ v = [j \in 1..n |-> ls[t[j]]]
  BY <1>1, <1>3
<1>6. Weight(ls, s) = Total(u) /\ Weight(ls, t) = Total(v)
  BY DEF Weight
<1> HIDE DEF n, u, v
<1>7. \A j \in 1..n : u[j] \in Nat
  BY <1>1, <1>2, <1>5
<1>8. u \in Seq(Nat) /\ DOMAIN u = 1..n
  BY <1>1, <1>5, <1>7
<1>9. Len(u) = n
  <2>1. Len(u) \in Nat /\ DOMAIN u = 1..Len(u)
    BY <1>8, LenProperties
  <2> QED BY <1>1, <1>8, <2>1
<1>10. v = [j \in 1..n |-> u[f[j]]]
  <2>1. \A j \in 1..n : ls[t[j]] = u[f[j]]
    BY <1>3, <1>4, <1>5
  <2> QED BY <1>5, <2>1
<1>11. Arrangement(v, u, f)
  BY <1>3, <1>9, <1>10 DEF Arrangement
<1> QED BY <1>8, <1>6, <1>11, TotalArranged

\* Rows have tokens.
LEMMA WeightPositive ==
  ASSUME NEW ls, NEW lo, NEW hi, Bounded(ls, lo, hi), NEW a \in Seq(1..Len(ls)), a # <<>>
  PROVE  Weight(ls, a) \in Nat \ {0}
<1> DEFINE L == Len(ls)
<1>1. ls \in Seq(Nat) /\ lo \in Nat \ {0} /\ \A i \in 1..L : lo <= ls[i] /\ ls[i] \in Nat
  <2>1. ls \in Seq(Nat)
    BY DEF Bounded
  <2>2. \A i \in 1..L : ls[i] \in Nat
    BY <2>1, ElementOfSeq
  <2> QED BY <2>1, <2>2 DEF Bounded
<1>2. PICK b \in Seq(1..L), x \in 1..L : a = Append(b, x)
  <2> HIDE DEF L
  <2>1. a \in Seq(1..L)
    BY DEF L
  <2> QED BY <2>1, SequenceEmptyOrAppend
<1>3. a = b \o <<x>> /\ <<x>> \in Seq(1..L)
  BY <1>2, AppendIsConcat
<1>4. /\ Weight(ls, b) \in Nat /\ Weight(ls, <<x>>) = ls[x]
      /\ Weight(ls, a) = Weight(ls, b) + Weight(ls, <<x>>)
  BY <1>1, <1>3, WeightIs
<1> HIDE DEF L
<1> DEFINE y == Weight(ls, b)
           z == ls[x]
<1>5. y \in Nat /\ z \in Nat /\ lo <= z /\ lo \in Nat \ {0} /\ Weight(ls, a) = y + z
  BY <1>1, <1>4
<1> HIDE DEF y, z
<1>6. y + z \in Nat \ {0}
  BY <1>5
<1> QED BY <1>5, <1>6

\* In a state, behind an empty bin all bins are empty.
LEMMA FilledFirst ==
  ASSUME NEW ls, NEW lo, NEW hi, Bounded(ls, lo, hi), NEW k \in Nat \ {0}, NEW s,
         IsState(s, k, Len(ls)), IsWeighed(s, ls), NEW i \in 1..k, NEW j \in 1..k, i <= j,
         s[j].rows # <<>>
  PROVE  s[i].rows # <<>>
<1> DEFINE L == Len(ls)
<1>1. /\ DOMAIN s = 1..k /\ IsBin(s[i], L) /\ IsBin(s[j], L)
      /\ i < j => s[j].sum <= s[i].sum
  BY LenProperties DEF IsState
<1>2. s[j].rows \in Seq(1..L) /\ s[i].sum \in Nat
  BY <1>1 DEF IsBin, Bins
<1>3. s[j].sum \in Nat \ {0}
  BY <1>1, <1>2, WeightPositive DEF IsWeighed
<1>4. s[i].rows = <<>> => s[i].sum = 0
  BY <1>1 DEF IsBin
<1>5. CASE i = j
  BY <1>5
<1>6. CASE i < j
  <2>1. s[i].sum # 0
    BY <1>1, <1>2, <1>3, <1>6
  <2> QED BY <1>4, <2>1
<1> QED BY <1>5, <1>6

\* What is fair stays so in another order.
LEMMA ReorderedIsFair ==
  ASSUME NEW k \in Nat, NEW p, NEW m, NEW f, Permutes(f, k), DOMAIN p = 1..k, DOMAIN m = 1..k,
         \A i \in 1..k : m[i] = p[f[i]], NEW ls, NEW D, IsFair(p, ls, D)
  PROVE  IsFair(m, ls, D)
<1>1. \A i \in 1..k : f[i] \in 1..k
  BY DEF Permutes
<1>2. IsWeighed(m, ls)
  BY <1>1 DEF IsFair, IsWeighed
<1>3. IsNarrow(m, D)
  BY <1>1 DEF IsFair, IsNarrow
<1>4. IsSpare(m)
  BY <1>1 DEF IsFair, IsSpare
<1> QED BY <1>2, <1>3, <1>4 DEF IsFair

\* The largest bins of a state meet the smallest ones of another: no sums differ more than
\* those of one of the two, and bins stay empty only if no bin has two rows.
LEMMA MergeIsFair ==
  ASSUME NEW ls, NEW lo, NEW hi, Bounded(ls, lo, hi), NEW k \in Nat \ {0}, NEW s, NEW t,
         IsState(s, k, Len(ls)), IsState(t, k, Len(ls)), NEW D \in Nat,
         IsFair(s, ls, D), IsFair(t, ls, D)
  PROVE  IsFair(Merge(s, t), ls, D)
<1> DEFINE L == Len(ls)
           p == Paired(s, t)
           m == Merge(s, t)
<1>1. /\ DOMAIN s = 1..k /\ DOMAIN t = 1..k /\ DOMAIN p = 1..k /\ m = Decreasing(p)
      /\ s[1].rows # <<>> /\ ls \in Seq(Nat)
  BY LenProperties DEF IsState, Paired, Merge, Bounded
<1>2. ASSUME NEW i \in 1..k
      PROVE  /\ k + 1 - i \in 1..k /\ p[i].sum = s[i].sum + t[k + 1 - i].sum
             /\ p[i].rows = s[i].rows \o t[k + 1 - i].rows
             /\ s[i].rows \in Seq(1..L) /\ t[k + 1 - i].rows \in Seq(1..L)
             /\ IsBin(p[i], L) /\ (s[i].rows # <<>> => p[i].rows # <<>>)
  <2>1. PairsUp(k, L, s, t, i)
    BY PairedBins
  <2> QED BY <2>1 DEF PairsUp
<1>3. ASSUME NEW i \in 1..k
      PROVE  /\ s[i].sum \in Nat /\ t[i].sum \in Nat
             /\ \A j \in 1..k : i < j => s[j].sum <= s[i].sum /\ t[j].sum <= t[i].sum
             /\ \A j \in 1..k : s[i].sum <= s[j].sum + D /\ t[i].sum <= t[j].sum + D
             /\ s[i].sum = Weight(ls, s[i].rows) /\ t[i].sum = Weight(ls, t[i].rows)
  BY <1>1 DEF IsState, IsBin, Bins, IsFair, IsNarrow, IsWeighed
<1>4. IsLoaded(p, k, L)
  <2>1. \A i \in 1..k : p[i] \in Bins(L)
    BY <1>2 DEF IsBin
  <2>2. p = [i \in 1..k |-> p[i]]
    BY <1>1 DEF Paired
  <2>3. 1 \in 1..k /\ p[1].rows # <<>>
    <3>1. 1 \in 1..k
      OBVIOUS
    <3>2. s[1].rows # <<>> => p[1].rows # <<>>
      BY <1>2, <3>1
    <3> QED BY <1>1, <3>1, <3>2
  <2> HIDE DEF p, L
  <2>4. p \in Seq(Bins(L)) /\ Len(p) = k
    <3>1. p \in Seq(Bins(L))
      BY <2>1, <2>2
    <3>2. Len(p) \in Nat /\ DOMAIN p = 1..Len(p)
      BY <3>1, LenProperties
    <3>3. Len(p) = k
      BY <1>1, <3>2
    <3> QED BY <3>1, <3>3
  <2>5. \A i \in 1..k : IsBin(p[i], L)
    BY <1>2
  <2> QED BY <2>3, <2>4, <2>5 DEF IsLoaded
<1> HIDE DEF p, L
<1>5. IsWeighed(p, ls)
  <2> SUFFICES ASSUME NEW i \in 1..k PROVE p[i].sum = Weight(ls, p[i].rows)
    BY <1>1 DEF IsWeighed
  <2> DEFINE j == k + 1 - i
             a == s[i].rows
             b == t[j].rows
  <2>1. j \in 1..k /\ a \in Seq(1..L) /\ b \in Seq(1..L) /\ p[i].rows = a \o b /\ p[i].sum = s[i].sum + t[j].sum
    BY <1>2
  <2>2. Weight(ls, a \o b) = Weight(ls, a) + Weight(ls, b)
    BY <1>1, <2>1, WeightIs DEF L
  <2>3. s[i].sum = Weight(ls, a) /\ t[j].sum = Weight(ls, b)
    BY <1>3, <2>1
  <2> QED BY <2>1, <2>2, <2>3
<1>6. IsNarrow(p, D)
  <2> SUFFICES ASSUME NEW i \in 1..k, NEW j \in 1..k PROVE p[i].sum <= p[j].sum + D
    BY <1>1 DEF IsNarrow
  <2> DEFINE x == k + 1 - i
             y == k + 1 - j
  <2>1. x \in 1..k /\ y \in 1..k /\ (i < j => y < x) /\ (j < i => x < y) /\ (i = j => x = y)
    BY <1>2
  <2>2. p[i].sum = s[i].sum + t[x].sum /\ p[j].sum = s[j].sum + t[y].sum
    BY <1>2
  <2> HIDE DEF x, y
  <2> DEFINE a == s[i].sum
             b == s[j].sum
             c == t[x].sum
             d == t[y].sum
  <2>3. /\ a \in Nat /\ b \in Nat /\ c \in Nat /\ d \in Nat /\ a <= b + D /\ c <= d + D
        /\ i < j => c <= d
        /\ j < i => a <= b
        /\ i = j => a = b /\ c = d
    BY <1>3, <2>1
  <2> HIDE DEF a, b, c, d
  <2>4. a + c <= (b + d) + D
    <3>1. CASE i < j
      BY <2>3, <3>1
    <3>2. CASE j < i
      BY <2>3, <3>2
    <3>3. CASE i = j
      BY <2>3, <3>3
    <3> QED BY <3>1, <3>2, <3>3
  <2> QED BY <2>2, <2>4 DEF a, b, c, d
<1>7. ASSUME NEW i \in 1..k
      PROVE  /\ p[i].rows = <<>> => s[i].rows = <<>> /\ t[k + 1 - i].rows = <<>>
             /\ s[i].rows = <<>> /\ Len(t[k + 1 - i].rows) <= 1 => Len(p[i].rows) <= 1
             /\ t[k + 1 - i].rows = <<>> /\ Len(s[i].rows) <= 1 => Len(p[i].rows) <= 1
  <2> DEFINE a == s[i].rows
             b == t[k + 1 - i].rows
  <2>1. a \in Seq(1..L) /\ b \in Seq(1..L) /\ p[i].rows = a \o b
    BY <1>2
  <2> HIDE DEF a, b
  <2>2. /\ Len(a \o b) = Len(a) + Len(b) /\ Len(a) \in Nat /\ Len(b) \in Nat
        /\ (a = <<>> <=> Len(a) = 0) /\ (b = <<>> <=> Len(b) = 0) /\ (a \o b = <<>> => Len(a \o b) = 0)
    BY <2>1, ConcatProperties, LenProperties, EmptySeq
  <2>3. /\ a \o b = <<>> => a = <<>> /\ b = <<>>
        /\ a = <<>> /\ Len(b) <= 1 => Len(a \o b) <= 1
        /\ b = <<>> /\ Len(a) <= 1 => Len(a \o b) <= 1
    BY <2>2
  <2> QED BY <2>1, <2>3 DEF a, b
<1>8. IsSpare(p)
  <2>1. CASE \A i \in 1..k : s[i].rows # <<>>
    BY <1>1, <1>7, <2>1 DEF IsSpare
  <2>2. CASE \A i \in 1..k : t[i].rows # <<>>
    <3>1. \A i \in 1..k : p[i].rows # <<>>
      BY <1>2, <1>7, <2>2
    <3> QED BY <1>1, <3>1 DEF IsSpare
  <2>3. CASE (\A i \in 1..k : Len(s[i].rows) <= 1) /\ (\A i \in 1..k : Len(t[i].rows) <= 1)
    <3>1. CASE \E i \in 1..k : s[i].rows # <<>> /\ t[k + 1 - i].rows # <<>>
      <4>1. PICK i \in 1..k : s[i].rows # <<>> /\ t[k + 1 - i].rows # <<>>
        BY <3>1
      <4>2. ASSUME NEW j \in 1..k PROVE p[j].rows # <<>>
        <5>1. k + 1 - j \in 1..k /\ k + 1 - i \in 1..k
          BY <1>2
        <5>2. CASE j <= i
          <6>1. s[j].rows # <<>>
            BY <4>1, <5>2, FilledFirst DEF IsFair
          <6> QED BY <1>7, <6>1
        <5>3. CASE ~ (j <= i)
          <6>1. k + 1 - j <= k + 1 - i
            BY <5>3
          <6>2. t[k + 1 - j].rows # <<>>
            BY <4>1, <5>1, <6>1, FilledFirst DEF IsFair
          <6> QED BY <1>7, <6>2
        <5> QED BY <5>2, <5>3
      <4> QED BY <1>1, <4>2 DEF IsSpare
    <3>2. CASE ~ \E i \in 1..k : s[i].rows # <<>> /\ t[k + 1 - i].rows # <<>>
      <4>1. \A i \in 1..k : Len(p[i].rows) <= 1
        BY <1>2, <1>7, <2>3, <3>2
      <4> QED BY <1>1, <4>1 DEF IsSpare
    <3> QED BY <3>1, <3>2
  <2> QED BY <1>1, <2>1, <2>2, <2>3 DEF IsFair, IsSpare
<1>9. IsFair(p, ls, D)
  BY <1>5, <1>6, <1>8 DEF IsFair
<1>10. PICK f : Permutes(f, k) /\ \A i \in 1..k : Decreasing(p)[i] = p[f[i]]
  BY <1>4, DecreasingIsState
<1>11. DOMAIN Decreasing(p) = 1..k
  <2>1. IsState(Decreasing(p), k, L)
    BY <1>4, DecreasingIsState
  <2> QED BY <2>1, LenProperties DEF IsState
<1>12. IsFair(Decreasing(p), ls, D)
  <2> DEFINE q == Decreasing(p)
  <2>1. DOMAIN q = 1..k /\ \A i \in 1..k : q[i] = p[f[i]]
    BY <1>10, <1>11
  <2> HIDE DEF q
  <2>2. IsFair(q, ls, D)
    BY <1>1, <1>9, <1>10, <2>1, ReorderedIsFair
  <2> QED BY <2>2 DEF q
<1> QED BY <1>1, <1>12

\* The states of a round are those before, or merged of two of them.
LEMMA RoundMerges ==
  ASSUME NEW k, NEW L, NEW equalSize, NEW states, Shares(states, k, L, equalSize),
         Cardinality(states) > 1, NEW u \in Round(states)
  PROVE  u \in states \/ \E s, t \in states : u = Merge(s, t)
<1> DEFINE s == First(states)
           t == First(states \ {s})
<1>1. IsFiniteSet(states) /\ states # {}
  BY DEF Shares
<1>2. s \in states
  BY <1>1, FirstIsOne
<1>3. Round(states) = (states \ {s, t}) \cup {Merge(s, t)}
  BY DEF Round
<1>4. t \in states
  <2>1. states \ {s} # {}
    <3> HIDE DEF s
    <3>1. ASSUME states = {s} PROVE FALSE
      <4>1. Cardinality(states) = 1
        BY <3>1, FS_Singleton
      <4> QED BY <4>1
    <3> QED BY <1>2, <3>1
  <2>2. states \ {s} \subseteq states
    OBVIOUS
  <2> HIDE DEF s
  <2> QED BY <2>1, <2>2, FirstIsOne
<1> HIDE DEF s, t
<1> QED BY <1>2, <1>3, <1>4

\* By how much the sums may differ.
Difference(equalSize, lo, hi) == IF equalSize THEN hi - lo ELSE hi

\* A state with one row is fair.
LEMMA SingleIsFair ==
  ASSUME NEW ls, NEW lo, NEW hi, Bounded(ls, lo, hi), NEW k \in Nat \ {0}, NEW r \in 1..Len(ls)
  PROVE  IsFair([i \in 1..k |-> IF i = 1 THEN Single(ls, r) ELSE Empty], ls, hi)
<1> DEFINE s == [i \in 1..k |-> IF i = 1 THEN Single(ls, r) ELSE Empty]
<1>1. ls \in Seq(Nat) /\ ls[r] \in Nat /\ ls[r] <= hi /\ hi \in Nat
  <2>1. ls \in Seq(Nat)
    BY DEF Bounded
  <2>2. ls[r] \in Nat
    BY <2>1, ElementOfSeq
  <2> QED BY <2>1, <2>2 DEF Bounded
<1>2. /\ DOMAIN s = 1..k
      /\ \A i \in 1..k : i = 1 => s[i] = Single(ls, r)
      /\ \A i \in 1..k : i # 1 => s[i] = Empty
  OBVIOUS
<1>3. /\ Single(ls, r).sum = ls[r] /\ Single(ls, r).rows = <<r>> /\ Empty.sum = 0 /\ Empty.rows = <<>>
      /\ Len(<<r>>) = 1 /\ Len(<<>>) = 0
  BY DEF Single, Empty
<1>4. Weight(ls, <<r>>) = ls[r] /\ Weight(ls, <<>>) = 0
  BY <1>1, WeightIs
<1> HIDE DEF s
<1>5. ASSUME NEW i \in 1..k
      PROVE  /\ s[i].sum \in {0, ls[r]} /\ s[i].sum = Weight(ls, s[i].rows) /\ Len(s[i].rows) <= 1
  <2>1. CASE i = 1
    <3>1. s[i].sum = ls[r] /\ s[i].rows = <<r>>
      BY <1>2, <1>3, <2>1
    <3> QED BY <1>3, <1>4, <3>1
  <2>2. CASE i # 1
    <3>1. s[i].sum = 0 /\ s[i].rows = <<>>
      BY <1>2, <1>3, <2>2
    <3> QED BY <1>3, <1>4, <3>1
  <2> QED BY <2>1, <2>2
<1>6. IsWeighed(s, ls)
  BY <1>2, <1>5 DEF IsWeighed
<1>7. IsNarrow(s, hi)
  <2> SUFFICES ASSUME NEW i \in 1..k, NEW j \in 1..k PROVE s[i].sum <= s[j].sum + hi
    BY <1>2 DEF IsNarrow
  <2>1. s[i].sum \in {0, ls[r]} /\ s[j].sum \in {0, ls[r]}
    BY <1>5
  <2> DEFINE a == s[i].sum
             b == s[j].sum
             c == ls[r]
  <2>2. a \in {0, c} /\ b \in {0, c} /\ c \in Nat /\ c <= hi
    BY <1>1, <2>1
  <2> HIDE DEF a, b, c
  <2>3. a <= b + hi
    BY <1>1, <2>2
  <2> QED BY <2>3 DEF a, b
<1>8. IsSpare(s)
  BY <1>2, <1>5 DEF IsSpare
<1>9. IsFair(s, ls, hi)
  BY <1>6, <1>7, <1>8 DEF IsFair
<1> QED BY <1>9 DEF s

\* So is one with a row in each bin.
LEMMA RowIsFair ==
  ASSUME NEW ls, NEW lo, NEW hi, Bounded(ls, lo, hi), NEW k \in Nat \ {0}, NEW g,
         \A i \in 1..k : g[i] \in 1..Len(ls)
  PROVE  IsFair(Decreasing([i \in 1..k |-> Single(ls, g[i])]), ls, hi - lo)
<1> DEFINE p == [i \in 1..k |-> Single(ls, g[i])]
           L == Len(ls)
<1>1. ls \in Seq(Nat) /\ lo \in Nat /\ hi \in Nat /\ \A i \in 1..k : ls[g[i]] \in Nat /\ lo <= ls[g[i]] /\ ls[g[i]] <= hi
  <2>1. ls \in Seq(Nat)
    BY DEF Bounded
  <2>2. \A r \in 1..L : ls[r] \in Nat
    BY <2>1, ElementOfSeq
  <2> QED BY <2>1, <2>2 DEF Bounded
<1>2. DOMAIN p = 1..k /\ p = [i \in 1..k |-> p[i]] /\ \A i \in 1..k : p[i] = Single(ls, g[i])
  OBVIOUS
<1> HIDE DEF p
<1>3. ASSUME NEW i \in 1..k
      PROVE  /\ p[i].sum = ls[g[i]] /\ p[i].rows = <<g[i]>> /\ p[i].rows # <<>>
             /\ p[i].sum = Weight(ls, p[i].rows) /\ IsBin(p[i], L) /\ p[i] \in Bins(L)
  <2> DEFINE x == g[i]
             b == Single(ls, x)
  <2>1. x \in 1..L /\ p[i] = b /\ ls[x] \in Nat
    BY <1>1, <1>2 DEF L
  <2> HIDE DEF x
  <2>2. b.sum = ls[x] /\ b.rows = <<x>>
    BY DEF Single
  <2>3. <<x>> # <<>> /\ <<x>> \in Seq(1..L)
    BY <2>1
  <2>4. b \in Bins(L)
    BY <2>1, <2>3 DEF Single, Bins
  <2>5. p[i].sum = ls[g[i]] /\ p[i].rows = <<g[i]>> /\ p[i].rows # <<>>
    BY <2>1, <2>2, <2>3 DEF x
  <2>6. p[i] \in Bins(L)
    BY <2>1, <2>4
  <2>7. Weight(ls, <<g[i]>>) = ls[g[i]]
    BY <1>1, WeightIs
  <2> HIDE DEF b
  <2> QED BY <2>5, <2>6, <2>7 DEF IsBin
<1> HIDE DEF L
<1>4. IsLoaded(p, k, L)
  <2>1. p \in Seq(Bins(L))
    BY <1>2, <1>3
  <2>2. Len(p) = k
    <3>1. Len(p) \in Nat /\ DOMAIN p = 1..Len(p)
      BY <2>1, LenProperties
    <3> QED BY <1>2, <3>1
  <2>3. 1 \in 1..k
    OBVIOUS
  <2>4. \E i \in 1..k : p[i].rows # <<>>
    BY <1>3, <2>3
  <2> QED BY <1>3, <2>1, <2>2, <2>4 DEF IsLoaded
<1>5. IsFair(p, ls, hi - lo)
  <2>1. IsWeighed(p, ls)
    BY <1>2, <1>3 DEF IsWeighed
  <2>2. IsNarrow(p, hi - lo)
    <3> SUFFICES ASSUME NEW i \in 1..k, NEW j \in 1..k PROVE p[i].sum <= p[j].sum + (hi - lo)
      BY <1>2 DEF IsNarrow
    <3> DEFINE a == ls[g[i]]
               b == ls[g[j]]
    <3>1. a \in Nat /\ b \in Nat /\ lo <= b /\ a <= hi /\ p[i].sum = a /\ p[j].sum = b
      BY <1>1, <1>3
    <3> HIDE DEF a, b
    <3> QED BY <1>1, <3>1
  <2>3. IsSpare(p)
    BY <1>2, <1>3 DEF IsSpare
  <2> QED BY <2>1, <2>2, <2>3 DEF IsFair
<1>6. PICK f : Permutes(f, k) /\ \A i \in 1..k : Decreasing(p)[i] = p[f[i]]
  BY <1>4, DecreasingIsState
<1>7. DOMAIN Decreasing(p) = 1..k
  <2>1. IsState(Decreasing(p), k, L)
    BY <1>4, DecreasingIsState
  <2> QED BY <2>1, LenProperties DEF IsState
<1>8. IsFair(Decreasing(p), ls, hi - lo)
  <2> DEFINE q == Decreasing(p)
             D == hi - lo
  <2>1. DOMAIN q = 1..k /\ \A i \in 1..k : q[i] = p[f[i]]
    BY <1>6, <1>7
  <2>2. IsFair(p, ls, D)
    BY <1>5
  <2> HIDE DEF q, D
  <2>3. IsFair(q, ls, D)
    BY <1>2, <1>6, <2>1, <2>2, ReorderedIsFair
  <2> QED BY <2>3 DEF q, D
<1> QED BY <1>8 DEF p

\* The first states are fair.
LEMMA StartIsFair ==
  ASSUME NEW ls, NEW lo, NEW hi, Bounded(ls, lo, hi), NEW k, NEW equalSize,
         CanPartition(ls, k, equalSize), NEW s \in StartStates(ls, k, equalSize)
  PROVE  IsFair(s, ls, Difference(equalSize, lo, hi))
<1> DEFINE L == Len(ls)
<1>1. k \in Nat \ {0} /\ L \in Nat \ {0} /\ ls \in Seq(Nat) /\ equalSize \in BOOLEAN /\ DOMAIN ls = 1..L
  BY LenProperties DEF CanPartition
<1>2. CASE equalSize
  <2> DEFINE n == L \div k
             f == ByLength(ls)
  <2>1. PICK o \in 0..(n - 1) : s = Decreasing([i \in 1..k |-> Single(ls, f[o * k + i])])
    BY <1>2 DEF StartStates
  <2>2. \A i \in 1..L : f[i] \in 1..L
    <3>1. Permutes(f, L)
      BY <1>1, ByLengthPermutes
    <3> HIDE DEF f, L
    <3> QED BY <3>1 DEF Permutes
  <2>3. L % k = 0
    BY <1>2 DEF CanPartition
  <2> HIDE DEF L, f
  <2>4. n \in Nat /\ L = k * n + (L % k)
    BY <1>1, Division
  <2>5. n \in Nat /\ L = k * n
    BY <1>1, <2>3, <2>4
  <2> HIDE DEF n
  <2>6. o \in Nat /\ o < n
    BY <2>5
  <2>7. k * o + k <= k * n /\ k * o \in Nat /\ o * k = k * o
    BY <1>1, <2>5, <2>6, ProductGrows
  <2> DEFINE a == k * o
             g == [i \in 1..k |-> f[a + i]]
  <2>8. a \in Nat /\ a + k <= L /\ o * k = a
    BY <2>5, <2>7
  <2> HIDE DEF a
  <2>9. \A i \in 1..k : a + i \in 1..L
    BY <1>1, <2>8
  <2>10. \A i \in 1..k : g[i] \in 1..L
    BY <2>2, <2>9
  <2>11. s = Decreasing([i \in 1..k |-> Single(ls, g[i])])
    <3>1. [i \in 1..k |-> Single(ls, f[o * k + i])] = [i \in 1..k |-> Single(ls, g[i])]
      BY <2>8
    <3> QED BY <2>1, <3>1
  <2> HIDE DEF g
  <2>12. IsFair(s, ls, hi - lo)
    <3>1. IsFair(Decreasing([i \in 1..k |-> Single(ls, g[i])]), ls, hi - lo)
      BY <1>1, <2>10, RowIsFair DEF L
    <3> QED BY <2>11, <3>1
  <2> QED BY <1>2, <2>12 DEF Difference
<1>3. CASE ~ equalSize
  <2>1. PICK r \in 1..L : s = [i \in 1..k |-> IF i = 1 THEN Single(ls, r) ELSE Empty]
    BY <1>1, <1>3 DEF StartStates
  <2>2. IsFair(s, ls, hi)
    BY <1>1, <2>1, SingleIsFair
  <2> QED BY <1>3, <2>2 DEF Difference
<1> QED BY <1>1, <1>2, <1>3

\* So all states are, up to the last one.
LEMMA DifferencedIsFair ==
  ASSUME NEW ls, NEW lo, NEW hi, Bounded(ls, lo, hi), lo <= hi, NEW k, NEW equalSize,
         CanPartition(ls, k, equalSize)
  PROVE  IsFair(Differenced(ls, k, equalSize), ls, Difference(equalSize, lo, hi))
<1> DEFINE L == Len(ls)
           D == Difference(equalSize, lo, hi)
           d == Differenced(ls, k, equalSize)
           start == StartStates(ls, k, equalSize)
<1>1. PICK f, c : Differencing(f, c, ls, k, equalSize)
  BY RoundsGo
<1>2. D \in Nat
  BY DEF Difference, Bounded
<1>3. k \in Nat \ {0}
  BY DEF CanPartition
<1>4. /\ c \in Nat /\ f[0] = start
      /\ \A n \in 0..(c - 1) : f[n + 1] = Round(f[n]) /\ Cardinality(f[n]) > 1
      /\ \A n \in 0..c : Shares(f[n], k, L, equalSize)
      /\ f[c] = {d}
  BY <1>1 DEF Differencing
<1>5. \A s \in start : IsFair(s, ls, D)
  BY StartIsFair
<1> HIDE DEF L, D, d, start
<1> DEFINE S == {n \in Nat : n <= c => \A s \in f[n] : IsFair(s, ls, D)}
<1>6. 0 \in S
  BY <1>4, <1>5
<1>7. ASSUME NEW n \in S PROVE n + 1 \in S
  <2>1. SUFFICES ASSUME n + 1 <= c, NEW u \in f[n + 1] PROVE IsFair(u, ls, D)
    OBVIOUS
  <2>2. n \in 0..(c - 1) /\ n \in 0..c /\ n <= c
    BY <1>4, <2>1
  <2>3. \A s \in f[n] : IsFair(s, ls, D)
    BY <2>2
  <2>4. u \in Round(f[n]) /\ Cardinality(f[n]) > 1 /\ Shares(f[n], k, L, equalSize)
    BY <1>4, <2>1, <2>2
  <2>5. u \in f[n] \/ \E s, t \in f[n] : u = Merge(s, t)
    BY <2>4, RoundMerges
  <2>6. CASE \E s, t \in f[n] : u = Merge(s, t)
    <3>1. PICK s \in f[n], t \in f[n] : u = Merge(s, t)
      BY <2>6
    <3>2. IsState(s, k, L) /\ IsState(t, k, L)
      BY <2>4 DEF Shares
    <3>3. IsFair(s, ls, D) /\ IsFair(t, ls, D)
      BY <2>3
    <3>4. IsFair(Merge(s, t), ls, D)
      BY <1>2, <1>3, <3>2, <3>3, MergeIsFair DEF L
    <3> QED BY <3>1, <3>4
  <2> QED BY <2>3, <2>5, <2>6
<1>8. S = Nat
  <2>1. S \subseteq Nat
    OBVIOUS
  <2> HIDE DEF S
  <2> QED BY <1>6, <1>7, <2>1, AllNumbers, Zenon
<1>9. c \in S /\ c <= c
  <2> HIDE DEF S
  <2> QED BY <1>4, <1>8
<1>10. \A s \in f[c] : IsFair(s, ls, D)
  BY <1>9
<1> QED BY <1>4, <1>10 DEF d, D

\* In a state with at least as many rows as bins, no bin is empty.
LEMMA NoneIsEmpty ==
  ASSUME NEW s, NEW k, NEW L \in Nat, k \in 1..L, NEW equalSize, IsWhole(s, k, L, equalSize), IsSpare(s)
  PROVE  \A i \in 1..k : s[i].rows # <<>>
<1>1. DOMAIN s = 1..k /\ \A i \in 1..k : s[i].rows \in Seq(1..L)
  <2>1. s \in Seq(Bins(L)) /\ Len(s) = k
    BY DEF IsWhole, IsState
  <2>2. DOMAIN s = 1..k
    BY <2>1, LenProperties
  <2>3. \A i \in 1..k : s[i] \in Bins(L)
    BY <2>1, <2>2, ElementOfSeq
  <2> QED BY <2>2, <2>3 DEF Bins
<1>2. SUFFICES ASSUME NEW e \in 1..k, s[e].rows = <<>> PROVE FALSE
  OBVIOUS
<1>3. \A i \in 1..k : Len(s[i].rows) <= 1
  BY <1>1, <1>2 DEF IsSpare
<1> DEFINE B == (1..k) \ {e}
           Of(r, i) == i \in 1..k /\ s[i].rows # <<>> /\ s[i].rows[1] = r
           g == [r \in 1..L |-> CHOOSE i \in B : Of(r, i)]
<1>4. ASSUME NEW r \in 1..L PROVE \E i \in B : Of(r, i)
  <2>1. PICK i, j : IsAt(s, i, j, r)
    BY DEF IsWhole, Holds
  <2>2. i \in 1..k /\ j \in DOMAIN s[i].rows /\ s[i].rows[j] = r
    BY <1>1, <2>1 DEF IsAt
  <2> DEFINE a == s[i].rows
  <2>3. a \in Seq(1..L) /\ Len(a) <= 1 /\ j \in DOMAIN a
    BY <1>1, <1>3, <2>2
  <2> HIDE DEF a
  <2>4. j = 1 /\ a # <<>>
    <3>1. Len(a) \in Nat /\ j \in 1..Len(a)
      BY <2>3, LenProperties
    <3>2. j = 1 /\ Len(a) # 0
      BY <2>3, <3>1
    <3> QED BY <3>2, EmptySeq
  <2>5. i # e
    BY <1>2, <2>4 DEF a
  <2> QED BY <2>2, <2>4, <2>5 DEF a
<1>5. ASSUME NEW r \in 1..L PROVE g[r] \in B /\ Of(r, g[r])
  <2>1. g[r] = CHOOSE i \in B : Of(r, i)
    OBVIOUS
  <2> HIDE DEF B, Of, g
  <2> QED BY <1>4, <2>1
<1>6. g = [r \in 1..L |-> g[r]]
  OBVIOUS
<1> HIDE DEF g
<1>7. g \in [1..L -> B]
  <2> HIDE DEF B
  <2> QED BY <1>5, <1>6
<1>8. \A q, r \in 1..L : g[q] = g[r] => q = r
  BY <1>5
<1>9. g \in Injection(1..L, B)
  <2> HIDE DEF B
  <2> QED BY <1>7, <1>8, Fun_IsInj
<1>10. IsFiniteSet(B) /\ Cardinality(B) = k - 1
  <2>1. IsFiniteSet(1..k) /\ Cardinality(1..k) = k
    BY FS_Interval
  <2> QED BY <2>1, FS_RemoveElement
<1>11. IsFiniteSet(1..L) /\ Cardinality(1..L) = L
  BY FS_Interval
<1>12. Cardinality(1..L) <= Cardinality(B)
  <2> HIDE DEF B
  <2> QED BY <1>9, <1>10, FS_Injection
<1> QED BY <1>10, <1>11, <1>12

-----------------------------------------------------------------------------
(* What get_seqlen_balanced_partitions promises. *)

\* Partition i is as heavy as bin i, and as long.
AsHeavy(ls, p, d, i) ==
  /\ p[i] \in Seq(1..Len(ls)) /\ Len(p[i]) = Len(d[i].rows)
  /\ Weight(ls, p[i]) = Weight(ls, d[i].rows)

\* Sorted rows weigh the same.
LEMMA SortedWeigh ==
  ASSUME NEW ls \in Seq(Nat), NEW s \in Seq(1..Len(ls))
  PROVE  /\ Increasing(s) \in Seq(1..Len(ls)) /\ Len(Increasing(s)) = Len(s)
         /\ Weight(ls, Increasing(s)) = Weight(ls, s)
<1> DEFINE L == Len(ls)
           n == Len(s)
           t == Increasing(s)
<1>1. n \in Nat /\ \A i \in 1..n : s[i] \in 1..L
  BY LenProperties, ElementOfSeq
<1>2. PICK f : Permutes(f, n) /\ t = [m \in 1..n |-> s[f[m]]]
  BY IncreasingPermutes
<1>3. Arrangement(t, s, f)
  BY <1>2 DEF Arrangement
<1>4. Weight(ls, t) = Weight(ls, s)
  <2> HIDE DEF t
  <2> QED BY <1>3, WeightArranged
<1>5. \A i \in 1..n : f[i] \in 1..n
  BY <1>2 DEF Permutes
<1> HIDE DEF n, t, L
<1>6. \A i \in 1..n : s[f[i]] \in 1..L
  BY <1>1, <1>5
<1>7. t \in Seq(1..L) /\ DOMAIN t = 1..n
  BY <1>1, <1>2, <1>6
<1>8. Len(t) \in Nat /\ DOMAIN t = 1..Len(t)
  BY <1>7, LenProperties
<1>9. Len(t) = n
  BY <1>1, <1>7, <1>8
<1> QED BY <1>4, <1>7, <1>9 DEF n, t, L

\* What get_seqlen_balanced_partitions promises, for lengths from lo to hi and at most as many
\* partitions as rows: no partition is empty, as it asserts, and the tokens of two partitions
\* differ by no more than two rows do, when they are equally long, or than one row has.
THEOREM PartitionsAreBalanced ==
  ASSUME NEW ls, NEW lo, NEW hi, Bounded(ls, lo, hi), lo <= hi, NEW k, NEW equalSize,
         CanPartition(ls, k, equalSize), k <= Len(ls)
  PROVE  LET p == Partitions(ls, k, equalSize)
         IN  \A i, j \in 1..k :
               /\ p[i] \in Seq(1..Len(ls)) /\ p[i] # <<>>
               /\ Weight(ls, p[i]) <= Weight(ls, p[j]) + Difference(equalSize, lo, hi)
<1> DEFINE L == Len(ls)
           d == Differenced(ls, k, equalSize)
           p == Partitions(ls, k, equalSize)
           D == Difference(equalSize, lo, hi)
<1>1. k \in Nat \ {0} /\ ls \in Seq(Nat) /\ L \in Nat
  BY LenProperties DEF CanPartition
<1>2. k \in 1..L
  BY <1>1
<1>3. IsWhole(d, k, L, equalSize)
  BY DifferencedIsWhole
<1>4. IsFair(d, ls, D)
  BY DifferencedIsFair
<1>5. p = [i \in 1..k |-> Increasing(d[i].rows)]
  BY DEF Partitions
<1> HIDE DEF d, p, D
<1>6. DOMAIN d = 1..k /\ \A i \in 1..k : d[i].rows \in Seq(1..L)
  <2> HIDE DEF L
  <2>1. d \in Seq(Bins(L)) /\ Len(d) = k
    BY <1>3 DEF IsWhole, IsState
  <2>2. DOMAIN d = 1..k
    BY <2>1, LenProperties
  <2>3. \A i \in 1..k : d[i] \in Bins(L)
    BY <2>1, <2>2, ElementOfSeq
  <2> QED BY <2>2, <2>3 DEF Bins
<1>7. \A i \in 1..k : d[i].rows # <<>>
  <2>1. IsSpare(d)
    BY <1>4 DEF IsFair
  <2> HIDE DEF L
  <2> QED BY <1>1, <1>2, <1>3, <2>1, NoneIsEmpty
<1>8. ASSUME NEW i \in 1..k PROVE AsHeavy(ls, p, d, i)
  <2> DEFINE s == d[i].rows
  <2>1. s \in Seq(1..Len(ls)) /\ p[i] = Increasing(s)
    BY <1>5, <1>6
  <2> HIDE DEF s
  <2>2. /\ Increasing(s) \in Seq(1..Len(ls)) /\ Len(Increasing(s)) = Len(s)
        /\ Weight(ls, Increasing(s)) = Weight(ls, s)
    BY <1>1, <2>1, SortedWeigh
  <2>3. p[i] \in Seq(1..Len(ls)) /\ Len(p[i]) = Len(s) /\ Weight(ls, p[i]) = Weight(ls, s)
    BY <2>1, <2>2
  <2> QED BY <2>3 DEF AsHeavy, s
<1>9. ASSUME NEW i \in 1..k PROVE p[i] \in Seq(1..L) /\ p[i] # <<>>
  <2>1. p[i] \in Seq(1..L) /\ Len(p[i]) = Len(d[i].rows)
    BY <1>8 DEF AsHeavy
  <2>2. Len(d[i].rows) # 0
    <3> DEFINE s == d[i].rows
    <3>1. s \in Seq(1..L) /\ s # <<>>
      BY <1>6, <1>7
    <3> HIDE DEF s, L
    <3>2. Len(s) # 0
      BY <3>1, EmptySeq
    <3> QED BY <3>2 DEF s
  <2>3. ASSUME p[i] = <<>> PROVE FALSE
    <3>1. Len(p[i]) = 0
      BY <2>3
    <3> QED BY <2>1, <2>2, <3>1
  <2> QED BY <2>1, <2>3
<1>10. ASSUME NEW i \in 1..k, NEW j \in 1..k PROVE Weight(ls, p[i]) <= Weight(ls, p[j]) + D
  <2>1. d[i].sum <= d[j].sum + D
    BY <1>4, <1>6 DEF IsFair, IsNarrow
  <2>2. d[i].sum = Weight(ls, d[i].rows) /\ d[j].sum = Weight(ls, d[j].rows)
    BY <1>4, <1>6 DEF IsFair, IsWeighed
  <2>3. Weight(ls, p[i]) = d[i].sum /\ Weight(ls, p[j]) = d[j].sum
    BY <1>8, <2>2 DEF AsHeavy
  <2> QED BY <2>1, <2>3
<1> QED BY <1>9, <1>10 DEF p, D

-----------------------------------------------------------------------------
(* The shares of the ranks, and the micro-batches of an update. *)

\* A set of numbers up to a bound has a greatest one.
LEMMA MaxOfBounded ==
  ASSUME NEW w \in Nat, NEW S, S \subseteq 0..w, S # {}
  PROVE  Max(S) \in S /\ \A x \in S : x <= Max(S)
<1>1. PICK e \in S : TRUE
  OBVIOUS
<1> DEFINE f == [q \in 0..w |-> IF q \in S THEN q ELSE e]
           n == w + 1
<1>2. n \in Nat \ {0} /\ \A q : q \in 0..(n - 1) <=> q \in 0..w
  OBVIOUS
<1>3. \A q \in 0..w : f[q] \in S /\ (q \in S => f[q] = q)
  OBVIOUS
<1>4. \A x \in S : x \in 0..w /\ x \in Nat
  OBVIOUS
<1> HIDE DEF f, n
<1>5. \A q \in 0..(n - 1) : f[q] \in Nat
  BY <1>2, <1>3, <1>4
<1>6. S = {f[q] : q \in 0..(n - 1)}
  BY <1>2, <1>3, <1>4
<1> QED BY <1>2, <1>5, <1>6, MaxIsGreatest

\* A part of a sequence, element by element.
PartRows(s, a, m) == Part(s, a, a + m) = [t \in 1..m |-> s[a + t]]

\* That is what a part is.
LEMMA PartIs ==
  ASSUME NEW X, NEW s \in Seq(X), NEW a \in Nat, NEW m \in Nat, a + m <= Len(s)
  PROVE  PartRows(s, a, m)
<1> DEFINE q == SubSeq(s, a + 1, a + m)
           n == Len(s)
           u == [t \in 1..m |-> s[a + t]]
<1>1. n \in Nat /\ \A i \in 1..n : s[i] \in X
  BY LenProperties, ElementOfSeq
<1>2. \A i \in (a + 1)..(a + m) : i \in 1..n
  BY <1>1
<1>3. \A i \in (a + 1)..(a + m) : s[i] \in X
  BY <1>1, <1>2
<1>4. /\ q \in Seq(X) /\ Len(q) = IF a + 1 <= a + m THEN (a + m) - (a + 1) + 1 ELSE 0
      /\ \A i \in 1..((a + m) - (a + 1) + 1) : q[i] = s[(a + 1) + i - 1]
  BY <1>3, SubSeqProperties
<1> HIDE DEF q, n
<1>5. /\ Len(q) = m /\ DOMAIN q = 1..m
  <2>1. Len(q) = m
    BY <1>4
  <2> QED BY <1>4, <2>1, LenProperties
<1>6. ASSUME NEW t \in 1..m PROVE q[t] = s[a + t]
  <2>1. t \in 1..((a + m) - (a + 1) + 1) /\ (a + 1) + t - 1 = a + t
    OBVIOUS
  <2> QED BY <1>4, <2>1
<1>7. q = [t \in 1..m |-> q[t]]
  <2>1. q = [t \in DOMAIN q |-> q[t]]
    BY <1>4
  <2> QED BY <1>5, <2>1
<1>8. q = u
  BY <1>6, <1>7
<1> QED BY <1>8 DEF PartRows, Part, q

\* A chunk, row by row.
ChunkRows(rows, W, m, n, i) ==
  /\ (i - 1) * m \in Nat /\ i * m = (i - 1) * m + m /\ (i - 1) * m + m <= n
  /\ Chunk(rows, W)[i] = [t \in 1..m |-> rows[(i - 1) * m + t]]
  /\ \A t \in 1..m : (i - 1) * m + t \in 1..n

\* Every chunk is.
LEMMA ChunkRowsAre ==
  ASSUME NEW n \in Nat, NEW rows, rows = [j \in 1..n |-> rows[j]], NEW W \in Nat \ {0}, NEW m \in Nat,
         n = W * m, NEW i \in 1..W
  PROVE  ChunkRows(rows, W, m, n, i)
<1> DEFINE X == {rows[j] : j \in 1..n}
           a == (i - 1) * m
           c == Chunk(rows, W)[i]
<1>1. rows \in Seq(X) /\ Len(rows) = n
  <2>1. \A j \in 1..n : rows[j] \in X
    OBVIOUS
  <2> HIDE DEF X
  <2> QED BY <2>1, IndexedIsSeq
<1> HIDE DEF X
<1>2. IsChunk(rows, W, m, i)
  BY <1>1, ChunkIs
<1>3. c = Part(rows, a, i * m) /\ a \in Nat /\ i * m = a + m /\ i * m <= Len(rows)
  BY <1>2 DEF IsChunk
<1> HIDE DEF a, c
<1>4. a + m <= n /\ a + m <= Len(rows) /\ c = Part(rows, a, a + m)
  BY <1>1, <1>3
<1>5. c = [t \in 1..m |-> rows[a + t]]
  <2>1. PartRows(rows, a, m)
    BY <1>1, <1>3, <1>4, PartIs
  <2> QED BY <1>4, <2>1 DEF PartRows
<1>6. \A t \in 1..m : a + t \in 1..n
  BY <1>3, <1>4
<1> QED BY <1>3, <1>4, <1>5, <1>6 DEF ChunkRows, a, c

\* The lengths of the responses.
Lengths == {lens[x] : x \in Responses}

\* The shortest and the longest response.
HasBounds ==
  /\ Min(Lengths) \in Nat \ {0} /\ Max(Lengths) \in Nat /\ Min(Lengths) <= Max(Lengths)
  /\ \A x \in Responses : lens[x] \in Nat /\ Min(Lengths) <= lens[x] /\ lens[x] <= Max(Lengths)

\* There is a shortest and a longest one.
LEMMA LengthsAreBounded ==
  ASSUME Sized, HasLengths
  PROVE  HasBounds
<1> DEFINE w == config.width
           S == Lengths
<1>1. w \in Nat \ {0} /\ \A x \in Responses : lens[x] \in 1..w
  BY DEF Sized, HasLengths
<1>2. Responses # {}
  <2>1. config.prompts \in Nat \ {0} /\ config.n \in Nat \ {0}
    BY DEF Sized
  <2>2. 1 \in 1..config.prompts /\ 1 \in 1..config.n
    BY <2>1
  <2>3. <<1, 1>> \in Responses
    BY <2>2 DEF Responses
  <2> QED BY <2>3
<1>3. \A x \in Responses : lens[x] \in S
  BY DEF Lengths
<1>4. S \subseteq 1..w /\ S # {}
  BY <1>1, <1>2 DEF Lengths
<1> HIDE DEF S, w
<1>5. S \subseteq Nat /\ S \subseteq 0..w /\ w \in Nat /\ \A k \in S : k \in Nat \ {0}
  BY <1>1, <1>4
<1>6. Min(S) \in S /\ \A x \in S : Min(S) <= x
  BY <1>4, <1>5, MinIsLeast
<1>7. Max(S) \in S /\ \A x \in S : x <= Max(S)
  BY <1>4, <1>5, MaxOfBounded
<1>8. Min(S) \in Nat \ {0} /\ Max(S) \in Nat /\ Min(S) <= Max(S)
  BY <1>5, <1>6, <1>7
<1>9. \A x \in Responses : lens[x] \in Nat /\ Min(S) <= lens[x] /\ lens[x] <= Max(S)
  BY <1>3, <1>5, <1>6, <1>7
<1> QED BY <1>8, <1>9 DEF HasBounds, S

\* The tokens of a rank's share, and that they differ by no more than the lengths do.
ShareOf(rows, i) == Total(LensOf(Chunk(rows, config.world)[i]))
Even(rows) ==
  \A i, j \in 1..config.world : ShareOf(rows, i) - ShareOf(rows, j) <= Max(Lengths) - Min(Lengths)

\* A share is as heavy as a partition, if its rows are those of the partition.
ShareWeighs(rows, ls, part, i) == ShareOf(rows, i) = Weight(ls, part)

\* _balance_batch makes the shares even.
LEMMA SharesEven ==
  ASSUME Sized, HasLengths, NEW rows, rows = [j \in 1..Size |-> rows[j]],
         \A j \in 1..Size : rows[j].input_ids \in Responses
  PROVE  Even(Reorder(rows, FlattenSeq(Partitions(LensOf(rows), config.world, TRUE))))
<1> DEFINE N == Size
           W == config.world
           s == LensOf(rows)
           p == Partitions(s, W, TRUE)
           order == FlattenSeq(p)
           new == Reorder(rows, order)
           lo == Min(Lengths)
           hi == Max(Lengths)
           m == N \div W
<1>1. CanPartition(s, W, TRUE) /\ Len(s) = N /\ s = [j \in 1..N |-> lens[rows[j].input_ids]]
  BY CanBalance
<1>2. HasBounds
  BY LengthsAreBounded
<1>3. N \in Nat \ {0} /\ W \in Nat \ {0} /\ N % W = 0 /\ s \in Seq(Nat)
  BY <1>1, LenProperties DEF CanPartition
<1>4. lo \in Nat \ {0} /\ hi \in Nat /\ lo <= hi
  BY <1>2 DEF HasBounds
<1>5. Bounded(s, lo, hi)
  <2> HIDE DEF s, N, lo, hi
  <2>1. ASSUME NEW i \in 1..N PROVE lo <= s[i] /\ s[i] <= hi
    <3>1. rows[i].input_ids \in Responses /\ s[i] = lens[rows[i].input_ids]
      BY <1>1 DEF N
    <3> QED BY <1>2, <3>1 DEF HasBounds, lo, hi
  <2> QED BY <1>1, <1>3, <1>4, <2>1 DEF Bounded
<1> HIDE DEF s, N, W
<1>6. m \in Nat \ {0} /\ N = W * m /\ W <= N
  <2>1. m \in Nat /\ N = W * m + (N % W)
    BY <1>3, Division
  <2> HIDE DEF m
  <2>2. N = W * m
    BY <1>3, <2>1
  <2>3. m # 0
    BY <1>3, <2>2
  <2>4. m >= 1
    BY <2>1, <2>3
  <2>5. 1 * W <= m * W
    BY <1>3, <2>1, <2>4, ProductOrder
  <2> QED BY <1>3, <2>1, <2>2, <2>3, <2>5
<1>7. \A i, j \in 1..W : Weight(s, p[i]) <= Weight(s, p[j]) + (hi - lo)
  <2> HIDE DEF p, lo, hi
  <2>1. \A i, j \in 1..W : Weight(s, p[i]) <= Weight(s, p[j]) + Difference(TRUE, lo, hi)
    BY <1>1, <1>4, <1>5, <1>6, PartitionsAreBalanced DEF p
  <2> QED BY <2>1 DEF Difference
<1>8. Permutes(order, N) /\ \A i \in 1..W : Len(p[i]) = m
  BY <1>1, PartitionsAreWhole
<1>9. Deals(p, W, N, TRUE)
  BY <1>1, PartitionsDeal
<1> HIDE DEF p, lo, hi
<1>10. order \in Seq(1..N) /\ order = Joined(p, W)
  BY <1>3, <1>9, DealtPermute
<1>11. Pieces(1..N, p, W)
  BY <1>9 DEF Deals
<1> HIDE DEF m
<1>12. \A i \in 1..W : Part(order, m * (i - 1), m * i) = p[i]
  <2>1. EvenPieces(1..N, p, W, m)
    BY <1>6, <1>8, <1>11 DEF EvenPieces
  <2> HIDE DEF order
  <2> QED BY <1>10, <2>1, PiecesComeBack
<1>13. order = [j \in 1..N |-> order[j]] /\ \A j \in 1..N : order[j] \in 1..N
  BY <1>8 DEF Permutes
<1>14. order \in Seq(1..N) /\ Len(order) = N
  <2> HIDE DEF order
  <2>1. DOMAIN order = 1..N
    BY <1>13
  <2>2. Len(order) \in Nat /\ DOMAIN order = 1..Len(order)
    BY <1>10, LenProperties
  <2> QED BY <1>3, <1>10, <2>1, <2>2
<1> HIDE DEF order
<1>15. new = [j \in 1..N |-> rows[order[j]]]
  BY <1>13 DEF Reorder
<1> HIDE DEF new
<1>16. ASSUME NEW i \in 1..W PROVE ShareWeighs(new, s, p[i], i)
  <2> DEFINE a == (i - 1) * m
             c == Chunk(new, W)[i]
             u == LensOf(c)
             v == [j \in DOMAIN p[i] |-> s[p[i][j]]]
  <2>1. ChunkRows(new, W, m, N, i)
    <3>1. new = [j \in 1..N |-> new[j]]
      BY <1>15
    <3> HIDE DEF c, a
    <3> QED BY <1>3, <1>6, <3>1, ChunkRowsAre
  <2>2. /\ a \in Nat /\ i * m = a + m /\ a + m <= N /\ c = [t \in 1..m |-> new[a + t]]
        /\ \A t \in 1..m : a + t \in 1..N
    BY <2>1 DEF ChunkRows
  <2>3. p[i] = Part(order, a, a + m)
    <3>1. m * (i - 1) = a /\ m * i = i * m
      BY <1>6
    <3> QED BY <1>12, <2>2, <3>1
  <2> HIDE DEF a, c
  <2>4. p[i] = [t \in 1..m |-> order[a + t]]
    <3>1. a + m <= Len(order)
      BY <1>14, <2>2
    <3>2. PartRows(order, a, m)
      BY <1>6, <1>10, <2>2, <3>1, PartIs
    <3> QED BY <2>3, <3>2 DEF PartRows
  <2>5. ASSUME NEW t \in 1..m PROVE lens[c[t].input_ids] = s[p[i][t]]
    <3> DEFINE j == order[a + t]
    <3>1. j \in 1..N /\ new[a + t] = rows[j]
      BY <1>13, <1>15, <2>2
    <3>2. c[t] = rows[j] /\ p[i][t] = j
      BY <2>2, <2>4, <3>1
    <3> HIDE DEF j
    <3>3. s[j] = lens[rows[j].input_ids]
      BY <1>1, <3>1
    <3> QED BY <3>2, <3>3
  <2>6. u = [t \in 1..m |-> lens[c[t].input_ids]]
    <3>1. DOMAIN c = 1..m
      BY <2>2
    <3> QED BY <3>1 DEF LensOf
  <2>7. v = [t \in 1..m |-> s[p[i][t]]]
    <3>1. DOMAIN p[i] = 1..m
      BY <2>4
    <3> QED BY <3>1
  <2>8. u = v
    BY <2>5, <2>6, <2>7
  <2>9. ShareOf(new, i) = Total(u) /\ Weight(s, p[i]) = Total(v)
    BY DEF ShareOf, Weight, c, W
  <2> QED BY <2>8, <2>9 DEF ShareWeighs
<1>17. ASSUME NEW i \in 1..W PROVE Weight(s, p[i]) \in Nat
  <2>1. p[i] \in Seq(1..Len(s))
    BY <1>1, <1>11 DEF Pieces
  <2> QED BY <1>3, <2>1, WeightIs
<1>18. ASSUME NEW i \in 1..W, NEW j \in 1..W PROVE ShareOf(new, i) - ShareOf(new, j) <= hi - lo
  <2>1. ShareOf(new, i) = Weight(s, p[i]) /\ ShareOf(new, j) = Weight(s, p[j])
    BY <1>16 DEF ShareWeighs
  <2> DEFINE x == Weight(s, p[i])
             y == Weight(s, p[j])
  <2>2. x \in Nat /\ y \in Nat /\ x <= y + (hi - lo)
    BY <1>7, <1>17
  <2> HIDE DEF x, y
  <2>3. x - y <= hi - lo
    BY <1>4, <2>2
  <2> QED BY <2>1, <2>3 DEF x, y
<1> QED BY <1>18 DEF Even, lo, hi, W, new, order, p, s

\* Rows of the same responses are as even.
LEMMA EvenStays ==
  ASSUME Sized, NEW rows, rows = [j \in 1..Size |-> rows[j]], NEW new, new = [j \in 1..Size |-> new[j]],
         \A j \in 1..Size : new[j].input_ids = rows[j].input_ids, Even(rows)
  PROVE  Even(new)
<1> DEFINE N == Size
           W == config.world
           m == N \div W
<1>1. N \in Nat \ {0} /\ W \in Nat \ {0} /\ N % W = 0
  <2>1. config.prompts \in Nat \ {0} /\ config.n \in Nat \ {0} /\ W \in Nat \ {0} /\ N % W = 0
    BY DEF Sized, Size
  <2>2. config.prompts * config.n \in Nat \ {0}
    BY <2>1
  <2> QED BY <2>1, <2>2 DEF Size
<1> HIDE DEF N, W
<1>2. m \in Nat /\ N = W * m
  <2>1. m \in Nat /\ N = W * m + (N % W)
    BY <1>1, Division
  <2> HIDE DEF m
  <2> QED BY <1>1, <2>1
<1> HIDE DEF m
<1>3. ASSUME NEW i \in 1..W PROVE ShareOf(new, i) = ShareOf(rows, i)
  <2> DEFINE a == (i - 1) * m
             b == Chunk(rows, W)[i]
             c == Chunk(new, W)[i]
  <2>1. rows = [j \in 1..N |-> rows[j]] /\ new = [j \in 1..N |-> new[j]] /\ N \in Nat
    BY <1>1 DEF N
  <2>2. ChunkRows(rows, W, m, N, i) /\ ChunkRows(new, W, m, N, i)
    <3> HIDE DEF a, b, c
    <3>1. ChunkRows(rows, W, m, N, i)
      BY <1>1, <1>2, <2>1, ChunkRowsAre
    <3>2. ChunkRows(new, W, m, N, i)
      BY <1>1, <1>2, <2>1, ChunkRowsAre
    <3> QED BY <3>1, <3>2
  <2>3. /\ b = [t \in 1..m |-> rows[a + t]] /\ c = [t \in 1..m |-> new[a + t]]
        /\ \A t \in 1..m : a + t \in 1..N
    BY <2>2 DEF ChunkRows
  <2> HIDE DEF a, b, c
  <2>4. \A t \in 1..m : b[t].input_ids = c[t].input_ids
    BY <2>3 DEF N
  <2>5. LensOf(b) = LensOf(c)
    <3>1. DOMAIN b = 1..m /\ DOMAIN c = 1..m
      BY <2>3
    <3>2. /\ LensOf(b) = [t \in 1..m |-> lens[b[t].input_ids]]
          /\ LensOf(c) = [t \in 1..m |-> lens[c[t].input_ids]]
      BY <3>1 DEF LensOf
    <3> QED BY <2>4, <3>2
  <2>6. ShareOf(rows, i) = Total(LensOf(b)) /\ ShareOf(new, i) = Total(LensOf(c))
    BY DEF ShareOf, b, c, W
  <2> QED BY <2>5, <2>6
<1>4. ASSUME NEW i \in 1..W, NEW j \in 1..W
      PROVE  ShareOf(new, i) - ShareOf(new, j) <= Max(Lengths) - Min(Lengths)
  <2>1. ShareOf(rows, i) - ShareOf(rows, j) <= Max(Lengths) - Min(Lengths)
    BY DEF Even, W
  <2>2. ShareOf(new, i) = ShareOf(rows, i) /\ ShareOf(new, j) = ShareOf(rows, j)
    BY <1>3
  <2> QED BY <2>1, <2>2
<1> QED BY <1>4 DEF Even, W

\* The tokens of a micro-batch.
Heavy(part) == Total([i \in DOMAIN part |-> lens[part[i]]])

\* The micro-batches of a mini-batch: none is empty, and they differ by a response at most.
EvenMini(mini) ==
  \A a, b \in ToSet(mini) :
    b # <<>> /\ Heavy(a) - Heavy(b) <= Max({lens[x] : x \in ToSet(Concat(mini))})

\* rearrange_micro_batches makes them so.
LEMMA MiniIsEven ==
  ASSUME Sized, config.dynamic, NEW X, Replaces(Ids(X), X, Responses), NEW m, HasRows(X, m),
         NEW r \in Ranks, m \in DOMAIN Minis(r), NumMicros(r, m) <= Len(Minis(r)[m])
  PROVE  EvenMini(Update(r)[m])
<1> DEFINE rows == Minis(r)[m]
           L == Len(rows)
           ls == LensOf(rows)
           k == NumMicros(r, m)
           M == Micros(r, m)
           q == Update(r)[m]
           V == {lens[x] : x \in ToSet(Concat(q))}
           hi == Max(V)
           w == config.width
<1>1. CanPartition(ls, k, FALSE) /\ M = Partitions(ls, k, FALSE)
  BY SomeMicros DEF Micros
<1>2. /\ rows \in Seq(X) /\ rows # <<>> /\ w \in Nat \ {0}
      /\ \A i \in DOMAIN rows : lens[rows[i].input_ids] \in 1..w
  BY DEF HasRows, Sized
<1>3. q = [a \in DOMAIN M |-> [i \in DOMAIN M[a] |-> rows[M[a][i]].input_ids]]
  BY DEF Update
<1>4. k <= L
  OBVIOUS
<1>5. ToSet(Concat(q)) = ToSet(Through(Ids(X), rows))
  BY MiniIsTrained DEF TrainsMini, Alike, Concat
<1>6. ls = [i \in DOMAIN rows |-> lens[rows[i].input_ids]]
  BY DEF LensOf
<1> HIDE DEF rows, ls, k, M, q, w
<1>7. L \in Nat \ {0} /\ DOMAIN rows = 1..L /\ \A i \in 1..L : rows[i] \in X
  <2>1. L \in Nat /\ DOMAIN rows = 1..L /\ \A i \in 1..L : rows[i] \in X
    BY <1>2, LenProperties, ElementOfSeq
  <2>2. L # 0
    BY <1>2, EmptySeq
  <2> QED BY <2>1, <2>2
<1>8. ls \in Seq(Nat) /\ Len(ls) = L /\ \A i \in 1..L : ls[i] \in 1..w
  <2> HIDE DEF L
  <2>1. ls = [i \in 1..L |-> lens[rows[i].input_ids]] /\ DOMAIN ls = 1..L
    BY <1>6, <1>7
  <2>2. \A i \in 1..L : ls[i] \in 1..w
    BY <1>2, <1>7, <2>1
  <2>3. ls \in Seq(Nat)
    BY <1>1 DEF CanPartition
  <2>4. Len(ls) \in Nat /\ DOMAIN ls = 1..Len(ls)
    BY <2>3, LenProperties
  <2> QED BY <1>7, <2>1, <2>2, <2>3, <2>4
<1> HIDE DEF L
<1>9. V = {ls[i] : i \in 1..L}
  <2> DEFINE u == Through(Ids(X), rows)
  <2>1. DOMAIN u = 1..L /\ \A i \in 1..L : u[i] = rows[i].input_ids
    BY <1>7 DEF Through, Ids
  <2> HIDE DEF u
  <2>2. ToSet(u) = {u[i] : i \in 1..L}
    BY <2>1 DEF ToSet
  <2>3. ToSet(Concat(q)) = {rows[i].input_ids : i \in 1..L}
    BY <1>5, <2>1, <2>2 DEF u
  <2>4. \A i \in 1..L : ls[i] = lens[rows[i].input_ids]
    BY <1>6, <1>7
  <2>5. V = {lens[rows[i].input_ids] : i \in 1..L}
    BY <2>3
  <2> HIDE DEF V
  <2> QED BY <2>4, <2>5
<1> HIDE DEF V
<1>10. hi \in V /\ \A x \in V : x <= hi
  <2>1. V \subseteq 0..w
    BY <1>2, <1>8, <1>9
  <2>2. 1 \in 1..L
    BY <1>7
  <2>3. V # {}
    BY <1>9, <2>2
  <2> QED BY <1>2, <2>1, <2>3, MaxOfBounded
<1> HIDE DEF hi
<1>11. Bounded(ls, 1, hi) /\ 1 <= hi /\ hi \in Nat
  <2>1. hi \in Nat /\ 1 <= hi
    BY <1>2, <1>8, <1>9, <1>10
  <2>2. \A i \in 1..L : 1 <= ls[i] /\ ls[i] <= hi
    BY <1>2, <1>8, <1>9, <1>10
  <2> QED BY <1>8, <2>1, <2>2 DEF Bounded
<1>12. \A i, j \in 1..k :
         /\ M[i] \in Seq(1..L) /\ M[i] # <<>> /\ Weight(ls, M[i]) <= Weight(ls, M[j]) + hi
  <2>1. k <= Len(ls)
    BY <1>4, <1>8
  <2>2. \A i, j \in 1..k :
          /\ M[i] \in Seq(1..Len(ls)) /\ M[i] # <<>>
          /\ Weight(ls, M[i]) <= Weight(ls, M[j]) + Difference(FALSE, 1, hi)
    BY <1>1, <1>11, <2>1, PartitionsAreBalanced
  <2> QED BY <1>8, <2>2 DEF Difference
<1>13. DOMAIN M = 1..k
  BY <1>1 DEF Partitions
<1>14. ASSUME NEW a \in 1..k
       PROVE  q[a] # <<>> /\ Heavy(q[a]) = Weight(ls, M[a]) /\ Weight(ls, M[a]) \in Nat
  <2> DEFINE s == M[a]
             t == q[a]
             n == Len(s)
  <2>1. s \in Seq(1..L) /\ s # <<>>
    BY <1>12
  <2>2. t = [i \in DOMAIN s |-> rows[s[i]].input_ids]
    BY <1>3, <1>13
  <2> HIDE DEF s, t
  <2>3. n \in Nat /\ DOMAIN s = 1..n /\ n # 0 /\ \A i \in 1..n : s[i] \in 1..L
    BY <2>1, LenProperties, ElementOfSeq, EmptySeq
  <2> HIDE DEF n
  <2>4. t # <<>>
    <3>1. 1 \in DOMAIN t
      BY <2>2, <2>3
    <3>2. 1 \notin DOMAIN <<>>
      OBVIOUS
    <3> QED BY <3>1, <3>2
  <2>5. [i \in DOMAIN t |-> lens[t[i]]] = [i \in DOMAIN s |-> ls[s[i]]]
    <3>1. DOMAIN t = DOMAIN s
      BY <2>2
    <3>2. \A i \in DOMAIN s : lens[t[i]] = ls[s[i]]
      BY <1>6, <1>7, <2>2, <2>3
    <3> QED BY <3>1, <3>2
  <2>6. Heavy(t) = Weight(ls, s)
    BY <2>5 DEF Heavy, Weight
  <2>7. Weight(ls, s) \in Nat
    BY <1>8, <2>1, WeightIs
  <2> QED BY <2>4, <2>6, <2>7 DEF s, t
<1>15. ASSUME NEW i \in 1..k, NEW j \in 1..k PROVE q[j] # <<>> /\ Heavy(q[i]) - Heavy(q[j]) <= hi
  <2> DEFINE x == Weight(ls, M[i])
             y == Weight(ls, M[j])
  <2>1. x \in Nat /\ y \in Nat /\ x <= y + hi /\ Heavy(q[i]) = x /\ Heavy(q[j]) = y /\ q[j] # <<>>
    BY <1>12, <1>14
  <2> HIDE DEF x, y
  <2>2. x - y <= hi
    BY <1>11, <2>1
  <2> QED BY <2>1, <2>2
<1>16. ToSet(q) = {q[a] : a \in 1..k}
  BY <1>3, <1>13 DEF ToSet
<1>17. \A a, b \in ToSet(q) : b # <<>> /\ Heavy(a) - Heavy(b) <= hi
  BY <1>15, <1>16
<1> QED BY <1>17 DEF EvenMini, hi, V, q

-----------------------------------------------------------------------------
(* The balance, as an invariant. *)

\* Until it is assembled, the batch has no responses; from then on it has.
LEMMA WhoHasResponses ==
  ASSUME IInv, NEW k \in 1..12, stage = Order[k]
  PROVE  "input_ids" \in Columns(batch) <=> 3 < k
<1>1. Holding(batch, gen, k) /\ Sized
  BY StageIs
<1>2. "input_ids" \in Cols(k) <=> 3 < k
  BY ColumnsAre
<1>3. CASE k <= 3
  <2>1. /\ batch = [j \in 1..config.prompts |-> batch[j]] /\ config.prompts \in Nat \ {0}
        /\ \A j \in 1..config.prompts : DOMAIN batch[j] = Cols(k)
    BY <1>1, <1>3 DEF Holding, Fresh, Sized
  <2>2. 1 \in 1..config.prompts
    BY <2>1
  <2>3. DOMAIN batch[1] = Cols(k)
    BY <2>1, <2>2
  <2> QED BY <1>2, <1>3, <2>3 DEF Columns
<1>4. CASE 3 < k
  <2>1. /\ batch = [j \in 1..Size |-> batch[j]] /\ \A j \in 1..Size : DOMAIN batch[j] = Cols(k)
    BY <1>1, <1>4 DEF Holding, Aligned
  <2>2. Size \in Nat \ {0}
    BY <1>1, AllResponsesAre DEF ResponsesComplete
  <2>3. 1 \in 1..Size
    BY <2>2
  <2>4. DOMAIN batch[1] = Cols(k) /\ 1 \in DOMAIN batch
    BY <2>1, <2>3
  <2>5. batch # <<>>
    <3>1. 1 \notin DOMAIN <<>>
      OBVIOUS
    <3> QED BY <2>4, <3>1
  <2> QED BY <1>2, <1>4, <2>4, <2>5 DEF Columns
<1>5. k <= 3 \/ 3 < k
  OBVIOUS
<1> QED BY <1>3, <1>4, <1>5

\* None has them before the union.
LEMMA NoneYet ==
  IInv /\ stage = Order[3] => "input_ids" \notin Columns(batch)
<1>1. 3 \in 1..12 /\ ~ (3 < 3)
  OBVIOUS
<1> QED BY <1>1, WhoHasResponses

\* The shares of the ranks are even.
SharesAreEven == "input_ids" \in Columns(batch) => Even(batch)

\* So are the micro-batches of an update.
EvenUpdate(t) ==
  config.dynamic => \A r \in Ranks : \A mini \in ToSet(t[r]) : EvenMini(mini)

Balanced == SharesAreEven /\ \A u \in Updates : EvenUpdate(trained[u])

\* That is what has to be shown.
LEMMA BalancedIsEnough ==
  ASSUME Balanced
  PROVE  SharesAreBalanced
<1>1. ASSUME "input_ids" \in Columns(batch), NEW a \in ToSet(Chunk(batch, config.world)),
             NEW b \in ToSet(Chunk(batch, config.world))
      PROVE  Total(LensOf(a)) - Total(LensOf(b)) <=
             Max({lens[x] : x \in Responses}) - Min({lens[x] : x \in Responses})
  <2> DEFINE c == Chunk(batch, config.world)
  <2>1. DOMAIN c = 1..config.world
    BY DEF Chunk
  <2>2. PICK i \in 1..config.world, j \in 1..config.world : a = c[i] /\ b = c[j]
    BY <1>1, <2>1 DEF ToSet
  <2>3. ShareOf(batch, i) = Total(LensOf(a)) /\ ShareOf(batch, j) = Total(LensOf(b))
    BY <2>2 DEF ShareOf
  <2>4. ShareOf(batch, i) - ShareOf(batch, j) <= Max(Lengths) - Min(Lengths)
    BY <1>1 DEF Balanced, SharesAreEven, Even
  <2> QED BY <2>3, <2>4 DEF Lengths
<1>2. ASSUME config.dynamic, NEW u \in Updates, NEW r \in Ranks, NEW mini \in ToSet(trained[u][r])
      PROVE  EvenMini(mini)
  BY <1>2 DEF Balanced, EvenUpdate
<1> QED BY <1>1, <1>2 DEF SharesAreBalanced, EvenMini, Heavy

\* It is so at first.
LEMMA BalancedAtFirst ==
  ASSUME Init, IInv
  PROVE  Balanced
<1>1. "input_ids" \notin Columns(batch)
  <2>1. stage = Order[1] /\ 1 \in 1..12 /\ ~ (3 < 1)
    BY OrderIs DEF Init
  <2> QED BY <2>1, WhoHasResponses
<1>2. ASSUME NEW u \in Updates PROVE EvenUpdate(trained[u])
  <2>1. \A r \in Ranks : trained[u][r] = <<>>
    BY DEF Init
  <2>2. ToSet(<<>>) = {}
    BY DEF ToSet
  <2> QED BY <2>1, <2>2 DEF EvenUpdate
<1> QED BY <1>1, <1>2 DEF Balanced, SharesAreEven

\* What is even remains so while the lengths and the sizes do.
LEMMA EvenRemains ==
  ASSUME config' = config, lens' = lens, NEW rows, batch' = rows, Even(rows)
  PROVE  Even(batch)'
<1>1. Lengths' = Lengths
  BY DEF Lengths, Responses
<1>2. \A i : ShareOf(batch, i)' = ShareOf(rows, i)
  BY DEF ShareOf, LensOf
<1> QED BY <1>1, <1>2 DEF Even

\* So does an update.
LEMMA UpdateRemains ==
  ASSUME config' = config, lens' = lens, NEW t, NEW u, trained'[u] = t, EvenUpdate(t)
  PROVE  EvenUpdate(trained[u])'
<1>1. \A part : Heavy(part)' = Heavy(part)
  BY DEF Heavy
<1>2. \A mini : EvenMini(mini)' <=> EvenMini(mini)
  BY <1>1 DEF EvenMini
<1>3. Ranks' = Ranks
  BY DEF Ranks
<1> QED BY <1>2, <1>3 DEF EvenUpdate

\* An update with dynamic micro-batches is even.
LEMMA UpdateIsEven ==
  ASSUME IInv, chunks # <<>>, CanRun, stage \in Updates
  PROVE  EvenUpdate([r \in Ranks |-> Update(r)])
<1> DEFINE X == {batch[j] : j \in 1..Size}
<1>1. PICK i : Called(i)
  BY CallIs
<1>2. Sized /\ stage \notin {"generate", "baseline", "validate"}
  BY CallIs DEF Updates
<1>3. Aligned(batch, i)
  BY <1>1, <1>2 DEF Called
<1>4. MiniSize \in Nat \ {0}
  <2> DEFINE size == MiniSize
  <2>1. size > 0
    BY DEF CanRun
  <2>2. size \in Nat
    BY <1>2, MiniSizeIsNumber
  <2> HIDE DEF size
  <2>3. size \in Nat \ {0}
    BY <2>1, <2>2
  <2> QED BY <2>3 DEF size
<1>5. PICK m, c, ln : LevelCall(m, c, ln)
  BY <1>2, <1>4, CallIsLevel
<1>6. Level(X, c, ln)
  BY <1>5 DEF LevelCall
<1>7. Replaces(Ids(X), X, Responses)
  <2>1. \A j \in 1..Size : batch[j].input_ids \in Responses
    BY <1>3 DEF Aligned
  <2>2. \A x \in X : x.input_ids \in Responses
    BY <2>1
  <2> HIDE DEF X
  <2> QED BY <2>2 DEF Replaces, Ids
<1> HIDE DEF X
<1>8. ASSUME config.dynamic, NEW r \in Ranks, NEW mini \in ToSet(Update(r)) PROVE EvenMini(mini)
  <2>1. DOMAIN Update(r) = DOMAIN Minis(r)
    BY DEF Update
  <2>2. PICK a \in DOMAIN Minis(r) : mini = Update(r)[a]
    BY <1>8, <2>1 DEF ToSet
  <2>3. HasRows(X, a)
    <3>1. Minis(r) = [e \in 1..c |-> Minis(r)[e]] /\ \A e \in 1..c : HasRows(X, e)
      BY <1>6 DEF Level
    <3>2. DOMAIN Minis(r) = 1..c
      BY <3>1
    <3> QED BY <3>1, <3>2
  <2>4. NumMicros(r, a) <= Len(Minis(r)[a])
    BY <1>2, <1>8 DEF CanRun
  <2>5. EvenMini(Update(r)[a])
    BY <1>2, <1>7, <1>8, <2>3, <2>4, MiniIsEven
  <2> QED BY <2>2, <2>5
<1> QED BY <1>8 DEF EvenUpdate

\* The steps that leave the shares as they are, and those that make or move them.
LEMMA SharesStayEven ==
  ASSUME IInv, IInv', SharesAreEven, [Next]_vars
  PROVE  SharesAreEven'
<1>1. config' = config /\ lens' = lens
  BY DEF Next, Driver, Dispatch, Join, Raise, CollectResponses, CollectBaseline, CollectColumn,
         CollectUpdate, CollectValidation, Collect, Assemble, ComputeAdvantage, vars
<1>2. Sized
  BY ConfigIsSized DEF IInv, HasLengths
<1>3. ASSUME batch' = batch PROVE SharesAreEven'
  <2>1. SUFFICES ASSUME ("input_ids" \in Columns(batch))' PROVE Even(batch)'
    BY DEF SharesAreEven
  <2>2. "input_ids" \in Columns(batch)
    BY <1>3, <2>1 DEF Columns
  <2>3. Even(batch)
    BY <2>2 DEF SharesAreEven
  <2> QED BY <1>1, <1>3, <2>3, EvenRemains
<1>4. ASSUME SameResponses, NEW k \in 4..12, stage = Order[k] PROVE SharesAreEven'
  <2>1. "input_ids" \in Columns(batch)
    <3>1. k \in 1..12 /\ 3 < k
      OBVIOUS
    <3> QED BY <1>4, <3>1, WhoHasResponses
  <2>2. Even(batch)
    BY <2>1 DEF SharesAreEven
  <2>3. PICK new : new = batch'
    OBVIOUS
  <2>4. /\ batch = [j \in 1..Size |-> batch[j]] /\ new = [j \in 1..Size |-> new[j]]
        /\ \A j \in 1..Size : new[j].input_ids = batch[j].input_ids
    BY <1>4, <2>3 DEF SameResponses
  <2>5. Even(new)
    BY <1>2, <2>2, <2>4, EvenStays
  <2>6. Even(batch)'
    BY <1>1, <2>3, <2>5, EvenRemains
  <2> QED BY <2>6 DEF SharesAreEven
<1>5. CASE Dispatch \/ Raise \/ CollectResponses \/ CollectUpdate \/ CollectValidation
           \/ (\E r \in Ranks : Join(r)) \/ UNCHANGED vars
  <2>1. batch' = batch
    BY <1>5 DEF Dispatch, Raise, CollectResponses, CollectUpdate, CollectValidation, Join, vars
  <2> QED BY <1>3, <2>1
<1>6. CASE CollectBaseline
  <2>1. stage' = Order[3]
    BY <1>6, CollectBaselineKeeps
  <2>2. (IInv /\ stage = Order[3] => "input_ids" \notin Columns(batch))'
    BY NoneYet, PTL
  <2>3. (stage = Order[3])'
    BY <2>1 DEF Order
  <2>4. ("input_ids" \notin Columns(batch))'
    BY <2>2, <2>3
  <2> QED BY <2>4 DEF SharesAreEven
<1>7. CASE CollectColumn
  <2>1. SameResponses
    BY <1>7, CollectColumnKeeps
  <2>2. \E k \in 4..12 : stage = Order[k]
    <3>1. stage = Order[4] \/ stage = Order[5] \/ stage = Order[6] \/ stage = Order[7]
      BY <1>7, OrderIs DEF CollectColumn
    <3>2. 4 \in 4..12 /\ 5 \in 4..12 /\ 6 \in 4..12 /\ 7 \in 4..12
      OBVIOUS
    <3> QED BY <3>1, <3>2
  <2> QED BY <1>4, <2>1, <2>2
<1>8. CASE ComputeAdvantage
  <2>1. SameResponses
    BY <1>8, ComputeAdvantageKeeps
  <2>2. stage = Order[8] /\ 8 \in 4..12
    BY <1>8, OrderIs DEF ComputeAdvantage
  <2> QED BY <1>4, <2>1, <2>2
<1>9. CASE Assemble
  <2>1. PICK rows : Balances(rows)
    BY <1>9, AssembleKeeps
  <2>2. PICK new : new = batch'
    OBVIOUS
  <2>3. /\ rows = [j \in 1..Size |-> rows[j]] /\ \A j \in 1..Size : rows[j].input_ids \in Responses
        /\ new = Reorder(rows, FlattenSeq(Partitions(LensOf(rows), config.world, TRUE)))
    BY <2>1, <2>2 DEF Balances
  <2>4. HasLengths
    BY DEF IInv
  <2>5. Even(new)
    <3>1. Even(Reorder(rows, FlattenSeq(Partitions(LensOf(rows), config.world, TRUE))))
      BY <1>2, <2>3, <2>4, SharesEven
    <3> QED BY <2>3, <3>1
  <2>6. Even(batch)'
    BY <1>1, <2>2, <2>5, EvenRemains
  <2> QED BY <2>6 DEF SharesAreEven
<1> QED BY <1>5, <1>6, <1>7, <1>8, <1>9 DEF Next, Driver

\* Every step keeps the balance.
LEMMA BalancedStays ==
  ASSUME IInv, IInv', Counted, Balanced, [Next]_vars
  PROVE  Balanced'
<1>1. config' = config /\ lens' = lens
  BY DEF Next, Driver, Dispatch, Join, Raise, CollectResponses, CollectBaseline, CollectColumn,
         CollectUpdate, CollectValidation, Collect, Assemble, ComputeAdvantage, vars
<1>2. SharesAreEven'
  BY SharesStayEven DEF Balanced
<1>3. ASSUME NEW u \in Updates PROVE EvenUpdate(trained[u])'
  <2>1. CASE trained'[u] = trained[u]
    BY <1>1, <2>1, UpdateRemains DEF Balanced
  <2>2. CASE CollectUpdate /\ u = stage
    <3>1. /\ chunks # <<>> /\ CanRun /\ stage \in Updates
          /\ trained' = [trained EXCEPT ![stage] = [r \in Ranks |-> Update(r)]]
      BY <2>2 DEF CollectUpdate, Collect
    <3>2. PICK t : t = [r \in Ranks |-> Update(r)]
      OBVIOUS
    <3>3. EvenUpdate(t)
      BY <3>1, <3>2, UpdateIsEven
    <3>4. trained = [e \in Updates |-> trained[e]]
      BY DEF Counted
    <3>5. trained'[u] = t
      BY <2>2, <3>1, <3>2, <3>4
    <3> QED BY <1>1, <3>3, <3>5, UpdateRemains
  <2>3. trained'[u] = trained[u] \/ (CollectUpdate /\ u = stage)
    <3>1. CASE CollectUpdate
      <4>1. trained' = [trained EXCEPT ![stage] = [r \in Ranks |-> Update(r)]]
        BY <3>1 DEF CollectUpdate
      <4>2. trained = [e \in Updates |-> trained[e]]
        BY DEF Counted
      <4>3. u # stage => trained'[u] = trained[u]
        BY <4>1, <4>2
      <4> QED BY <3>1, <4>3
    <3>2. CASE ~ CollectUpdate
      <4>1. trained' = trained
        BY <3>2 DEF Next, Driver, Dispatch, Join, Raise, CollectResponses, CollectBaseline,
                    CollectColumn, CollectValidation, Assemble, ComputeAdvantage, vars
      <4> QED BY <4>1
    <3> QED BY <3>1, <3>2
  <2> QED BY <2>1, <2>2, <2>3
<1>4. Updates' = Updates
  BY DEF Updates
<1> QED BY <1>2, <1>3, <1>4 DEF Balanced

\* The tokens of two ranks' shares never differ by more than the longest and the shortest
\* response do; with dynamic micro-batches those of a mini-batch never differ by more than its
\* longest response, and none is empty (_balance_batch, rearrange_micro_batches).
THEOREM SharesStayBalanced ==
  Spec => []SharesAreBalanced
<1>1. Init => IInv
  BY InitHolds
<1>2. Init /\ IInv => Balanced
  BY BalancedAtFirst
<1>3. Init => Counted
  BY CountedAtFirst
<1>4. IInv /\ Counted /\ [Next]_vars => Counted'
  BY CountedStays
<1>5. IInv /\ IInv' /\ Counted /\ Balanced /\ [Next]_vars => Balanced'
  BY BalancedStays
<1>6. Balanced => SharesAreBalanced
  BY BalancedIsEnough
<1> QED BY <1>1, <1>2, <1>3, <1>4, <1>5, <1>6, AlwaysInv, PTL DEF Spec

=============================================================================
