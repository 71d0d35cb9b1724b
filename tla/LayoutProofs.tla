----------------------------- MODULE LayoutProofs -----------------------------
(***************************************************************************)
(* Proofs about rows of tokens: supervised fine-tuning, and a batch of prompts *)
(* and answers on its way to the losses.  For every number of groups and       *)
(* ranks, every width, window and file: an epoch is dealt evenly, the divisors *)
(* of the ranks' losses make FSDP's mean one over response tokens, a loss is   *)
(* over response tokens in the context of their own row, every token of an     *)
(* answer has its own log-probability, and the score of a row stands at its    *)
(* last valid token: with and without packing and sequence parallelism.        *)
(*                                                                         *)
(* First the sums the divisors are, then the layout of tokens: packed rows,    *)
(* the exchange of sequence and heads between ranks, and padding put back;     *)
(* then supervised fine-tuning: the mask of a row, a step's micro-batches, the *)
(* invariant of the run, and what the loss of a row covers.  Last the batch:   *)
(* its forward passes, how its rows are laid out, what the reward model reads   *)
(* of them, and the invariant of its steps.                                    *)
(***************************************************************************)
EXTENDS SFT, TokenLayout, SequenceLemmas, FiniteSetTheorems, TLAPS

-----------------------------------------------------------------------------
(* Sums. *)

\* The greatest of some of the numbers up to n is one of them.
LEMMA MaxIsIn ==
  ASSUME NEW n \in Nat, NEW S, S \subseteq 1..n, S # {}
  PROVE  Max(S) \in S /\ \A x \in S : x <= Max(S)
<1> DEFINE T == {n - x : x \in S}
<1>1. T \subseteq Nat /\ T # {}
  <2>1. ASSUME NEW x \in S PROVE n - x \in Nat
    OBVIOUS
  <2>2. PICK x \in S : TRUE
    OBVIOUS
  <2>3. n - x \in T
    OBVIOUS
  <2> QED BY <2>1, <2>3
<1>2. PICK y \in T : \A z \in T : y <= z
  <2> HIDE DEF T
  <2>1. Min(T) \in T /\ \A z \in T : Min(T) <= z
    BY <1>1, MinIsLeast
  <2> QED BY <2>1
<1>3. PICK x \in S : y = n - x
  BY <1>2
<1>4. \A z \in S : z <= x
  <2> SUFFICES ASSUME NEW z \in S PROVE z <= x
    OBVIOUS
  <2>1. n - x <= n - z
    BY <1>2, <1>3
  <2>2. x \in Int /\ z \in Int
    OBVIOUS
  <2> QED BY <2>1, <2>2
<1> QED BY <1>4, Zenon DEF Max

\* The fold of an addition over the places of D.
Folds(g, s, D) ==
  g = [S \in SUBSET D |-> IF S = {} THEN 0 ELSE LET x == Max(S) IN g[S \ {x}] + s[x]]

\* There is one.
LEMMA FoldsExist ==
  ASSUME NEW s, NEW n \in Nat
  PROVE  \E g : Folds(g, s, 1..n)
<1> DEFINE N == {k \in Nat : \E g : Folds(g, s, 1..k)}
<1>1. 0 \in N
  <2> DEFINE g == [S \in SUBSET (1..0) |-> 0]
  <2>1. \A S \in SUBSET (1..0) : S = {}
    OBVIOUS
  <2>2. Folds(g, s, 1..0)
    BY <2>1, Zenon DEF Folds
  <2> QED BY <2>2
<1>2. ASSUME NEW k \in N PROVE k + 1 \in N
  <2>1. PICK g : Folds(g, s, 1..k)
    OBVIOUS
  <2> DEFINE m == k + 1
             h == [S \in SUBSET (1..m) |-> IF m \in S THEN g[S \ {m}] + s[m] ELSE g[S]]
  <2>2. ASSUME NEW S \in SUBSET (1..m)
        PROVE  h[S] = IF S = {} THEN 0 ELSE LET x == Max(S) IN h[S \ {x}] + s[x]
    <3>1. h[S] = IF m \in S THEN g[S \ {m}] + s[m] ELSE g[S]
      OBVIOUS
    <3>2. CASE S = {}
      <4>1. g[{}] = 0
        BY <2>1 DEF Folds
      <4> QED BY <3>1, <3>2, <4>1
    <3>3. CASE S # {}
      <4>1. Max(S) \in S /\ \A x \in S : x <= Max(S)
        <5>1. m \in Nat /\ S \subseteq 1..m
          OBVIOUS
        <5> HIDE DEF m, h
        <5> QED BY <3>3, <5>1, MaxIsIn
      <4> DEFINE x == Max(S)
                 R == S \ {x}
      <4>2. R \in SUBSET (1..m)
        OBVIOUS
      <4>3. h[R] = IF m \in R THEN g[R \ {m}] + s[m] ELSE g[R]
        BY <4>2
      <4>4. CASE m \in S
        <5>1. x = m
          <6> HIDE DEF h, m
          <6>1. m <= Max(S)
            BY <4>1, <4>4
          <6>2. Max(S) \in 1..m
            BY <4>1
          <6>3. m \in Nat
            BY DEF m
          <6> HIDE DEF x
          <6>4. x = Max(S)
            BY DEF x
          <6> QED BY <6>1, <6>2, <6>3, <6>4
        <5>2. h[R] = g[S \ {m}]
          BY <4>3, <5>1
        <5> HIDE DEF h
        <5> QED BY <3>1, <3>3, <4>4, <5>1, <5>2
      <4>5. CASE m \notin S
        <5>1. S \in SUBSET (1..k) /\ R \in SUBSET (1..k)
          <6>1. \A y \in 1..m : y # m => y \in 1..k
            OBVIOUS
          <6>2. \A y \in S : y \in 1..k
            BY <4>5, <6>1
          <6> HIDE DEF m
          <6> QED BY <6>2
        <5>2. g[S] = g[R] + s[x]
          BY <2>1, <3>3, <5>1 DEF Folds
        <5>3. h[R] = g[R]
          BY <4>3, <4>5
        <5> HIDE DEF h
        <5> QED BY <3>1, <3>3, <4>5, <5>2, <5>3
      <4> QED BY <4>4, <4>5
    <3> QED BY <3>2, <3>3
  <2>3. h = [S \in SUBSET (1..m) |-> h[S]]
    OBVIOUS
  <2>4. Folds(h, s, 1..m)
    <3> HIDE DEF h
    <3> QED BY <2>2, <2>3 DEF Folds
  <2> HIDE DEF h
  <2> QED BY <2>4
<1>3. N = Nat
  <2>1. N \subseteq Nat
    OBVIOUS
  <2> HIDE DEF N
  <2> QED BY <1>1, <1>2, <2>1, AllNumbers, Zenon
<1> QED BY <1>3

\* A running sum.
Runs(f, s, n) == f[0] = 0 /\ \A k \in 1..n : f[k] = f[k - 1] + s[k]

\* A sum is the end of a running sum.
LEMMA SumIsRun ==
  ASSUME NEW n \in Nat, NEW s, DOMAIN s = 1..n
  PROVE  \E f : f = [k \in 0..n |-> f[k]] /\ Runs(f, s, n) /\ SumSeq(s) = f[n]
<1>1. PICK g : g = CHOOSE h : Folds(h, s, 1..n)
  OBVIOUS
<1>2. Folds(g, s, 1..n)
  BY <1>1, FoldsExist, Zenon
<1>3. SumSeq(s) = g[1..n]
  BY <1>1 DEF SumSeq, FoldLeft, MapThenFoldSet, Folds
<1> DEFINE f == [k \in 0..n |-> g[1..k]]
<1>4. f[0] = 0
  <2>1. 1..0 = {} /\ {} \in SUBSET (1..n)
    OBVIOUS
  <2>2. g[{}] = 0
    BY <1>2, <2>1 DEF Folds
  <2> QED BY <2>1, <2>2
<1>5. ASSUME NEW k \in 1..n
      PROVE  f[k] = f[k - 1] + s[k]
  <2>1. 1..k \in SUBSET (1..n) /\ 1..k # {} /\ k - 1 \in 0..n /\ k \in 0..n
    <3>1. k \in 1..k /\ k - 1 \in 0..n /\ k \in 0..n
      OBVIOUS
    <3>2. \A i \in 1..k : i \in 1..n
      OBVIOUS
    <3>3. 1..k \in SUBSET (1..n)
      BY <3>2
    <3> QED BY <3>1, <3>3
  <2>2. Max(1..k) = k
    <3>1. Max(1..k) \in 1..k /\ \A x \in 1..k : x <= Max(1..k)
      BY <2>1, MaxIsIn
    <3>2. k \in 1..k
      OBVIOUS
    <3> QED BY <3>1, <3>2
  <2>3. (1..k) \ {k} = 1..(k - 1)
    OBVIOUS
  <2>4. g[1..k] = g[1..(k - 1)] + s[k]
    <3>1. g[1..k] = g[(1..k) \ {Max(1..k)}] + s[Max(1..k)]
      BY <1>2, <2>1, Zenon DEF Folds
    <3> QED BY <2>2, <2>3, <3>1
  <2> QED BY <2>1, <2>4
<1>6. f[n] = g[1..n] /\ f = [k \in 0..n |-> f[k]]
  OBVIOUS
<1> HIDE DEF f
<1> QED BY <1>3, <1>4, <1>5, <1>6 DEF Runs

\* A sum of numbers is a number, and none of them is greater.
LEMMA SumOfNats ==
  ASSUME NEW n \in Nat, NEW s, DOMAIN s = 1..n, \A k \in 1..n : s[k] \in Nat
  PROVE  SumSeq(s) \in Nat /\ \A k \in 1..n : s[k] <= SumSeq(s)
<1>1. PICK f : f = [k \in 0..n |-> f[k]] /\ Runs(f, s, n) /\ SumSeq(s) = f[n]
  BY SumIsRun
<1> DEFINE N == {k \in Nat : k <= n => f[k] \in Nat /\ \A i \in 1..k : s[i] <= f[k]}
<1>2. 0 \in N
  BY <1>1 DEF Runs
<1>3. ASSUME NEW k \in N PROVE k + 1 \in N
  <2> SUFFICES ASSUME k + 1 <= n
               PROVE  f[k + 1] \in Nat /\ \A i \in 1..(k + 1) : s[i] <= f[k + 1]
    OBVIOUS
  <2>1. k \in Nat /\ k + 1 \in 1..n /\ (k + 1) - 1 = k /\ k <= n
    OBVIOUS
  <2>2. f[k + 1] = f[k] + s[k + 1]
    BY <1>1, <2>1 DEF Runs
  <2>3. f[k] \in Nat /\ (\A i \in 1..k : s[i] <= f[k]) /\ s[k + 1] \in Nat
    BY <2>1
  <2>4. ASSUME NEW i \in 1..(k + 1) PROVE s[i] <= f[k + 1]
    <3>1. s[i] \in Nat
      BY <2>1
    <3>2. CASE i = k + 1
      BY <2>2, <2>3, <3>2
    <3>3. CASE i # k + 1
      <4>1. i \in 1..k
        BY <2>1, <3>3
      <4> QED BY <2>2, <2>3, <3>1, <4>1
    <3> QED BY <3>2, <3>3
  <2> QED BY <2>2, <2>3, <2>4
<1>4. N = Nat
  <2>1. N \subseteq Nat
    OBVIOUS
  <2> HIDE DEF N
  <2> QED BY <1>2, <1>3, <2>1, AllNumbers, Zenon
<1>5. n \in N
  BY <1>4
<1> QED BY <1>1, <1>5

\* The sum of a mask is the number of places it keeps.
LEMMA SumOfMask ==
  ASSUME NEW n \in Nat, NEW s, DOMAIN s = 1..n, \A k \in 1..n : s[k] \in {0, 1}
  PROVE  SumSeq(s) = Cardinality({k \in 1..n : s[k] = 1})
<1>1. PICK f : f = [k \in 0..n |-> f[k]] /\ Runs(f, s, n) /\ SumSeq(s) = f[n]
  BY SumIsRun
<1> DEFINE Marked(k) == {i \in 1..k : s[i] = 1}
           N == {k \in Nat : k <= n => IsFiniteSet(Marked(k)) /\ f[k] = Cardinality(Marked(k))}
<1>2. 0 \in N
  <2>1. Marked(0) = {}
    OBVIOUS
  <2>2. IsFiniteSet({}) /\ Cardinality({}) = 0
    BY FS_EmptySet
  <2>3. f[0] = 0
    BY <1>1 DEF Runs
  <2> HIDE DEF Marked
  <2> QED BY <2>1, <2>2, <2>3
<1>3. ASSUME NEW k \in N PROVE k + 1 \in N
  <2> SUFFICES ASSUME k + 1 <= n
               PROVE  IsFiniteSet(Marked(k + 1)) /\ f[k + 1] = Cardinality(Marked(k + 1))
    OBVIOUS
  <2>1. k \in Nat /\ k + 1 \in 1..n /\ (k + 1) - 1 = k /\ k <= n
    OBVIOUS
  <2>2. f[k + 1] = f[k] + s[k + 1]
    BY <1>1, <2>1 DEF Runs
  <2>3. IsFiniteSet(Marked(k)) /\ f[k] = Cardinality(Marked(k))
    BY <2>1
  <2>4. Cardinality(Marked(k)) \in Nat
    <3> HIDE DEF Marked
    <3> QED BY <2>3, FS_CardinalityType
  <2>5. CASE s[k + 1] = 1
    <3>1. Marked(k + 1) = Marked(k) \cup {k + 1} /\ k + 1 \notin Marked(k)
      <4>1. \A i : i \in 1..(k + 1) <=> i \in 1..k \/ i = k + 1
        BY <2>1
      <4>2. k + 1 \notin 1..k
        BY <2>1
      <4> QED BY <2>5, <4>1, <4>2
    <3> HIDE DEF Marked
    <3>2. IsFiniteSet(Marked(k + 1)) /\ Cardinality(Marked(k + 1)) = Cardinality(Marked(k)) + 1
      BY <2>3, <3>1, FS_AddElement
    <3> QED BY <2>2, <2>3, <2>5, <3>2
  <2>6. CASE s[k + 1] # 1
    <3>1. s[k + 1] = 0
      BY <2>1, <2>6
    <3>2. Marked(k + 1) = Marked(k)
      <4>1. \A i : i \in 1..(k + 1) <=> i \in 1..k \/ i = k + 1
        BY <2>1
      <4> QED BY <2>6, <4>1
    <3> HIDE DEF Marked
    <3> QED BY <2>2, <2>3, <2>4, <3>1, <3>2
  <2> QED BY <2>5, <2>6
<1>4. N = Nat
  <2>1. N \subseteq Nat
    OBVIOUS
  <2> HIDE DEF N
  <2> QED BY <1>2, <1>3, <2>1, AllNumbers, Zenon
<1>5. n \in N
  BY <1>4
<1> QED BY <1>1, <1>5

\* Each of the K numbers of t is there g times in s.
Grouped(g, K, s, t) ==
  /\ g \in Nat \ {0} /\ K \in Nat /\ DOMAIN s = 1..(g * K) /\ DOMAIN t = 1..K
  /\ \A d \in 0..(K - 1) : t[d + 1] \in Nat /\ \A j \in 1..g : s[g * d + j] = t[d + 1]

\* Then the sum is g times theirs.
LEMMA SumOfGroups ==
  ASSUME NEW g, NEW K, NEW s, NEW t, Grouped(g, K, s, t)
  PROVE  SumSeq(s) = g * SumSeq(t)
<1> USE DEF Grouped
<1>0. g * K \in Nat
  OBVIOUS
<1>1. PICK f : Runs(f, s, g * K) /\ SumSeq(s) = f[g * K]
  BY <1>0, SumIsRun
<1>2. PICK h : Runs(h, t, K) /\ SumSeq(t) = h[K]
  BY SumIsRun
<1> DEFINE N == {d \in Nat : d <= K => h[d] \in Nat /\ f[g * d] = g * h[d]}
<1>3. 0 \in N
  <2>1. g * 0 = 0
    OBVIOUS
  <2> QED BY <1>1, <1>2, <2>1 DEF Runs
<1>4. ASSUME NEW d \in N PROVE d + 1 \in N
  <2> SUFFICES ASSUME d + 1 <= K PROVE h[d + 1] \in Nat /\ f[g * (d + 1)] = g * h[d + 1]
    OBVIOUS
  <2>1. d \in Nat /\ d \in 0..(K - 1) /\ d + 1 \in 1..K /\ (d + 1) - 1 = d /\ d <= K
    OBVIOUS
  <2>2. h[d] \in Nat /\ f[g * d] = g * h[d] /\ t[d + 1] \in Nat
    BY <2>1
  <2>3. h[d + 1] = h[d] + t[d + 1]
    BY <1>2, <2>1 DEF Runs
  <2> DEFINE a == g * d
             v == t[d + 1]
             b == g * h[d]
  <2>4. a \in Nat /\ b \in Nat /\ a + g <= g * K
    BY <2>1, <2>2, ProductGrows
  <2>5. g * (d + 1) = a + g /\ g * h[d + 1] = b + g * v
    <3>1. g * (d + 1) = a + g
      BY <2>1
    <3>2. \A x, y \in Nat : g * (x + y) = g * x + g * y
      OBVIOUS
    <3> QED BY <2>2, <2>3, <3>1, <3>2
  <2> DEFINE M == {j \in Nat : j <= g => f[a + j] = b + j * v}
  <2>6. 0 \in M
    <3>1. a + 0 = a /\ 0 * v = 0 /\ b + 0 = b
      BY <2>2, <2>4
    <3> QED BY <2>2, <3>1
  <2>7. ASSUME NEW j \in M PROVE j + 1 \in M
    <3> SUFFICES ASSUME j + 1 <= g PROVE f[a + (j + 1)] = b + (j + 1) * v
      OBVIOUS
    <3>1. j \in Nat /\ j + 1 \in 1..g /\ f[a + j] = b + j * v
      OBVIOUS
    <3>2. a + (j + 1) \in 1..(g * K) /\ (a + (j + 1)) - 1 = a + j
      <4> HIDE DEF a
      <4> QED BY <1>0, <2>4, <3>1
    <3>3. f[a + (j + 1)] = f[a + j] + s[a + (j + 1)]
      BY <1>1, <3>2 DEF Runs
    <3>4. s[a + (j + 1)] = v
      BY <2>1, <3>1
    <3>5. (j + 1) * v = j * v + v /\ j * v \in Nat
      BY <2>2, <3>1
    <3>6. v \in Nat
      BY <2>2
    <3> HIDE DEF a, b, v, M
    <3> QED BY <2>4, <3>1, <3>3, <3>4, <3>5, <3>6
  <2>8. M = Nat
    <3>1. M \subseteq Nat
      OBVIOUS
    <3> HIDE DEF M
    <3> QED BY <2>6, <2>7, <3>1, AllNumbers, Zenon
  <2>9. f[a + g] = b + g * v
    <3>1. g \in M
      BY <2>8
    <3> QED BY <3>1
  <2> QED BY <2>2, <2>3, <2>5, <2>9
<1>5. N = Nat
  <2>1. N \subseteq Nat
    OBVIOUS
  <2> HIDE DEF N
  <2> QED BY <1>3, <1>4, <2>1, AllNumbers, Zenon
<1>6. K \in N
  BY <1>5
<1> QED BY <1>1, <1>2, <1>6

\* A product of numbers that are not 0 is not 0.
LEMMA NoZero ==
  ASSUME NEW a \in Nat \ {0}, NEW b \in Nat \ {0}, NEW c \in Nat \ {0}
  PROVE  (a * b) * c # 0
<1>1. a * b \in Nat \ {0}
  <2>1. a * 0 + a <= a * b
    BY ProductGrows
  <2> QED BY <2>1
<1> DEFINE d == a * b
<1> HIDE DEF d
<1>2. d * 0 + d <= d * c
  BY <1>1, ProductGrows DEF d
<1>3. d # 0 /\ d \in Nat
  BY <1>1 DEF d
<1>4. d * c # 0
  BY <1>2, <1>3
<1> QED BY <1>4 DEF d

\* The order of factors.
LEMMA Rearranged ==
  ASSUME NEW a \in Nat, NEW b \in Nat, NEW c \in Nat
  PROVE  (a * b) * (a * c) = c * a * a * b
OBVIOUS

-----------------------------------------------------------------------------
(* Places in order. *)

\* What InOrder has of the places up to each number.
OrdersUpTo(f, places, n) ==
  f = [k \in 0..n |-> IF k = 0 THEN <<>> ELSE IF k \in places THEN Append(f[k - 1], k) ELSE f[k - 1]]

\* There is such a function, and InOrder is its last value.
LEMMA OrdersExist ==
  ASSUME NEW places, NEW n \in Nat
  PROVE  \E f : OrdersUpTo(f, places, n) /\ InOrder(places, n) = f[n]
<1> DEFINE After(k, seq) == IF k \in places THEN Append(seq, k) ELSE seq
           Upto(f, m) == f = [k \in 0..m |-> IF k = 0 THEN <<>> ELSE After(k, f[k - 1])]
           N == {m \in Nat : \E f : Upto(f, m)}
<1>1. 0 \in N
  <2>1. Upto([k \in 0..0 |-> <<>>], 0)
    OBVIOUS
  <2> QED BY <2>1
<1>2. ASSUME NEW m \in N PROVE m + 1 \in N
  <2>1. PICK f : Upto(f, m)
    OBVIOUS
  <2> DEFINE h == [k \in 0..(m + 1) |-> IF k <= m THEN f[k] ELSE After(k, f[k - 1])]
  <2>2. ASSUME NEW k \in 0..(m + 1)
        PROVE  h[k] = IF k = 0 THEN <<>> ELSE After(k, h[k - 1])
    <3>1. CASE k = 0
      BY <2>1, <3>1
    <3>2. CASE k # 0
      <4>1. k - 1 \in 0..m /\ k - 1 \in 0..(m + 1) /\ k - 1 <= m
        BY <3>2
      <4>2. h[k - 1] = f[k - 1]
        BY <4>1
      <4>3. h[k] = After(k, f[k - 1])
        <5> HIDE DEF After
        <5>1. CASE k <= m
          BY <2>1, <3>2, <5>1
        <5>2. CASE ~ (k <= m)
          BY <5>2
        <5> QED BY <5>1, <5>2
      <4> HIDE DEF h, After
      <4> QED BY <3>2, <4>2, <4>3
    <3> QED BY <3>1, <3>2
  <2>3. Upto(h, m + 1)
    <3>1. h = [k \in 0..(m + 1) |-> h[k]]
      OBVIOUS
    <3> HIDE DEF h, After
    <3> QED BY <2>2, <3>1
  <2> HIDE DEF h, Upto
  <2> QED BY <2>3
<1>3. \E f : Upto(f, n)
  <2>1. N \subseteq Nat
    OBVIOUS
  <2>2. N = Nat
    <3> HIDE DEF N
    <3> QED BY <1>1, <1>2, <2>1, AllNumbers, Zenon
  <2> HIDE DEF Upto
  <2> QED BY <2>2
<1>4. PICK f : f = CHOOSE h : OrdersUpTo(h, places, n)
  OBVIOUS
<1>5. OrdersUpTo(f, places, n)
  <2>1. \E h : OrdersUpTo(h, places, n)
    BY <1>3 DEF OrdersUpTo
  <2> QED BY <1>4, <2>1, Zenon
<1>6. InOrder(places, n) = f[n]
  BY <1>4, Zenon DEF InOrder, OrdersUpTo
<1> QED BY <1>5, <1>6

\* A sequence has the places up to k, in order.
Enumerates(q, places, k) ==
  /\ q \in Seq(Nat)
  /\ \A j \in 1..Len(q) : q[j] \in places /\ q[j] <= k
  /\ \A x \in places : x <= k => \E j \in 1..Len(q) : q[j] = x
  /\ \A i \in 1..Len(q), j \in 1..Len(q) : i < j => q[i] < q[j]

\* One more place.
LEMMA EnumeratesNext ==
  ASSUME NEW places, places \subseteq Nat \ {0}, NEW k \in Nat, NEW q, Enumerates(q, places, k)
  PROVE  /\ k + 1 \in places => Enumerates(Append(q, k + 1), places, k + 1)
         /\ k + 1 \notin places => Enumerates(q, places, k + 1)
<1>1. /\ q \in Seq(Nat) /\ Len(q) \in Nat
      /\ \A j \in 1..Len(q) : q[j] \in places /\ q[j] <= k /\ q[j] \in Nat
      /\ \A x \in places : x <= k => \E j \in 1..Len(q) : q[j] = x
      /\ \A i \in 1..Len(q), j \in 1..Len(q) : i < j => q[i] < q[j]
  BY DEF Enumerates
<1>2. \A x \in places : x <= k + 1 => x <= k \/ x = k + 1
  OBVIOUS
<1>3. ASSUME k + 1 \notin places PROVE Enumerates(q, places, k + 1)
  <2>1. \A j \in 1..Len(q) : q[j] <= k + 1
    BY <1>1
  <2>2. \A x \in places : x <= k + 1 => x <= k
    BY <1>2, <1>3
  <2> QED BY <1>1, <2>1, <2>2 DEF Enumerates
<1>4. ASSUME k + 1 \in places PROVE Enumerates(Append(q, k + 1), places, k + 1)
  <2> DEFINE r == Append(q, k + 1)
             L == Len(q)
  <2>1. r \in Seq(Nat) /\ Len(r) = L + 1 /\ (\A j \in 1..L : r[j] = q[j]) /\ r[L + 1] = k + 1
    BY <1>1
  <2> HIDE DEF r
  <2>2. \A j \in 1..(L + 1) : j \in 1..L \/ j = L + 1
    BY <1>1
  <2>3. ASSUME NEW j \in 1..Len(r) PROVE r[j] \in places /\ r[j] <= k + 1
    <3>1. CASE j \in 1..L
      <4>1. r[j] = q[j] /\ q[j] \in places /\ q[j] <= k /\ q[j] \in Nat
        BY <1>1, <2>1, <3>1
      <4> QED BY <4>1
    <3>2. CASE j = L + 1
      BY <1>4, <2>1, <3>2
    <3> QED BY <2>1, <2>2, <3>1, <3>2
  <2>4. ASSUME NEW x \in places, x <= k + 1 PROVE \E j \in 1..Len(r) : r[j] = x
    <3>1. CASE x <= k
      <4>1. PICK j \in 1..L : q[j] = x
        BY <1>1, <3>1
      <4>2. j \in 1..Len(r) /\ r[j] = x
        BY <1>1, <2>1, <4>1
      <4> QED BY <4>2
    <3>2. CASE x = k + 1
      BY <1>1, <2>1, <3>2
    <3> QED BY <1>2, <2>4, <3>1, <3>2
  <2>5. ASSUME NEW i \in 1..Len(r), NEW j \in 1..Len(r), i < j PROVE r[i] < r[j]
    <3>1. i \in 1..L /\ r[i] = q[i]
      BY <1>1, <2>1, <2>5, SMTT(30)
    <3>2. CASE j \in 1..L
      BY <1>1, <2>1, <2>5, <3>1, <3>2
    <3>3. CASE j = L + 1
      BY <1>1, <2>1, <3>1, <3>3
    <3> QED BY <2>1, <2>2, <3>2, <3>3
  <2>6. Enumerates(r, places, k + 1)
    BY <2>1, <2>3, <2>4, <2>5 DEF Enumerates
  <2> QED BY <2>6 DEF r
<1> QED BY <1>3, <1>4

\* InOrder has them all.
LEMMA InOrderIs ==
  ASSUME NEW n \in Nat, NEW places, places \subseteq 1..n
  PROVE  Enumerates(InOrder(places, n), places, n)
<1>1. PICK f : OrdersUpTo(f, places, n) /\ InOrder(places, n) = f[n]
  BY OrdersExist
<1>2. /\ f[0] = <<>>
      /\ \A k \in 1..n : f[k] = IF k \in places THEN Append(f[k - 1], k) ELSE f[k - 1]
  <2>1. \A k \in 0..n : f[k] = IF k = 0 THEN <<>> ELSE IF k \in places THEN Append(f[k - 1], k) ELSE f[k - 1]
    BY <1>1 DEF OrdersUpTo
  <2> QED BY <2>1
<1> DEFINE N == {k \in Nat : k <= n => Enumerates(f[k], places, k)}
<1>3. 0 \in N
  <2>1. Len(<<>>) = 0 /\ <<>> \in Seq(Nat) /\ 1..0 = {}
    OBVIOUS
  <2>2. \A x \in places : ~ (x <= 0)
    OBVIOUS
  <2>3. Enumerates(<<>>, places, 0)
    BY <2>1, <2>2 DEF Enumerates
  <2> QED BY <1>2, <2>3
<1>4. ASSUME NEW k \in N PROVE k + 1 \in N
  <2> SUFFICES ASSUME k + 1 <= n PROVE Enumerates(f[k + 1], places, k + 1)
    OBVIOUS
  <2>1. k \in Nat /\ k + 1 \in 1..n /\ (k + 1) - 1 = k /\ Enumerates(f[k], places, k)
    OBVIOUS
  <2>2. f[k + 1] = IF k + 1 \in places THEN Append(f[k], k + 1) ELSE f[k]
    BY <1>2, <2>1
  <2>3. places \subseteq Nat \ {0}
    OBVIOUS
  <2> HIDE DEF N
  <2> QED BY <2>1, <2>2, <2>3, EnumeratesNext
<1>5. N = Nat
  <2>1. N \subseteq Nat
    OBVIOUS
  <2> HIDE DEF N
  <2> QED BY <1>3, <1>4, <2>1, AllNumbers, Zenon
<1> QED BY <1>1, <1>5

\* The place behind one that is there comes next, if it is there.
LEMMA NextPlace ==
  ASSUME NEW n \in Nat, NEW places, NEW q, Enumerates(q, places, n),
         NEW k \in 1..Len(q), q[k] + 1 \in places, q[k] + 1 <= n
  PROVE  k + 1 \in 1..Len(q) /\ q[k + 1] = q[k] + 1
<1>1. Len(q) \in Nat /\ \A j \in 1..Len(q) : q[j] \in Nat
  BY DEF Enumerates
<1>2. PICK j \in 1..Len(q) : q[j] = q[k] + 1
  BY DEF Enumerates
<1>3. ~ (j < k) /\ j # k
  BY <1>1, <1>2, SMTT(30) DEF Enumerates
<1>4. k + 1 \in 1..Len(q) /\ k < k + 1
  BY <1>1, <1>3
<1>5. q[k] < q[k + 1] /\ q[k + 1] \in Nat
  BY <1>1, <1>4 DEF Enumerates
<1>6. k + 1 < j => q[k + 1] < q[j]
  BY <1>4 DEF Enumerates
<1>7. ~ (k + 1 < j)
  BY <1>1, <1>2, <1>5, <1>6
<1>8. j = k + 1
  BY <1>3, <1>4, <1>7
<1> QED BY <1>2, <1>4, <1>8

\* No place comes twice.
LEMMA OncePlaced ==
  ASSUME NEW n \in Nat, NEW places, NEW q, Enumerates(q, places, n),
         NEW k \in 1..Len(q), NEW j \in 1..Len(q), q[k] = q[j]
  PROVE  k = j
<1>1. Len(q) \in Nat /\ q[k] \in Nat
  BY DEF Enumerates
<1>2. ~ (k < j) /\ ~ (j < k)
  BY <1>1 DEF Enumerates
<1> QED BY <1>1, <1>2

\* There is no gap behind x, for m places.
HasRun(places, n, x, m) == \A j \in 0..m : x + j \in places /\ x + j <= n

\* A sequence counts on from its k-th element, for m elements.
CountsOn(q, k, m) == \A j \in 0..m : k + j \in 1..Len(q) /\ q[k + j] = q[k] + j

\* Places without a gap from x on stand one behind the other.
LEMMA RunOfPlaces ==
  ASSUME NEW n \in Nat, NEW places, NEW q, Enumerates(q, places, n),
         NEW k \in 1..Len(q), NEW m \in Nat, HasRun(places, n, q[k], m)
  PROVE  CountsOn(q, k, m)
<1>1. Len(q) \in Nat /\ q[k] \in Nat
  BY DEF Enumerates
<1> DEFINE N == {j \in Nat : j <= m => k + j \in 1..Len(q) /\ q[k + j] = q[k] + j}
<1>2. 0 \in N
  BY <1>1
<1>3. ASSUME NEW j \in N PROVE j + 1 \in N
  <2> SUFFICES ASSUME j + 1 <= m PROVE k + (j + 1) \in 1..Len(q) /\ q[k + (j + 1)] = q[k] + (j + 1)
    OBVIOUS
  <2>1. j \in Nat /\ k + j \in 1..Len(q) /\ q[k + j] = q[k] + j
    OBVIOUS
  <2>2. j + 1 \in 0..m /\ (q[k] + j) + 1 = q[k] + (j + 1) /\ (k + j) + 1 = k + (j + 1)
    BY <1>1, <2>1
  <2>3. q[k + j] + 1 \in places /\ q[k + j] + 1 <= n
    <3>1. q[k] + (j + 1) \in places /\ q[k] + (j + 1) <= n
      BY <2>2 DEF HasRun
    <3> QED BY <2>1, <2>2, <3>1
  <2>4. (k + j) + 1 \in 1..Len(q) /\ q[(k + j) + 1] = q[k + j] + 1
    <3> HIDE DEF N
    <3> QED BY <2>1, <2>3, NextPlace
  <2> HIDE DEF N
  <2> QED BY <2>1, <2>2, <2>4
<1>4. N = Nat
  <2>1. N \subseteq Nat
    OBVIOUS
  <2> HIDE DEF N
  <2> QED BY <1>2, <1>3, <2>1, AllNumbers, Zenon
<1>5. ASSUME NEW j \in 0..m PROVE k + j \in 1..Len(q) /\ q[k + j] = q[k] + j
  <2>1. j \in Nat
    OBVIOUS
  <2>2. j \in N
    <3> HIDE DEF N
    <3> QED BY <1>4, <2>1
  <2> QED BY <2>2
<1> QED BY <1>5 DEF CountsOn

-----------------------------------------------------------------------------
(* Packing. *)

\* The number of a place of a row, in rows of width w.
Cell(w, i, c) == (i - 1) * w + c
RowOf(w, n) == ((n - 1) \div w) + 1
ColumnOf(w, n) == ((n - 1) % w) + 1

\* The place has the number and the number the place.
LEMMA CellIs ==
  ASSUME NEW w \in Nat \ {0}, NEW R \in Nat, NEW i \in 1..R, NEW c \in 1..w
  PROVE  /\ Cell(w, i, c) \in 1..(R * w) /\ RowOf(w, Cell(w, i, c)) = i /\ ColumnOf(w, Cell(w, i, c)) = c
<1> DEFINE p == i - 1
           x == w * p
           y == w * R
<1>1. p \in Nat /\ p < R /\ x \in Nat /\ y \in Nat /\ c - 1 \in 0..(w - 1)
  OBVIOUS
<1>2. x + w <= y
  BY <1>1, ProductGrows
<1>3. (i - 1) * w = x /\ R * w = y
  OBVIOUS
<1>4. (x + (c - 1)) \div w = p /\ (x + (c - 1)) % w = c - 1
  BY <1>1, DivisionIsUnique
<1> HIDE DEF x, y
<1>5. Cell(w, i, c) = x + c
  BY <1>3 DEF Cell
<1>6. (x + c) - 1 = x + (c - 1) /\ x + c \in 1..y
  BY <1>1, <1>2
<1>7. RowOf(w, x + c) = p + 1 /\ ColumnOf(w, x + c) = (c - 1) + 1
  BY <1>4, <1>6 DEF RowOf, ColumnOf
<1> QED BY <1>1, <1>3, <1>5, <1>6, <1>7

LEMMA IsCell ==
  ASSUME NEW w \in Nat \ {0}, NEW R \in Nat, NEW n \in 1..(R * w)
  PROVE  RowOf(w, n) \in 1..R /\ ColumnOf(w, n) \in 1..w /\ n = Cell(w, RowOf(w, n), ColumnOf(w, n))
<1> DEFINE q == (n - 1) \div w
           r == (n - 1) % w
           x == w * q
           y == w * R
<1>1. n - 1 \in Nat /\ R * w = y /\ y \in Nat
  OBVIOUS
<1>2. q \in Nat /\ r \in 0..(w - 1) /\ n - 1 = x + r
  BY <1>1, Division
<1>3. x \in Nat
  BY <1>2
<1>4. q < R
  <2>1. SUFFICES ASSUME R <= q PROVE FALSE
    BY <1>2
  <2>2. y <= x
    <3>1. CASE R = q
      BY <1>1, <3>1
    <3>2. CASE R < q
      <4>1. y + w <= x
        BY <1>2, <3>2, ProductGrows
      <4> HIDE DEF x, y
      <4> QED BY <1>1, <1>3, <4>1
    <3> HIDE DEF q
    <3> QED BY <1>2, <2>1, <3>1, <3>2
  <2> HIDE DEF x, y, q, r
  <2> QED BY <1>1, <1>2, <1>3, <2>2
<1>5. RowOf(w, n) = q + 1 /\ ColumnOf(w, n) = r + 1
  BY DEF RowOf, ColumnOf
<1>6. Cell(w, q + 1, r + 1) = x + (r + 1)
  <2>1. (q + 1) - 1 = q /\ q * w = x
    BY <1>2
  <2> HIDE DEF q, r, x
  <2> QED BY <2>1 DEF Cell
<1> HIDE DEF q, r, x, y
<1> QED BY <1>1, <1>2, <1>3, <1>4, <1>5, <1>6

\* In a batch of R rows of width w the valid places of a row are those behind a[i] up to e[i], two
\* or more, and their positions count from 0.
IsBatch(b, R, w, a, e) ==
  /\ R \in Nat \ {0} /\ w \in Nat \ {0}
  /\ Len(b.input_ids) = R /\ Len(b.input_ids[1]) = w /\ Len(b.attention_mask) = R
  /\ \A i \in 1..R : a[i] \in Nat /\ e[i] \in 0..w /\ a[i] + 2 <= e[i]
  /\ \A i \in 1..R, c \in 1..w : (b.attention_mask[i][c] = 1) <=> (a[i] < c /\ c <= e[i])
  /\ \A i \in 1..R, c \in 1..w : a[i] < c /\ c <= e[i] => b.position_ids[i][c] = c - a[i] - 1

\* The numbers of the valid places.
Valid(b, R, w) == {n \in 1..(R * w) : b.attention_mask[RowOf(w, n)][ColumnOf(w, n)] = 1}

\* Packing takes the valid places in order.
LEMMA IndicesAre ==
  ASSUME NEW b, NEW R, NEW w, NEW a, NEW e, IsBatch(b, R, w, a, e)
  PROVE  /\ Enumerates(Indices(b.attention_mask, w), Valid(b, R, w), R * w)
         /\ \A i \in 1..R, c \in 1..w : Cell(w, i, c) \in Valid(b, R, w) <=> (a[i] < c /\ c <= e[i])
         /\ R * w \in Nat
<1>1. R \in Nat \ {0} /\ w \in Nat \ {0} /\ Len(b.attention_mask) = R /\ R * w \in Nat
  BY DEF IsBatch
<1>2. Indices(b.attention_mask, w) = InOrder(Valid(b, R, w), R * w)
  BY <1>1 DEF Indices, Valid, RowOf, ColumnOf
<1>3. Valid(b, R, w) \subseteq 1..(R * w)
  BY DEF Valid
<1>4. ASSUME NEW i \in 1..R, NEW c \in 1..w
      PROVE  Cell(w, i, c) \in Valid(b, R, w) <=> (a[i] < c /\ c <= e[i])
  <2>1. Cell(w, i, c) \in 1..(R * w) /\ RowOf(w, Cell(w, i, c)) = i /\ ColumnOf(w, Cell(w, i, c)) = c
    <3>1. R \in Nat /\ w \in Nat \ {0}
      BY <1>1
    <3> QED BY <3>1, CellIs, Zenon
  <2>2. (b.attention_mask[i][c] = 1) <=> (a[i] < c /\ c <= e[i])
    BY DEF IsBatch
  <2> QED BY <2>1, <2>2 DEF Valid
<1> QED BY <1>1, <1>2, <1>3, <1>4, InOrderIs

\* The valid places of row i stand from k on.
Stands(w, a, e, q, i, k) ==
  /\ k \in 1..Len(q)
  /\ \A j \in 0..(e[i] - a[i] - 1) : k + j \in 1..Len(q) /\ q[k + j] = Cell(w, i, a[i] + 1 + j)

\* A row's valid places stand one behind the other.
LEMMA RowStands ==
  ASSUME NEW b, NEW R, NEW w, NEW a, NEW e, IsBatch(b, R, w, a, e),
         NEW q, q = Indices(b.attention_mask, w), NEW i \in 1..R
  PROVE  \E k \in 1..Len(q) : Stands(w, a, e, q, i, k)
<1>1. /\ R \in Nat \ {0} /\ w \in Nat \ {0} /\ a[i] \in Nat /\ e[i] \in 0..w /\ a[i] + 2 <= e[i]
  BY DEF IsBatch
<1>2. Enumerates(q, Valid(b, R, w), R * w) /\ R * w \in Nat
  BY IndicesAre
<1> DEFINE m == e[i] - a[i] - 1
           first == Cell(w, i, a[i] + 1)
<1>3. m \in Nat /\ \A j \in 0..m : a[i] + 1 + j \in 1..w /\ a[i] < a[i] + 1 + j /\ a[i] + 1 + j <= e[i]
  BY <1>1
<1>4. \A j \in 0..m : first + j = Cell(w, i, a[i] + 1 + j)
  <2>1. (i - 1) * w \in Nat
    BY <1>1
  <2> QED BY <1>1, <2>1 DEF Cell
<1> HIDE DEF m, first
<1>5. ASSUME NEW j \in 0..m PROVE first + j \in Valid(b, R, w) /\ first + j <= R * w
  <2>1. Cell(w, i, a[i] + 1 + j) \in Valid(b, R, w)
    BY <1>3, IndicesAre
  <2>2. Valid(b, R, w) \subseteq 1..(R * w)
    BY DEF Valid
  <2> QED BY <1>2, <1>4, <2>1, <2>2
<1>6. first \in Valid(b, R, w) /\ first <= R * w
  <2>1. 0 \in 0..m /\ first + 0 = Cell(w, i, a[i] + 1 + 0)
    BY <1>3, <1>4
  <2>2. first = Cell(w, i, a[i] + 1) /\ a[i] + 1 + 0 = a[i] + 1
    BY <1>1 DEF first
  <2> QED BY <1>5, <2>1, <2>2
<1>7. PICK k \in 1..Len(q) : q[k] = first
  BY <1>2, <1>6 DEF Enumerates
<1>8. CountsOn(q, k, m)
  <2> DEFINE n == R * w
             places == Valid(b, R, w)
  <2>1. n \in Nat /\ Enumerates(q, places, n)
    BY <1>2
  <2>2. HasRun(places, n, q[k], m)
    BY <1>5, <1>7 DEF HasRun
  <2> HIDE DEF n, places
  <2> QED BY <1>3, <2>1, <2>2, RunOfPlaces
<1>9. \A j \in 0..m : k + j \in 1..Len(q) /\ q[k + j] = Cell(w, i, a[i] + 1 + j)
  BY <1>4, <1>7, <1>8 DEF CountsOn
<1> QED BY <1>9 DEF m, Stands

\* The positions of what is packed.
PositionsAre(b, w, q, pos) ==
  /\ Len(pos) \in Nat /\ Len(q) <= Len(pos)
  /\ \A k \in 1..Len(q) : pos[k] = b.position_ids[RowOf(w, q[k])][ColumnOf(w, q[k])]

\* Positions count from 0 in every row.
LEMMA PositionIs ==
  ASSUME NEW b, NEW R, NEW w, NEW a, NEW e, IsBatch(b, R, w, a, e),
         NEW q, q = Indices(b.attention_mask, w), NEW pos, PositionsAre(b, w, q, pos),
         NEW i \in 1..R, NEW c \in 1..w, a[i] < c, c <= e[i],
         NEW k \in 1..Len(q), q[k] = Cell(w, i, c)
  PROVE  pos[k] = c - a[i] - 1
<1>1. R \in Nat /\ w \in Nat \ {0}
  BY DEF IsBatch
<1>2. RowOf(w, q[k]) = i /\ ColumnOf(w, q[k]) = c
  <2>1. RowOf(w, Cell(w, i, c)) = i /\ ColumnOf(w, Cell(w, i, c)) = c
    BY <1>1, CellIs, SMTT(30)
  <2> QED BY <2>1
<1>3. b.position_ids[i][c] = c - a[i] - 1
  BY DEF IsBatch
<1> QED BY <1>2, <1>3 DEF PositionsAre

\* A sequence begins at place k, and its positions count up to j.
CountsFrom(pos, k, j) == FirstOf(pos, k + j) = k /\ \A l \in 0..j : pos[k + l] = l

\* Attention finds where a row begins, as all rows have two places or more.
LEMMA FirstIs ==
  ASSUME NEW b, NEW R, NEW w, NEW a, NEW e, IsBatch(b, R, w, a, e),
         NEW q, q = Indices(b.attention_mask, w), NEW pos, PositionsAre(b, w, q, pos),
         NEW i \in 1..R, NEW k, Stands(w, a, e, q, i, k), NEW j \in 0..(e[i] - a[i] - 1)
  PROVE  CountsFrom(pos, k, j)
<1>1. R \in Nat /\ w \in Nat \ {0} /\ a[i] \in Nat /\ e[i] \in 0..w /\ a[i] + 2 <= e[i]
  BY DEF IsBatch
<1>2. Len(q) \in Nat /\ Len(pos) \in Nat /\ Len(q) <= Len(pos) /\ k \in 1..Len(q) /\ k + j \in 1..Len(q)
  BY IndicesAre DEF PositionsAre, Enumerates, Stands
<1>3. ASSUME NEW l \in 0..(e[i] - a[i] - 1) PROVE pos[k + l] = l
  <2> DEFINE c == a[i] + 1 + l
  <2>1. c \in 1..w /\ a[i] < c /\ c <= e[i] /\ c - a[i] - 1 = l
    BY <1>1
  <2>2. k + l \in 1..Len(q) /\ q[k + l] = Cell(w, i, c)
    BY DEF Stands
  <2> HIDE DEF c
  <2>3. pos[k + l] = c - a[i] - 1
    BY <2>1, <2>2, PositionIs
  <2> QED BY <2>1, <2>3
<1>4. \A l \in 0..j : pos[k + l] = l
  <2>1. \A l \in 0..j : l \in 0..(e[i] - a[i] - 1)
    BY <1>1
  <2> QED BY <1>3, <2>1
<1>5. pos[k] = 0
  <2>1. 0 \in 0..j /\ k + 0 = k
    BY <1>2
  <2> QED BY <1>4, <2>1
<1>6. CASE \A m \in 2..Len(pos) : pos[m] >= pos[m - 1]
  <2>1. FirstOf(pos, k + j) = 1
    BY <1>6 DEF FirstOf
  <2>2. SUFFICES ASSUME k # 1 PROVE FALSE
    BY <1>4, <2>1 DEF CountsFrom
  <2> DEFINE z == k - 1
  <2>3. z \in 1..Len(q) /\ z + 1 = k /\ k \in 2..Len(pos)
    BY <1>2, <2>2
  <2>4. pos[z] <= 0
    <3>1. pos[k] >= pos[k - 1]
      BY <1>6, <2>3
    <3> QED BY <1>5, <3>1
  <2> HIDE DEF z
  <2> DEFINE places == Valid(b, R, w)
             N == R * w
  <2>5. Enumerates(q, places, N) /\ N \in Nat /\ places \subseteq 1..N
    BY IndicesAre DEF Valid
  <2>6. q[z] \in places /\ q[z] \in 1..N
    BY <2>3, <2>5 DEF Enumerates
  <2> DEFINE y == RowOf(w, q[z])
             c == ColumnOf(w, q[z])
  <2>7. y \in 1..R /\ c \in 1..w /\ q[z] = Cell(w, y, c)
    BY <1>1, <2>6, IsCell, Zenon
  <2> HIDE DEF y, c
  <2>8. a[y] < c /\ c <= e[y]
    BY <2>6, <2>7, IndicesAre
  <2>9. a[y] \in Nat /\ e[y] \in 0..w /\ a[y] + 2 <= e[y]
    BY <2>7 DEF IsBatch
  <2>10. c = a[y] + 1
    <3>1. pos[z] = c - a[y] - 1
      BY <2>3, <2>7, <2>8, PositionIs
    <3> QED BY <2>4, <2>7, <2>8, <2>9, <3>1
  <2>11. c + 1 \in 1..w /\ a[y] < c + 1 /\ c + 1 <= e[y]
    BY <1>1, <2>7, <2>9, <2>10
  <2>12. Cell(w, y, c + 1) = q[z] + 1
    <3>1. (y - 1) * w \in Nat
      BY <1>1, <2>7
    <3> QED BY <2>7, <3>1 DEF Cell
  <2>13. q[z] + 1 \in places /\ q[z] + 1 <= N
    <3>1. Cell(w, y, c + 1) \in places
      BY <2>7, <2>11, IndicesAre
    <3> HIDE DEF places, N
    <3>2. Cell(w, y, c + 1) \in 1..N
      BY <2>5, <3>1
    <3>3. q[z] + 1 \in places /\ q[z] + 1 \in 1..N
      BY <2>12, <3>1, <3>2
    <3> QED BY <2>5, <3>3
  <2> HIDE DEF places, N
  <2>14. q[k] = Cell(w, y, c + 1)
    <3>1. q[z + 1] = q[z] + 1
      BY <2>3, <2>5, <2>13, NextPlace, SMTT(30)
    <3> QED BY <2>3, <2>12, <3>1
  <2>15. pos[k] = (c + 1) - a[y] - 1
    BY <1>2, <2>7, <2>11, <2>14, PositionIs
  <2> QED BY <1>5, <2>9, <2>10, <2>15
<1>7. CASE ~ \A m \in 2..Len(pos) : pos[m] >= pos[m - 1]
  <2> DEFINE S == {m \in 1..(k + j) : pos[m] = 0} \cup {1}
  <2>1. FirstOf(pos, k + j) = Max(S)
    BY <1>7 DEF FirstOf
  <2>2. k \in S
    BY <1>2, <1>5
  <2>3. ASSUME NEW m \in S PROVE m <= k
    <3>1. CASE m = 1
      BY <1>2, <3>1
    <3>2. CASE m \in 1..(k + j) /\ pos[m] = 0
      <4>1. SUFFICES ASSUME m > k PROVE FALSE
        BY <1>2, <3>2
      <4>2. m - k \in 0..j /\ k + (m - k) = m /\ m - k # 0
        BY <1>2, <3>2, <4>1
      <4>3. pos[k + (m - k)] = m - k
        BY <1>4, <4>2
      <4> QED BY <3>2, <4>2, <4>3
    <3> QED BY <2>3, <3>1, <3>2
  <2>4. S \subseteq Nat
    BY <1>2
  <2> HIDE DEF S
  <2>5. \A m \in S : k >= m
    BY <1>2, <2>3, <2>4
  <2>6. \A x \in S : (\A y \in S : x >= y) => x = k
    BY <1>2, <2>2, <2>4, <2>5
  <2>7. Max(S) = k
    BY <2>2, <2>5, <2>6 DEF Max
  <2> QED BY <1>4, <2>1, <2>7 DEF CountsFrom
<1> QED BY <1>6, <1>7 DEF CountsFrom

-----------------------------------------------------------------------------
(* Sequences by their elements. *)

\* A sequence of length n.
IsRow(s, n) == n \in Nat /\ s = [k \in 1..n |-> s[k]]

\* It is a sequence, and making it anew of its elements gives itself.
LEMMA RowIs ==
  ASSUME NEW n, NEW s, IsRow(s, n)
  PROVE  /\ Len(s) = n /\ DOMAIN s = 1..n /\ n \in Nat /\ Each(s) = s
         /\ s \in Seq({s[k] : k \in 1..n})
<1> DEFINE X == {s[k] : k \in 1..n}
<1>1. n \in Nat /\ s = [k \in 1..n |-> s[k]] /\ \A k \in 1..n : s[k] \in X
  BY DEF IsRow
<1> HIDE DEF X
<1>2. s \in Seq(X)
  BY <1>1
<1>3. Len(s) = n /\ DOMAIN s = 1..n
  BY <1>1, <1>2
<1> QED BY <1>1, <1>2, <1>3 DEF Each, X

\* A sequence in a set is one.
LEMMA IsARow ==
  ASSUME NEW X, NEW s \in Seq(X)
  PROVE  IsRow(s, Len(s))
BY DEF IsRow

\* Two of them are the same if their elements are.
LEMMA SameRow ==
  ASSUME NEW n, NEW s, NEW t, IsRow(s, n), IsRow(t, n), \A k \in 1..n : s[k] = t[k]
  PROVE  s = t
BY DEF IsRow

\* A slice.
LEMMA SliceIs ==
  ASSUME NEW n \in Nat \ {0}, NEW m \in Nat \ {0}, NEW s, IsRow(s, n * m), NEW r \in 1..n
  PROVE  /\ IsRow(SliceOf(s, n, r - 1), m)
         /\ \A p \in 1..m : SliceOf(s, n, r - 1)[p] = s[Cell(m, r, p)] /\ Cell(m, r, p) \in 1..(n * m)
<1> DEFINE N == n * m
           i == (r - 1) * m
           j == ((r - 1) + 1) * m
           X == {s[k] : k \in 1..N}
           u == SubSeq(s, i + 1, j)
<1>1. N \in Nat /\ s \in Seq(X) /\ Len(s) = N
  BY RowIs
<1>2. N \div n = m
  <2>1. (n * m + 0) \div n = m
    BY DivisionIsUnique
  <2> QED BY <2>1
<1>3. i \in Nat /\ j = i + m
  OBVIOUS
<1>4. \A p \in 1..m : Cell(m, r, p) = i + p /\ Cell(m, r, p) \in 1..N
  <2>1. ASSUME NEW p \in 1..m PROVE Cell(m, r, p) \in 1..N
    <3>1. n \in Nat
      OBVIOUS
    <3> QED BY <3>1, CellIs, Zenon
  <2> QED BY <2>1 DEF Cell
<1>5. SliceOf(s, n, r - 1) = u
  BY <1>1, <1>2 DEF SliceOf
<1> HIDE DEF N, i, X
<1>6. j \in 0..N /\ i + 1 \in 1..(N + 1)
  <2>1. i + m \in 1..N
    <3>1. m \in 1..m
      OBVIOUS
    <3>2. Cell(m, r, m) = i + m /\ Cell(m, r, m) \in 1..N
      BY <1>4, <3>1
    <3> QED BY <3>2
  <2> HIDE DEF j
  <2> QED BY <1>1, <1>3, <2>1
<1> HIDE DEF j
<1>7. u \in Seq(X) /\ Len(u) = m /\ \A p \in 1..m : u[p] = s[i + p]
  <2>1. u \in Seq(X) /\ Len(u) = (j - (i + 1)) + 1
    BY <1>1, <1>3, <1>6
  <2>2. \A p \in 1..((j - (i + 1)) + 1) : u[p] = s[(i + 1) + p - 1]
    BY <1>1, <1>3, <1>6
  <2>3. (j - (i + 1)) + 1 = m /\ \A p \in 1..m : (i + 1) + p - 1 = i + p
    BY <1>3
  <2> HIDE DEF u
  <2> QED BY <2>1, <2>2, <2>3
<1>8. IsRow(u, m)
  <2> HIDE DEF u
  <2> QED BY <1>7 DEF IsRow
<1> HIDE DEF u
<1> QED BY <1>4, <1>5, <1>7, <1>8 DEF N

\* Rows of one length, one behind the other.
LEMMA FlatIs ==
  ASSUME NEW n \in Nat \ {0}, NEW m \in Nat \ {0}, NEW x, IsRow(x, n), \A q \in 1..n : IsRow(x[q], m)
  PROVE  /\ IsRow(FlattenSeq(x), n * m)
         /\ \A q \in 1..n, p \in 1..m : FlattenSeq(x)[Cell(m, q, p)] = x[q][p]
<1> DEFINE X == UNION {{x[q][p] : p \in 1..m} : q \in 1..n}
           f == FlattenSeq(x)
<1>1. ASSUME NEW q \in 1..n PROVE x[q] \in Seq(X) /\ Len(x[q]) = m
  <2>1. x[q] = [p \in 1..m |-> x[q][p]] /\ \A p \in 1..m : x[q][p] \in X
    BY DEF IsRow
  <2> HIDE DEF X
  <2> QED BY <2>1
<1> HIDE DEF X
<1>2. EvenPieces(X, x, n, m)
  BY <1>1 DEF EvenPieces, Pieces
<1>3. f = Joined(x, n)
  BY DEF IsRow, Joined
<1> HIDE DEF f
<1>4. f \in Seq(X) /\ Len(f) = m * n /\ \A q \in 1..n : Part(f, m * (q - 1), m * q) = x[q]
  BY <1>2, <1>3, PiecesComeBack
<1>5. IsRow(f, n * m)
  <2>1. m * n = n * m
    OBVIOUS
  <2> QED BY <1>4, <2>1, IsARow
<1>6. ASSUME NEW q \in 1..n, NEW p \in 1..m PROVE f[Cell(m, q, p)] = x[q][p]
  <2> DEFINE i == m * (q - 1)
             j == m * q
             N == m * n
             u == SubSeq(f, i + 1, j)
  <2>1. i \in Nat /\ j = i + m /\ N \in Nat
    OBVIOUS
  <2>2. Cell(m, q, p) = i + p
    BY DEF Cell
  <2>3. j <= N
    <3>1. q = n \/ q < n
      OBVIOUS
    <3>2. q < n => j + m <= N
      BY ProductGrows
    <3> HIDE DEF j, N
    <3> QED BY <2>1, <3>1, <3>2 DEF j, N
  <2>4. u = x[q]
    BY <1>4 DEF Part
  <2> HIDE DEF i, j, N
  <2>5. Len(f) = N
    BY <1>4 DEF N
  <2>6. u[p] = f[(i + 1) + p - 1]
    <3>1. i + 1 \in 1..(N + 1) /\ j \in 0..N /\ p \in 1..((j - (i + 1)) + 1)
      BY <2>1, <2>3
    <3> QED BY <1>4, <2>5, <3>1, SMTT(30)
  <2>7. (i + 1) + p - 1 = i + p
    BY <2>1
  <2> HIDE DEF u
  <2> QED BY <2>2, <2>4, <2>6, <2>7
<1> QED BY <1>5, <1>6 DEF f

\* n rows of length m.
IsMatrix(x, n, m) == IsRow(x, n) /\ \A k \in 1..n : IsRow(x[k], m)

\* A matrix is joined row by row.
IsJoined(f, x, n, m) == IsRow(f, n * m) /\ \A q \in 1..n, p \in 1..m : f[Cell(m, q, p)] = x[q][p]

\* Joining its rows gives such a row.
LEMMA MatrixIsJoined ==
  ASSUME NEW n \in Nat \ {0}, NEW m \in Nat \ {0}, NEW x, IsMatrix(x, n, m)
  PROVE  IsJoined(FlattenSeq(x), x, n, m)
BY FlatIs DEF IsMatrix, IsJoined

\* The same, of the matrix itself.
LEMMA MatrixIsFlat ==
  ASSUME NEW n \in Nat \ {0}, NEW m \in Nat \ {0}, NEW x, IsMatrix(x, n, m)
  PROVE  /\ IsRow(FlattenSeq(x), n * m)
         /\ \A q \in 1..n, p \in 1..m : FlattenSeq(x)[Cell(m, q, p)] = x[q][p]
BY FlatIs DEF IsMatrix

-----------------------------------------------------------------------------
(* Sequence parallel attention. *)

\* A sequence begins at one of its places.
LEMMA FirstInside ==
  ASSUME NEW pos, NEW k \in Nat \ {0}
  PROVE  FirstOf(pos, k) \in 1..k
<1> DEFINE S == {j \in 1..k : pos[j] = 0} \cup {1}
<1>1. S \subseteq 1..k /\ S # {}
  OBVIOUS
<1>2. FirstOf(pos, k) = 1 \/ FirstOf(pos, k) = Max(S)
  BY DEF FirstOf
<1> HIDE DEF S
<1>3. Max(S) \in S
  BY <1>1, MaxIsIn
<1>4. 1 \in 1..k
  OBVIOUS
<1> QED BY <1>1, <1>2, <1>3, <1>4, Zenon

\* The tokens that head h attends to at place k, and what the model computes there.
Attended(t, pos, k, h) ==
  [j \in 1..(k - FirstOf(pos, k) + 1) |->
    <<<<t[FirstOf(pos, k) + j - 1], h>>, pos[FirstOf(pos, k) + j - 1]>>]
StateAt(t, pos, heads, k) == [h \in 1..heads |-> Attended(t, pos, k, h)]

\* m places of heads that only know their token.
IsHidden(x, t, m, heads) ==
  /\ IsRow(x, m) /\ \A k \in 1..m : IsRow(x[k], heads)
  /\ \A k \in 1..m, h \in 1..heads : x[k][h] = <<t[k], h>>

\* The hidden states before attention.
LEMMA HiddenIs ==
  ASSUME NEW m, NEW t, IsRow(t, m), NEW heads \in Nat
  PROVE  IsHidden(Hidden(t, heads), t, m, heads)
<1> DEFINE v(k) == [h \in 1..heads |-> <<t[k], h>>]
           x == [k \in 1..m |-> v(k)]
<1>1. m \in Nat /\ DOMAIN t = 1..m
  BY RowIs
<1>2. \A k \in 1..m : IsRow(v(k), heads) /\ Each(v(k)) = v(k)
  <2> SUFFICES ASSUME NEW k \in 1..m PROVE IsRow(v(k), heads) /\ Each(v(k)) = v(k)
    OBVIOUS
  <2> DEFINE u == v(k)
  <2>1. IsRow(u, heads)
    BY DEF IsRow
  <2> HIDE DEF u
  <2>2. Each(u) = u
    BY <2>1, RowIs
  <2> QED BY <2>1, <2>2 DEF u
<1>3. IsRow(x, m)
  BY <1>1 DEF IsRow
<1>4. Hidden(t, heads) = Each(x)
  BY <1>1, <1>2 DEF Hidden
<1>5. Each(x) = x
  <2> HIDE DEF x
  <2> QED BY <1>3, RowIs
<1>6. ASSUME NEW k \in 1..m
      PROVE  IsRow(x[k], heads) /\ \A h \in 1..heads : x[k][h] = <<t[k], h>>
  BY <1>2
<1> HIDE DEF x
<1> QED BY <1>3, <1>4, <1>5, <1>6 DEF IsHidden

\* What head h attends to at place k.
AttendsTo(x, pos, k, h) ==
  [j \in 1..(k - FirstOf(pos, k) + 1) |->
    <<x[FirstOf(pos, k) + j - 1][h], pos[FirstOf(pos, k) + j - 1]>>]

\* Every head of the N places has attended.
IsAttention(y, x, N, H, pos) ==
  IsMatrix(y, N, H) /\ \A k \in 1..N, h \in 1..H : y[k][h] = AttendsTo(x, pos, k, h)

\* Attention over whole sequences.
LEMMA AttendIs ==
  ASSUME NEW N, NEW H \in Nat, NEW x, IsMatrix(x, N, H), NEW pos
  PROVE  IsAttention(Attend(x, pos), x, N, H, pos)
<1> DEFINE w(k, h) == [j \in 1..(k - FirstOf(pos, k) + 1) |->
                        <<x[FirstOf(pos, k) + j - 1][h], pos[FirstOf(pos, k) + j - 1]>>]
           v(k) == [h \in 1..H |-> w(k, h)]
           y == [k \in 1..N |-> v(k)]
<1>1. N \in Nat /\ DOMAIN x = 1..N /\ \A k \in 1..N : DOMAIN x[k] = 1..H
  BY RowIs DEF IsMatrix
<1>2. ASSUME NEW k \in 1..N, NEW h PROVE Each(w(k, h)) = w(k, h)
  <2> DEFINE n == k - FirstOf(pos, k) + 1
             u == w(k, h)
  <2>1. FirstOf(pos, k) \in 1..k
    BY <1>1, FirstInside
  <2>2. n \in Nat
    BY <1>1, <2>1
  <2> HIDE DEF n
  <2>3. IsRow(u, n)
    BY <2>2 DEF IsRow, n
  <2> HIDE DEF u
  <2>4. Each(u) = u
    BY <2>3, RowIs
  <2> QED BY <2>4 DEF u
<1> HIDE DEF w
<1>3. ASSUME NEW k \in 1..N PROVE IsRow(v(k), H) /\ Each(v(k)) = v(k)
  <2> DEFINE u == v(k)
  <2>1. IsRow(u, H)
    BY DEF IsRow
  <2> HIDE DEF u
  <2>2. Each(u) = u
    BY <2>1, RowIs
  <2> QED BY <2>1, <2>2 DEF u
<1>4. IsRow(y, N)
  BY <1>1 DEF IsRow
<1>5. Attend(x, pos) = Each([k \in 1..N |-> Each([h \in 1..H |-> Each(w(k, h))])])
  BY <1>1 DEF Attend, w
<1>6. Attend(x, pos) = Each(y)
  <2>1. \A k \in 1..N : [h \in 1..H |-> Each(w(k, h))] = v(k)
    BY <1>2
  <2>2. [k \in 1..N |-> Each([h \in 1..H |-> Each(w(k, h))])] = y
    BY <1>3, <2>1
  <2> QED BY <1>5, <2>2
<1>7. Each(y) = y
  <2> HIDE DEF y
  <2> QED BY <1>4, RowIs
<1>8. ASSUME NEW k \in 1..N
      PROVE  /\ IsRow(y[k], H)
             /\ \A h \in 1..H : y[k][h] = w(k, h)
  BY <1>3
<1> HIDE DEF y
<1> QED BY <1>4, <1>6, <1>7, <1>8 DEF w, AttendsTo, IsMatrix, IsAttention

\* The tokens with their head, as attention over the hidden states finds them.
LEMMA AttendsToTokens ==
  ASSUME NEW pos, NEW k \in Nat \ {0}, NEW x, NEW t, NEW h, NEW g,
         \A j \in 1..k : x[j][h] = <<t[j], g>>
  PROVE  AttendsTo(x, pos, k, h) = Attended(t, pos, k, g)
<1>1. FirstOf(pos, k) \in 1..k
  BY FirstInside
<1>2. \A j \in 1..(k - FirstOf(pos, k) + 1) : FirstOf(pos, k) + j - 1 \in 1..k
  BY <1>1
<1> QED BY <1>2 DEF AttendsTo, Attended

\* n ranks have rows of m places of H heads.
Spread(x, n, m, H) ==
  /\ IsRow(x, n) /\ \A r \in 1..n : IsRow(x[r], m)
  /\ \A r \in 1..n, p \in 1..m : IsRow(x[r][p], H)

\* All places, with a slice of their heads.
SeqGathered(y, x, n, m, H) ==
  /\ Spread(y, n, n * m, H)
  /\ \A r \in 1..n, q \in 1..n, p \in 1..m, h \in 1..H : y[r][Cell(m, q, p)][h] = x[q][p][Cell(H, r, h)]

\* A slice of the places, with all heads.
HeadsGathered(y, x, n, m, H) ==
  /\ Spread(y, n, m, n * H)
  /\ \A r \in 1..n, q \in 1..n, p \in 1..m, h \in 1..H : y[r][p][Cell(H, q, h)] = x[q][Cell(m, r, p)][h]

\* From slices of the places to slices of the heads.
LEMMA GatherSeqIs ==
  ASSUME NEW n \in Nat \ {0}, NEW m \in Nat \ {0}, NEW H \in Nat \ {0}, NEW x, Spread(x, n, m, n * H)
  PROVE  SeqGathered(GatherSeqScatterHeads(x), x, n, m, H)
<1> DEFINE K == n * H
           u(r, q) == [p \in 1..m |-> SliceOf(x[q][p], n, r - 1)]
           c(r) == [q \in 1..n |-> u(r, q)]
           f(r) == FlattenSeq(c(r))
           y == [r \in 1..n |-> f(r)]
<1>1. /\ IsRow(x, n) /\ \A q \in 1..n : IsRow(x[q], m) /\ DOMAIN x[q] = 1..m
      /\ \A q \in 1..n, p \in 1..m : IsRow(x[q][p], K)
      /\ Len(x) = n
  BY RowIs DEF Spread
<1>2. ASSUME NEW r \in 1..n, NEW q \in 1..n, NEW p \in 1..m
      PROVE  /\ IsRow(SliceOf(x[q][p], n, r - 1), H)
             /\ \A h \in 1..H : SliceOf(x[q][p], n, r - 1)[h] = x[q][p][Cell(H, r, h)]
  BY <1>1, SliceIs
<1> HIDE DEF K
<1>3. ASSUME NEW r \in 1..n, NEW q \in 1..n
      PROVE  IsRow(u(r, q), m) /\ Split(x[q], n, "heads", r - 1) = u(r, q)
  <2> DEFINE v == u(r, q)
  <2>1. IsRow(v, m)
    BY DEF IsRow
  <2>2. Split(x[q], n, "heads", r - 1) = Each(v)
    BY <1>1 DEF Split
  <2> HIDE DEF v
  <2>3. Each(v) = v
    BY <2>1, RowIs
  <2> QED BY <2>1, <2>2, <2>3 DEF v
<1>4. ASSUME NEW r \in 1..n
      PROVE  /\ IsRow(c(r), n) /\ \A q \in 1..n : IsRow(c(r)[q], m)
             /\ IsRow(f(r), n * m)
             /\ \A q \in 1..n, p \in 1..m : f(r)[Cell(m, q, p)] = u(r, q)[p]
  <2> DEFINE v == c(r)
  <2>1. IsRow(v, n) /\ \A q \in 1..n : v[q] = u(r, q)
    BY DEF IsRow
  <2>2. \A q \in 1..n : IsRow(v[q], m)
    BY <1>3, <2>1
  <2> HIDE DEF v, u
  <2>3. /\ IsRow(FlattenSeq(v), n * m)
        /\ \A q \in 1..n, p \in 1..m : FlattenSeq(v)[Cell(m, q, p)] = v[q][p]
    <3>1. IsMatrix(v, n, m)
      BY <2>1, <2>2 DEF IsMatrix
    <3>2. IsJoined(FlattenSeq(v), v, n, m)
      BY <3>1, MatrixIsJoined, Zenon
    <3> QED BY <3>2 DEF IsJoined
  <2> QED BY <2>1, <2>2, <2>3 DEF v
<1>5. IsRow(y, n) /\ \A r \in 1..n : y[r] = f(r)
  BY DEF IsRow
<1>6. GatherSeqScatterHeads(x) = y
  <2>1. \A r \in 1..n : Cat([q \in 1..n |-> Split(x[q], n, "heads", r - 1)], "seq") = f(r)
    <3> SUFFICES ASSUME NEW r \in 1..n
                 PROVE  Cat([q \in 1..n |-> Split(x[q], n, "heads", r - 1)], "seq") = f(r)
      OBVIOUS
    <3>1. [q \in 1..n |-> Split(x[q], n, "heads", r - 1)] = c(r)
      BY <1>3
    <3> QED BY <3>1 DEF Cat
  <2>2. GatherSeqScatterHeads(x) = Each([r \in 1..n |-> Cat([q \in 1..n |-> Split(x[q], n, "heads", r - 1)], "seq")])
    BY <1>1 DEF GatherSeqScatterHeads, AllToAll
  <2>3. GatherSeqScatterHeads(x) = Each(y)
    BY <2>1, <2>2
  <2> HIDE DEF y
  <2> QED BY <1>5, <2>3, RowIs
<1>7. ASSUME NEW r \in 1..n, NEW k \in 1..(n * m) PROVE IsRow(y[r][k], H)
  <2> DEFINE q == RowOf(m, k)
             p == ColumnOf(m, k)
  <2>1. n \in Nat
    OBVIOUS
  <2>2. q \in 1..n /\ p \in 1..m /\ k = Cell(m, q, p)
    BY <2>1, IsCell, Zenon
  <2> HIDE DEF q, p, y, f, u
  <2>3. y[r][k] = u(r, q)[p]
    <3>1. f(r)[Cell(m, q, p)] = u(r, q)[p]
      BY <1>4, <2>2
    <3>2. y[r] = f(r)
      BY <1>5
    <3> QED BY <2>2, <3>1, <3>2
  <2>4. u(r, q)[p] = SliceOf(x[q][p], n, r - 1)
    BY <2>2 DEF u
  <2> QED BY <1>2, <2>2, <2>3, <2>4
<1>8. ASSUME NEW r \in 1..n, NEW q \in 1..n, NEW p \in 1..m, NEW h \in 1..H
      PROVE  y[r][Cell(m, q, p)][h] = x[q][p][Cell(H, r, h)]
  <2>1. u(r, q)[p] = SliceOf(x[q][p], n, r - 1)
    OBVIOUS
  <2> HIDE DEF y, f, u
  <2>2. y[r][Cell(m, q, p)] = SliceOf(x[q][p], n, r - 1)
    <3>1. f(r)[Cell(m, q, p)] = u(r, q)[p]
      BY <1>4
    <3>2. y[r] = f(r)
      BY <1>5
    <3> QED BY <2>1, <3>1, <3>2
  <2> QED BY <1>2, <2>2
<1>9. \A r \in 1..n : IsRow(y[r], n * m)
  <2> HIDE DEF y, f, u, c
  <2> QED BY <1>4, <1>5
<1> HIDE DEF y
<1> QED BY <1>5, <1>6, <1>7, <1>8, <1>9 DEF Spread, SeqGathered

\* What is missing to a multiple of n.
LEMMA PadSizeIs ==
  ASSUME NEW n \in Nat \ {0}, NEW k \in Nat
  PROVE  /\ PadSize(k, n) \in Nat
         /\ \E m \in Nat : k + PadSize(k, n) = n * m
         /\ \A m \in Nat : k = n * m => PadSize(k, n) = 0
<1> DEFINE q == k \div n
           r == k % n
<1>1. q \in Nat /\ r \in 0..(n - 1) /\ k = n * q + r
  BY Division
<1>2. PadSize(k, n) = (n - r) % n
  BY DEF PadSize
<1>3. r = 0 => PadSize(k, n) = 0
  <2>1. (n * 1 + 0) % n = 0
    BY DivisionIsUnique
  <2>2. n - 0 = n * 1 + 0
    OBVIOUS
  <2> HIDE DEF r
  <2> QED BY <1>2, <2>1, <2>2
<1>4. r # 0 => PadSize(k, n) = n - r
  <2> HIDE DEF r
  <2> SUFFICES ASSUME r # 0 PROVE PadSize(k, n) = n - r
    OBVIOUS
  <2>1. n - r \in 0..(n - 1)
    BY <1>1
  <2>2. (n * 0 + (n - r)) % n = n - r
    BY <2>1, DivisionIsUnique
  <2>3. n * 0 + (n - r) = n - r
    BY <1>1
  <2> QED BY <1>2, <2>2, <2>3
<1>5. \E m \in Nat : k + PadSize(k, n) = n * m
  <2> HIDE DEF q, r
  <2>1. CASE r = 0
    <3>1. n * q \in Nat
      BY <1>1
    <3>2. k + PadSize(k, n) = n * q
      BY <1>1, <1>3, <2>1, <3>1
    <3> QED BY <1>1, <3>2
  <2>2. CASE r # 0
    <3>1. n * q \in Nat /\ n * (q + 1) = n * q + n /\ q + 1 \in Nat
      BY <1>1
    <3>2. k + PadSize(k, n) = n * q + n
      <4> DEFINE z == n * q
      <4> HIDE DEF z
      <4>1. k = z + r /\ z \in Nat /\ PadSize(k, n) = n - r
        BY <1>1, <1>4, <2>2, <3>1 DEF z
      <4>2. k + PadSize(k, n) = z + n
        BY <1>1, <4>1
      <4> QED BY <4>2 DEF z
    <3> QED BY <3>1, <3>2
  <2> QED BY <2>1, <2>2
<1>6. ASSUME NEW m \in Nat, k = n * m PROVE r = 0
  <2>1. (n * m + 0) % n = 0
    BY DivisionIsUnique
  <2>2. n * m + 0 = k
    BY <1>6
  <2> QED BY <2>1, <2>2
<1>7. PadSize(k, n) \in Nat
  <2> HIDE DEF q, r
  <2> QED BY <1>1, <1>3, <1>4
<1> HIDE DEF q, r
<1> QED BY <1>3, <1>5, <1>6, <1>7

\* And back.
LEMMA GatherHeadsIs ==
  ASSUME NEW n \in Nat \ {0}, NEW m \in Nat \ {0}, NEW H \in Nat \ {0}, NEW x, Spread(x, n, n * m, H)
  PROVE  HeadsGathered(GatherHeadsScatterSeq(x), x, n, m, H)
<1> DEFINE N == n * m
           u(r, q) == SliceOf(x[q], n, r - 1)
           c(r, p) == [q \in 1..n |-> u(r, q)[p]]
           f(r, p) == FlattenSeq(c(r, p))
           v(r) == [p \in 1..m |-> f(r, p)]
           y == [r \in 1..n |-> v(r)]
<1>1. N \in Nat \ {0}
  <2>1. n * m # 0
    BY n * m >= m, m > 0, n > 0
  <2> QED BY <2>1
<1>2. /\ IsRow(x, n) /\ Len(x) = n /\ \A q \in 1..n : IsRow(x[q], N) /\ Len(x[q]) = N
      /\ \A q \in 1..n, k \in 1..N : IsRow(x[q][k], H)
      /\ 1 \in 1..n
  <2>1. /\ IsRow(x, n) /\ \A q \in 1..n : IsRow(x[q], N)
        /\ \A q \in 1..n, k \in 1..N : IsRow(x[q][k], H)
    BY DEF Spread
  <2> HIDE DEF N
  <2>2. Len(x) = n /\ \A q \in 1..n : Len(x[q]) = N
    BY <2>1, RowIs
  <2>3. 1 \in 1..n
    OBVIOUS
  <2> QED BY <2>1, <2>2, <2>3
<1>3. ASSUME NEW r \in 1..n, NEW q \in 1..n
      PROVE  /\ IsRow(u(r, q), m) /\ DOMAIN u(r, q) = 1..m
             /\ \A p \in 1..m : u(r, q)[p] = x[q][Cell(m, r, p)] /\ Cell(m, r, p) \in 1..N
  <2>1. /\ IsRow(u(r, q), m)
        /\ \A p \in 1..m : u(r, q)[p] = x[q][Cell(m, r, p)] /\ Cell(m, r, p) \in 1..N
    BY <1>2, SliceIs
  <2> HIDE DEF u
  <2> QED BY <2>1, RowIs
<1> HIDE DEF N, u
<1>4. ASSUME NEW r \in 1..n, NEW p \in 1..m
      PROVE  /\ IsRow(f(r, p), n * H)
             /\ \A q \in 1..n, h \in 1..H : f(r, p)[Cell(H, q, h)] = u(r, q)[p][h]
  <2> DEFINE w == c(r, p)
  <2>1. IsRow(w, n) /\ \A q \in 1..n : w[q] = u(r, q)[p]
    BY DEF IsRow
  <2> HIDE DEF w
  <2>2. \A q \in 1..n : IsRow(w[q], H)
    <3> SUFFICES ASSUME NEW q \in 1..n PROVE IsRow(w[q], H)
      OBVIOUS
    <3>1. u(r, q)[p] = x[q][Cell(m, r, p)] /\ Cell(m, r, p) \in 1..N
      BY <1>3
    <3>2. IsRow(x[q][Cell(m, r, p)], H)
      BY <1>2, <3>1
    <3> QED BY <2>1, <3>1, <3>2
  <2>3. /\ IsRow(FlattenSeq(w), n * H)
        /\ \A q \in 1..n, h \in 1..H : FlattenSeq(w)[Cell(H, q, h)] = w[q][h]
    <3>1. IsMatrix(w, n, H)
      BY <2>1, <2>2 DEF IsMatrix
    <3>2. IsJoined(FlattenSeq(w), w, n, H)
      BY <3>1, MatrixIsJoined, Zenon
    <3> QED BY <3>2 DEF IsJoined
  <2> QED BY <2>1, <2>3 DEF w
<1> HIDE DEF f
<1>5. ASSUME NEW r \in 1..n PROVE IsRow(v(r), m) /\ \A p \in 1..m : v(r)[p] = f(r, p)
  BY DEF IsRow
<1>6. IsRow(y, n) /\ \A r \in 1..n : y[r] = v(r)
  BY DEF IsRow
<1>7. GatherHeadsScatterSeq(x) = y
  <2>1. PadSize(Len(x[1]), n) = 0
    <3>1. Len(x[1]) = n * m
      BY <1>2 DEF N
    <3>2. n * m \in Nat
      OBVIOUS
    <3> QED BY <3>1, <3>2, PadSizeIs
  <2> DEFINE z == [r \in 1..n |-> PadRight(x[r], Len(x[r]) + 0, Repeat(Zero, Len(x[r][1])))]
  <2>2. z = x
    <3>1. \A r \in 1..n : PadRight(x[r], Len(x[r]) + 0, Repeat(Zero, Len(x[r][1]))) = x[r]
      BY <1>1, <1>2 DEF PadRight
    <3> QED BY <1>2, <3>1 DEF IsRow
  <2>3. GatherHeadsScatterSeq(x) = AllToAll(x, "seq", "heads")
    <3>1. GatherHeadsScatterSeq(x) = AllToAll(z, "seq", "heads")
      BY <1>2, <2>1 DEF GatherHeadsScatterSeq
    <3> QED BY <2>2, <3>1
  <2> HIDE DEF z
  <2>4. AllToAll(x, "seq", "heads") =
          Each([r \in 1..n |-> Cat([q \in 1..n |-> Split(x[q], n, "seq", r - 1)], "heads")])
    BY <1>2 DEF AllToAll
  <2>5. ASSUME NEW r \in 1..n PROVE Cat([q \in 1..n |-> Split(x[q], n, "seq", r - 1)], "heads") = v(r)
    <3> DEFINE s == [q \in 1..n |-> u(r, q)]
    <3>1. [q \in 1..n |-> Split(x[q], n, "seq", r - 1)] = s
      BY DEF Split, u
    <3>2. DOMAIN s = 1..n /\ \A q \in 1..n : s[q] = u(r, q)
      OBVIOUS
    <3>3. DOMAIN s[1] = 1..m
      BY <1>2, <1>3, <3>2
    <3>4. Cat(s, "heads") = Each([p \in DOMAIN s[1] |-> FlattenSeq([q \in DOMAIN s |-> s[q][p]])])
      BY DEF Cat
    <3>5. \A p \in 1..m : FlattenSeq([q \in DOMAIN s |-> s[q][p]]) = f(r, p)
      BY <3>2 DEF f
    <3> HIDE DEF s
    <3>6. Cat(s, "heads") = Each(v(r))
      BY <3>3, <3>4, <3>5
    <3> HIDE DEF v
    <3>7. Each(v(r)) = v(r)
      BY <1>5, RowIs
    <3> QED BY <3>1, <3>6, <3>7
  <2>6. GatherHeadsScatterSeq(x) = Each(y)
    BY <2>3, <2>4, <2>5
  <2> HIDE DEF y
  <2> QED BY <1>6, <2>6, RowIs
<1> HIDE DEF y, v
<1>8. ASSUME NEW r \in 1..n, NEW q \in 1..n, NEW p \in 1..m, NEW h \in 1..H
      PROVE  y[r][p][Cell(H, q, h)] = x[q][Cell(m, r, p)][h]
  <2>1. y[r][p] = f(r, p)
    BY <1>5, <1>6
  <2>2. f(r, p)[Cell(H, q, h)] = u(r, q)[p][h]
    BY <1>4
  <2>3. u(r, q)[p] = x[q][Cell(m, r, p)]
    BY <1>3
  <2> QED BY <2>1, <2>2, <2>3
<1>9. Spread(y, n, m, n * H)
  BY <1>4, <1>5, <1>6 DEF Spread
<1> QED BY <1>7, <1>8, <1>9 DEF HeadsGathered

\* What the n ranks have is m places each of one row.
SlicedFrom(x, t, n, m) ==
  IsMatrix(x, n, m) /\ \A r \in 1..n, p \in 1..m : x[r][p] = t[Cell(m, r, p)]

\* What the n ranks have is what is computed at m places each.
AttendedBy(x, t, pos, heads, n, m) ==
  IsMatrix(x, n, m) /\ \A r \in 1..n, p \in 1..m : x[r][p] = StateAt(t, pos, heads, Cell(m, r, p))

\* Every rank attends for its places with all their heads.
LEMMA UlyssesIs ==
  ASSUME NEW n \in Nat \ {0}, NEW m \in Nat \ {0}, NEW H \in Nat \ {0}, NEW heads, heads = n * H,
         NEW slices, NEW t, SlicedFrom(slices, t, n, m), NEW pos
  PROVE  AttendedBy(UlyssesAttention(slices, pos, heads), t, pos, heads, n, m)
<1> DEFINE N == n * m
           x == [r \in 1..n |-> Hidden(slices[r], heads)]
<1>1. /\ IsRow(slices, n) /\ \A r \in 1..n : IsRow(slices[r], m)
      /\ \A r \in 1..n, p \in 1..m : slices[r][p] = t[Cell(m, r, p)]
  BY DEF SlicedFrom, IsMatrix
<1>2. heads \in Nat /\ N \in Nat /\ n \in Nat /\ 1 \in 1..n
  OBVIOUS
<1>3. ASSUME NEW r \in 1..n
      PROVE  /\ x[r] = Hidden(slices[r], heads) /\ IsRow(x[r], m)
             /\ \A p \in 1..m : /\ IsRow(x[r][p], heads)
                                /\ \A h \in 1..heads : x[r][p][h] = <<t[Cell(m, r, p)], h>>
  <2> DEFINE s == slices[r]
  <2>1. IsRow(s, m) /\ heads \in Nat
    BY <1>2, <1>1
  <2> HIDE DEF s, x
  <2>2. IsHidden(Hidden(s, heads), s, m, heads)
    BY <2>1, HiddenIs
  <2> USE DEF s, x
  <2>3. x[r] = Hidden(slices[r], heads)
    OBVIOUS
  <2> HIDE DEF x
  <2> HIDE DEF x
  <2> QED BY <1>1, <2>2, <2>3 DEF IsHidden
<1>4. IsRow(x, n) /\ Each(x) = x /\ Len(x) = n
  <2>1. IsRow(x, n)
    BY DEF IsRow
  <2> HIDE DEF x
  <2> QED BY <2>1, RowIs
<1>5. Each([r \in DOMAIN slices |-> Hidden(slices[r], heads)]) = x
  <2>1. DOMAIN slices = 1..n
    BY <1>1, RowIs
  <2>2. [r \in DOMAIN slices |-> Hidden(slices[r], heads)] = x
    BY <2>1
  <2> HIDE DEF x
  <2> QED BY <1>4, <2>2
<1> DEFINE out == UlyssesAttention(slices, pos, heads)
<1>6. CASE n = 1
  <2>1. out = <<Attend(x[1], pos)>>
    <3> HIDE DEF x
    <3> QED BY <1>4, <1>5, <1>6 DEF UlyssesAttention
  <2> HIDE DEF x, out
  <2>2. /\ IsRow(Attend(x[1], pos), m)
        /\ \A k \in 1..m : IsRow(Attend(x[1], pos)[k], heads)
        /\ \A k \in 1..m, h \in 1..heads : Attend(x[1], pos)[k][h] = AttendsTo(x[1], pos, k, h)
    <3> DEFINE y == x[1]
    <3>1. IsMatrix(y, m, heads) /\ heads \in Nat
      BY <1>2, <1>3 DEF IsMatrix
    <3> HIDE DEF y
    <3>2. IsAttention(Attend(y, pos), y, m, heads, pos)
      BY <3>1, AttendIs
    <3> QED BY <3>2 DEF y, IsMatrix, IsAttention
  <2>3. \A p \in 1..m : Cell(m, 1, p) = p
    BY DEF Cell
  <2>4. ASSUME NEW p \in 1..m PROVE Attend(x[1], pos)[p] = StateAt(t, pos, heads, p)
    <3>1. ASSUME NEW h \in 1..heads PROVE Attend(x[1], pos)[p][h] = Attended(t, pos, p, h)
      <4>1. p \in Nat \ {0} /\ \A j \in 1..p : x[1][j][h] = <<t[j], h>>
        BY <1>2, <1>3, <2>3
      <4> QED BY <2>2, <4>1, AttendsToTokens
    <3>2. Attend(x[1], pos)[p] = [h \in 1..heads |-> Attend(x[1], pos)[p][h]]
      BY <2>2 DEF IsRow
    <3> QED BY <3>1, <3>2 DEF StateAt
  <2>5. out[1] = Attend(x[1], pos) /\ IsRow(out, 1)
    BY <2>1 DEF IsRow
  <2>6. \A r \in 1..n : r = 1
    BY <1>6
  <2>7. IsRow(out, n) /\ \A r \in 1..n : IsRow(out[r], m)
    BY <1>6, <2>2, <2>5, <2>6
  <2>8. \A r \in 1..n, p \in 1..m : out[r][p] = StateAt(t, pos, heads, Cell(m, r, p))
    BY <2>3, <2>4, <2>5, <2>6
  <2> QED BY <2>7, <2>8 DEF out, AttendedBy, IsMatrix
<1>7. CASE n # 1
  <2> DEFINE full == GatherSeqScatterHeads(x)
             att == [r \in 1..n |-> Attend(full[r], pos)]
  <2>1. Spread(x, n, m, n * H)
    <3> HIDE DEF x
    <3> QED BY <1>3, <1>4 DEF Spread
  <2> HIDE DEF x
  <2>2. /\ Spread(full, n, n * m, H)
        /\ \A r \in 1..n, q \in 1..n, p \in 1..m, h \in 1..H :
             full[r][Cell(m, q, p)][h] = x[q][p][Cell(H, r, h)]
    <3>1. SeqGathered(full, x, n, m, H)
      BY <2>1, GatherSeqIs
    <3> HIDE DEF full
    <3> QED BY <3>1 DEF SeqGathered
  <2> HIDE DEF full
  <2>3. /\ IsRow(full, n) /\ \A r \in 1..n : IsRow(full[r], N)
        /\ \A r \in 1..n, k \in 1..N : IsRow(full[r][k], H)
    BY <2>2 DEF Spread
  <2>4. ASSUME NEW r \in 1..n, NEW k \in 1..N, NEW h \in 1..H
        PROVE  full[r][k][h] = <<t[k], Cell(H, r, h)>> /\ Cell(H, r, h) \in 1..heads
    <3>1. RowOf(m, k) \in 1..n /\ ColumnOf(m, k) \in 1..m /\ k = Cell(m, RowOf(m, k), ColumnOf(m, k))
      BY <1>2, IsCell, Zenon
    <3>2. Cell(H, r, h) \in 1..(n * H)
      BY <1>2, CellIs, Zenon
    <3>3. PICK q \in 1..n, p \in 1..m : k = Cell(m, q, p)
      BY <3>1
    <3>4. full[r][k][h] = x[q][p][Cell(H, r, h)]
      BY <2>2, <3>3
    <3> HIDE DEF N
    <3> QED BY <1>3, <3>2, <3>3, <3>4
  <2>5. ASSUME NEW r \in 1..n
        PROVE  /\ IsRow(att[r], N)
               /\ \A k \in 1..N : /\ IsRow(att[r][k], H)
                                  /\ \A h \in 1..H : att[r][k][h] = Attended(t, pos, k, Cell(H, r, h))
    <3> HIDE DEF N
    <3> DEFINE y == Attend(full[r], pos)
    <3>1. att[r] = y
      OBVIOUS
    <3>2. /\ IsRow(y, N)
          /\ \A k \in 1..N : IsRow(y[k], H)
          /\ \A k \in 1..N, h \in 1..H : y[k][h] = AttendsTo(full[r], pos, k, h)
      <4>1. IsMatrix(full[r], N, H) /\ H \in Nat
        BY <2>3 DEF IsMatrix
      <4>2. IsAttention(y, full[r], N, H, pos)
        BY <4>1, AttendIs
      <4> HIDE DEF y
      <4> QED BY <4>2 DEF IsMatrix, IsAttention
    <3> HIDE DEF att, y
    <3>3. ASSUME NEW k \in 1..N, NEW h \in 1..H PROVE y[k][h] = Attended(t, pos, k, Cell(H, r, h))
      <4>1. k \in Nat \ {0} /\ \A j \in 1..k : j \in 1..N
        BY <1>2
      <4>2. \A j \in 1..k : full[r][j][h] = <<t[j], Cell(H, r, h)>>
        BY <2>4, <4>1
      <4> QED BY <3>2, <4>1, <4>2, AttendsToTokens
    <3> QED BY <3>1, <3>2, <3>3
  <2>6. IsRow(att, n) /\ Each(att) = att
    <3>1. IsRow(att, n)
      BY DEF IsRow
    <3> HIDE DEF att
    <3> QED BY <3>1, RowIs
  <2>7. Spread(att, n, n * m, H)
    <3> HIDE DEF att
    <3> QED BY <2>5, <2>6 DEF Spread
  <2>8. out = GatherHeadsScatterSeq(att)
    <3>1. Len(Each([r \in DOMAIN slices |-> Hidden(slices[r], heads)])) # 1
      BY <1>4, <1>5, <1>7
    <3>2. DOMAIN full = 1..n
      BY <2>3, RowIs
    <3>3. Each([r \in DOMAIN full |-> Attend(full[r], pos)]) = att
      <4>1. [r \in DOMAIN full |-> Attend(full[r], pos)] = att
        BY <3>2
      <4> HIDE DEF att
      <4> QED BY <2>6, <4>1
    <3> HIDE DEF att
    <3> QED BY <1>5, <3>1, <3>3 DEF UlyssesAttention, full
  <2> HIDE DEF att
  <2>9. /\ Spread(out, n, m, n * H)
        /\ \A r \in 1..n, q \in 1..n, p \in 1..m, h \in 1..H :
             out[r][p][Cell(H, q, h)] = att[q][Cell(m, r, p)][h]
    <3> HIDE DEF out
    <3>1. HeadsGathered(out, att, n, m, H)
      BY <2>7, <2>8, GatherHeadsIs
    <3> QED BY <3>1 DEF HeadsGathered
  <2> HIDE DEF out
  <2>10. ASSUME NEW r \in 1..n, NEW p \in 1..m PROVE out[r][p] = StateAt(t, pos, heads, Cell(m, r, p))
    <3> DEFINE k == Cell(m, r, p)
    <3>1. k \in 1..N
      BY <1>2, CellIs, Zenon
    <3> HIDE DEF k, N
    <3>2. ASSUME NEW h \in 1..heads PROVE out[r][p][h] = Attended(t, pos, k, h)
      <4>1. RowOf(H, h) \in 1..n /\ ColumnOf(H, h) \in 1..H /\ h = Cell(H, RowOf(H, h), ColumnOf(H, h))
        BY <1>2, IsCell, Zenon
      <4>2. PICK q \in 1..n, g \in 1..H : h = Cell(H, q, g)
        BY <4>1
      <4>3. out[r][p][h] = att[q][k][g]
        BY <2>9, <4>2 DEF k
      <4> QED BY <2>5, <3>1, <4>2, <4>3
    <3>3. IsRow(out[r][p], heads)
      BY <2>9 DEF Spread
    <3>4. out[r][p] = [h \in 1..heads |-> out[r][p][h]]
      BY <3>3 DEF IsRow
    <3> QED BY <3>2, <3>4 DEF StateAt, k
  <2> QED BY <2>9, <2>10 DEF out, Spread, AttendedBy, IsMatrix
<1> QED BY <1>6, <1>7 DEF out, AttendedBy

\* Padding to n places keeps what is there.
LEMMA PadRightIs ==
  ASSUME NEW l \in Nat, NEW n \in Nat, l <= n, NEW s, IsRow(s, l), NEW z
  PROVE  IsRow(PadRight(s, n, z), n) /\ \A k \in 1..l : PadRight(s, n, z)[k] = s[k]
<1>1. Len(s) = l
  BY RowIs
<1>2. CASE l = n
  BY <1>1, <1>2 DEF PadRight
<1>3. CASE l # n
  <2> DEFINE X == {s[k] : k \in 1..l} \cup {z}
             u == Repeat(z, n - l)
  <2>1. n - l \in Nat /\ ~ (l >= n)
    BY <1>3
  <2>2. s \in Seq(X)
    <3>1. s = [k \in 1..l |-> s[k]] /\ \A k \in 1..l : s[k] \in X
      BY DEF IsRow
    <3> HIDE DEF X
    <3> QED BY <3>1
  <2>3. u \in Seq(X) /\ Len(u) = n - l
    <3>1. z \in X
      OBVIOUS
    <3> HIDE DEF X
    <3> QED BY <2>1, <3>1 DEF Repeat
  <2>4. PadRight(s, n, z) = s \o u
    BY <1>1, <2>1 DEF PadRight
  <2> HIDE DEF X, u
  <2>5. /\ s \o u \in Seq(X) /\ Len(s \o u) = n
        /\ \A k \in 1..l : (s \o u)[k] = s[k]
    BY <1>1, <2>1, <2>2, <2>3
  <2> QED BY <2>4, <2>5, IsARow
<1> QED BY <1>2, <1>3

\* t begins with the first l of x.
Begins(t, x, l) == \A k \in 1..l : t[k] = x[k]

\* The ranks' slices of a row that is padded to a multiple of their number.
LEMMA SlicesAre ==
  ASSUME NEW n \in Nat \ {0}, NEW m \in Nat \ {0}, NEW l \in Nat, l + PadSize(l, n) = n * m,
         NEW x, IsRow(x, l), NEW z
  PROVE  /\ SlicedFrom(PadAndSlice(x, n, z), PadRight(x, n * m, z), n, m)
         /\ Begins(PadRight(x, n * m, z), x, l)
<1> DEFINE t == PadRight(x, n * m, z)
           y == [r \in 1..n |-> SliceOf(t, n, r - 1)]
<1>1. n * m \in Nat /\ l <= n * m
  <2>1. PadSize(l, n) \in Nat /\ n * m \in Nat
    BY PadSizeIs
  <2> QED BY <2>1
<1>2. IsRow(t, n * m) /\ \A k \in 1..l : t[k] = x[k]
  BY <1>1, PadRightIs, SMTT(30)
<1>3. PadAndSlice(x, n, z) = Each(y)
  <2>1. Len(x) = l
    BY RowIs
  <2> QED BY <2>1 DEF PadAndSlice
<1> HIDE DEF t
<1>4. ASSUME NEW r \in 1..n
      PROVE  /\ IsRow(SliceOf(t, n, r - 1), m)
             /\ \A p \in 1..m : SliceOf(t, n, r - 1)[p] = t[Cell(m, r, p)]
  <2>1. IsRow(t, n * m)
    BY <1>2
  <2>2. /\ IsRow(SliceOf(t, n, r - 1), m)
        /\ \A p \in 1..m : SliceOf(t, n, r - 1)[p] = t[Cell(m, r, p)] /\ Cell(m, r, p) \in 1..(n * m)
    BY <2>1, SliceIs, Zenon
  <2> QED BY <2>2
<1>5. IsRow(y, n) /\ \A r \in 1..n : y[r] = SliceOf(t, n, r - 1)
  BY DEF IsRow
<1> HIDE DEF y
<1>6. Each(y) = y
  BY <1>5, RowIs
<1>7. PadAndSlice(x, n, z) = y
  BY <1>3, <1>6
<1>8. IsMatrix(y, n, m)
  BY <1>4, <1>5 DEF IsMatrix
<1> QED BY <1>2, <1>4, <1>5, <1>7, <1>8 DEF t, SlicedFrom, Begins

\* y has the valid places of x.
IsPacked(y, x, q, w) ==
  IsRow(y, Len(q)) /\ \A k \in 1..Len(q) : y[k] = x[RowOf(w, q[k])][ColumnOf(w, q[k])]

\* What has been packed.
LEMMA UnpadIs ==
  ASSUME NEW q, IsRow(q, Len(q)), NEW x, NEW w
  PROVE  IsPacked(Unpad(x, q, w), x, q, w)
<1> DEFINE l == Len(q)
           y == [k \in 1..l |-> x[RowOf(w, q[k])][ColumnOf(w, q[k])]]
<1>1. DOMAIN q = 1..l /\ l \in Nat
  BY RowIs
<1>2. IsRow(y, l) /\ \A k \in 1..l : y[k] = x[RowOf(w, q[k])][ColumnOf(w, q[k])]
  BY <1>1 DEF IsRow
<1>3. Unpad(x, q, w) = Each(y)
  BY <1>1 DEF Unpad, RowOf, ColumnOf
<1> HIDE DEF y
<1>4. Each(y) = y
  BY <1>2, RowIs
<1> QED BY <1>2, <1>3, <1>4 DEF IsPacked

\* The labels: every token's next.
LEMMA RollIs ==
  ASSUME NEW x, NEW l \in Nat \ {0}, IsRow(x, l)
  PROVE  IsRow(Roll(x), l) /\ \A k \in 1..(l - 1) : Roll(x)[k] = x[k + 1]
<1> DEFINE X == {x[k] : k \in 1..l}
           u == <<Head(x)>>
           t == Tail(x)
<1>1. x \in Seq(X) /\ Len(x) = l /\ x # <<>>
  <2>1. x \in Seq(X) /\ Len(x) = l
    BY RowIs
  <2> QED BY <2>1
<1> HIDE DEF X
<1>2. Head(x) \in X /\ t \in Seq(X) /\ Len(t) = l - 1 /\ \A k \in 1..(l - 1) : t[k] = x[k + 1]
  BY <1>1
<1>3. u \in Seq(X) /\ Len(u) = 1
  BY <1>2
<1>4. Roll(x) = t \o u
  BY DEF Roll
<1> HIDE DEF t, u
<1>5. t \o u \in Seq(X) /\ Len(t \o u) = l /\ \A k \in 1..(l - 1) : (t \o u)[k] = t[k]
  <2> DEFINE z == t \o u
  <2>1. z \in Seq(X) /\ Len(z) = Len(t) + Len(u) /\ \A k \in 1..Len(t) : z[k] = t[k]
    <3>1. t \in Seq(X) /\ u \in Seq(X)
      BY <1>2, <1>3
    <3> QED BY <3>1
  <2> HIDE DEF z
  <2>2. Len(z) = l
    BY <1>2, <1>3, <2>1
  <2> QED BY <1>2, <2>1, <2>2 DEF z
<1> QED BY <1>2, <1>4, <1>5, IsARow

\* In R rows of width w, each valid place has what was computed for it.
Restored(x, y, q, R, w) ==
  /\ IsMatrix(x, R, w)
  /\ \A i \in 1..R, c \in 1..w, k \in 1..Len(q) : q[k] = Cell(w, i, c) => x[i][c] = y[k]

\* A row put back: each of its valid places has what was computed for it.
LEMMA PadInputIs ==
  ASSUME NEW y, NEW q, NEW places, NEW n \in Nat, Enumerates(q, places, n),
         NEW R \in Nat, NEW w \in Nat
  PROVE  Restored(PadInput(y, q, R, w), y, q, R, w)
<1> DEFINE v(i, c) == IF Contains(q, (i - 1) * w + c)
                      THEN y[CHOOSE k \in DOMAIN q : q[k] = (i - 1) * w + c] ELSE Zero
           u(i) == [c \in 1..w |-> v(i, c)]
           x == [i \in 1..R |-> u(i)]
<1>1. q \in Seq(Nat) /\ DOMAIN q = 1..Len(q)
  BY DEF Enumerates
<1>2. ASSUME NEW i \in 1..R, NEW c \in 1..w, NEW k \in 1..Len(q), q[k] = Cell(w, i, c)
      PROVE  v(i, c) = y[k]
  <2>1. Contains(q, (i - 1) * w + c)
    BY <1>1, <1>2 DEF Contains, Cell
  <2> DEFINE z == CHOOSE j \in 1..Len(q) : q[j] = Cell(w, i, c)
  <2>2. z \in 1..Len(q) /\ q[z] = Cell(w, i, c)
    BY <1>2
  <2> HIDE DEF z
  <2>3. z = k
    BY <1>2, <2>2, OncePlaced
  <2>4. v(i, c) = y[z]
    BY <1>1, <2>1 DEF Cell, z
  <2> QED BY <2>3, <2>4
<1>3. PadInput(y, q, R, w) = Each([i \in 1..R |-> Each(u(i))])
  BY DEF PadInput
<1> HIDE DEF v
<1>4. ASSUME NEW i \in 1..R PROVE IsRow(u(i), w) /\ Each(u(i)) = u(i) /\ \A c \in 1..w : u(i)[c] = v(i, c)
  <2> DEFINE s == u(i)
  <2>1. IsRow(s, w) /\ \A c \in 1..w : s[c] = v(i, c)
    BY DEF IsRow
  <2> HIDE DEF s
  <2>2. Each(s) = s
    BY <2>1, RowIs
  <2> QED BY <2>1, <2>2 DEF s
<1> HIDE DEF u
<1>5. IsRow(x, R) /\ \A i \in 1..R : x[i] = u(i)
  BY DEF IsRow
<1>6. PadInput(y, q, R, w) = Each(x)
  BY <1>3, <1>4
<1> HIDE DEF x
<1>7. Each(x) = x
  BY <1>5, RowIs
<1> QED BY <1>2, <1>4, <1>5, <1>6, <1>7 DEF IsMatrix, Restored

\* One forward pass over the packed rows: for each of them what attention makes of it, with the
\* token after it.
PackedPass(b, q, w, heads, labelled, whole, t, pos) ==
  /\ PositionsAre(b, w, q, pos)
  /\ \A k \in 1..Len(q) : t[k] = b.input_ids[RowOf(w, q[k])][ColumnOf(w, q[k])]
  /\ \A k \in 1..Len(q) : \E label :
       /\ whole[k] = Result(labelled, StateAt(t, pos, heads, k), label)
       /\ k < Len(q) => label = t[k + 1]

\* The results of the n ranks, with the labels that came along.
ResultsOf(x, out, labels, labelled, n, m) ==
  /\ IsMatrix(x, n, m)
  /\ \A r \in 1..n, k \in 1..m : x[r][k] = Result(labelled, out[r][k], labels[r][k])

\* The entries of a matrix, one by one.
LEMMA ResultsAre ==
  ASSUME NEW n, NEW m, NEW out, IsMatrix(out, n, m), NEW labels, NEW labelled,
         NEW result, result = Entries(out, LAMBDA r, k: Result(labelled, out[r][k], labels[r][k]))
  PROVE  ResultsOf(result, out, labels, labelled, n, m)
<1> DEFINE v(r, k) == Result(labelled, out[r][k], labels[r][k])
           u(r) == [k \in 1..m |-> v(r, k)]
           x == [r \in 1..n |-> u(r)]
<1>1. n \in Nat /\ DOMAIN out = 1..n /\ \A r \in 1..n : DOMAIN out[r] = 1..m /\ m \in Nat
  BY RowIs DEF IsMatrix
<1>2. result = Each([r \in 1..n |-> Each(u(r))])
  BY <1>1 DEF Entries
<1> HIDE DEF v
<1>3. ASSUME NEW r \in 1..n PROVE IsRow(u(r), m) /\ Each(u(r)) = u(r) /\ \A k \in 1..m : u(r)[k] = v(r, k)
  <2> DEFINE s == u(r)
  <2>1. IsRow(s, m) /\ \A k \in 1..m : s[k] = v(r, k)
    BY <1>1 DEF IsRow
  <2> HIDE DEF s
  <2>2. Each(s) = s
    BY <2>1, RowIs
  <2> QED BY <2>1, <2>2 DEF s
<1> HIDE DEF u
<1>4. IsRow(x, n) /\ \A r \in 1..n : x[r] = u(r)
  BY <1>1 DEF IsRow
<1>5. result = Each(x)
  BY <1>2, <1>3
<1> HIDE DEF x
<1>6. Each(x) = x
  BY <1>4, RowIs
<1>7. IsMatrix(x, n, m) /\ \A r \in 1..n, k \in 1..m : x[r][k] = v(r, k)
  BY <1>3, <1>4 DEF IsMatrix
<1>8. result = x
  BY <1>5, <1>6
<1> QED BY <1>7, <1>8, Zenon DEF v, ResultsOf

\* The first l places of all ranks.
Regathered(whole, x, l, n, m) ==
  \A r \in 1..n, p \in 1..m : Cell(m, r, p) <= l => whole[Cell(m, r, p)] = x[r][p]

\* Gathering takes the padding off again.
LEMMA GatheredIs ==
  ASSUME NEW n \in Nat \ {0}, NEW m \in Nat \ {0}, NEW l \in Nat \ {0}, l + PadSize(l, n) = n * m,
         NEW x, IsMatrix(x, n, m)
  PROVE  Regathered(GatherAndUnpad(x, PadSize(l, n)), x, l, n, m)
<1> DEFINE f == FlattenSeq(x)
           pad == PadSize(l, n)
           N == n * m
           X == {f[k] : k \in 1..N}
<1>1. N \in Nat /\ pad \in Nat /\ l + pad = N
  BY PadSizeIs
<1>2. IsRow(f, N) /\ \A r \in 1..n, p \in 1..m : f[Cell(m, r, p)] = x[r][p]
  BY MatrixIsFlat
<1>3. \A r \in 1..n, p \in 1..m : Cell(m, r, p) \in 1..N
  <2> SUFFICES ASSUME NEW r \in 1..n, NEW p \in 1..m PROVE Cell(m, r, p) \in 1..N
    OBVIOUS
  <2>1. n \in Nat
    OBVIOUS
  <2> QED BY <2>1, CellIs, Zenon
<1> HIDE DEF f, N, pad
<1>4. f \in Seq(X) /\ Len(f) = N
  BY <1>2, RowIs
<1> HIDE DEF X
<1>5. ASSUME NEW k \in 1..N, k <= l PROVE GatherAndUnpad(x, pad)[k] = f[k]
  <2>1. CASE pad = 0
    BY <2>1 DEF GatherAndUnpad, Gather, f
  <2>2. CASE pad # 0
    <3> DEFINE u == SubSeq(f, 1, Len(f) - pad)
    <3>1. GatherAndUnpad(x, pad) = u
      BY <2>2 DEF GatherAndUnpad, UnpadTensor, Gather, f
    <3>2. Len(f) - pad = l /\ l \in 0..Len(f)
      BY <1>1, <1>4
    <3>3. u[k] = f[k]
      BY <1>1, <1>4, <1>5, <3>2
    <3> QED BY <3>1, <3>3
  <2> QED BY <2>1, <2>2
<1> QED BY <1>2, <1>3, <1>5 DEF pad, Regathered

\* Its results are put back into R rows.
PutBack(full, b, q, R, w, heads, labelled, whole, t, pos) ==
  PackedPass(b, q, w, heads, labelled, whole, t, pos) /\ full = PadInput(whole, q, R, w)

\* The forward pass without padding puts such a pass back into rows.
LEMMA RmpadIs ==
  ASSUME NEW b, NEW R, NEW w, NEW a, NEW e, IsBatch(b, R, w, a, e),
         NEW q, q = Indices(b.attention_mask, w),
         NEW n \in Nat \ {0}, NEW H \in Nat \ {0}, NEW heads, heads = n * H, NEW labelled
  PROVE  \E whole, t, pos : PutBack(RmpadForward(b, n, heads, labelled), b, q, R, w, heads, labelled, whole, t, pos)
<1> DEFINE l == Len(q)
           pad == PadSize(l, n)
           ids == Unpad(b.input_ids, q, w)
           bare == Unpad(b.position_ids, q, w)
           pos == PadPositions(bare, n)
           zero == <<0, 0, 0>>
           labels == PadAndSlice(Roll(ids), n, zero)
           slices == PadAndSlice(ids, n, zero)
           out == UlyssesAttention(slices, pos, heads)
           result == Entries(out, LAMBDA r, k: Result(labelled, out[r][k], labels[r][k]))
           whole == GatherAndUnpad(result, pad)
<1>1. /\ R \in Nat \ {0} /\ w \in Nat \ {0} /\ Len(b.input_ids) = R /\ Width(b) = w
  BY DEF IsBatch, Width
<1>2. Enumerates(q, Valid(b, R, w), R * w) /\ R * w \in Nat
  BY IndicesAre
<1>3. IsRow(q, l) /\ l \in Nat
  BY <1>2, IsARow DEF Enumerates
<1>4. l \in Nat \ {0}
  <2>1. 1 \in 1..R
    BY <1>1
  <2>2. \E k \in 1..l : TRUE
    BY <2>1, RowStands
  <2> HIDE DEF l
  <2> QED BY <1>3, <2>2
<1>5. /\ IsRow(ids, l) /\ Len(ids) = l
      /\ \A k \in 1..l : ids[k] = b.input_ids[RowOf(w, q[k])][ColumnOf(w, q[k])]
  <2>1. IsPacked(ids, b.input_ids, q, w)
    BY <1>3, UnpadIs
  <2> HIDE DEF ids
  <2> QED BY <2>1, RowIs DEF IsPacked
<1>6. /\ IsRow(bare, l) /\ Len(bare) = l
       /\ \A k \in 1..l : bare[k] = b.position_ids[RowOf(w, q[k])][ColumnOf(w, q[k])]
  <2>1. IsPacked(bare, b.position_ids, q, w)
    BY <1>3, UnpadIs
  <2> HIDE DEF bare
  <2> QED BY <2>1, RowIs DEF IsPacked
<1>7. RmpadForward(b, n, heads, labelled) = PadInput(whole, q, R, w)
  <2>1. Len(Unpad(b.input_ids, Indices(b.attention_mask, w), w)) = Len(Indices(b.attention_mask, w))
    BY <1>5
  <2> QED BY <1>1, <2>1 DEF RmpadForward, Packed
<1> HIDE DEF l, ids, bare
<1>8. PICK m \in Nat : l + pad = n * m
  BY <1>3, PadSizeIs
<1>9. m \in Nat \ {0}
  <2>1. pad \in Nat
    BY <1>3, PadSizeIs
  <2>2. n * 0 = 0
    OBVIOUS
  <2> HIDE DEF pad
  <2>3. l + pad # 0
    BY <1>4, <2>1
  <2> QED BY <1>8, <2>2, <2>3
<1> DEFINE t == PadRight(ids, n * m, zero)
           rolled == PadRight(Roll(ids), n * m, zero)
<1>10. SlicedFrom(slices, t, n, m) /\ Begins(t, ids, l)
  <2> HIDE DEF zero
  <2> QED BY <1>3, <1>5, <1>8, <1>9, SlicesAre, Zenon
<1>11. IsRow(Roll(ids), l) /\ \A k \in 1..(l - 1) : Roll(ids)[k] = ids[k + 1]
  BY <1>4, <1>5, RollIs
<1>12. SlicedFrom(labels, rolled, n, m) /\ Begins(rolled, Roll(ids), l)
  <2> HIDE DEF zero
  <2> QED BY <1>3, <1>8, <1>9, <1>11, SlicesAre, Zenon
<1>13. PositionsAre(b, w, q, pos)
  <2> DEFINE u == [k \in 1..pad |-> k - 1]
  <2>1. bare \in Seq({bare[k] : k \in 1..l}) /\ Len(bare) = l
    BY <1>6, RowIs
  <2>2. u \in Seq(Nat) /\ pad \in Nat
    <3>1. pad \in Nat
      BY <1>3, PadSizeIs
    <3> HIDE DEF pad
    <3> QED BY <3>1
  <2>3. pos = bare \o u
    BY <2>1 DEF PadPositions
  <2> DEFINE Y == {bare[k] : k \in 1..l} \cup Nat
  <2>4. bare \in Seq(Y) /\ u \in Seq(Y)
    <3> HIDE DEF u
    <3> QED BY <2>1, <2>2
  <2> HIDE DEF u, Y
  <2>5. Len(bare \o u) \in Nat /\ l <= Len(bare \o u) /\ \A k \in 1..l : (bare \o u)[k] = bare[k]
    BY <2>1, <2>4
  <2> HIDE DEF pos
  <2> QED BY <1>6, <2>3, <2>5 DEF PositionsAre, l
<1> HIDE DEF slices, labels, t, rolled, pos, pad, zero
<1>14. AttendedBy(out, t, pos, heads, n, m)
  BY <1>9, <1>10, UlyssesIs, Zenon
<1> HIDE DEF out
<1>15. ResultsOf(result, out, labels, labelled, n, m)
  BY <1>14, ResultsAre DEF AttendedBy
<1> HIDE DEF result
<1>16. Regathered(whole, result, l, n, m)
  <2>1. IsMatrix(result, n, m)
    BY <1>15 DEF ResultsOf
  <2> QED BY <1>4, <1>8, <1>9, <2>1, GatheredIs, Zenon DEF pad
<1> HIDE DEF whole
<1>17. ASSUME NEW k \in 1..l
       PROVE  \E label : /\ whole[k] = Result(labelled, StateAt(t, pos, heads, k), label)
                         /\ k < l => label = t[k + 1]
  <2>1. k \in 1..(n * m) /\ n \in Nat
    <3>1. pad \in Nat
      BY <1>3, PadSizeIs DEF pad
    <3>2. n * m \in Nat
      BY <1>9
    <3> QED BY <1>3, <1>8, <3>1, <3>2
  <2>2. RowOf(m, k) \in 1..n /\ ColumnOf(m, k) \in 1..m /\ k = Cell(m, RowOf(m, k), ColumnOf(m, k))
    BY <1>9, <2>1, IsCell, Zenon
  <2>3. PICK r \in 1..n, p \in 1..m : k = Cell(m, r, p)
    BY <2>2
  <2>4. k <= l
    BY <1>3
  <2>5. whole[k] = Result(labelled, StateAt(t, pos, heads, k), rolled[k])
    BY <1>12, <1>14, <1>15, <1>16, <2>3, <2>4 DEF AttendedBy, SlicedFrom, ResultsOf, Regathered, Begins
  <2>6. k < l => rolled[k] = t[k + 1]
    <3> SUFFICES ASSUME k < l PROVE rolled[k] = t[k + 1]
      OBVIOUS
    <3>1. k \in 1..(l - 1) /\ k + 1 \in 1..l
      BY <1>3
    <3> QED BY <1>10, <1>11, <1>12, <3>1 DEF Begins
  <2> QED BY <2>5, <2>6
<1>18. PackedPass(b, q, w, heads, labelled, whole, t, pos)
  BY <1>5, <1>10, <1>13, <1>17 DEF PackedPass, l, Begins
<1> QED BY <1>7, <1>18, Zenon DEF PutBack

\* What the model computes at place c of row i: all tokens of the row up to it, and no other.
RowState(b, heads, i, from, c) ==
  [h \in 1..heads |-> [j \in 1..(c - from) |-> <<<<b.input_ids[i][from + j], h>>, j - 1>>]]

\* The result at place c, with the next token of the row if it has one.
IsResult(x, b, heads, labelled, i, from, to, c) ==
  \E label : /\ x = Result(labelled, RowState(b, heads, i, from, c), label)
             /\ c < to => label = b.input_ids[i][c + 1]

\* It is among the packed results.
HasResult(whole, b, q, w, heads, labelled, i, from, to, c) ==
  \E k \in 1..Len(q) : q[k] = Cell(w, i, c) /\ IsResult(whole[k], b, heads, labelled, i, from, to, c)

\* In a pass over packed rows every row is by itself, and its tokens have their own next token.
LEMMA PassIs ==
  ASSUME NEW b, NEW R, NEW w, NEW a, NEW e, IsBatch(b, R, w, a, e),
         NEW q, q = Indices(b.attention_mask, w), NEW heads, NEW labelled, NEW whole, NEW t, NEW pos,
         PackedPass(b, q, w, heads, labelled, whole, t, pos),
         NEW i \in 1..R, NEW c \in 1..w, a[i] < c, c <= e[i]
  PROVE  HasResult(whole, b, q, w, heads, labelled, i, a[i], e[i], c)
<1> DEFINE j == c - a[i] - 1
           last == e[i] - a[i] - 1
<1>1. R \in Nat /\ w \in Nat \ {0} /\ a[i] \in Nat /\ e[i] \in 0..w
  BY DEF IsBatch
<1>3. PICK k \in 1..Len(q) : Stands(w, a, e, q, i, k)
  BY RowStands
<1>2. \A x \in 0..last : k + x \in 1..Len(q) /\ q[k + x] = Cell(w, i, a[i] + 1 + x)
  BY <1>3 DEF Stands
<1>4. j \in 0..last /\ a[i] + 1 + j = c /\ \A x \in 0..last : a[i] + 1 + x \in 1..w
  <2>1. a[i] < c /\ c <= e[i]
    OBVIOUS
  <2>2. j \in 0..last
    BY <1>1, <2>1, SMTT(30)
  <2>3. a[i] + 1 + j = c
    BY <1>1, <2>1
  <2>4. \A x \in 0..last : a[i] + 1 + x \in 1..w
    BY <1>1, SMTT(30)
  <2> QED BY <2>2, <2>3, <2>4
<1>5. PositionsAre(b, w, q, pos)
  BY DEF PackedPass
<1> HIDE DEF j
<1>6. FirstOf(pos, k + j) = k /\ \A x \in 0..j : pos[k + x] = x
  <2>1. CountsFrom(pos, k, j)
    BY <1>3, <1>4, <1>5, FirstIs
  <2> QED BY <2>1 DEF CountsFrom
<1>7. ASSUME NEW x \in 0..last PROVE t[k + x] = b.input_ids[i][a[i] + 1 + x]
  <2>1. a[i] + 1 + x \in 1..w
    BY <1>4
  <2> DEFINE z == a[i] + 1 + x
  <2> HIDE DEF z, last
  <2>2. RowOf(w, Cell(w, i, z)) = i /\ ColumnOf(w, Cell(w, i, z)) = z
    <3>1. /\ Cell(w, i, z) \in 1..(R * w) /\ RowOf(w, Cell(w, i, z)) = i
          /\ ColumnOf(w, Cell(w, i, z)) = z
      BY <1>1, <2>1, CellIs, Zenon DEF z
    <3> QED BY <3>1
  <2>3. q[k + x] = Cell(w, i, z) /\ k + x \in 1..Len(q)
    BY <1>2 DEF z
  <2>4. t[k + x] = b.input_ids[i][z]
    BY <2>2, <2>3 DEF PackedPass
  <2> QED BY <2>4 DEF z
<1>8. k \in Nat /\ j \in Nat /\ Len(q) \in Nat
  <2>1. Len(q) \in Nat
    BY IndicesAre DEF Enumerates
  <2> QED BY <1>4, <2>1
<1>9. StateAt(t, pos, heads, k + j) = RowState(b, heads, i, a[i], c)
  <2>1. (k + j) - k + 1 = c - a[i]
    BY <1>1, <1>4, <1>8 DEF j
  <2>2. ASSUME NEW y \in 1..(c - a[i])
        PROVE  t[k + y - 1] = b.input_ids[i][a[i] + y] /\ pos[k + y - 1] = y - 1
    <3>1. y - 1 \in 0..j /\ y - 1 \in 0..last
      <4>1. y - 1 \in 0..j
        BY <1>1 DEF j
      <4> HIDE DEF last
      <4>2. last \in Int
        BY <1>1 DEF last
      <4> QED BY <1>4, <4>1, <4>2
    <3>2. k + (y - 1) = k + y - 1 /\ a[i] + 1 + (y - 1) = a[i] + y
      BY <1>1, <1>8
    <3> HIDE DEF last
    <3>3. t[k + (y - 1)] = b.input_ids[i][a[i] + 1 + (y - 1)] /\ pos[k + (y - 1)] = y - 1
      BY <1>6, <1>7, <3>1
    <3> QED BY <3>2, <3>3
  <2>3. \A h : Attended(t, pos, k + j, h) =
                 [y \in 1..(c - a[i]) |-> <<<<b.input_ids[i][a[i] + y], h>>, y - 1>>]
    BY <1>6, <2>1, <2>2 DEF Attended
  <2> QED BY <2>3 DEF StateAt, RowState
<1>10. k + j \in 1..Len(q) /\ q[k + j] = Cell(w, i, c)
  BY <1>2, <1>4
<1>11. PICK label : /\ whole[k + j] = Result(labelled, StateAt(t, pos, heads, k + j), label)
                    /\ k + j < Len(q) => label = t[(k + j) + 1]
  BY <1>10 DEF PackedPass
<1>12. c < e[i] => label = b.input_ids[i][c + 1]
  <2> SUFFICES ASSUME c < e[i] PROVE label = b.input_ids[i][c + 1]
    OBVIOUS
  <2>1. j + 1 \in 0..last /\ a[i] + 1 + (j + 1) = c + 1 /\ (k + j) + 1 = k + (j + 1)
    <3>1. j + 1 \in 0..last
      BY <1>1, SMTT(30) DEF j
    <3>2. a[i] + 1 + (j + 1) = c + 1
      BY <1>1 DEF j
    <3> QED BY <1>8, <3>1, <3>2
  <2> HIDE DEF last
  <2>2. k + (j + 1) \in 1..Len(q)
    BY <1>2, <2>1
  <2>3. k + j < Len(q)
    BY <1>8, <2>1, <2>2
  <2>4. t[k + (j + 1)] = b.input_ids[i][c + 1]
    BY <1>7, <2>1
  <2> QED BY <1>11, <2>1, <2>3, <2>4
<1>13. IsResult(whole[k + j], b, heads, labelled, i, a[i], e[i], c)
  BY <1>9, <1>11, <1>12 DEF IsResult
<1> QED BY <1>10, <1>13 DEF HasResult

\* The forward pass without padding, for every row of the batch.
LEMMA RmpadRows ==
  ASSUME NEW b, NEW R, NEW w, NEW a, NEW e, IsBatch(b, R, w, a, e),
         NEW n \in Nat \ {0}, NEW H \in Nat \ {0}, NEW heads, heads = n * H, NEW labelled,
         NEW full, full = RmpadForward(b, n, heads, labelled)
  PROVE  /\ IsMatrix(full, R, w)
         /\ \A i \in 1..R, c \in 1..w :
              a[i] < c /\ c <= e[i] => IsResult(full[i][c], b, heads, labelled, i, a[i], e[i], c)
<1> DEFINE places == Valid(b, R, w)
           N == R * w
<1>1. PICK q : q = Indices(b.attention_mask, w)
  OBVIOUS
<1>2. R \in Nat /\ w \in Nat /\ Enumerates(q, places, N) /\ N \in Nat
  <2>1. Enumerates(Indices(b.attention_mask, w), places, N) /\ N \in Nat
    BY IndicesAre, Zenon
  <2> QED BY <1>1, <2>1 DEF IsBatch
<1> HIDE DEF places, N
<1>3. PICK whole, t, pos : PutBack(full, b, q, R, w, heads, labelled, whole, t, pos)
  BY <1>1, RmpadIs
<1>4. PackedPass(b, q, w, heads, labelled, whole, t, pos) /\ full = PadInput(whole, q, R, w)
  BY <1>3 DEF PutBack
<1>5. Restored(full, whole, q, R, w)
  BY <1>2, <1>4, PadInputIs
<1>6. ASSUME NEW i \in 1..R, NEW c \in 1..w, a[i] < c, c <= e[i]
      PROVE  IsResult(full[i][c], b, heads, labelled, i, a[i], e[i], c)
  <2>1. HasResult(whole, b, q, w, heads, labelled, i, a[i], e[i], c)
    BY <1>1, <1>4, <1>6, PassIs
  <2> QED BY <1>5, <2>1 DEF Restored, HasResult
<1> QED BY <1>5, <1>6 DEF Restored

-----------------------------------------------------------------------------
(* The mask of a row. *)

\* The configuration and the files of this run are ones that there may be.
Fits == config \in Configs /\ files \in Files

\* The fields of a configuration.
LEMMA ConfigFields ==
  ASSUME Fits
  PROVE  /\ config.dp \in Nat \ {0} /\ config.sp \in Nat \ {0} /\ config.batch \in Nat \ {0}
         /\ config.micro \in Nat \ {0} /\ config.balance \in BOOLEAN
         /\ config.truncation \in {"left", "right", "error"} /\ config.epochs \in Nat
         /\ Heads % config.sp = 0 /\ MaxLength \in Nat \ {0} /\ Heads \in Nat \ {0}
         /\ files \in Seq([prompt : Nat \ {0}, response : Nat \ {0}])
BY ConfigsValid DEF Fits, Config

\* The first place of a row that its loss covers, and the one behind the last.
First(i) == AtMost(PromptLength(i))
Behind(i) == AtMost(PromptLength(i) + ResponseLength(i))

\* The lengths of a row.
LEMMA RowLengths ==
  ASSUME Fits, NEW i \in DOMAIN files
  PROVE  /\ PromptLength(i) \in Nat \ {0} /\ ResponseLength(i) \in Nat \ {0}
         /\ Len(Text(i)) = PromptLength(i) + ResponseLength(i)
         /\ First(i) \in 1..MaxLength /\ Behind(i) \in 1..MaxLength
<1>1. MaxLength \in Nat \ {0} /\ files[i] \in [prompt : Nat \ {0}, response : Nat \ {0}]
  <2> DEFINE R == [prompt : Nat \ {0}, response : Nat \ {0}]
  <2> HIDE DEF R
  <2>1. MaxLength \in Nat \ {0} /\ files \in Seq(R)
    BY ConfigFields DEF R
  <2>2. files[i] \in R
    BY <2>1
  <2> QED BY <2>1, <2>2 DEF R
<1>2. PromptLength(i) \in Nat \ {0} /\ ResponseLength(i) \in Nat \ {0}
  BY <1>1 DEF PromptLength, ResponseLength
<1>3. Len(Text(i)) = PromptLength(i) + ResponseLength(i)
  BY <1>2 DEF Text
<1>4. First(i) \in 1..MaxLength /\ Behind(i) \in 1..MaxLength
  BY <1>1, <1>2 DEF First, Behind, AtMost
<1> QED BY <1>2, <1>3, <1>4

\* The mask keeps the places from the last one of the prompt to the last but one of the row.
LEMMA MaskKeeps ==
  ASSUME Fits, NEW i \in DOMAIN files
  PROVE  /\ LossMask(i) = [c \in 1..MaxLength |-> LossMask(i)[c]]
         /\ \A c \in 1..MaxLength :
              LossMask(i)[c] = IF First(i) <= c /\ c < Behind(i) THEN 1 ELSE 0
<1>1. MaxLength \in Nat \ {0}
  BY ConfigFields
<1> DEFINE P == PromptLength(i)
           T == PromptLength(i) + ResponseLength(i)
<1>2. P \in Nat \ {0} /\ T \in Nat /\ P < T /\ Len(Text(i)) = T
  BY RowLengths
<1>3. LossMask(i) = [c \in 1..MaxLength |->
        IF c < AtMost(P) \/ c = AtMost(T) THEN 0 ELSE IF c <= T THEN 1 ELSE 0]
  BY <1>2 DEF LossMask, AttentionMask
<1> HIDE DEF P, T
<1>4. ASSUME NEW c \in 1..MaxLength
      PROVE  LossMask(i)[c] = IF AtMost(P) <= c /\ c < AtMost(T) THEN 1 ELSE 0
  <2>1. LossMask(i)[c] = IF c < AtMost(P) \/ c = AtMost(T) THEN 0 ELSE IF c <= T THEN 1 ELSE 0
    BY <1>3
  <2> QED BY <1>1, <1>2, <2>1 DEF AtMost
<1>5. LossMask(i) = [c \in 1..MaxLength |-> LossMask(i)[c]]
  BY <1>3
<1> QED BY <1>4, <1>5 DEF First, Behind, P, T

\* The tokens of one row that its loss counts.
RowTokens(i) == SumSeq(SubSeq(LossMask(i), 1, MaxLength - 1))

\* They are the places that the mask keeps.
LEMMA RowTokensAre ==
  ASSUME Fits, NEW i \in DOMAIN files
  PROVE  /\ IsFiniteSet(First(i)..(Behind(i) - 1))
         /\ RowTokens(i) = Cardinality(First(i)..(Behind(i) - 1))
         /\ RowTokens(i) \in Nat
<1>1. First(i) \in 1..MaxLength /\ Behind(i) \in 1..MaxLength /\ MaxLength \in Nat \ {0}
  BY RowLengths, ConfigFields
<1> DEFINE s == SubSeq(LossMask(i), 1, MaxLength - 1)
           n == MaxLength - 1
<1>2. \A c \in 1..MaxLength : LossMask(i)[c] = IF First(i) <= c /\ c < Behind(i) THEN 1 ELSE 0
  BY MaskKeeps
<1>3. LossMask(i) \in Seq({0, 1}) /\ Len(LossMask(i)) = MaxLength
  <2>1. LossMask(i) = [c \in 1..MaxLength |-> LossMask(i)[c]]
    BY MaskKeeps
  <2>2. \A c \in 1..MaxLength : LossMask(i)[c] \in {0, 1}
    BY <1>2
  <2> DEFINE mask == LossMask(i)
  <2> HIDE DEF mask
  <2>3. mask \in Seq({0, 1}) /\ Len(mask) = MaxLength
    BY <1>1, <2>1, <2>2 DEF mask
  <2> QED BY <2>3 DEF mask
<1>4. DOMAIN s = 1..n /\ \A c \in 1..n : s[c] = LossMask(i)[c]
  <2> HIDE DEF n
  <2>1. n \in Nat /\ n <= MaxLength
    BY <1>1 DEF n
  <2> DEFINE mask == LossMask(i)
  <2> HIDE DEF mask
  <2>2. DOMAIN SubSeq(mask, 1, n) = 1..n /\ \A c \in 1..n : SubSeq(mask, 1, n)[c] = mask[c]
    BY <1>3, <2>1 DEF mask
  <2> QED BY <2>2 DEF mask, n
<1>5. n \in Nat /\ \A c \in 1..n : c \in 1..MaxLength
  BY <1>1
<1> HIDE DEF s, n
<1>6. \A c \in 1..n : s[c] \in {0, 1} /\ (s[c] = 1 <=> c \in First(i)..(Behind(i) - 1))
  BY <1>1, <1>2, <1>4, <1>5
<1>7. {c \in 1..n : s[c] = 1} = First(i)..(Behind(i) - 1)
  <2>1. \A c \in First(i)..(Behind(i) - 1) : c \in 1..n
    BY <1>1 DEF n
  <2> QED BY <1>6, <2>1
<1>8. SumSeq(s) = Cardinality({c \in 1..n : s[c] = 1})
  BY <1>4, <1>5, <1>6, SumOfMask
<1>9. IsFiniteSet(First(i)..(Behind(i) - 1))
  BY <1>1, FS_Interval
<1> QED BY <1>7, <1>8, <1>9, FS_CardinalityType DEF RowTokens, s, n

\* There are none only where the prompt fills the window.
LEMMA NoTokens ==
  ASSUME Fits, NEW i \in DOMAIN files, RowTokens(i) = 0
  PROVE  PromptLength(i) >= MaxLength
<1>1. First(i) \in 1..MaxLength /\ Behind(i) \in 1..MaxLength /\ MaxLength \in Nat \ {0}
  BY RowLengths, ConfigFields
<1>2. First(i) > Behind(i) - 1
  <2> DEFINE a == First(i)
             b == Behind(i) - 1
  <2>0. a \in Int /\ b \in Int
    BY <1>1
  <2>1. Cardinality(First(i)..(Behind(i) - 1)) = 0
    BY RowTokensAre
  <2>2. Cardinality(First(i)..(Behind(i) - 1))
          = IF First(i) > Behind(i) - 1 THEN 0 ELSE (Behind(i) - 1) - First(i) + 1
    <3> HIDE DEF a, b
    <3>1. Cardinality(a..b) = IF a > b THEN 0 ELSE b - a + 1
      BY <2>0, FS_Interval
    <3> QED BY <3>1 DEF a, b
  <2> HIDE DEF a, b
  <2>3. Cardinality(a..b) = 0 /\ Cardinality(a..b) = IF a > b THEN 0 ELSE b - a + 1
    BY <2>1, <2>2 DEF a, b
  <2>4. a > b
    BY <2>0, <2>3
  <2> QED BY <2>4 DEF a, b
<1>3. PromptLength(i) \in Nat \ {0} /\ ResponseLength(i) \in Nat \ {0}
  BY RowLengths
<1> QED BY <1>1, <1>2, <1>3 DEF First, Behind, AtMost

\* They are as many as the response tokens that the loss is to cover.
LEMMA RowIsLearned ==
  ASSUME Fits, NEW i \in DOMAIN files,
         config.truncation # "left", config.truncation = "error" => ~ TooLong(i)
  PROVE  Cardinality(Expected(i)) = RowTokens(i)
<1> DEFINE S == First(i)..(Behind(i) - 1)
           T == Expected(i)
           e(c) == <<<<i, 0, c + 1>>, Context(i, c)>>
           f == [c \in S |-> e(c)]
<1>1. /\ First(i) \in 1..MaxLength /\ Behind(i) \in 1..MaxLength /\ MaxLength \in Nat \ {0}
      /\ PromptLength(i) \in Nat \ {0} /\ ResponseLength(i) \in Nat \ {0}
      /\ Len(Text(i)) = PromptLength(i) + ResponseLength(i)
      /\ config.truncation \in {"left", "right", "error"}
  BY RowLengths, ConfigFields
<1>2. Kept(i) = 0
  BY DEF Kept
<1>3. {k \in Response(i) : k - 1 > Kept(i)} = {c + 1 : c \in S}
  <2> DEFINE K == {k \in Response(i) : k - 1 > Kept(i)}
  <2>1. ASSUME NEW k \in K PROVE k - 1 \in S /\ k = (k - 1) + 1
    BY <1>1, <1>2 DEF Response, First, Behind, AtMost, TooLong
  <2>2. ASSUME NEW c \in S PROVE c + 1 \in K
    BY <1>1, <1>2 DEF Response, First, Behind, AtMost, TooLong
  <2> HIDE DEF K, S
  <2>3. K = {c + 1 : c \in S}
    BY <2>1, <2>2
  <2> QED BY <2>3 DEF K
<1>4. T = {e(c) : c \in S}
  <2>1. T = {<<<<i, 0, k>>, Context(i, k - 1)>> : k \in {c + 1 : c \in S}}
    BY <1>3 DEF Expected
  <2>2. \A c \in S : (c + 1) - 1 = c
    BY <1>1
  <2> HIDE DEF S, T
  <2> QED BY <2>1, <2>2
<1>5. f \in Bijection(S, T)
  <2>1. f \in [S -> T]
    BY <1>4
  <2>2. \A t \in T : \E c \in S : f[c] = t
    BY <1>4
  <2>3. ASSUME NEW a \in S, NEW b \in S, f[a] = f[b] PROVE a = b
    <3>0. e(a) = e(b)
      BY <2>3
    <3>1. a + 1 = b + 1
      BY <3>0
    <3>2. a \in Int /\ b \in Int
      BY <1>1
    <3> QED BY <3>1, <3>2
  <2> HIDE DEF f, S, T
  <2>4. f \in Injection(S, T)
    BY <2>1, <2>3 DEF Injection, IsInjective
  <2>5. f \in Surjection(S, T)
    BY <2>1, <2>2 DEF Surjection
  <2> QED BY <2>4, <2>5 DEF Bijection
<1>6. IsFiniteSet(S) /\ RowTokens(i) = Cardinality(S)
  BY RowTokensAre
<1> HIDE DEF f, S, T
<1>7. Cardinality(T) = Cardinality(S)
  BY <1>5, <1>6, FS_Bijection DEF ExistsBijection
<1> QED BY <1>6, <1>7 DEF T

-----------------------------------------------------------------------------
(* The micro-batches of a step. *)

\* A sequence that is made of its elements is itself.
LEMMA EachIs ==
  ASSUME NEW n \in Nat, NEW s, s = [k \in 1..n |-> s[k]]
  PROVE  Each(s) = s
<1> DEFINE X == {s[k] : k \in 1..n}
<1>1. \A k \in 1..n : s[k] \in X
  OBVIOUS
<1> HIDE DEF X
<1>2. s \in Seq(X)
  BY <1>1
<1> QED BY <1>2 DEF Each

\* The micro-batches of some rows are pieces of them.
LEMMA MicroIs ==
  ASSUME Fits, NEW rows \in Seq(DOMAIN files)
  PROVE  /\ Len(rows) \div config.micro \in Nat
         /\ DOMAIN MicroBatches(rows) = 1..(Len(rows) \div config.micro)
         /\ \A m \in 1..(Len(rows) \div config.micro) :
              /\ MicroBatches(rows)[m] \in Seq(DOMAIN files)
              /\ Len(MicroBatches(rows)[m]) = config.micro
              /\ \A k \in 1..config.micro : \E j \in DOMAIN rows : MicroBatches(rows)[m][k] = rows[j]
<1> DEFINE c == config.micro
           M == Len(rows) \div c
           b == [m \in 1..M |-> SubSeq(rows, (m - 1) * c + 1, m * c)]
           D == DOMAIN files
<1>1. c \in Nat \ {0}
  BY ConfigFields
<1> HIDE DEF c, D
<1>2. rows \in Seq(D) /\ Len(rows) \in Nat
  BY DEF D
<1>3. M \in Nat /\ Len(rows) = c * M + (Len(rows) % c) /\ Len(rows) % c \in Nat
  <2> DEFINE a == Len(rows)
  <2>0. a \in Nat
    BY <1>2
  <2> HIDE DEF a
  <2>1. a \div c \in Nat /\ a % c \in 0..(c - 1) /\ a = c * (a \div c) + (a % c)
    BY <1>1, <2>0, Division
  <2>2. a % c \in Nat
    BY <1>1, <2>1
  <2> QED BY <2>1, <2>2 DEF a
<1>4. MicroBatches(rows) = b
  <2>1. M \in Nat /\ b = [m \in 1..M |-> b[m]]
    BY <1>3
  <2>2. MicroBatches(rows) = Each(b)
    BY DEF MicroBatches, c
  <2> HIDE DEF b, M
  <2> QED BY <2>1, <2>2, EachIs
<1>5. ASSUME NEW m \in 1..M
      PROVE  /\ b[m] \in Seq(D) /\ Len(b[m]) = c
             /\ \A k \in 1..c : \E j \in DOMAIN rows : b[m][k] = rows[j]
  <2> DEFINE x == (m - 1) * c
             y == m * c
             p == SubSeq(rows, x + 1, y)
  <2>1. x \in Nat /\ y = x + c /\ y <= Len(rows)
    <3>1. m - 1 \in Nat /\ m \in Nat /\ m - 1 < M
      BY <1>3
    <3>2. c * (m - 1) + c <= c * M
      BY <1>1, <1>3, <3>1, ProductGrows
    <3>3. (m - 1) * c = c * (m - 1) /\ m * c = c * (m - 1) + c
      BY <1>1, <3>1
    <3>4. c * (m - 1) \in Nat /\ c * M \in Nat
      BY <1>1, <1>3, <3>1
    <3> HIDE DEF M
    <3> QED BY <1>1, <1>2, <1>3, <3>2, <3>3, <3>4
  <2>2. b[m] = p
    OBVIOUS
  <2> HIDE DEF x, y, b, M
  <2>3. /\ p \in Seq(D) /\ Len(p) = c
        /\ \A k \in 1..c : p[k] = rows[x + k] /\ x + k \in DOMAIN rows
    <3>1. x + 1 \in 1..(Len(rows) + 1) /\ y \in 0..Len(rows)
      BY <1>1, <1>2, <2>1
    <3>2. p \in Seq(D) /\ Len(p) = (y - (x + 1)) + 1
      BY <1>1, <1>2, <2>1, <3>1
    <3>3. \A k \in 1..((y - (x + 1)) + 1) : p[k] = rows[(x + 1) + k - 1]
      BY <1>1, <1>2, <2>1, <3>1
    <3>4. (y - (x + 1)) + 1 = c /\ \A k \in 1..c : (x + 1) + k - 1 = x + k /\ x + k \in 1..Len(rows)
      BY <1>1, <1>2, <2>1
    <3>5. DOMAIN rows = 1..Len(rows)
      BY <1>2
    <3> HIDE DEF p
    <3> QED BY <3>2, <3>3, <3>4, <3>5
  <2> QED BY <2>2, <2>3
<1> HIDE DEF b, M
<1>6. /\ M \in Nat /\ DOMAIN MicroBatches(rows) = 1..M
      /\ \A m \in 1..M : /\ MicroBatches(rows)[m] \in Seq(D) /\ Len(MicroBatches(rows)[m]) = c
                        /\ \A k \in 1..c : \E j \in DOMAIN rows : MicroBatches(rows)[m][k] = rows[j]
  <2>1. DOMAIN b = 1..M
    BY DEF b
  <2> QED BY <1>3, <1>4, <1>5, <2>1
<1> QED BY <1>6 DEF M, c, D

\* The tokens of some rows are those of each.
LEMMA ValidIs ==
  ASSUME Fits, NEW rows \in Seq(DOMAIN files)
  PROVE  /\ ValidTokens(rows) = SumSeq([k \in DOMAIN rows |-> RowTokens(rows[k])])
         /\ ValidTokens(rows) \in Nat
         /\ \A k \in DOMAIN rows : RowTokens(rows[k]) <= ValidTokens(rows)
<1> DEFINE s == [k \in DOMAIN rows |-> RowTokens(rows[k])]
           n == Len(rows)
<1>1. n \in Nat /\ DOMAIN rows = 1..n /\ \A k \in 1..n : rows[k] \in DOMAIN files
  OBVIOUS
<1>2. ValidTokens(rows) = SumSeq(s)
  <2> DEFINE x == [k \in DOMAIN rows |-> SubSeq(LossMask(rows[k]), 1, MaxLength - 1)]
  <2>1. RowSum(x) = s
    BY DEF RowSum, RowTokens
  <2> HIDE DEF s, x
  <2> QED BY <2>1 DEF ValidTokens, MatrixSum, x
<1>3. DOMAIN s = 1..n /\ \A k \in 1..n : s[k] = RowTokens(rows[k]) /\ s[k] \in Nat
  BY <1>1, RowTokensAre
<1> HIDE DEF s, n
<1> QED BY <1>1, <1>2, <1>3, SumOfNats DEF s

\* Each rank has the micro-batches of its group, in the same number, of rows that fit.
Pulled(rows) ==
  /\ \A d \in 0..(config.dp - 1) :
       /\ rows[d] \in Seq(DOMAIN files) /\ Len(rows[d]) = BatchSize
       /\ config.truncation = "error" =>
            \A j \in DOMAIN rows[d] : ~ TooLong(rows[d][j])
  /\ pull = [r \in Ranks |-> MicroBatches(rows[DataRank(r)])]

\* A rank has a place in its group.
LEMMA RankPlace ==
  ASSUME Fits
  PROVE  /\ World = config.sp * config.dp /\ World \in Nat \ {0}
         /\ \A r \in Ranks : DataRank(r) \in 0..(config.dp - 1)
         /\ \A d \in 0..(config.dp - 1), j \in 0..(config.sp - 1) :
              config.sp * d + j \in Ranks /\ DataRank(config.sp * d + j) = d
<1> DEFINE D == config.dp
           S == config.sp
<1>1. D \in Nat \ {0} /\ S \in Nat \ {0}
  BY ConfigFields
<1> HIDE DEF D, S
<1>2. S * D \in Nat \ {0} /\ D * S = S * D
  <2>1. S * 0 + S <= S * D
    BY <1>1, ProductGrows
  <2> QED BY <1>1, <2>1
<1>3. World = S * D
  BY <1>2 DEF World, D, S
<1>4. ASSUME NEW r \in 0..(S * D - 1) PROVE r \div S \in 0..(D - 1)
  <2> DEFINE q == r \div S
             t == S * q
  <2>1. q \in Nat /\ r % S \in Nat /\ r = t + (r % S)
    BY <1>1, <1>2, Division
  <2> HIDE DEF q
  <2>2. q < D
    <3>1. CASE D < q
      <4>1. S * D + S <= t
        BY <1>1, <2>1, <3>1, ProductGrows
      <4>2. t \in Nat
        BY <1>1, <2>1
      <4> HIDE DEF t
      <4> QED BY <1>1, <1>2, <2>1, <4>1, <4>2
    <3>2. CASE D = q
      <4> HIDE DEF t
      <4>1. t = S * D
        BY <3>2 DEF t
      <4> QED BY <1>2, <2>1, <4>1
    <3> QED BY <1>1, <2>1, <3>1, <3>2
  <2> QED BY <1>1, <2>1, <2>2 DEF q
<1>5. ASSUME NEW d \in 0..(D - 1), NEW j \in 0..(S - 1)
      PROVE  S * d + j \in 0..(S * D - 1) /\ (S * d + j) \div S = d
  <2>1. d \in Nat /\ d < D
    BY <1>1
  <2>2. S * d + S <= S * D /\ S * d \in Nat
    BY <1>1, <2>1, ProductGrows
  <2> QED BY <1>1, <1>2, <2>1, <2>2, DivisionIsUnique
<1> QED BY <1>2, <1>3, <1>4, <1>5 DEF Ranks, DataRank, D, S

\* The loss of a step is a mean over the response tokens of its micro-batches.
LEMMA StepIsAMean ==
  ASSUME Fits, NEW rows, Pulled(rows)
  PROVE  LossIsAMean
<1> SUFFICES ASSUME config.truncation # "left", NEW r \in DOMAIN pull, NEW m \in DOMAIN pull[r]
             PROVE  IF Den(r, m) = 0 THEN \E i \in Range(pull[r][m]) : PromptLength(i) >= MaxLength
                    ELSE IF config.balance
                         THEN /\ \A q \in DOMAIN pull : Den(q, m) = Den(r, m)
                              /\ config.sp = 1 => Den(r, m) = Num * LearnedByGroups(m)
                         ELSE Den(r, m) = Num * config.dp * Learned(r, m)
  BY DEF LossIsAMean
<1> DEFINE D == config.dp
           S == config.sp
           c == config.micro
           b(d) == MicroBatches(rows[d])[m]
           v(d) == ValidTokens(b(d))
           t == [k \in 1..D |-> v(k - 1)]
<1>1. D \in Nat \ {0} /\ S \in Nat \ {0} /\ c \in Nat \ {0} /\ config.balance \in BOOLEAN
  BY ConfigFields
<1>2. r \in Ranks /\ DataRank(r) \in 0..(D - 1)
  BY RankPlace DEF Pulled
<1>3. \A q \in Ranks : DataRank(q) \in 0..(D - 1) /\ pull[q][m] = b(DataRank(q))
  BY RankPlace DEF Pulled
<1>4. ASSUME NEW d \in 0..(D - 1)
      PROVE  /\ b(d) \in Seq(DOMAIN files) /\ Len(b(d)) = c
             /\ \A k \in 1..c : \E j \in DOMAIN rows[d] : b(d)[k] = rows[d][j]
  <2>1. rows[d] \in Seq(DOMAIN files) /\ Len(rows[d]) = BatchSize
    BY DEF Pulled
  <2>2. m \in 1..(BatchSize \div c)
    <3>1. pull[r] = MicroBatches(rows[DataRank(r)])
      BY <1>2 DEF Pulled
    <3>2. /\ rows[DataRank(r)] \in Seq(DOMAIN files) /\ Len(rows[DataRank(r)]) = BatchSize
      BY <1>2 DEF Pulled
    <3>3. DOMAIN MicroBatches(rows[DataRank(r)]) = 1..(Len(rows[DataRank(r)]) \div c)
      BY <3>2, MicroIs
    <3> QED BY <3>1, <3>2, <3>3
  <2> QED BY <2>1, <2>2, MicroIs
<1>5. ASSUME NEW d \in 0..(D - 1)
      PROVE  /\ v(d) = SumSeq([k \in DOMAIN b(d) |-> RowTokens(b(d)[k])]) /\ v(d) \in Nat
             /\ RowTokens(b(d)[1]) <= v(d)
             /\ b(d)[1] \in Range(b(d)) /\ b(d)[1] \in DOMAIN files
  <2>1. b(d) \in Seq(DOMAIN files) /\ 1 \in DOMAIN b(d)
    BY <1>1, <1>4
  <2> HIDE DEF b
  <2> QED BY <2>1, ValidIs DEF Range
<1>6. ASSUME NEW d \in 0..(D - 1), v(d) = 0
      PROVE  \E i \in Range(b(d)) : PromptLength(i) >= MaxLength
  <2>1. RowTokens(b(d)[1]) = 0
    <3>1. RowTokens(b(d)[1]) \in Nat
      BY <1>5, RowTokensAre
    <3>2. RowTokens(b(d)[1]) <= 0
      BY <1>5, <1>6
    <3> HIDE DEF b
    <3> QED BY <3>1, <3>2
  <2> HIDE DEF b, v
  <2> QED BY <1>5, <2>1, NoTokens
<1>7. ASSUME NEW q \in Ranks PROVE Learned(q, m) = v(DataRank(q))
  <2> DEFINE d == DataRank(q)
  <2>1. d \in 0..(D - 1) /\ pull[q][m] = b(d)
    BY <1>3
  <2>2. ASSUME NEW k \in DOMAIN b(d) PROVE Cardinality(Expected(b(d)[k])) = RowTokens(b(d)[k])
    <3>1. b(d) \in Seq(DOMAIN files) /\ k \in 1..c /\ b(d)[k] \in DOMAIN files
      <4>1. b(d) \in Seq(DOMAIN files) /\ Len(b(d)) = c
        BY <1>4, <2>1
      <4> HIDE DEF b
      <4> QED BY <2>2, <4>1
    <3>2. PICK j \in DOMAIN rows[d] : b(d)[k] = rows[d][j]
      BY <1>4, <2>1, <3>1
    <3>3. config.truncation = "error" => ~ TooLong(b(d)[k])
      BY <2>1, <3>2 DEF Pulled
    <3> HIDE DEF b
    <3> QED BY <3>1, <3>3, RowIsLearned
  <2>3. [k \in DOMAIN b(d) |-> Cardinality(Expected(b(d)[k]))] = [k \in DOMAIN b(d) |-> RowTokens(b(d)[k])]
    BY <2>2
  <2> HIDE DEF b
  <2> QED BY <1>5, <2>1, <2>3 DEF Learned, d
<1>8. DOMAIN t = 1..D /\ (\A k \in 1..D : t[k] = v(k - 1) /\ t[k] \in Nat)
  <2>1. \A k \in 1..D : k - 1 \in 0..(D - 1)
    BY <1>1
  <2> HIDE DEF v
  <2> QED BY <1>5, <2>1
<1> DEFINE s == [k \in 1..World |-> ValidTokens(pull[k - 1][m])]
<1>9. SumSeq(s) = S * SumSeq(t)
  <2>1. World = S * D /\ DOMAIN s = 1..(S * D)
    BY RankPlace
  <2>2. ASSUME NEW d \in 0..(D - 1), NEW j \in 1..S PROVE s[S * d + j] = t[d + 1]
    <3>1. j - 1 \in 0..(S - 1) /\ d + 1 \in 1..D /\ (d + 1) - 1 = d /\ S * d \in Nat
      BY <1>1
    <3>2. S * d + (j - 1) \in Ranks /\ DataRank(S * d + (j - 1)) = d
      BY <3>1, RankPlace
    <3>3. S * d + (j - 1) = (S * d + j) - 1 /\ S * d + j \in 1..World
      <4> DEFINE a == S * d
      <4>1. a \in Nat /\ j \in Nat /\ World \in Nat
        BY <1>1, <3>1, RankPlace
      <4>2. a + (j - 1) \in 0..(World - 1)
        BY <3>2 DEF Ranks
      <4> HIDE DEF a
      <4>3. a + (j - 1) = (a + j) - 1 /\ a + j \in 1..World
        BY <4>1, <4>2
      <4> QED BY <4>3 DEF a
    <3>4. pull[(S * d + j) - 1][m] = b(d)
      BY <1>3, <3>2, <3>3
    <3>5. t[d + 1] = v(d)
      BY <1>8, <3>1
    <3> QED BY <3>3, <3>4, <3>5
  <2>3. \A d \in 0..(D - 1) : t[d + 1] \in Nat
    <3>1. \A d \in 0..(D - 1) : d + 1 \in 1..D
      BY <1>1
    <3> QED BY <1>8, <3>1
  <2>4. DOMAIN t = 1..D
    BY <1>8
  <2> HIDE DEF s, t, D, S
  <2>5. D \in Nat
    BY <1>1
  <2>6. \A d \in 0..(D - 1) : \A j \in 1..S : s[S * d + j] = t[d + 1]
    BY <2>2
  <2>7. S \in Nat \ {0} /\ DOMAIN s = 1..(S * D)
    BY <1>1, <2>1
  <2>8. Grouped(S, D, s, t)
    BY <2>3, <2>4, <2>5, <2>6, <2>7 DEF Grouped
  <2> QED BY <2>8, SumOfGroups
<1>10. SumSeq(t) \in Nat /\ \A k \in 1..D : t[k] <= SumSeq(t)
  <2> HIDE DEF t, D
  <2> QED BY <1>1, <1>8, SumOfNats
<1>11. LearnedByGroups(m) = SumSeq(t)
  <2>1. ASSUME NEW k \in 1..D PROVE Learned((k - 1) * S, m) = v(k - 1)
    <3>1. k - 1 \in 0..(D - 1) /\ 0 \in 0..(S - 1) /\ S * (k - 1) + 0 = (k - 1) * S
      BY <1>1
    <3>2. (k - 1) * S \in Ranks /\ DataRank((k - 1) * S) = k - 1
      BY <3>1, RankPlace
    <3> HIDE DEF v
    <3> QED BY <1>7, <3>2
  <2>2. [k \in 1..D |-> Learned((k - 1) * S, m)] = t
    BY <2>1
  <2> HIDE DEF t
  <2> QED BY <2>2 DEF LearnedByGroups
<1>12. World = S * D /\ World \in Nat \ {0}
  BY RankPlace
<1>13. Divisor(r, m) = IF config.balance THEN S * SumSeq(t) ELSE v(DataRank(r))
  BY <1>2, <1>3, <1>9 DEF Divisor
<1>14. pull[r][m] = b(DataRank(r)) /\ v(DataRank(r)) \in Nat /\ Learned(r, m) = v(DataRank(r))
  BY <1>2, <1>3, <1>5, <1>7
<1> DEFINE sum == SumSeq(t)
           o == v(DataRank(r))
<1>15. sum \in Nat /\ o \in Nat /\ (sum = 0 => o = 0)
  <2>1. DataRank(r) + 1 \in 1..D /\ (DataRank(r) + 1) - 1 = DataRank(r)
    BY <1>1, <1>2
  <2>2. o <= sum
    BY <1>8, <1>10, <2>1
  <2> HIDE DEF sum, o
  <2> QED BY <1>10, <1>14, <2>2 DEF sum, o
<1>16. Num = (IF ~config.balance THEN 1 ELSE IF S > 1 THEN D ELSE World) * S
  BY DEF Num, DpSize, GatherScale
<1>17. CASE config.balance
  <2>1. Den(r, m) = (S * sum) * World
    BY <1>13, <1>17 DEF Den
  <2>2. Den(r, m) = 0 => sum = 0
    <3> HIDE DEF sum
    <3>1. sum # 0 => (S * sum) * World # 0
      BY <1>1, <1>12, <1>15, NoZero
    <3> QED BY <2>1, <3>1
  <2>3. Den(r, m) = Num * S * sum
    <3>1. Num = D * S
      <4>1. S > 1 \/ S = 1
        BY <1>1
      <4>2. S = 1 => World = D
        BY <1>1, <1>12
      <4> QED BY <1>16, <1>17, <4>1, <4>2
    <3> HIDE DEF sum, D, S
    <3>2. (S * sum) * (S * D) = D * S * S * sum
      BY <1>1, <1>15, Rearranged
    <3> QED BY <1>12, <2>1, <3>1, <3>2
  <2>4. S = 1 => Den(r, m) = Num * sum
    <3> HIDE DEF sum
    <3>1. Num \in Nat
      BY <1>1, <1>12, <1>16
    <3>2. Num * 1 = Num
      BY <3>1
    <3> QED BY <2>3, <3>2
  <2>5. \A q \in DOMAIN pull : Den(q, m) = Den(r, m)
    BY <1>17 DEF Den, Divisor
  <2> HIDE DEF b, v, sum
  <2> QED BY <1>2, <1>6, <1>11, <1>14, <1>15, <1>17, <2>2, <2>4, <2>5 DEF sum
<1>18. CASE ~ config.balance
  <2>1. Den(r, m) = o * World
    BY <1>13, <1>18 DEF Den
  <2>2. Den(r, m) = 0 => o = 0
    <3> HIDE DEF o
    <3>1. o # 0 => (1 * o) * World # 0 /\ 1 * o = o
      BY <1>12, <1>15, NoZero
    <3> QED BY <2>1, <3>1
  <2>3. Den(r, m) = Num * D * o
    <3>1. Num = S
      BY <1>1, <1>16, <1>18
    <3> HIDE DEF o, D, S
    <3>2. o * (S * D) = S * D * o
      BY <1>1, <1>15
    <3> QED BY <1>12, <2>1, <3>1, <3>2
  <2> HIDE DEF b, v
  <2> QED BY <1>2, <1>6, <1>14, <1>18, <2>2, <2>3
<1> QED BY <1>1, <1>17, <1>18

-----------------------------------------------------------------------------
(* The inductive invariant. *)

\* The batch sizes divide.
Divides == config.batch % config.dp = 0 /\ BatchSize % config.micro = 0

\* The rows of a rank.
ShareSize == Len(files) \div config.dp

\* The first n rows that group d is dealt.
FirstRows(d, n) == [k \in 1..n |-> order[(k - 1) * config.dp + d + 1]]

\* The sampler's order has each row once.
Ordered == order \in [DOMAIN files -> DOMAIN files] /\ IsInjective(order)

\* No rank goes on from its start when the sizes do not divide.
GoInv ==
  /\ at = [r \in Ranks |-> at[r]]
  /\ Divides \/ \A r \in Ranks : at[r] \in {"start", "raised"}

\* In this epoch each rank has trained the first n batches of its share, and may train another.
Trained(n) ==
  /\ seen = [r \in Ranks |-> FirstRows(DataRank(r), n * BatchSize)]
  /\ n * BatchSize <= ShareSize
  /\ n = 0 \/ Ordered
  /\ All("train") => Ordered /\ n < StepsPerEpoch
SeenInv == \E n \in Nat : Trained(n)

\* The last step was on the same rows in all ranks of a group.
PullInv == pull = <<>> \/ \E rows : Pulled(rows)

IInv == Fits /\ GoInv /\ SeenInv /\ PullInv

\* A batch has rows.
LEMMA BatchHasRows ==
  ASSUME Fits
  PROVE  /\ BatchSize \in Nat /\ (Divides => BatchSize # 0) /\ ShareSize \in Nat /\ Len(files) \in Nat
         /\ config.dp * ShareSize <= Len(files)
         /\ BatchSize # 0 => StepsPerEpoch \in Nat /\ BatchSize * StepsPerEpoch <= ShareSize
<1> DEFINE D == config.dp
           L == Len(files)
           a == config.batch
<1>1. D \in Nat \ {0} /\ a \in Nat \ {0} /\ L \in Nat
  BY ConfigFields
<1> HIDE DEF D, L, a
<1>2. /\ a \div D \in Nat /\ a % D \in 0..(D - 1) /\ a = D * (a \div D) + (a % D)
  BY <1>1, Division
<1>3. a % D = 0 => a \div D # 0
  <2>1. a \div D = 0 => D * (a \div D) = 0
    BY <1>1
  <2> QED BY <1>1, <1>2, <2>1
<1>4. /\ L \div D \in Nat /\ L % D \in 0..(D - 1) /\ L = D * (L \div D) + (L % D)
  BY <1>1, Division
<1>5. D * (L \div D) <= L
  <2> DEFINE x == D * (L \div D)
  <2>1. x \in Nat
    BY <1>1, <1>4
  <2> HIDE DEF x
  <2>2. L = x + (L % D) /\ L % D \in Nat
    BY <1>1, <1>4 DEF x
  <2>3. x <= L
    BY <2>1, <2>2
  <2> QED BY <2>3 DEF x
<1>6. ASSUME NEW m \in Nat \ {0}, NEW y \in Nat
      PROVE  y \div m \in Nat /\ m * (y \div m) <= y
  <2> DEFINE x == m * (y \div m)
  <2>1. y \div m \in Nat /\ y % m \in 0..(m - 1) /\ y = x + (y % m)
    BY Division
  <2>2. x \in Nat
    BY <2>1
  <2> HIDE DEF x
  <2>3. x <= y
    BY <2>1, <2>2
  <2> QED BY <2>1, <2>3 DEF x
<1>7. BatchSize = a \div D /\ ShareSize = L \div D /\ StepsPerEpoch = ShareSize \div BatchSize
  BY DEF BatchSize, ShareSize, StepsPerEpoch, a, D, L
<1>8. BatchSize # 0 => StepsPerEpoch \in Nat /\ BatchSize * StepsPerEpoch <= ShareSize
  BY <1>2, <1>4, <1>6, <1>7
<1> QED BY <1>1, <1>2, <1>3, <1>4, <1>5, <1>7, <1>8 DEF Divides, D, L, a

\* Each row of a share has a place in the order of its own.
LEMMA SharePlace ==
  ASSUME Fits, NEW d \in 0..(config.dp - 1), NEW k \in 1..ShareSize
  PROVE  /\ (k - 1) * config.dp + d + 1 \in DOMAIN files
         /\ \A e \in 0..(config.dp - 1), j \in 1..ShareSize :
              (k - 1) * config.dp + d + 1 = (j - 1) * config.dp + e + 1 => d = e /\ k = j
<1> DEFINE D == config.dp
           N == ShareSize
<1>1. D \in Nat \ {0} /\ N \in Nat /\ Len(files) \in Nat /\ D * N <= Len(files)
  BY ConfigFields, BatchHasRows
<1>2. d \in 0..(D - 1) /\ k \in 1..N
  OBVIOUS
<1>3. DOMAIN files = 1..Len(files)
  <2> DEFINE R == [prompt : Nat \ {0}, response : Nat \ {0}]
  <2>1. files \in Seq(R)
    BY ConfigFields
  <2> HIDE DEF R
  <2> QED BY <2>1
<1> HIDE DEF D, N
<1>4. (k - 1) * D + d + 1 \in 1..Len(files)
  <2> DEFINE x == D * (k - 1)
             y == D * N
  <2>1. k - 1 \in Nat /\ k - 1 < N
    BY <1>1, <1>2
  <2>2. x + D <= y
    BY <1>1, <2>1, ProductGrows
  <2>3. (k - 1) * D = x /\ x \in Nat /\ y \in Nat /\ y <= Len(files)
    BY <1>1, <2>1
  <2> HIDE DEF x, y
  <2>4. x + d + 1 \in 1..Len(files)
    BY <1>1, <1>2, <2>2, <2>3
  <2> QED BY <2>3, <2>4
<1>5. ASSUME NEW e \in 0..(D - 1), NEW j \in 1..N, (k - 1) * D + d + 1 = (j - 1) * D + e + 1
      PROVE  d = e /\ k = j
  <2> DEFINE p == k - 1
             q == j - 1
  <2>1. p \in Nat /\ q \in Nat
    BY <1>1, <1>2
  <2>2. D * p + d = D * q + e
    <3>1. p * D = D * p /\ q * D = D * q /\ D * p \in Nat /\ D * q \in Nat
      BY <1>1, <2>1
    <3> DEFINE x == D * p
               y == D * q
    <3>2. x + d + 1 = y + e + 1 /\ x \in Nat /\ y \in Nat
      BY <1>5, <3>1
    <3> HIDE DEF x, y
    <3>3. x + d = y + e
      BY <1>1, <1>2, <1>5, <3>2
    <3> QED BY <3>3 DEF x, y
  <2> HIDE DEF p, q
  <2>3. (D * p + d) \div D = p /\ (D * p + d) % D = d
    BY <1>1, <1>2, <2>1, DivisionIsUnique
  <2>4. (D * q + e) \div D = q /\ (D * q + e) % D = e
    BY <1>1, <1>5, <2>1, DivisionIsUnique
  <2>5. p = q /\ d = e
    BY <2>2, <2>3, <2>4
  <2> QED BY <1>1, <1>2, <2>5 DEF p, q
<1> QED BY <1>3, <1>4, <1>5 DEF D, N

\* What a group is dealt are rows.
LEMMA DealtIs ==
  ASSUME Fits, Ordered, NEW d \in 0..(config.dp - 1), NEW n \in Nat, n <= ShareSize
  PROVE  FirstRows(d, n) \in Seq(DOMAIN files) /\ Len(FirstRows(d, n)) = n
<1>1. \A k \in 1..n : order[(k - 1) * config.dp + d + 1] \in DOMAIN files
  <2> SUFFICES ASSUME NEW k \in 1..n PROVE order[(k - 1) * config.dp + d + 1] \in DOMAIN files
    OBVIOUS
  <2>1. k \in 1..ShareSize
    BY BatchHasRows
  <2>2. (k - 1) * config.dp + d + 1 \in DOMAIN files
    BY <2>1, SharePlace
  <2> QED BY <2>2 DEF Ordered
<1> DEFINE u == FirstRows(d, n)
           X == DOMAIN files
<1>2. u = [k \in 1..n |-> u[k]] /\ \A k \in 1..n : u[k] \in X
  BY <1>1 DEF FirstRows
<1> HIDE DEF u, X
<1>3. u \in Seq(X) /\ Len(u) = n
  BY <1>2
<1> QED BY <1>3 DEF u, X

\* The next batch are the rows that come next.
LEMMA NextBatch ==
  ASSUME Fits, Ordered, NEW d \in 0..(config.dp - 1), NEW k \in Nat, NEW n \in Nat, k + n <= ShareSize
  PROVE  /\ SubSeq(Share(d), k + 1, k + n) \in Seq(DOMAIN files)
         /\ Len(SubSeq(Share(d), k + 1, k + n)) = n
         /\ FirstRows(d, k) \o SubSeq(Share(d), k + 1, k + n) = FirstRows(d, k + n)
<1> DEFINE X == DOMAIN files
           u == FirstRows(d, k)
           v == Share(d)
           w == FirstRows(d, k + n)
           p == SubSeq(v, k + 1, k + n)
           N == ShareSize
<1>1. N \in Nat
  BY BatchHasRows
<1>2. u \in Seq(X) /\ Len(u) = k
  BY <1>1, DealtIs
<1>3. v \in Seq(X) /\ Len(v) = N /\ v = FirstRows(d, N)
  <2>1. v = FirstRows(d, N)
    BY DEF Share, FirstRows, ShareSize
  <2> HIDE DEF v
  <2> QED BY <1>1, <2>1, DealtIs
<1>4. w \in Seq(X) /\ Len(w) = k + n
  <2>1. k + n \in Nat
    OBVIOUS
  <2> QED BY <2>1, DealtIs
<1>5. /\ \A i \in 1..k : u[i] = w[i]
      /\ \A i \in 1..n : v[k + i] = w[k + i]
  <2>1. \A i \in 1..k : i \in 1..(k + n)
    OBVIOUS
  <2>2. \A i \in 1..n : k + i \in 1..(k + n) /\ k + i \in 1..N
    BY <1>1
  <2>3. v = FirstRows(d, N)
    BY <1>3
  <2> HIDE DEF v, N
  <2> QED BY <2>1, <2>2, <2>3 DEF FirstRows
<1> HIDE DEF X, u, v, w, N
<1>6. k + n <= N
  BY DEF N
<1>7. p \in Seq(X) /\ Len(p) = n /\ \A i \in 1..n : p[i] = v[k + i]
  <2>1. k + 1 \in 1..(N + 1) /\ k + n \in 0..N
    BY <1>1, <1>6
  <2>2. p \in Seq(X) /\ Len(p) = ((k + n) - (k + 1)) + 1
    BY <1>3, <2>1
  <2>3. \A i \in 1..(((k + n) - (k + 1)) + 1) : p[i] = v[(k + 1) + i - 1]
    BY <1>3, <2>1
  <2>4. ((k + n) - (k + 1)) + 1 = n /\ \A i \in 1..n : (k + 1) + i - 1 = k + i
    OBVIOUS
  <2> HIDE DEF p
  <2> QED BY <2>2, <2>3, <2>4
<1> HIDE DEF p
<1>8. u \o p = w
  <2> DEFINE y == u \o p
  <2>1. y \in Seq(X) /\ Len(y) = k + n
    BY <1>2, <1>7
  <2>2. ASSUME NEW i \in 1..(k + n) PROVE y[i] = w[i]
    <3>1. CASE i <= k
      <4>1. i \in 1..k /\ y[i] = u[i]
        BY <1>2, <1>7, <3>1
      <4> HIDE DEF y
      <4> QED BY <1>5, <4>1
    <3>2. CASE i > k
      <4>1. i - k \in 1..n /\ k + (i - k) = i /\ y[i] = p[i - k]
        BY <1>2, <1>7, <3>2
      <4>2. p[i - k] = v[k + (i - k)] /\ v[k + (i - k)] = w[k + (i - k)]
        BY <1>5, <1>7, <4>1
      <4> HIDE DEF y
      <4> QED BY <4>1, <4>2
    <3> HIDE DEF y
    <3> QED BY <3>1, <3>2
  <2> HIDE DEF y
  <2>3. y = w
    BY <1>4, <2>1, <2>2, SeqEqual
  <2> QED BY <2>3 DEF y
<1> QED BY <1>7, <1>8 DEF X, u, v, w, p

-----------------------------------------------------------------------------
(* It holds. *)

\* Rank 0 is there, so that all ranks are at one place only.
LEMMA OnePlace ==
  ASSUME Fits, NEW here, NEW there, All(here), All(there)
  PROVE  here = there
<1>1. 0 \in Ranks
  BY RankPlace DEF Ranks
<1> QED BY <1>1 DEF All

\* A step that changes nothing that is dealt, and does not bring the ranks to train.
LEMMA Rests ==
  ASSUME IInv, UNCHANGED <<config, files, order, seen, pull>>,
         at' = [r \in Ranks |-> at'[r]],
         Divides \/ \A r \in Ranks : at'[r] \in {"start", "raised"},
         \E r \in Ranks : at'[r] # "train"
  PROVE  IInv'
<1>1. Fits' /\ Ranks' = Ranks
  BY DEF IInv, Fits, Ranks, World
<1>2. GoInv'
  BY <1>1 DEF GoInv, Divides, BatchSize
<1>3. SeenInv'
  <2>1. PICK n \in Nat : Trained(n)
    BY DEF IInv, SeenInv
  <2>2. ~ All("train")'
    BY <1>1 DEF All
  <2>3. Ordered' = Ordered /\ ShareSize' = ShareSize /\ BatchSize' = BatchSize
    BY DEF Ordered, ShareSize, BatchSize
  <2>4. [r \in Ranks |-> FirstRows(DataRank(r), n * BatchSize)]'
          = [r \in Ranks |-> FirstRows(DataRank(r), n * BatchSize)]
    BY <1>1 DEF FirstRows, DataRank, BatchSize
  <2>5. Trained(n)'
    BY <2>1, <2>2, <2>3, <2>4 DEF Trained
  <2> QED BY <2>5 DEF SeenInv
<1>4. PullInv'
  <2>1. CASE pull = <<>>
    BY <2>1 DEF PullInv
  <2>2. CASE pull # <<>>
    <3>1. PICK rows : Pulled(rows)
      BY <2>2 DEF IInv, PullInv
    <3>2. Pulled(rows)'
      BY <1>1, <3>1 DEF Pulled, BatchSize, TooLong, Text, PromptLength, ResponseLength, MicroBatches,
                        DataRank
    <3> QED BY <3>2 DEF PullInv
  <2> QED BY <2>1, <2>2
<1> QED BY <1>1, <1>2, <1>3, <1>4 DEF IInv

\* It holds at the start.
LEMMA InitHolds == Init => IInv
<1> SUFFICES ASSUME Init PROVE IInv
  OBVIOUS
<1>1. Fits
  BY DEF Init, Fits
<1>2. 0 \in Ranks
  BY <1>1, RankPlace DEF Ranks
<1>3. GoInv
  BY DEF Init, GoInv
<1>4. Trained(0)
  <2>1. BatchSize \in Nat /\ ShareSize \in Nat
    BY <1>1, BatchHasRows
  <2>2. 0 * BatchSize = 0
    BY <2>1
  <2>3. \A r \in Ranks : FirstRows(DataRank(r), 0) = <<>>
    BY DEF FirstRows
  <2>4. ~ All("train")
    BY <1>2 DEF Init, All
  <2> QED BY <2>1, <2>2, <2>3, <2>4 DEF Init, Trained
<1> QED BY <1>1, <1>3, <1>4 DEF Init, IInv, SeenInv, PullInv

\* It is kept when an epoch begins.
LEMMA BeginEpochKeeps ==
  ASSUME IInv, BeginEpoch
  PROVE  IInv'
<1>1. Fits /\ Fits' /\ Ranks' = Ranks
  BY DEF IInv, BeginEpoch, Fits, Ranks, World
<1>2. 0 \in Ranks
  BY <1>1, RankPlace DEF Ranks
<1>3. Divides
  BY <1>2 DEF IInv, GoInv, BeginEpoch, All
<1>4. GoInv'
  BY <1>1, <1>3 DEF GoInv, Divides, BatchSize, BeginEpoch, AllGo
<1>5. Trained(0)'
  <2>1. BatchSize \in Nat /\ ShareSize \in Nat /\ StepsPerEpoch \in Nat
    BY <1>1, <1>3, BatchHasRows
  <2>2. BatchSize' = BatchSize /\ ShareSize' = ShareSize /\ StepsPerEpoch' = StepsPerEpoch
    BY DEF BeginEpoch, BatchSize, ShareSize, StepsPerEpoch
  <2>3. 0 * BatchSize = 0
    BY <2>1
  <2>4. Ordered'
    BY DEF BeginEpoch, Ordered
  <2>5. \A r \in Ranks : FirstRows(DataRank(r), 0)' = <<>>
    BY DEF FirstRows
  <2>6. seen' = [r \in Ranks |-> FirstRows(DataRank(r), 0)]'
    BY <1>1, <2>5 DEF BeginEpoch
  <2>7. All("train")' => 0 < StepsPerEpoch'
    <3>1. StepsPerEpoch = 0 => at'[0] = "validate"
      BY <1>2 DEF BeginEpoch, AllGo
    <3>2. All("train")' => at'[0] = "train"
      BY <1>1, <1>2 DEF All
    <3> QED BY <2>1, <2>2, <3>1, <3>2
  <2>8. (0 * BatchSize)' = 0
    BY <2>2, <2>3
  <2> QED BY <2>1, <2>2, <2>4, <2>6, <2>7, <2>8 DEF Trained
<1>6. PullInv'
  <2>1. CASE pull = <<>>
    BY <2>1 DEF PullInv, BeginEpoch
  <2>2. CASE pull # <<>>
    <3>1. PICK rows : Pulled(rows)
      BY <2>2 DEF IInv, PullInv
    <3>2. Pulled(rows)'
      BY <1>1, <3>1 DEF Pulled, BatchSize, TooLong, Text, PromptLength, ResponseLength, MicroBatches,
                        DataRank, BeginEpoch
    <3> QED BY <3>2 DEF PullInv
  <2> QED BY <2>1, <2>2
<1>7. SeenInv'
  BY <1>5 DEF SeenInv
<1> QED BY <1>1, <1>4, <1>6, <1>7 DEF IInv

\* It is kept when the ranks train.
LEMMA TrainingStepKeeps ==
  ASSUME IInv, TrainingStep
  PROVE  IInv'
<1>1. Fits /\ Fits' /\ Ranks' = Ranks
  BY DEF IInv, TrainingStep, Fits, Ranks, World
<1>2. 0 \in Ranks
  BY <1>1, RankPlace DEF Ranks
<1>3. Divides /\ All("train")
  BY <1>2 DEF IInv, GoInv, TrainingStep, All
<1>4. GoInv'
  BY <1>1, <1>3 DEF GoInv, Divides, BatchSize, TrainingStep, AllGo
<1>5. PICK n \in Nat : Trained(n)
  BY DEF IInv, SeenInv
<1> DEFINE B == BatchSize
           E == StepsPerEpoch
           k == n * B
<1>6. B \in Nat \ {0} /\ E \in Nat /\ ShareSize \in Nat /\ B * E <= ShareSize
  BY <1>1, <1>3, BatchHasRows
<1>7. Ordered /\ n < E
  BY <1>3, <1>5 DEF Trained
<1>8. k \in Nat /\ k + B <= ShareSize /\ k + B = (n + 1) * B
  <2> HIDE DEF B, E
  <2>1. B * n + B <= B * E /\ B * n = n * B /\ B * n \in Nat /\ B * E \in Nat
    BY <1>6, <1>7, ProductGrows
  <2> DEFINE y == B * E
             x == B * n
  <2>2. (n + 1) * B = x + B /\ k = x
    BY <1>6, <2>1
  <2> HIDE DEF x, y, k
  <2>3. x + B <= y /\ x \in Nat /\ y \in Nat /\ y <= ShareSize
    BY <1>6, <2>1 DEF x, y
  <2> QED BY <1>6, <2>2, <2>3
<1> DEFINE rows == [d \in 0..(config.dp - 1) |-> SubSeq(Share(d), k + 1, k + B)]
<1>9. ASSUME NEW d \in 0..(config.dp - 1)
      PROVE  /\ rows[d] \in Seq(DOMAIN files) /\ Len(rows[d]) = B
             /\ FirstRows(d, k) \o rows[d] = FirstRows(d, k + B)
  <2>1. rows[d] = SubSeq(Share(d), k + 1, k + B)
    OBVIOUS
  <2> HIDE DEF rows, k, B
  <2>2. B \in Nat /\ k \in Nat /\ k + B <= ShareSize
    BY <1>6, <1>8
  <2>3. Fits /\ Ordered
    BY <1>1, <1>7
  <2>4. /\ SubSeq(Share(d), k + 1, k + B) \in Seq(DOMAIN files)
        /\ Len(SubSeq(Share(d), k + 1, k + B)) = B
        /\ FirstRows(d, k) \o SubSeq(Share(d), k + 1, k + B) = FirstRows(d, k + B)
    BY <2>2, <2>3, NextBatch
  <2> QED BY <2>1, <2>4
<1>10. ASSUME NEW r \in Ranks
       PROVE  /\ DataRank(r) \in 0..(config.dp - 1) /\ seen[r] = FirstRows(DataRank(r), k)
              /\ BatchOf(r) = rows[DataRank(r)]
  <2>1. DataRank(r) \in 0..(config.dp - 1)
    BY <1>1, RankPlace
  <2>2. seen[r] = FirstRows(DataRank(r), k)
    BY <1>5 DEF Trained
  <2>3. Len(seen[r]) = k
    <3>1. k <= ShareSize
      <4> HIDE DEF k, B
      <4> QED BY <1>6, <1>8
    <3> HIDE DEF k
    <3> QED BY <1>1, <1>7, <1>8, <2>1, <2>2, <3>1, DealtIs
  <2> HIDE DEF k
  <2> QED BY <2>1, <2>2, <2>3 DEF BatchOf
<1>11. seen' = [r \in Ranks |-> FirstRows(DataRank(r), k + B)]
  BY <1>9, <1>10 DEF TrainingStep
<1>12. Trained(n + 1)'
  <2>1. B' = B /\ ShareSize' = ShareSize /\ E' = E /\ Ordered'
    BY <1>7 DEF TrainingStep, BatchSize, ShareSize, StepsPerEpoch, Ordered
  <2>2. (n + 1) * B <= ShareSize
    BY <1>8
  <2>3. [r \in Ranks |-> FirstRows(DataRank(r), (n + 1) * B)]'
          = [r \in Ranks |-> FirstRows(DataRank(r), (n + 1) * B)]
    BY <1>1, <2>1 DEF TrainingStep, FirstRows, DataRank
  <2>4. seen' = [r \in Ranks |-> FirstRows(DataRank(r), (n + 1) * B)]
    BY <1>8, <1>11
  <2>5. All("train")' => n + 1 < E
    <3>1. SUFFICES ASSUME All("train")' PROVE n + 1 # E
      BY <1>6, <1>7
    <3>2. at'[0] = "train"
      BY <1>1, <1>2, <3>1 DEF All
    <3>3. Len(seen'[0]) # E * B
      BY <1>2, <3>2 DEF TrainingStep, AllGo
    <3>4. Len(seen'[0]) = (n + 1) * B
      <4>1. DataRank(0) \in 0..(config.dp - 1)
        BY <1>2, <1>10
      <4>2. seen'[0] = FirstRows(DataRank(0), k + B)
        BY <1>2, <1>11
      <4>3. k + B \in Nat /\ k + B <= ShareSize
        <5> HIDE DEF k, B
        <5> QED BY <1>6, <1>8
      <4> HIDE DEF k, B
      <4>4. Len(FirstRows(DataRank(0), k + B)) = k + B
        BY <1>1, <1>7, <4>1, <4>3, DealtIs
      <4> QED BY <1>8, <4>2, <4>4
    <3> HIDE DEF B, E, k
    <3> QED BY <3>3, <3>4
  <2> HIDE DEF k, rows
  <2>6. seen' = [r \in Ranks |-> FirstRows(DataRank(r), (n + 1) * BatchSize)]'
    BY <2>3, <2>4
  <2> QED BY <2>1, <2>2, <2>5, <2>6 DEF Trained
<1>13. \E w : Pulled(w)'
  <2>1. BatchSize' = BatchSize /\ config' = config /\ files' = files
    BY DEF TrainingStep, BatchSize
  <2>2. ASSUME NEW d \in 0..(config.dp - 1), config.truncation = "error", NEW j \in DOMAIN rows[d]
        PROVE  ~ TooLong(rows[d][j])
    <3>1. config.sp * d + 0 \in Ranks /\ DataRank(config.sp * d + 0) = d
      <4>1. 0 \in 0..(config.sp - 1)
        BY <1>1, ConfigFields
      <4> QED BY <1>1, <4>1, RankPlace
    <3>2. PICK r \in Ranks : DataRank(r) = d
      BY <3>1
    <3>3. BatchOf(r) = rows[d]
      BY <1>10, <3>2
    <3>4. rows[d][j] \in Range(BatchOf(r))
      BY <2>2, <3>3 DEF Range
    <3> HIDE DEF rows
    <3> QED BY <2>2, <3>4 DEF TrainingStep
  <2>3. pull' = [r \in Ranks |-> MicroBatches(rows[DataRank(r)])]
    BY <1>10 DEF TrainingStep
  <2>4. \A d \in 0..(config.dp - 1) : /\ rows[d] \in Seq(DOMAIN files) /\ Len(rows[d]) = BatchSize
                                      /\ config.truncation = "error" =>
                                           \A j \in DOMAIN rows[d] : ~ TooLong(rows[d][j])
    BY <1>9, <2>2
  <2> HIDE DEF rows
  <2>5. PICK w : w = rows
    OBVIOUS
  <2>6. Pulled(w)'
    <3>1. pull' = [r \in Ranks |-> MicroBatches(w[DataRank(r)])]
      BY <2>3, <2>5
    <3>2. \A d \in 0..(config.dp - 1) : /\ w[d] \in Seq(DOMAIN files) /\ Len(w[d]) = BatchSize
                                        /\ config.truncation = "error" =>
                                             \A j \in DOMAIN w[d] : ~ TooLong(w[d][j])
      BY <2>4, <2>5
    <3> QED BY <1>1, <2>1, <3>1, <3>2
         DEF Pulled, TooLong, Text, PromptLength, ResponseLength, MicroBatches, DataRank
  <2> QED BY <2>6
<1>14. SeenInv'
  <2>1. n + 1 \in Nat
    OBVIOUS
  <2> QED BY <1>12, <2>1 DEF SeenInv
<1>15. PullInv'
  <2>1. PICK w : Pulled(w)'
    BY <1>13
  <2> QED BY <2>1 DEF PullInv
<1> QED BY <1>1, <1>4, <1>14, <1>15 DEF IInv

\* It is kept by the actions that train nothing.
LEMMA OthersKeep ==
  ASSUME IInv,
         \/ Start \/ Validate \/ GatherState \/ Save \/ PassBarrier \/ EpochsOver \/ Abort
         \/ \E r \in Ranks : RowTooLong(r)
  PROVE  IInv'
<1>1. 0 \in Ranks
  BY RankPlace DEF IInv, Ranks
<1>2. at = [r \in Ranks |-> at[r]]
  BY DEF IInv, GoInv
<1>3. \A r \in Ranks : at[r] \notin {"start", "raised"} => Divides
  BY DEF IInv, GoInv
<1>4. ASSUME NEW there, AllGo(there), Divides \/ there = "raised", there # "train",
             UNCHANGED <<config, files, order, seen, pull>>
      PROVE  IInv'
  <2>1. at' = [r \in Ranks |-> at'[r]] /\ \A r \in Ranks : at'[r] = there
    BY <1>4 DEF AllGo
  <2> QED BY <1>1, <1>4, <2>1, Rests
<1>5. CASE Start
  <2>1. Divides => AllGo("epoch")
    BY <1>5 DEF Start, Divides
  <2>2. ~ Divides => AllGo("raised")
    BY <1>5 DEF Start, Divides
  <2>3. UNCHANGED <<config, files, order, seen, pull>>
    BY <1>5 DEF Start
  <2> QED BY <1>4, <2>1, <2>2, <2>3
<1>6. CASE Validate
  <2>1. Divides
    BY <1>1, <1>3, <1>6 DEF Validate, All
  <2>2. at' = [r \in Ranks |-> at'[r]] /\ \A r \in Ranks : at'[r] # "train"
    BY <1>6 DEF Validate
  <2> QED BY <1>1, <1>6, <2>1, <2>2, Rests DEF Validate
<1>7. CASE GatherState
  <2>1. Divides
    BY <1>1, <1>3, <1>7 DEF GatherState, All
  <2>2. at' = [r \in Ranks |-> at'[r]] /\ \A r \in Ranks : at'[r] # "train"
    BY <1>7 DEF GatherState
  <2> QED BY <1>1, <1>7, <2>1, <2>2, Rests DEF GatherState
<1>8. CASE Save
  <2>1. Divides
    BY <1>1, <1>3, <1>8 DEF Save
  <2>2. at' = [r \in Ranks |-> at'[r]] /\ at'[0] = "saved"
    BY <1>1, <1>2, <1>8 DEF Save
  <2> QED BY <1>1, <1>8, <2>1, <2>2, Rests DEF Save
<1>9. CASE PassBarrier
  <2>1. Divides
    BY <1>1, <1>3, <1>9 DEF PassBarrier, All
  <2>2. AllGo("returned") \/ AllGo("epoch")
    BY <1>9 DEF PassBarrier
  <2> QED BY <1>4, <1>9, <2>1, <2>2 DEF PassBarrier
<1>10. CASE EpochsOver
  <2>1. Divides
    BY <1>1, <1>3, <1>10 DEF EpochsOver, All
  <2> QED BY <1>4, <1>10, <2>1 DEF EpochsOver
<1>11. CASE Abort
  BY <1>4, <1>11 DEF Abort
<1>12. CASE \E r \in Ranks : RowTooLong(r)
  <2>1. PICK r \in Ranks : RowTooLong(r)
    BY <1>12
  <2>2. Divides
    BY <1>1, <1>3, <2>1 DEF RowTooLong, All
  <2>3. at' = [q \in Ranks |-> at'[q]] /\ at'[r] = "raised"
    BY <1>2, <2>1 DEF RowTooLong
  <2> QED BY <2>1, <2>2, <2>3, Rests DEF RowTooLong
<1> QED BY <1>5, <1>6, <1>7, <1>8, <1>9, <1>10, <1>11, <1>12

\* Every step keeps it.
LEMMA NextKeeps == IInv /\ [Next]_vars => IInv'
<1> SUFFICES ASSUME IInv, [Next]_vars PROVE IInv'
  OBVIOUS
<1>1. CASE BeginEpoch
  BY <1>1, BeginEpochKeeps
<1>2. CASE TrainingStep
  BY <1>2, TrainingStepKeeps
<1>3. CASE UNCHANGED vars
  <2>1. UNCHANGED <<config, files, order, seen, pull>> /\ at' = at
    BY <1>3 DEF vars
  <2>2. Fits' /\ Ranks' = Ranks /\ BatchSize' = BatchSize /\ ShareSize' = ShareSize
           /\ StepsPerEpoch' = StepsPerEpoch
    BY <2>1 DEF IInv, Fits, Ranks, World, BatchSize, ShareSize, StepsPerEpoch
  <2>3. GoInv'
    BY <2>1, <2>2 DEF IInv, GoInv, Divides
  <2>4. SeenInv'
    <3>1. PICK n \in Nat : Trained(n)
      BY DEF IInv, SeenInv
    <3>2. [r \in Ranks |-> FirstRows(DataRank(r), n * BatchSize)]'
            = [r \in Ranks |-> FirstRows(DataRank(r), n * BatchSize)]
      BY <2>1, <2>2 DEF FirstRows, DataRank
    <3>3. All("train")' = All("train") /\ Ordered' = Ordered
      BY <2>1, <2>2 DEF All, Ordered
    <3>4. Trained(n)'
      BY <2>1, <2>2, <3>1, <3>2, <3>3 DEF Trained
    <3> QED BY <3>4 DEF SeenInv
  <2>5. PullInv'
    <3>1. CASE pull = <<>>
      BY <2>1, <3>1 DEF PullInv
    <3>2. CASE pull # <<>>
      <4>1. PICK rows : Pulled(rows)
        BY <3>2 DEF IInv, PullInv
      <4>2. Pulled(rows)'
        BY <2>1, <2>2, <4>1 DEF Pulled, BatchSize, TooLong, Text, PromptLength, ResponseLength,
                                MicroBatches, DataRank
      <4> QED BY <4>2 DEF PullInv
    <3> QED BY <3>1, <3>2
  <2> QED BY <2>2, <2>3, <2>4, <2>5 DEF IInv
<1>4. CASE \/ Start \/ Validate \/ GatherState \/ Save \/ PassBarrier \/ EpochsOver \/ Abort
           \/ \E r \in Ranks : RowTooLong(r)
  BY <1>4, OthersKeep
<1> QED BY <1>1, <1>2, <1>3, <1>4 DEF Next

\* It holds in every state of every run.
LEMMA Invariant == Spec => []IInv
<1> QED BY InitHolds, NextKeeps, PTL DEF Spec

\* What the ranks have trained is dealt evenly.
LEMMA SharedEvenly ==
  ASSUME IInv
  PROVE  EpochIsShared
<1>1. Fits /\ \A r \in Ranks : DataRank(r) \in 0..(config.dp - 1)
  BY RankPlace DEF IInv
<1>2. PICK n \in Nat : Trained(n)
  BY DEF IInv, SeenInv
<1> DEFINE N == n * BatchSize
           G == 0..(config.dp - 1)
<1>3. BatchSize \in Nat /\ ShareSize \in Nat
  BY <1>1, BatchHasRows
<1>4. N \in Nat /\ N <= ShareSize /\ (n = 0 => N = 0)
  BY <1>2, <1>3 DEF Trained
<1>5. DOMAIN seen = Ranks /\ \A r \in Ranks : seen[r] = FirstRows(DataRank(r), N)
  BY <1>2 DEF Trained
<1>6. N = 0 \/ Ordered
  BY <1>2, <1>4 DEF Trained
<1> HIDE DEF N
<1>7. ASSUME NEW d \in G, NEW e \in G, NEW k \in 1..N, NEW j \in 1..N, FirstRows(d, N)[k] = FirstRows(e, N)[j]
      PROVE  d = e /\ k = j
  <2>1. Ordered
    BY <1>4, <1>6
  <2>2. k \in 1..ShareSize /\ j \in 1..ShareSize
    BY <1>3, <1>4
  <2> DEFINE x == (k - 1) * config.dp + d + 1
             y == (j - 1) * config.dp + e + 1
  <2>3. x \in DOMAIN files /\ y \in DOMAIN files /\ (x = y => d = e /\ k = j)
    BY <1>1, <2>2, SharePlace
  <2>4. order[x] = order[y]
    BY <1>7 DEF FirstRows
  <2> HIDE DEF x, y
  <2>5. x = y
    BY <2>1, <2>3, <2>4 DEF Ordered, IsInjective
  <2> QED BY <2>3, <2>5
<1>8. \A d \in G : DOMAIN FirstRows(d, N) = 1..N
  BY DEF FirstRows
<1>9. \A d \in G : IsInjective(FirstRows(d, N))
  BY <1>7, <1>8 DEF IsInjective
<1>10. ASSUME NEW d \in G, NEW e \in G, d # e
       PROVE  Range(FirstRows(d, N)) \cap Range(FirstRows(e, N)) = {}
  <2> DEFINE u == FirstRows(d, N)
             v == FirstRows(e, N)
  <2>1. ASSUME NEW k \in DOMAIN u, NEW j \in DOMAIN v
        PROVE  u[k] # v[j]
    <3>1. k \in 1..N /\ j \in 1..N
      BY <1>8
    <3> HIDE DEF G
    <3> QED BY <1>7, <1>10, <3>1
  <2> HIDE DEF u, v
  <2>2. Range(u) \cap Range(v) = {}
    BY <2>1 DEF Range
  <2> QED BY <2>2 DEF u, v
<1>11. \A r, q \in Ranks : Neighbours(r, q) <=> DataRank(r) = DataRank(q)
  BY DEF Neighbours, DataRank
<1> QED BY <1>1, <1>5, <1>9, <1>10, <1>11 DEF EpochIsShared

\* An epoch is learned as it is dealt: the ranks of a group train the same rows, different groups
\* different ones, none twice, and the loss of a micro-batch is a mean: of each group's response tokens,
\* the groups alike, without balance_dp_token (a token of a short group weighs more); of the tokens of
\* all groups with it, when groups have one rank.  With more ranks all tokens still weigh the same, and
\* nothing is claimed of how much; nothing is claimed of rows cut on the left (SFTDataset, the sampler and
\* _compute_loss_and_backward of fsdp_sft_trainer.py).  For all configurations and files.
THEOREM EpochIsLearnedByMeans == Spec => []EpochIsLearned
<1>1. IInv => EpochIsLearned
  <2> SUFFICES ASSUME IInv PROVE EpochIsLearned
    OBVIOUS
  <2>1. LossIsAMean
    <3>1. CASE pull = <<>>
      BY <3>1 DEF LossIsAMean
    <3>2. CASE pull # <<>>
      <4>1. PICK rows : Pulled(rows)
        BY <3>2 DEF IInv, PullInv
      <4> QED BY <4>1, StepIsAMean DEF IInv
    <3> QED BY <3>1, <3>2
  <2> QED BY <2>1, SharedEvenly DEF EpochIsLearned
<1> QED BY <1>1, Invariant, PTL

-----------------------------------------------------------------------------
(* What the loss of a row covers. *)

\* What is left of a text stands at the front of its row, without what was cut on the left.
LEMMA IdsAre ==
  ASSUME Fits, NEW i \in DOMAIN files
  PROVE  /\ IsRow(Ids(i), MaxLength) /\ Kept(i) \in Nat
         /\ \A c \in 1..Behind(i) : Ids(i)[c] = <<i, 0, c + Kept(i)>>
<1> DEFINE L == PromptLength(i) + ResponseLength(i)
           s == Text(i)
           X == {<<i, 0, k>> : k \in Nat}
           u == Truncated(s, MaxLength, config.truncation)
           l == Behind(i)
<1>1. MaxLength \in Nat \ {0} /\ L \in Nat /\ Len(s) = L /\ l \in 1..MaxLength
  BY RowLengths, ConfigFields
<1>2. s \in Seq(X) /\ \A k \in 1..L : s[k] = <<i, 0, k>>
  <2>1. \A k \in 1..L : <<i, 0, k>> \in X
    OBVIOUS
  <2>2. s = [k \in 1..L |-> <<i, 0, k>>]
    BY DEF Text
  <2> HIDE DEF X, s, L
  <2> QED BY <1>1, <2>1, <2>2
<1>3. l = IF L < MaxLength THEN L ELSE MaxLength
  BY DEF Behind, AtMost
<1> HIDE DEF X, s, L, l
<1>4. IsRow(u, l) /\ Kept(i) \in Nat /\ \A c \in 1..l : u[c] = <<i, 0, c + Kept(i)>>
  <2>1. CASE L <= MaxLength
    <3>1. u = s /\ l = L /\ Kept(i) = 0
      BY <1>1, <1>3, <2>1 DEF Truncated, Kept, TooLong, s
    <3> HIDE DEF u
    <3> QED BY <1>1, <1>2, <3>1, IsARow
  <2>2. CASE ~ (L <= MaxLength) /\ config.truncation = "left"
    <3>1. u = SubSeq(s, L - MaxLength + 1, L) /\ l = MaxLength /\ Kept(i) = L - MaxLength
      BY <1>1, <1>3, <2>2 DEF Truncated, Kept, TooLong, s
    <3> DEFINE a == L - MaxLength
    <3>2. a \in Nat /\ a + MaxLength = L
      BY <1>1, <2>2
    <3> HIDE DEF a, u
    <3>3. u = SubSeq(s, a + 1, L) /\ Kept(i) = a
      BY <3>1 DEF a
    <3>4. u \in Seq(X) /\ Len(u) = MaxLength /\ \A c \in 1..MaxLength : u[c] = s[a + c] /\ a + c \in 1..L
      <4>1. a + 1 \in 1..(Len(s) + 1) /\ L \in 0..Len(s)
        BY <1>1, <3>2
      <4>2. u \in Seq(X) /\ Len(u) = (L - (a + 1)) + 1
        BY <1>1, <1>2, <3>2, <3>3, <4>1
      <4>3. \A c \in 1..((L - (a + 1)) + 1) : u[c] = s[(a + 1) + c - 1]
        BY <1>1, <1>2, <3>2, <3>3, <4>1
      <4>4. (L - (a + 1)) + 1 = MaxLength /\ \A c \in 1..MaxLength : (a + 1) + c - 1 = a + c /\ a + c \in 1..L
        BY <1>1, <3>2
      <4> QED BY <4>2, <4>3, <4>4
    <3>5. \A c \in 1..l : u[c] = <<i, 0, c + Kept(i)>>
      <4> SUFFICES ASSUME NEW c \in 1..l PROVE u[c] = <<i, 0, c + Kept(i)>>
        OBVIOUS
      <4>1. c \in 1..MaxLength /\ a + c = c + a
        BY <1>1, <3>1, <3>2
      <4>2. u[c] = s[a + c] /\ a + c \in 1..L
        BY <3>4, <4>1
      <4>3. s[a + c] = <<i, 0, a + c>>
        BY <1>2, <4>2
      <4> QED BY <3>3, <4>1, <4>2, <4>3
    <3>6. IsRow(u, l)
      BY <3>1, <3>4, IsARow
    <3> QED BY <3>2, <3>3, <3>5, <3>6
  <2>3. CASE ~ (L <= MaxLength) /\ config.truncation # "left"
    <3>1. u = SubSeq(s, 1, MaxLength) /\ l = MaxLength /\ Kept(i) = 0
      BY <1>1, <1>3, <2>3 DEF Truncated, Kept, TooLong, s
    <3>2. MaxLength \in 0..Len(s)
      BY <1>1, <2>3
    <3> HIDE DEF u
    <3>3. u \in Seq(X) /\ Len(u) = MaxLength /\ \A c \in 1..MaxLength : u[c] = s[c] /\ c \in 1..L
      BY <1>1, <1>2, <3>1, <3>2
    <3>4. IsRow(u, l)
      BY <3>1, <3>3, IsARow
    <3> QED BY <1>2, <3>1, <3>3, <3>4
  <2> QED BY <2>1, <2>2, <2>3
<1>5. Ids(i) = PadRight(u, MaxLength, <<0, 0, 0>>)
  BY DEF Ids, s
<1> HIDE DEF u
<1> DEFINE z == <<0, 0, 0>>
<1> HIDE DEF z
<1>6. IsRow(PadRight(u, MaxLength, z), MaxLength) /\ \A k \in 1..l : PadRight(u, MaxLength, z)[k] = u[k]
  <2>1. l \in Nat /\ MaxLength \in Nat /\ l <= MaxLength
    BY <1>1
  <2> QED BY <1>4, <2>1, PadRightIs
<1> QED BY <1>4, <1>5, <1>6 DEF l, z

\* The mask of a row is over its text, and positions count from 0 there.
LEMMA MasksAre ==
  ASSUME Fits, NEW i \in DOMAIN files
  PROVE  /\ IsRow(AttentionMask(i), MaxLength) /\ IsRow(PositionIds(AttentionMask(i)), MaxLength)
         /\ \A c \in 1..MaxLength : (AttentionMask(i)[c] = 1) <=> c <= Behind(i)
         /\ \A c \in 1..Behind(i) : PositionIds(AttentionMask(i))[c] = c - 1
<1> DEFINE m == AttentionMask(i)
           p == PositionIds(m)
<1>1. /\ MaxLength \in Nat \ {0} /\ Behind(i) \in 1..MaxLength /\ Len(Text(i)) \in Nat
      /\ Behind(i) = IF Len(Text(i)) < MaxLength THEN Len(Text(i)) ELSE MaxLength
  <2> DEFINE L == PromptLength(i) + ResponseLength(i)
  <2>1. MaxLength \in Nat \ {0} /\ L \in Nat /\ Len(Text(i)) = L /\ Behind(i) \in 1..MaxLength
    BY RowLengths, ConfigFields
  <2>2. Behind(i) = IF L < MaxLength THEN L ELSE MaxLength
    BY DEF Behind, AtMost
  <2> HIDE DEF L
  <2> QED BY <2>1, <2>2
<1>2. /\ IsRow(m, MaxLength)
      /\ \A c \in 1..MaxLength : m[c] \in {0, 1} /\ (m[c] = 1 <=> c <= Behind(i))
  <2>1. m = [c \in 1..MaxLength |-> IF c <= Len(Text(i)) THEN 1 ELSE 0]
    BY DEF AttentionMask
  <2>2. \A c \in 1..MaxLength : c <= Len(Text(i)) <=> c <= Behind(i)
    BY <1>1
  <2> HIDE DEF m
  <2> QED BY <1>1, <2>1, <2>2 DEF IsRow
<1> HIDE DEF m
<1>3. DOMAIN m = 1..MaxLength
  BY <1>2, RowIs
<1>4. IsRow(p, MaxLength)
  BY <1>1, <1>3 DEF IsRow, PositionIds
<1>5. ASSUME NEW c \in 1..Behind(i) PROVE p[c] = c - 1
  <2> DEFINE s == SubSeq(m, 1, c)
  <2>1. c \in 1..MaxLength /\ c \in Nat
    BY <1>1
  <2>2. m \in Seq({0, 1}) /\ Len(m) = MaxLength
    <3>1. m = [k \in 1..MaxLength |-> m[k]]
      BY <1>2 DEF IsRow
    <3> QED BY <1>1, <1>2, <3>1
  <2>3. DOMAIN s = 1..c /\ \A k \in 1..c : s[k] = m[k]
    BY <1>1, <2>1, <2>2
  <2> HIDE DEF s
  <2>4. \A k \in 1..c : k \in 1..MaxLength /\ s[k] \in {0, 1} /\ s[k] = 1
    BY <1>1, <1>2, <2>1, <2>3
  <2>5. SumSeq(s) = Cardinality({k \in 1..c : s[k] = 1})
    BY <2>1, <2>3, <2>4, SumOfMask
  <2>6. {k \in 1..c : s[k] = 1} = 1..c
    BY <2>4
  <2>7. Cardinality(1..c) = c
    <3>1. Cardinality(1..c) = IF 1 > c THEN 0 ELSE c - 1 + 1
      BY <2>1, FS_Interval
    <3> QED BY <2>1, <3>1
  <2>8. SumSeq(s) = c
    BY <2>5, <2>6, <2>7
  <2>9. p[c] = IF SumSeq(s) = 0 THEN 0 ELSE SumSeq(s) - 1
    BY <1>3, <2>1 DEF PositionIds, s
  <2> QED BY <2>1, <2>8, <2>9
<1> QED BY <1>2, <1>4, <1>5 DEF m

\* Rows of two places or more make a batch.
LEMMA StackedIs ==
  ASSUME Fits, NEW rows \in Seq(DOMAIN files), Len(rows) # 0, MaxLength # 1,
         NEW b, b = Stacked(rows)
  PROVE  /\ IsBatch(b, Len(rows), MaxLength, [k \in DOMAIN rows |-> 0], [k \in DOMAIN rows |-> Behind(rows[k])])
         /\ IsMatrix(b.input_ids, Len(rows), MaxLength)
         /\ \A k \in DOMAIN rows : rows[k] \in DOMAIN files /\ b.input_ids[k] = Ids(rows[k])
<1> DEFINE R == Len(rows)
           a == [k \in DOMAIN rows |-> 0]
           e == [k \in DOMAIN rows |-> Behind(rows[k])]
           ids == [k \in DOMAIN rows |-> Ids(rows[k])]
           mask == [k \in DOMAIN rows |-> AttentionMask(rows[k])]
           pos == [k \in DOMAIN rows |-> PositionIds(AttentionMask(rows[k]))]
<1>1. R \in Nat \ {0} /\ DOMAIN rows = 1..R /\ \A k \in 1..R : rows[k] \in DOMAIN files
  OBVIOUS
<1> HIDE DEF R
<1>2. MaxLength \in Nat \ {0}
  BY ConfigFields
<1>3. b.input_ids = ids /\ IsRow(ids, R)
  <2>1. IsRow(ids, R)
    BY <1>1 DEF IsRow
  <2>2. b.input_ids = Each(ids)
    BY DEF Stacked
  <2> HIDE DEF ids
  <2> QED BY <2>1, <2>2, RowIs
<1>4. b.attention_mask = mask /\ IsRow(mask, R)
  <2>1. \A k \in 1..R : Each(AttentionMask(rows[k])) = AttentionMask(rows[k])
    BY <1>1, MasksAre, RowIs
  <2>2. IsRow(mask, R)
    BY <1>1 DEF IsRow
  <2>3. [k \in DOMAIN rows |-> Each(AttentionMask(rows[k]))] = mask
    BY <1>1, <2>1
  <2>4. b.attention_mask = Each(mask)
    BY <2>3 DEF Stacked
  <2> HIDE DEF mask
  <2> QED BY <2>2, <2>4, RowIs
<1>5. b.position_ids = pos /\ IsRow(pos, R)
  <2>1. \A k \in 1..R : Each(PositionIds(AttentionMask(rows[k]))) = PositionIds(AttentionMask(rows[k]))
    BY <1>1, MasksAre, RowIs
  <2>2. IsRow(pos, R)
    BY <1>1 DEF IsRow
  <2>3. [k \in DOMAIN rows |-> Each(PositionIds(AttentionMask(rows[k])))] = pos
    BY <1>1, <2>1
  <2>4. b.position_ids = Each(pos)
    BY <2>3 DEF Stacked
  <2> HIDE DEF pos
  <2> QED BY <2>2, <2>4, RowIs
<1>6. \A k \in 1..R : ids[k] = Ids(rows[k]) /\ mask[k] = AttentionMask(rows[k])
                      /\ pos[k] = PositionIds(AttentionMask(rows[k])) /\ a[k] = 0 /\ e[k] = Behind(rows[k])
  BY <1>1
<1> HIDE DEF ids, mask, pos, a, e
<1>7. ASSUME NEW k \in 1..R
      PROVE  /\ IsRow(ids[k], MaxLength)
             /\ \A c \in 1..MaxLength : (mask[k][c] = 1) <=> c <= e[k]
             /\ \A c \in 1..e[k] : pos[k][c] = c - 1
             /\ e[k] \in 2..MaxLength
  <2>1. rows[k] \in DOMAIN files
    BY <1>1
  <2> DEFINE i == rows[k]
             L == PromptLength(i) + ResponseLength(i)
  <2>2. Behind(i) \in 2..MaxLength
    <3>1. PromptLength(i) \in Nat \ {0} /\ ResponseLength(i) \in Nat \ {0}
      BY <2>1, RowLengths
    <3>2. L \in Nat /\ L >= 2
      BY <3>1
    <3>3. Behind(i) = IF L < MaxLength THEN L ELSE MaxLength
      BY DEF Behind, AtMost
    <3> HIDE DEF L, i
    <3> QED BY <1>2, <3>2, <3>3
  <2>3. ids[k] = Ids(i) /\ mask[k] = AttentionMask(i) /\ pos[k] = PositionIds(AttentionMask(i)) /\ e[k] = Behind(i)
    BY <1>6
  <2> HIDE DEF i
  <2>4. IsRow(Ids(i), MaxLength)
    BY <2>1, IdsAre DEF i
  <2>5. /\ \A c \in 1..MaxLength : (AttentionMask(i)[c] = 1) <=> c <= Behind(i)
        /\ \A c \in 1..Behind(i) : PositionIds(AttentionMask(i))[c] = c - 1
    BY <2>1, MasksAre DEF i
  <2> QED BY <2>2, <2>3, <2>4, <2>5 DEF i
<1>8. IsMatrix(ids, R, MaxLength)
  BY <1>3, <1>7 DEF IsMatrix
<1>9. Len(b.input_ids) = R /\ Len(b.input_ids[1]) = MaxLength /\ Len(b.attention_mask) = R
  <2>1. 1 \in 1..R
    BY <1>1
  <2> QED BY <1>3, <1>4, <1>7, <2>1, RowIs
<1>10. \A k \in 1..R : a[k] \in Nat /\ e[k] \in 0..MaxLength /\ a[k] + 2 <= e[k]
  BY <1>2, <1>6, <1>7
<1>11. \A k \in 1..R, c \in 1..MaxLength : (mask[k][c] = 1) <=> (a[k] < c /\ c <= e[k])
  BY <1>2, <1>6, <1>7
<1>12. \A k \in 1..R, c \in 1..MaxLength : a[k] < c /\ c <= e[k] => pos[k][c] = c - a[k] - 1
  <2> SUFFICES ASSUME NEW k \in 1..R, NEW c \in 1..MaxLength, c <= e[k] PROVE pos[k][c] = c - a[k] - 1
    OBVIOUS
  <2>1. c \in 1..e[k] /\ c - 1 = c - 0 - 1 /\ a[k] = 0
    BY <1>2, <1>6, <1>10
  <2> QED BY <1>7, <2>1
<1>13. IsBatch(b, R, MaxLength, a, e)
  BY <1>1, <1>2, <1>4, <1>5, <1>9, <1>10, <1>11, <1>12 DEF IsBatch
<1> QED BY <1>1, <1>3, <1>6, <1>8, <1>13 DEF R, a, e

\* The first c places in order are the places themselves.
LEMMA AllInOrder ==
  ASSUME NEW c \in Nat \ {0}, NEW q, Enumerates(q, 1..c, c)
  PROVE  IsRow(q, c) /\ \A k \in 1..c : q[k] = k
<1>1. /\ Len(q) \in Nat /\ q \in Seq(Nat) /\ \A j \in 1..Len(q) : q[j] \in 1..c
      /\ \A i \in 1..Len(q), j \in 1..Len(q) : i < j => q[i] < q[j]
  BY DEF Enumerates
<1>2. 1 \in 1..Len(q) /\ q[1] = 1
  <2>1. 1 \in 1..c /\ 1 <= c
    OBVIOUS
  <2>2. PICK j \in 1..Len(q) : q[j] = 1
    BY <2>1 DEF Enumerates
  <2>3. 1 \in 1..Len(q)
    BY <1>1, <2>2
  <2>4. ~ (1 < j)
    BY <1>1, <2>2, <2>3
  <2>5. j = 1
    BY <1>1, <2>2, <2>4
  <2> QED BY <2>2, <2>3, <2>5
<1> DEFINE m == c - 1
<1>3. m \in Nat /\ \A j \in 0..m : q[1] + j \in 1..c /\ q[1] + j <= c
  BY <1>2
<1>4. \A j \in 0..m : 1 + j \in 1..Len(q) /\ q[1 + j] = q[1] + j
  <2>1. HasRun(1..c, c, q[1], m)
    BY <1>3 DEF HasRun
  <2> HIDE DEF m
  <2>2. CountsOn(q, 1, m)
    BY <1>2, <1>3, <2>1, RunOfPlaces
  <2> QED BY <2>2 DEF CountsOn
<1>5. \A k \in 1..c : k \in 1..Len(q) /\ q[k] = k
  <2> SUFFICES ASSUME NEW k \in 1..c PROVE k \in 1..Len(q) /\ q[k] = k
    OBVIOUS
  <2>1. k - 1 \in 0..m /\ 1 + (k - 1) = k
    OBVIOUS
  <2> HIDE DEF m
  <2> QED BY <1>2, <1>4, <2>1
<1>6. Len(q) = c
  <2>1. c \in 1..Len(q) /\ q[c] = c
    BY <1>5
  <2>2. ~ (c + 1 \in 1..Len(q))
    <3> SUFFICES ASSUME c + 1 \in 1..Len(q) PROVE FALSE
      OBVIOUS
    <3>1. q[c] < q[c + 1] /\ q[c + 1] \in 1..c
      BY <1>1, <2>1
    <3> QED BY <2>1, <3>1
  <2> QED BY <1>1, <2>1, <2>2
<1>7. IsRow(q, Len(q))
  BY <1>1, IsARow
<1> QED BY <1>5, <1>6, <1>7

\* Attention with padding: at a valid place, all tokens of the row up to it.
LEMMA PaddedIs ==
  ASSUME NEW b, NEW R, NEW w, NEW a, NEW e, IsBatch(b, R, w, a, e), \A i \in 1..R : a[i] = 0,
         IsMatrix(b.input_ids, R, w), NEW heads \in Nat, NEW hidden, hidden = PaddedAttention(b, heads)
  PROVE  /\ IsMatrix(hidden, R, w)
         /\ \A i \in 1..R, c \in 1..w : c <= e[i] => hidden[i][c] = RowState(b, heads, i, 0, c)
<1> DEFINE ids == b.input_ids
           sees(i, c) == InOrder({j \in 1..c : b.attention_mask[i][j] = 1}, c)
           v(i, c) == Each([h \in 1..heads |->
             Each([k \in DOMAIN sees(i, c) |-> <<<<ids[i][sees(i, c)[k]], h>>, b.position_ids[i][sees(i, c)[k]]>>])])
           u(i) == [c \in 1..w |-> v(i, c)]
           x == [i \in 1..R |-> u(i)]
<1>1. R \in Nat /\ w \in Nat /\ DOMAIN ids = 1..R /\ \A i \in 1..R : DOMAIN ids[i] = 1..w
  BY RowIs DEF IsMatrix, IsBatch
<1>2. hidden = Each([i \in 1..R |-> Each(u(i))])
  BY <1>1 DEF PaddedAttention, Entries
<1>3. ASSUME NEW i \in 1..R, NEW c \in 1..w, c <= e[i] PROVE v(i, c) = RowState(b, heads, i, 0, c)
  <2> DEFINE q == sees(i, c)
  <2>1. e[i] \in 0..w /\ c \in Nat \ {0} /\ \A j \in 1..c : j \in 1..w /\ j <= e[i]
    BY <1>1, <1>3 DEF IsBatch
  <2>2. \A j \in 1..c : b.attention_mask[i][j] = 1 /\ b.position_ids[i][j] = j - 1
    <3> SUFFICES ASSUME NEW j \in 1..c PROVE b.attention_mask[i][j] = 1 /\ b.position_ids[i][j] = j - 1
      OBVIOUS
    <3>1. j \in 1..w /\ a[i] < j /\ j <= e[i] /\ a[i] = 0 /\ j - a[i] - 1 = j - 1
      BY <2>1
    <3> QED BY <3>1 DEF IsBatch
  <2>3. {j \in 1..c : b.attention_mask[i][j] = 1} = 1..c
    BY <2>2
  <2>4. q = InOrder(1..c, c)
    BY <2>3
  <2>5. Enumerates(InOrder(1..c, c), 1..c, c)
    BY <2>1, InOrderIs
  <2> HIDE DEF q
  <2>6. IsRow(q, c) /\ (\A k \in 1..c : q[k] = k) /\ DOMAIN q = 1..c
    <3>1. Enumerates(q, 1..c, c)
      BY <2>4, <2>5
    <3>2. IsRow(q, c) /\ \A k \in 1..c : q[k] = k
      BY <2>1, <3>1, AllInOrder
    <3> QED BY <3>2, RowIs
  <2>7. v(i, c) = Each([h \in 1..heads |-> Each([k \in 1..c |-> <<<<ids[i][q[k]], h>>, b.position_ids[i][q[k]]>>])])
    BY <2>6 DEF q
  <2> DEFINE g(h) == [k \in 1..c |-> <<<<ids[i][k], h>>, k - 1>>]
             f == [h \in 1..heads |-> g(h)]
  <2>8. ASSUME NEW h PROVE [k \in 1..c |-> <<<<ids[i][q[k]], h>>, b.position_ids[i][q[k]]>>] = g(h)
    <3>1. \A k \in 1..c : q[k] = k /\ b.position_ids[i][k] = k - 1
      BY <2>2, <2>6
    <3>2. \A k \in 1..c : <<<<ids[i][q[k]], h>>, b.position_ids[i][q[k]]>> = <<<<ids[i][k], h>>, k - 1>>
      BY <3>1
    <3> HIDE DEF ids
    <3> QED BY <3>2
  <2>9. ASSUME NEW h PROVE Each(g(h)) = g(h)
    <3> DEFINE y == g(h)
    <3>1. IsRow(y, c)
      BY <2>1 DEF IsRow
    <3> HIDE DEF y
    <3>2. Each(y) = y
      BY <3>1, RowIs
    <3> QED BY <3>2 DEF y
  <2> HIDE DEF v, g
  <2>10. v(i, c) = Each(f)
    BY <2>7, <2>8, <2>9
  <2>11. IsRow(f, heads)
    BY DEF IsRow
  <2>12. f = RowState(b, heads, i, 0, c)
    <3>1. c - 0 = c /\ \A k \in 1..c : 0 + k = k
      BY <2>1
    <3>2. RowState(b, heads, i, 0, c) = [h \in 1..heads |-> [k \in 1..c |-> <<<<ids[i][k], h>>, k - 1>>]]
      BY <3>1 DEF RowState
    <3> QED BY <3>2 DEF g
  <2> HIDE DEF f
  <2>13. Each(f) = f
    BY <2>11, RowIs
  <2> QED BY <2>10, <2>12, <2>13
<1> HIDE DEF v
<1>4. ASSUME NEW i \in 1..R PROVE IsRow(u(i), w) /\ Each(u(i)) = u(i) /\ \A c \in 1..w : u(i)[c] = v(i, c)
  <2> DEFINE s == u(i)
  <2>1. IsRow(s, w) /\ \A c \in 1..w : s[c] = v(i, c)
    BY <1>1 DEF IsRow
  <2> HIDE DEF s
  <2>2. Each(s) = s
    BY <2>1, RowIs
  <2> QED BY <2>1, <2>2 DEF s
<1> HIDE DEF u
<1>5. IsRow(x, R) /\ \A i \in 1..R : x[i] = u(i)
  BY <1>1 DEF IsRow
<1>6. hidden = Each(x)
  BY <1>2, <1>4
<1> HIDE DEF x
<1>7. Each(x) = x
  BY <1>5, RowIs
<1>8. hidden = x
  BY <1>6, <1>7
<1> QED BY <1>3, <1>4, <1>5, <1>8 DEF IsMatrix

\* A term of the loss: the token behind place c of row i, and the tokens up to c.
TermAt(i, c) == <<<<i, 0, (c + Kept(i)) + 1>>, Context(i, c + Kept(i))>>

\* What the model computes at a place is the context that is left of the row.
LEMMA StateIsContext ==
  ASSUME Fits, NEW i \in DOMAIN files, NEW b, NEW k, b.input_ids[k] = Ids(i),
         NEW c \in 1..(MaxLength - 1), c < Behind(i)
  PROVE  <<b.input_ids[k][c + 1], RowState(b, Heads, k, 0, c)>> = TermAt(i, c)
<1>1. Kept(i) \in Nat /\ \A j \in 1..Behind(i) : Ids(i)[j] = <<i, 0, j + Kept(i)>>
  BY IdsAre
<1>2. Behind(i) \in 1..MaxLength /\ MaxLength \in Nat \ {0}
  BY RowLengths, ConfigFields
<1> DEFINE a == Kept(i)
<1> HIDE DEF a
<1>3. c + 1 \in 1..Behind(i) /\ (c + 1) + a = (c + a) + 1 /\ c - 0 = c /\ (c + a) - a = c
  BY <1>1, <1>2 DEF a
<1>4. \A j \in 1..c : j \in 1..Behind(i) /\ 0 + j = j
  BY <1>2
<1>5. b.input_ids[k][c + 1] = <<i, 0, (c + a) + 1>>
  BY <1>1, <1>3 DEF a
<1>6. \A j \in 1..c : b.input_ids[k][0 + j] = <<i, 0, j + a>>
  BY <1>1, <1>4 DEF a
<1>7. RowState(b, Heads, k, 0, c) = [h \in 1..Heads |-> [j \in 1..c |-> <<<<<<i, 0, j + a>>, h>>, j - 1>>]]
  BY <1>3, <1>6 DEF RowState
<1>8. Context(i, c + a) = [h \in 1..Heads |-> [j \in 1..c |-> <<<<<<i, 0, j + a>>, h>>, j - 1>>]]
  BY <1>3 DEF Context, a
<1> QED BY <1>5, <1>7, <1>8 DEF TermAt, a

\* The losses of some rows, with and without sequence parallelism.
LEMMA LossesAre ==
  ASSUME Fits, NEW rows \in Seq(DOMAIN files), Len(rows) # 0, MaxLength # 1
  PROVE  /\ DOMAIN Losses(Stacked(rows)) = DOMAIN rows
         /\ \A k \in DOMAIN rows, c \in 1..(MaxLength - 1) :
              c < Behind(rows[k]) => Losses(Stacked(rows))[k][c] = TermAt(rows[k], c)
<1> DEFINE R == Len(rows)
           w == MaxLength
           a == [k \in DOMAIN rows |-> 0]
           e == [k \in DOMAIN rows |-> Behind(rows[k])]
<1>1. PICK b : b = Stacked(rows)
  OBVIOUS
<1>2. /\ IsBatch(b, R, w, a, e) /\ IsMatrix(b.input_ids, R, w)
      /\ \A k \in 1..R : rows[k] \in DOMAIN files /\ b.input_ids[k] = Ids(rows[k])
      /\ DOMAIN rows = 1..R
  <2>1. DOMAIN rows = 1..R
    OBVIOUS
  <2> HIDE DEF R
  <2> QED BY <1>1, <2>1, StackedIs DEF R
<1>3. \A k \in 1..R : a[k] = 0 /\ e[k] = Behind(rows[k])
  BY <1>2
<1> HIDE DEF a, e
<1>4. /\ config.sp \in Nat \ {0} /\ Heads \in Nat \ {0} /\ Heads % config.sp = 0 /\ w \in Nat \ {0}
      /\ R \in Nat \ {0} /\ \A c \in 1..(w - 1) : c \in 1..w
  BY <1>2, ConfigFields DEF IsBatch
<1>5. ASSUME NEW k \in 1..R, NEW c \in 1..(w - 1), c < e[k]
      PROVE  <<b.input_ids[k][c + 1], RowState(b, Heads, k, a[k], c)>> = TermAt(rows[k], c)
  BY <1>2, <1>3, <1>5, StateIsContext
<1>6. CASE config.sp = 1
  <2>1. PICK hidden : hidden = PaddedAttention(b, Heads)
    OBVIOUS
  <2>2. /\ IsMatrix(hidden, R, w)
        /\ \A k \in 1..R, c \in 1..w : c <= e[k] => hidden[k][c] = RowState(b, Heads, k, 0, c)
    <3>1. Heads \in Nat /\ \A k \in 1..R : a[k] = 0
      BY <1>3, <1>4
    <3> QED BY <1>2, <2>1, <3>1, PaddedIs
  <2> DEFINE u(k) == [c \in 1..(w - 1) |-> <<b.input_ids[k][c + 1], hidden[k][c]>>]
             x == [k \in 1..R |-> u(k)]
  <2>3. DOMAIN hidden = 1..R
    BY <2>2, RowIs DEF IsMatrix
  <2>4. Losses(b) = Each([k \in 1..R |-> Each(u(k))])
    BY <1>6, <2>1, <2>3 DEF Losses
  <2>5. ASSUME NEW k \in 1..R PROVE Each(u(k)) = u(k)
    <3> DEFINE s == u(k)
    <3>1. IsRow(s, w - 1)
      BY <1>4 DEF IsRow
    <3> HIDE DEF s
    <3>2. Each(s) = s
      BY <3>1, RowIs
    <3> QED BY <3>2 DEF s
  <2>6. IsRow(x, R)
    BY <1>4 DEF IsRow
  <2>7. Losses(b) = Each(x)
    <3> HIDE DEF u
    <3> QED BY <2>4, <2>5
  <2>8. Losses(b) = x
    <3> HIDE DEF x
    <3> QED BY <2>6, <2>7, RowIs
  <2>9. ASSUME NEW k \in 1..R, NEW c \in 1..(w - 1), c < e[k] PROVE x[k][c] = TermAt(rows[k], c)
    <3>1. x[k][c] = <<b.input_ids[k][c + 1], hidden[k][c]>>
      OBVIOUS
    <3>2. c <= e[k] /\ c \in 1..w
      <4>1. e[k] \in 0..w
        BY <1>2 DEF IsBatch
      <4> QED BY <1>4, <2>9, <4>1
    <3>3. hidden[k][c] = RowState(b, Heads, k, a[k], c)
      BY <1>3, <2>2, <3>2
    <3> QED BY <1>5, <2>9, <3>1, <3>3
  <2>10. DOMAIN x = 1..R
    OBVIOUS
  <2> HIDE DEF x
  <2> QED BY <1>1, <1>2, <1>3, <2>8, <2>9, <2>10
<1>7. CASE config.sp # 1
  <2>1. PICK full : full = RmpadForward(b, config.sp, Heads, TRUE)
    OBVIOUS
  <2>2. PICK H \in Nat \ {0} : Heads = config.sp * H
    <3> DEFINE n == config.sp
    <3>1. n \in Nat \ {0} /\ Heads \in Nat \ {0} /\ Heads % n = 0
      BY <1>4
    <3> HIDE DEF n
    <3>2. Heads \div n \in Nat /\ Heads = n * (Heads \div n) + (Heads % n)
      BY <3>1, Division
    <3>3. Heads \div n # 0
      <4>1. n * 0 = 0
        BY <3>1
      <4> QED BY <3>1, <3>2, <4>1
    <3>4. Heads = n * (Heads \div n)
      <4> DEFINE z == n * (Heads \div n)
      <4>1. z \in Int
        BY <3>1, <3>2
      <4> HIDE DEF z
      <4>2. Heads = z + 0
        BY <3>1, <3>2 DEF z
      <4>3. Heads = z
        BY <4>1, <4>2
      <4> QED BY <4>3 DEF z
    <3> QED BY <3>2, <3>3, <3>4 DEF n
  <2>3. /\ IsMatrix(full, R, w)
        /\ \A k \in 1..R, c \in 1..w :
              a[k] < c /\ c <= e[k] => IsResult(full[k][c], b, Heads, TRUE, k, a[k], e[k], c)
    <3> DEFINE n == config.sp
    <3>1. n \in Nat \ {0} /\ Heads = n * H /\ full = RmpadForward(b, n, Heads, TRUE)
      BY <1>4, <2>1, <2>2
    <3> HIDE DEF n
    <3> QED BY <1>2, <2>2, <3>1, RmpadRows
  <2> DEFINE u(k) == SubSeq(full[k], 1, w - 1)
             x == [k \in 1..R |-> u(k)]
  <2>4. DOMAIN full = 1..R
    BY <2>3, RowIs DEF IsMatrix
  <2>5. Losses(b) = Each(x)
    BY <1>7, <2>1, <2>4 DEF Losses
  <2>6. IsRow(x, R)
    BY <1>4 DEF IsRow
  <2>7. Losses(b) = x
    <3> HIDE DEF x
    <3> QED BY <2>5, <2>6, RowIs
  <2>8. ASSUME NEW k \in 1..R, NEW c \in 1..(w - 1) PROVE x[k][c] = full[k][c]
    <3> DEFINE s == full[k]
               X == {s[j] : j \in 1..w}
               t == SubSeq(s, 1, w - 1)
    <3>1. s \in Seq(X) /\ Len(s) = w
      <4>1. IsRow(s, w)
        BY <2>3 DEF IsMatrix
      <4> HIDE DEF s
      <4> QED BY <4>1, RowIs
    <3>2. x[k] = t
      OBVIOUS
    <3> HIDE DEF x, s, X
    <3>3. w - 1 \in 0..Len(s)
      BY <1>4, <3>1
    <3>4. t[c] = s[c]
      BY <1>4, <3>1, <3>3
    <3> QED BY <3>2, <3>4 DEF s
  <2>9. ASSUME NEW k \in 1..R, NEW c \in 1..(w - 1), c < e[k] PROVE x[k][c] = TermAt(rows[k], c)
    <3>1. a[k] < c /\ c <= e[k] /\ c \in 1..w
      <4>1. e[k] \in 0..w /\ a[k] = 0
        BY <1>2, <1>3 DEF IsBatch
      <4> QED BY <1>4, <2>9, <4>1
    <3>2. IsResult(full[k][c], b, Heads, TRUE, k, a[k], e[k], c)
      BY <2>3, <3>1
    <3>3. full[k][c] = <<b.input_ids[k][c + 1], RowState(b, Heads, k, a[k], c)>>
      BY <2>9, <3>2 DEF IsResult, Result, WithLabel
    <3> HIDE DEF x
    <3> QED BY <1>5, <2>8, <2>9, <3>3
  <2>10. DOMAIN x = 1..R
    OBVIOUS
  <2> HIDE DEF x
  <2> QED BY <1>1, <1>2, <1>3, <2>7, <2>9, <2>10
<1> QED BY <1>6, <1>7

\* A kept place of a row is one before a response token, and every response token has one.
LEMMA CoveredIs ==
  ASSUME Fits, NEW i \in DOMAIN files
  PROVE  /\ \A c \in 1..(MaxLength - 1) :
              LossMask(i)[c] = 1 => c < Behind(i) /\ TermAt(i, c) \in Expected(i)
         /\ Kept(i) = 0 /\ (config.truncation = "error" => ~ TooLong(i)) =>
              \A t \in Expected(i) : \E c \in 1..(MaxLength - 1) : LossMask(i)[c] = 1 /\ t = TermAt(i, c)
<1> DEFINE P == PromptLength(i)
           L == PromptLength(i) + ResponseLength(i)
           a == Kept(i)
           tr == config.truncation
<1>1. /\ MaxLength \in Nat \ {0} /\ P \in Nat \ {0} /\ L \in Nat /\ P < L /\ Len(Text(i)) = L
      /\ tr \in {"left", "right", "error"}
  BY RowLengths, ConfigFields
<1>2. First(i) = IF P < MaxLength THEN P ELSE MaxLength
  BY DEF First, AtMost
<1>3. Behind(i) = IF L < MaxLength THEN L ELSE MaxLength
  BY DEF Behind, AtMost
<1>4. a = (IF tr = "left" /\ L > MaxLength THEN L - MaxLength ELSE 0) /\ (TooLong(i) <=> L > MaxLength)
  BY <1>1 DEF Kept, TooLong
<1>5. Response(i) = {k \in (P + 1)..L : tr = "right" => k <= MaxLength}
  BY <1>1 DEF Response
<1>6. \A c \in 1..(MaxLength - 1) : LossMask(i)[c] = IF First(i) <= c /\ c < Behind(i) THEN 1 ELSE 0
  <2>1. \A c \in 1..(MaxLength - 1) : c \in 1..MaxLength
    BY <1>1
  <2> QED BY <2>1, MaskKeeps
<1>7. Expected(i) = {<<<<i, 0, k>>, Context(i, k - 1)>> : k \in {k \in Response(i) : k - 1 > a}}
  BY DEF Expected
<1> HIDE DEF P, L, a, tr
<1>8. ASSUME NEW c \in 1..(MaxLength - 1), LossMask(i)[c] = 1
      PROVE  c < Behind(i) /\ TermAt(i, c) \in Expected(i)
  <2>1. First(i) <= c /\ c < Behind(i)
    BY <1>6, <1>8
  <2> DEFINE k == (c + a) + 1
  <2>2. a \in Nat /\ P <= c /\ k \in (P + 1)..L /\ (tr = "right" => k <= MaxLength) /\ k - 1 = c + a /\ k - 1 > a
    BY <1>1, <1>2, <1>3, <1>4, <2>1
  <2> HIDE DEF k
  <2>3. k \in {j \in Response(i) : j - 1 > a}
    BY <1>5, <2>2
  <2>4. TermAt(i, c) = <<<<i, 0, k>>, Context(i, k - 1)>>
    BY <2>2 DEF TermAt, k, a
  <2> QED BY <1>7, <2>1, <2>3, <2>4
<1>9. ASSUME a = 0, tr = "error" => ~ TooLong(i), NEW t \in Expected(i)
      PROVE  \E c \in 1..(MaxLength - 1) : LossMask(i)[c] = 1 /\ t = TermAt(i, c)
  <2>1. PICK k \in {j \in Response(i) : j - 1 > a} : t = <<<<i, 0, k>>, Context(i, k - 1)>>
    BY <1>7
  <2>2. k \in (P + 1)..L /\ (tr = "right" => k <= MaxLength)
    BY <1>5, <2>1
  <2>3. L <= MaxLength \/ tr = "right"
    BY <1>1, <1>4, <1>9
  <2> DEFINE c == k - 1
  <2>4. c \in 1..(MaxLength - 1) /\ First(i) <= c /\ c < Behind(i) /\ (c + a) + 1 = k /\ c + a = k - 1
    BY <1>1, <1>2, <1>3, <1>9, <2>2, <2>3
  <2> HIDE DEF c
  <2>5. LossMask(i)[c] = 1
    BY <1>6, <2>4
  <2>6. t = TermAt(i, c)
    BY <2>1, <2>4 DEF TermAt, a
  <2> QED BY <2>4, <2>5, <2>6
<1> QED BY <1>8, <1>9 DEF a, tr

\* The mask of stacked rows.
LEMMA StackedMask ==
  ASSUME Fits, NEW rows \in Seq(DOMAIN files)
  PROVE  \A k \in DOMAIN rows : Stacked(rows).loss_mask[k] = LossMask(rows[k])
<1> DEFINE R == Len(rows)
           x == [k \in 1..R |-> LossMask(rows[k])]
<1>1. R \in Nat /\ DOMAIN rows = 1..R /\ \A k \in 1..R : rows[k] \in DOMAIN files
  OBVIOUS
<1> HIDE DEF R
<1>2. ASSUME NEW k \in 1..R PROVE Each(LossMask(rows[k])) = LossMask(rows[k])
  <2> DEFINE m == LossMask(rows[k])
  <2>1. IsRow(m, MaxLength)
    BY <1>1, MaskKeeps, ConfigFields DEF IsRow
  <2> HIDE DEF m
  <2>2. Each(m) = m
    BY <2>1, RowIs
  <2> QED BY <2>2 DEF m
<1>3. IsRow(x, R)
  BY <1>1 DEF IsRow
<1>4. [k \in DOMAIN rows |-> Each(LossMask(rows[k]))] = x
  BY <1>1, <1>2
<1>5. Stacked(rows).loss_mask = Each(x)
  BY <1>4 DEF Stacked
<1>6. \A k \in 1..R : x[k] = LossMask(rows[k])
  OBVIOUS
<1> HIDE DEF x
<1> QED BY <1>1, <1>3, <1>5, <1>6, RowIs

\* The terms of some rows' loss.
LEMMA TermsAre ==
  ASSUME Fits, NEW rows \in Seq(DOMAIN files), Len(rows) # 0
  PROVE  /\ \A t \in Terms(Stacked(rows)) : \E k \in DOMAIN rows, c \in 1..(MaxLength - 1) :
              LossMask(rows[k])[c] = 1 /\ c < Behind(rows[k]) /\ t = TermAt(rows[k], c)
         /\ \A k \in DOMAIN rows, c \in 1..(MaxLength - 1) :
              LossMask(rows[k])[c] = 1 => TermAt(rows[k], c) \in Terms(Stacked(rows))
<1>1. PICK b : b = Stacked(rows)
  OBVIOUS
<1>2. PICK losses : losses = Losses(b)
  OBVIOUS
<1> DEFINE W == 1..(MaxLength - 1)
           kept == {k \in (DOMAIN losses) \X W : b.loss_mask[k[1]][k[2]] = 1}
<1>3. Terms(b) = {losses[k[1]][k[2]] : k \in kept}
  BY <1>2 DEF Terms
<1>4. CASE MaxLength = 1
  <2>1. W = {}
    BY <1>4
  <2> HIDE DEF W
  <2>2. Terms(b) = {}
    BY <1>3, <2>1
  <2> QED BY <1>1, <2>1, <2>2 DEF W
<1>5. CASE MaxLength # 1
  <2>1. /\ DOMAIN losses = DOMAIN rows
        /\ \A k \in DOMAIN rows, c \in W : c < Behind(rows[k]) => losses[k][c] = TermAt(rows[k], c)
    BY <1>1, <1>2, <1>5, LossesAre
  <2>2. \A k \in DOMAIN rows : b.loss_mask[k] = LossMask(rows[k])
    BY <1>1, StackedMask
  <2>3. \A k \in DOMAIN rows, c \in W : LossMask(rows[k])[c] = 1 => c < Behind(rows[k])
    <3>1. \A k \in DOMAIN rows : rows[k] \in DOMAIN files
      OBVIOUS
    <3> QED BY <3>1, CoveredIs
  <2> HIDE DEF W
  <2>4. ASSUME NEW t \in Terms(b)
        PROVE  \E k \in DOMAIN rows, c \in W :
                 LossMask(rows[k])[c] = 1 /\ c < Behind(rows[k]) /\ t = TermAt(rows[k], c)
    <3>1. PICK k \in (DOMAIN rows) \X W : b.loss_mask[k[1]][k[2]] = 1 /\ t = losses[k[1]][k[2]]
      BY <1>3, <2>1
    <3>2. k[1] \in DOMAIN rows /\ k[2] \in W
      OBVIOUS
    <3>3. LossMask(rows[k[1]])[k[2]] = 1
      BY <2>2, <3>1, <3>2
    <3> QED BY <2>1, <2>3, <3>1, <3>2, <3>3
  <2>5. ASSUME NEW k \in DOMAIN rows, NEW c \in W, LossMask(rows[k])[c] = 1
        PROVE  TermAt(rows[k], c) \in Terms(b)
    <3>1. <<k, c>> \in kept
      BY <2>1, <2>2, <2>5
    <3>2. losses[k][c] = TermAt(rows[k], c)
      BY <2>1, <2>3, <2>5
    <3>3. losses[<<k, c>>[1]][<<k, c>>[2]] \in Terms(b)
      <4> HIDE DEF kept
      <4> QED BY <1>3, <3>1
    <3> QED BY <3>2, <3>3
  <2> QED BY <1>1, <2>4, <2>5 DEF W
<1> QED BY <1>4, <1>5

\* The loss of a micro-batch covers the responses of its rows.
LEMMA MicroCovers ==
  ASSUME Fits, NEW rows \in Seq(DOMAIN files), Len(rows) # 0,
         config.truncation = "error" => \A k \in DOMAIN rows : ~ TooLong(rows[k])
  PROVE  LET wanted == UNION {Expected(i) : i \in Range(rows)}
             terms == Terms(Stacked(rows))
         IN /\ terms \subseteq wanted
            /\ (\A i \in Range(rows) : Kept(i) = 0) => terms = wanted
<1> DEFINE wanted == UNION {Expected(i) : i \in Range(rows)}
           terms == Terms(Stacked(rows))
<1>1. \A k \in DOMAIN rows : rows[k] \in DOMAIN files /\ rows[k] \in Range(rows)
  BY DEF Range
<1>2. ASSUME NEW t \in terms PROVE t \in wanted
  <2>1. PICK k \in DOMAIN rows, c \in 1..(MaxLength - 1) :
          LossMask(rows[k])[c] = 1 /\ t = TermAt(rows[k], c)
    BY TermsAre
  <2>2. t \in Expected(rows[k])
    BY <1>1, <2>1, CoveredIs
  <2> QED BY <1>1, <2>2
<1>3. ASSUME \A i \in Range(rows) : Kept(i) = 0, NEW t \in wanted PROVE t \in terms
  <2>1. PICK i \in Range(rows) : t \in Expected(i)
    OBVIOUS
  <2>2. PICK k \in DOMAIN rows : i = rows[k]
    BY DEF Range
  <2>3. Kept(i) = 0 /\ (config.truncation = "error" => ~ TooLong(i)) /\ i \in DOMAIN files
    BY <1>1, <1>3, <2>2
  <2>4. PICK c \in 1..(MaxLength - 1) : LossMask(i)[c] = 1 /\ t = TermAt(i, c)
    BY <2>1, <2>3, CoveredIs
  <2> QED BY <2>2, <2>4, TermsAre
<1> HIDE DEF wanted, terms
<1>4. terms \subseteq wanted /\ ((\A i \in Range(rows) : Kept(i) = 0) => terms = wanted)
  BY <1>2, <1>3
<1> QED BY <1>4 DEF wanted, terms

\* The loss of a row is over its response tokens, each predicted from all that precedes it in its own
\* row, whatever the lengths of the rows, the window and the truncation, and the same when sequence
\* parallel ranks share the packed rows: never over the prompt, padding or the next row
\* (SFTDataset's loss_mask and _compute_loss_and_backward of fsdp_sft_trainer.py).
THEOREM LossIsOverResponses == Spec => []LossCoversResponse
<1>1. IInv => LossCoversResponse
  <2> SUFFICES ASSUME IInv, NEW r \in DOMAIN pull, NEW m \in DOMAIN pull[r]
               PROVE  LET rows == pull[r][m]
                          wanted == UNION {Expected(i) : i \in Range(rows)}
                          terms == Terms(Stacked(rows))
                      IN /\ terms \subseteq wanted
                         /\ (\A i \in Range(rows) : Kept(i) = 0) => terms = wanted
    BY DEF LossCoversResponse
  <2>1. pull # <<>>
    OBVIOUS
  <2>2. PICK all : Pulled(all)
    BY <2>1 DEF IInv, PullInv
  <2>3. Fits /\ r \in Ranks /\ DataRank(r) \in 0..(config.dp - 1)
    BY <2>2, RankPlace DEF IInv, Pulled
  <2>4. PICK dealt : dealt = all[DataRank(r)]
    OBVIOUS
  <2>5. /\ dealt \in Seq(DOMAIN files) /\ pull[r] = MicroBatches(dealt)
        /\ config.truncation = "error" => \A j \in DOMAIN dealt : ~ TooLong(dealt[j])
    BY <2>2, <2>3, <2>4 DEF Pulled
  <2> DEFINE rows == pull[r][m]
             c == config.micro
  <2>6. /\ rows \in Seq(DOMAIN files) /\ Len(rows) = c
        /\ \A k \in 1..c : \E j \in DOMAIN dealt : rows[k] = dealt[j]
    <3>1. m \in 1..(Len(dealt) \div c)
      <4>1. DOMAIN MicroBatches(dealt) = 1..(Len(dealt) \div c)
        BY <2>3, <2>5, MicroIs
      <4> HIDE DEF c
      <4> QED BY <2>5, <4>1
    <3>2. rows = MicroBatches(dealt)[m]
      BY <2>5
    <3>3. /\ MicroBatches(dealt)[m] \in Seq(DOMAIN files) /\ Len(MicroBatches(dealt)[m]) = c
          /\ \A k \in 1..c : \E j \in DOMAIN dealt : MicroBatches(dealt)[m][k] = dealt[j]
      BY <2>3, <2>5, <3>1, MicroIs
    <3> HIDE DEF rows, c
    <3> QED BY <3>2, <3>3
  <2>7. c \in Nat \ {0}
    BY <2>3, ConfigFields
  <2> HIDE DEF rows, c
  <2>8. Len(rows) # 0 /\ DOMAIN rows = 1..c
    BY <2>6, <2>7
  <2>9. config.truncation = "error" => \A k \in DOMAIN rows : ~ TooLong(rows[k])
    BY <2>5, <2>6, <2>8
  <2>10. LET wanted == UNION {Expected(i) : i \in Range(rows)}
             terms == Terms(Stacked(rows))
         IN /\ terms \subseteq wanted
            /\ (\A i \in Range(rows) : Kept(i) = 0) => terms = wanted
    BY <2>3, <2>6, <2>8, <2>9, MicroCovers
  <2> QED BY <2>10 DEF rows
<1> QED BY <1>1, Invariant, PTL

-----------------------------------------------------------------------------
(* The batch on its way to the losses.  The forward passes of the backends, for rows
   of any length: the packed rows, their sequences, and the padded rows. *)

\* The mask is a matrix of zeros and ones.
IsMask(b, R, w) ==
  IsMatrix(b.attention_mask, R, w) /\ \A i \in 1..R, c \in 1..w : b.attention_mask[i][c] \in {0, 1}

\* A row's sum is the number of its valid places.
LEMMA MaskSums ==
  ASSUME NEW b, NEW R, NEW w, NEW a, NEW e, IsBatch(b, R, w, a, e), IsMask(b, R, w), NEW i \in 1..R
  PROVE  SumSeq(b.attention_mask[i]) = e[i] - a[i]
<1> DEFINE s == b.attention_mask[i]
           V == {c \in 1..w : s[c] = 1}
<1>1. w \in Nat \ {0} /\ a[i] \in Nat /\ e[i] \in 0..w /\ a[i] + 2 <= e[i]
  BY DEF IsBatch
<1>2. V = (a[i] + 1)..e[i]
  <2>1. \A c \in 1..w : s[c] = 1 <=> (a[i] < c /\ c <= e[i])
    BY DEF IsBatch
  <2> QED BY <1>1, <2>1
<1>3. DOMAIN s = 1..w /\ \A c \in 1..w : s[c] \in {0, 1}
  BY RowIs DEF IsMask, IsMatrix
<1> HIDE DEF s
<1>4. SumSeq(s) = Cardinality(V)
  BY <1>1, <1>3, SumOfMask
<1>5. Cardinality((a[i] + 1)..e[i]) = e[i] - a[i]
  <2> DEFINE x == a[i] + 1
             y == e[i]
  <2>1. x \in Int /\ y \in Int /\ x <= y
    BY <1>1
  <2> HIDE DEF x, y
  <2>2. Cardinality(x..y) = IF x > y THEN 0 ELSE y - x + 1
    BY <2>1, FS_Interval
  <2>3. Cardinality(x..y) = y - x + 1
    BY <2>1, <2>2
  <2>4. y - x + 1 = e[i] - a[i]
    BY <1>1 DEF x, y
  <2> QED BY <2>3, <2>4 DEF x, y
<1> QED BY <1>2, <1>4, <1>5 DEF s

\* The least place behind the first k stands next.
LEMMA NextStands ==
  ASSUME NEW n \in Nat, NEW places, NEW q, Enumerates(q, places, n),
         NEW k \in 0..Len(q), NEW x \in places, x <= n,
         k # 0 => q[k] < x,
         \A y \in places : (k # 0 => q[k] < y) => x <= y
  PROVE  k + 1 \in 1..Len(q) /\ q[k + 1] = x
<1>1. Len(q) \in Nat /\ \A j \in 1..Len(q) : q[j] \in Nat /\ q[j] \in places /\ q[j] <= n
  BY DEF Enumerates
<1>2. PICK j \in 1..Len(q) : q[j] = x
  BY DEF Enumerates
<1>3. k < j
  <2>1. SUFFICES ASSUME j <= k PROVE FALSE
    BY <1>1
  <2>2. k \in 1..Len(q) /\ k # 0 /\ q[k] < q[j]
    BY <1>1, <1>2, <2>1
  <2>3. j < k => q[j] < q[k]
    BY <2>2 DEF Enumerates
  <2>4. q[j] \in Nat /\ q[k] \in Nat
    BY <1>1, <2>2
  <2> QED BY <1>1, <2>1, <2>2, <2>3, <2>4
<1>4. k + 1 \in 1..Len(q)
  BY <1>1, <1>3
<1>5. k + 1 < j => q[k + 1] < q[j]
  BY <1>4 DEF Enumerates
<1>6. k # 0 => q[k] < q[k + 1]
  <2>1. k # 0 => k \in 1..Len(q) /\ k < k + 1
    BY <1>1
  <2> QED BY <1>4, <2>1 DEF Enumerates
<1>7. x <= q[k + 1]
  BY <1>1, <1>4, <1>6
<1>8. ~ (k + 1 < j)
  <2>1. q[k + 1] \in Nat /\ q[j] \in Nat
    BY <1>1, <1>4
  <2> QED BY <1>2, <1>5, <1>7, <2>1
<1>9. k + 1 = j
  BY <1>1, <1>3, <1>8
<1> QED BY <1>2, <1>4, <1>9

\* A place of an earlier row has the smaller number.
LEMMA CellOrder ==
  ASSUME NEW w \in Nat \ {0}, NEW i \in Nat \ {0}, NEW j \in Nat \ {0}, NEW c \in 1..w, NEW d \in 1..w,
         i < j
  PROVE  Cell(w, i, c) < Cell(w, j, d)
<1> DEFINE x == w * (i - 1)
           y == w * (j - 1)
<1>1. i - 1 \in Nat /\ j - 1 \in Nat /\ i - 1 < j - 1
  OBVIOUS
<1>2. x + w <= y
  BY <1>1, ProductGrows
<1>3. x \in Nat /\ y \in Nat /\ (i - 1) * w = x /\ (j - 1) * w = y
  BY <1>1
<1> HIDE DEF x, y
<1> QED BY <1>2, <1>3 DEF Cell

\* The valid places of row i come behind the first k, which are those of the rows before it.
Behindhand(w, e, q, i, k) ==
  /\ k \in 0..Len(q)
  /\ i = 1 => k = 0
  /\ i # 1 => k # 0 /\ q[k] = Cell(w, i - 1, e[i - 1])

\* So after the last place of a row the next row begins.
LEMMA RowFollows ==
  ASSUME NEW b, NEW R, NEW w, NEW a, NEW e, IsBatch(b, R, w, a, e),
         NEW q, q = Indices(b.attention_mask, w), NEW i \in 1..R, NEW k, Behindhand(w, e, q, i, k)
  PROVE  Stands(w, a, e, q, i, k + 1)
<1> DEFINE places == Valid(b, R, w)
           n == R * w
           x == Cell(w, i, a[i] + 1)
<1>1. R \in Nat \ {0} /\ w \in Nat \ {0} /\ \A r \in 1..R : a[r] \in Nat /\ e[r] \in 0..w /\ a[r] + 2 <= e[r]
  BY DEF IsBatch
<1>2. Enumerates(q, places, n) /\ n \in Nat
  BY IndicesAre
<1>3. a[i] + 1 \in 1..w /\ a[i] < a[i] + 1 /\ a[i] + 1 <= e[i]
  BY <1>1
<1>4. x \in places
  BY <1>3, IndicesAre
<1>5. \A y \in places : y \in 1..n
  BY DEF Valid
<1>6. k \in 0..Len(q) /\ Len(q) \in Nat
  BY <1>2 DEF Behindhand, Enumerates
<1> HIDE DEF places, n, x
<1>7. ASSUME NEW y \in places
      PROVE  \E r \in 1..R, c \in 1..w : y = Cell(w, r, c) /\ a[r] < c /\ c <= e[r]
  <2>1. y \in 1..(R * w)
    BY <1>5 DEF n
  <2>2. RowOf(w, y) \in 1..R /\ ColumnOf(w, y) \in 1..w /\ y = Cell(w, RowOf(w, y), ColumnOf(w, y))
    <3>1. R \in Nat
      BY <1>1
    <3> QED BY <1>1, <2>1, <3>1, IsCell, Zenon
  <2>3. PICK r \in 1..R, c \in 1..w : y = Cell(w, r, c)
    BY <2>2
  <2>4. a[r] < c /\ c <= e[r]
    BY <2>3, IndicesAre DEF places
  <2> QED BY <2>3, <2>4
<1>8. i # 1 => k # 0 /\ i - 1 \in 1..R /\ e[i - 1] \in 1..w /\ q[k] = Cell(w, i - 1, e[i - 1])
  BY <1>1 DEF Behindhand
<1>9. k # 0 => q[k] < x
  <2> SUFFICES ASSUME k # 0 PROVE q[k] < x
    OBVIOUS
  <2>1. i # 1
    BY DEF Behindhand
  <2>2. i - 1 \in Nat \ {0} /\ i \in Nat \ {0} /\ i - 1 < i
    BY <2>1
  <2> QED BY <1>1, <1>3, <1>8, <2>1, <2>2, CellOrder DEF x
<1>10. ASSUME NEW y \in places, k # 0 => q[k] < y PROVE x <= y
  <2>1. PICK r \in 1..R, c \in 1..w : y = Cell(w, r, c) /\ a[r] < c /\ c <= e[r]
    BY <1>7
  <2>2. r \in Nat \ {0} /\ i \in Nat \ {0} /\ y \in Nat /\ x \in Nat
    BY <1>4, <1>5
  <2>3. CASE i < r
    <3>1. x < y
      BY <1>1, <1>3, <2>1, <2>2, <2>3, CellOrder DEF x
    <3> QED BY <2>2, <3>1
  <2>4. CASE i = r
    <3>1. a[i] + 1 <= c
      BY <1>1, <2>1, <2>4
    <3>2. (i - 1) * w \in Nat
      BY <1>1
    <3> QED BY <1>1, <2>1, <2>4, <3>1, <3>2 DEF x, Cell
  <2>5. CASE r < i
    <3>1. i # 1 /\ i - 1 \in Nat \ {0}
      BY <2>2, <2>5
    <3>2. q[k] < y /\ q[k] = Cell(w, i - 1, e[i - 1]) /\ e[i - 1] \in 1..w
      BY <1>8, <1>10, <3>1
    <3>3. CASE r = i - 1
      <4>1. (r - 1) * w \in Nat /\ c <= e[r] /\ q[k] = (r - 1) * w + e[r] /\ y = (r - 1) * w + c
        BY <1>1, <2>1, <3>2, <3>3 DEF Cell
      <4>2. ~ (q[k] < y)
        <5> DEFINE z == (r - 1) * w
        <5>1. z \in Nat /\ q[k] = z + e[r] /\ y = z + c /\ e[r] \in Nat /\ c \in Nat /\ c <= e[r]
          BY <1>1, <4>1
        <5> HIDE DEF z
        <5> QED BY <5>1
      <4> QED BY <3>2, <4>2
    <3>4. CASE r < i - 1
      <4>1. y < q[k]
        BY <1>1, <2>1, <2>2, <3>1, <3>2, <3>4, CellOrder
      <4>2. q[k] \in Nat
        <5>1. k \in 1..Len(q)
          BY <1>6, <1>8, <3>1
        <5> QED BY <1>2, <5>1 DEF Enumerates
      <4> QED BY <2>2, <3>2, <4>1, <4>2
    <3> QED BY <2>2, <2>5, <3>1, <3>3, <3>4
  <2> QED BY <2>2, <2>3, <2>4, <2>5
<1>11. x <= n
  BY <1>4, <1>5
<1>12. k + 1 \in 1..Len(q) /\ q[k + 1] = x
  BY <1>2, <1>4, <1>6, <1>9, <1>10, <1>11, NextStands
<1>13. PICK j \in 1..Len(q) : Stands(w, a, e, q, i, j)
  BY RowStands
<1>14. q[j] = x
  <2>1. 0 \in 0..(e[i] - a[i] - 1) /\ a[i] + 1 + 0 = a[i] + 1 /\ j + 0 = j
    BY <1>1, <1>6
  <2>2. q[j + 0] = Cell(w, i, a[i] + 1 + 0)
    BY <1>13, <2>1 DEF Stands
  <2> QED BY <2>1, <2>2 DEF x
<1>15. j = k + 1
  BY <1>2, <1>12, <1>14, OncePlaced
<1> QED BY <1>13, <1>15

\* Behind the last row there is none.
LEMMA LastRowEnds ==
  ASSUME NEW b, NEW R, NEW w, NEW a, NEW e, IsBatch(b, R, w, a, e),
         NEW q, q = Indices(b.attention_mask, w), NEW k \in 1..Len(q), q[k] = Cell(w, R, e[R])
  PROVE  k = Len(q)
<1> DEFINE places == Valid(b, R, w)
           n == R * w
<1>1. R \in Nat \ {0} /\ w \in Nat \ {0} /\ \A r \in 1..R : a[r] \in Nat /\ e[r] \in 1..w
  BY DEF IsBatch
<1>2. Enumerates(q, places, n) /\ Len(q) \in Nat
  <2>1. Enumerates(Indices(b.attention_mask, w), Valid(b, R, w), R * w)
    BY IndicesAre
  <2>2. Enumerates(q, places, n)
    BY <2>1
  <2> QED BY <2>2 DEF Enumerates
<1> SUFFICES ASSUME k + 1 \in 1..Len(q) PROVE FALSE
  BY <1>2
<1> DEFINE y == q[k + 1]
<1>3. q[k] < y /\ y \in places /\ y \in Nat /\ q[k] \in Nat
  BY <1>2 DEF Enumerates
<1> HIDE DEF y
<1>4. y \in 1..(R * w)
  BY <1>3 DEF Valid
<1>5. RowOf(w, y) \in 1..R /\ ColumnOf(w, y) \in 1..w /\ y = Cell(w, RowOf(w, y), ColumnOf(w, y))
  <2>1. R \in Nat
    BY <1>1
  <2> QED BY <1>1, <1>4, <2>1, IsCell, Zenon
<1>6. PICK r \in 1..R, c \in 1..w : y = Cell(w, r, c)
  BY <1>5
<1>7. c <= e[r]
  BY <1>3, <1>6, IndicesAre
<1>8. CASE r = R
  <2> DEFINE z == (R - 1) * w
  <2>1. z \in Nat /\ q[k] = z + e[R] /\ y = z + c /\ e[R] \in Nat /\ c <= e[R]
    BY <1>1, <1>6, <1>7, <1>8 DEF Cell
  <2> HIDE DEF z
  <2> QED BY <1>3, <2>1
<1>9. CASE r # R
  <2>1. r < R /\ r \in Nat \ {0} /\ R \in 1..R
    BY <1>1, <1>9
  <2>2. y < q[k]
    BY <1>1, <1>6, <2>1, CellOrder
  <2> QED BY <1>3, <2>2
<1> QED BY <1>8, <1>9

\* The positions of the rows' valid places, one row behind the other.
RunOf(a, e, i) == [k \in 1..(e[i] - a[i]) |-> k - 1]

\* Those of the first i rows are the positions of what is packed, up to the last place of row i.
RunsUpTo(b, w, a, e, q, p, i) ==
  LET s == Joined(p, i) IN
  /\ s \in Seq(Nat) /\ Behindhand(w, e, q, i + 1, Len(s))
  /\ \A k \in 1..Len(s) : s[k] = b.position_ids[RowOf(w, q[k])][ColumnOf(w, q[k])]

\* One row more.
LEMMA NextRun ==
  ASSUME NEW b, NEW R, NEW w, NEW a, NEW e, IsBatch(b, R, w, a, e),
         NEW q, q = Indices(b.attention_mask, w),
         NEW p, \A i \in 1..R : p[i] = RunOf(a, e, i),
         NEW i \in 0..(R - 1), RunsUpTo(b, w, a, e, q, p, i)
  PROVE  /\ RunsUpTo(b, w, a, e, q, p, i + 1)
         /\ Len(Joined(p, i + 1)) = Len(Joined(p, i)) + (e[i + 1] - a[i + 1])
<1> DEFINE j == i + 1
           s == Joined(p, i)
           u == p[j]
           l == Len(s)
           m == e[j] - a[j]
           t == s \o u
<1>1. R \in Nat \ {0} /\ w \in Nat \ {0} /\ j \in 1..R /\ a[j] \in Nat /\ e[j] \in 0..w /\ a[j] + 2 <= e[j]
  <2>1. j \in 1..R
    BY DEF IsBatch
  <2> HIDE DEF j
  <2> QED BY <2>1 DEF IsBatch
<1>2. s \in Seq(Nat) /\ l \in Nat /\ Behindhand(w, e, q, j, l)
  BY DEF RunsUpTo
<1>3. \A k \in 1..l : s[k] = b.position_ids[RowOf(w, q[k])][ColumnOf(w, q[k])]
  BY DEF RunsUpTo
<1>4. m \in Nat /\ m >= 2
  <2> HIDE DEF j
  <2> QED BY <1>1
<1>5. u \in Seq(Nat) /\ Len(u) = m /\ \A k \in 1..m : u[k] = k - 1
  <2>1. u = [k \in 1..m |-> k - 1]
    BY <1>1 DEF RunOf
  <2> HIDE DEF u, m, j
  <2> QED BY <1>4, <2>1
<1>6. Joined(p, j) = t
  <2>1. Pieces(Nat, p, R)
    <3>1. ASSUME NEW k \in 1..R PROVE p[k] \in Seq(Nat)
      <4>1. p[k] = [x \in 1..(e[k] - a[k]) |-> x - 1] /\ e[k] - a[k] \in Nat
        BY DEF RunOf, IsBatch
      <4> QED BY <4>1
    <3> QED BY <1>1, <3>1 DEF Pieces
  <2>2. i \in 0..R /\ i < R
    BY <1>1
  <2> QED BY <2>1, <2>2, JoinedNext
<1> HIDE DEF s, u, l, m
<1>7. /\ t \in Seq(Nat) /\ Len(t) = l + m
      /\ \A k \in 1..l : t[k] = s[k]
      /\ \A k \in 1..m : t[l + k] = u[k]
  <2>1. Len(s) = l
    BY DEF l
  <2>2. t \in Seq(Nat) /\ Len(t) = l + m
    <3>1. s \in Seq(Nat) /\ u \in Seq(Nat)
      BY <1>2, <1>5
    <3>2. t \in Seq(Nat) /\ Len(t) = Len(s) + Len(u)
      BY <3>1
    <3> QED BY <1>5, <2>1, <3>2
  <2>3. \A k \in 1..l : t[k] = s[k]
    BY <1>2, <1>4, <1>5, <2>1
  <2>4. ASSUME NEW k \in 1..m PROVE t[l + k] = u[k]
    <3>1. l + k \in 1..(l + m) /\ (l + k) - l = k /\ ~ (l + k <= l)
      BY <1>2, <1>4
    <3>2. t[l + k] = u[(l + k) - l]
      BY <1>2, <1>5, <2>1, <3>1
    <3> QED BY <3>1, <3>2
  <2> QED BY <2>2, <2>3, <2>4
<1> HIDE DEF t
<1>8. Stands(w, a, e, q, j, l + 1)
  BY <1>1, <1>2, RowFollows
<1>9. ASSUME NEW k \in 1..m
      PROVE  /\ l + k \in 1..Len(q) /\ q[l + k] = Cell(w, j, a[j] + k)
             /\ a[j] + k \in 1..w /\ a[j] < a[j] + k /\ a[j] + k <= e[j]
  <2> DEFINE x == k - 1
  <2>1. x \in 0..(e[j] - a[j] - 1) /\ a[j] + 1 + x = a[j] + k /\ (l + 1) + x = l + k
    <3> HIDE DEF j
    <3> QED BY <1>1, <1>2, <1>4 DEF m
  <2>2. a[j] + k \in 1..w /\ a[j] < a[j] + k /\ a[j] + k <= e[j]
    <3> HIDE DEF j
    <3> QED BY <1>1, <1>4 DEF m
  <2> HIDE DEF x, j
  <2>3. (l + 1) + x \in 1..Len(q) /\ q[(l + 1) + x] = Cell(w, j, a[j] + 1 + x)
    BY <1>8, <2>1 DEF Stands
  <2> QED BY <2>1, <2>2, <2>3
<1> HIDE DEF j
<1>10. Behindhand(w, e, q, j + 1, Len(t))
  <2>1. m \in 1..m /\ a[j] + m = e[j]
    BY <1>1, <1>4 DEF m
  <2>2. l + m \in 1..Len(q) /\ q[l + m] = Cell(w, j, e[j])
    BY <1>9, <2>1
  <2>3. Len(q) \in Nat /\ l + m \in 0..Len(q) /\ l + m # 0 /\ (j + 1) - 1 = j /\ j + 1 # 1
    <3>1. Len(q) \in Nat
      BY IndicesAre DEF Enumerates
    <3> QED BY <1>1, <1>2, <1>4, <2>2, <3>1
  <2> QED BY <1>7, <2>2, <2>3 DEF Behindhand
<1>11. ASSUME NEW k \in 1..(l + m)
       PROVE  t[k] = b.position_ids[RowOf(w, q[k])][ColumnOf(w, q[k])]
  <2>1. CASE k \in 1..l
    BY <1>3, <1>7, <2>1
  <2>2. CASE k \notin 1..l
    <3> DEFINE x == k - l
    <3>1. x \in 1..m /\ l + x = k
      BY <1>2, <1>4, <2>2
    <3> HIDE DEF x
    <3>2. t[k] = x - 1 /\ q[k] = Cell(w, j, a[j] + x)
      BY <1>5, <1>7, <1>9, <3>1
    <3> DEFINE c == a[j] + x
    <3>3. c \in 1..w /\ a[j] < c /\ c <= e[j] /\ c - a[j] - 1 = x - 1
      <4>1. a[j] + x \in 1..w /\ a[j] < a[j] + x /\ a[j] + x <= e[j]
        BY <1>9, <3>1
      <4>2. (a[j] + x) - a[j] - 1 = x - 1
        BY <1>1, <1>4, <3>1
      <4> QED BY <4>1, <4>2
    <3> HIDE DEF c
    <3>4. RowOf(w, Cell(w, j, c)) = j /\ ColumnOf(w, Cell(w, j, c)) = c
      <4>1. /\ Cell(w, j, c) \in 1..(R * w) /\ RowOf(w, Cell(w, j, c)) = j
            /\ ColumnOf(w, Cell(w, j, c)) = c
        <5>1. R \in Nat
          BY <1>1
        <5> QED BY <1>1, <3>3, <5>1, CellIs, Zenon
      <4> QED BY <4>1
    <3>5. b.position_ids[j][c] = c - a[j] - 1
      BY <1>1, <3>3 DEF IsBatch
    <3> QED BY <3>2, <3>3, <3>4, <3>5 DEF c
  <2> QED BY <2>1, <2>2
<1>12. j = i + 1 /\ Joined(p, i + 1) = t
  BY <1>6 DEF j
<1>13. RunsUpTo(b, w, a, e, q, p, j)
  BY <1>6, <1>7, <1>10, <1>11 DEF RunsUpTo
<1> QED BY <1>7, <1>12, <1>13 DEF l, m, s

\* Positions that start over with every row are those of what is packed, and there are as many of
\* them as there are valid places.
LEMMA RunsAre ==
  ASSUME NEW b, NEW R, NEW w, NEW a, NEW e, IsBatch(b, R, w, a, e), IsMask(b, R, w),
         NEW q, q = Indices(b.attention_mask, w),
         NEW lengths, lengths = [i \in DOMAIN b.attention_mask |-> SumSeq(b.attention_mask[i])],
         NEW pos, pos = FlattenSeq([i \in DOMAIN lengths |-> [k \in 1..lengths[i] |-> k - 1]])
  PROVE  SumSeq(lengths) = Len(q) /\ PositionsAre(b, w, q, pos)
<1> DEFINE p == [i \in 1..R |-> RunOf(a, e, i)]
<1>1. R \in Nat \ {0} /\ w \in Nat \ {0} /\ DOMAIN b.attention_mask = 1..R
  BY RowIs DEF IsBatch, IsMask, IsMatrix
<1>2. DOMAIN lengths = 1..R /\ \A i \in 1..R : lengths[i] = e[i] - a[i]
  BY <1>1, MaskSums
<1>3. [i \in DOMAIN lengths |-> [k \in 1..lengths[i] |-> k - 1]] = p
  BY <1>2 DEF RunOf
<1>4. pos = Joined(p, R)
  BY <1>3 DEF Joined
<1>5. \A i \in 1..R : p[i] = RunOf(a, e, i)
  OBVIOUS
<1> HIDE DEF p
<1>6. PICK f : Runs(f, lengths, R) /\ SumSeq(lengths) = f[R]
  BY <1>1, <1>2, SumIsRun
<1> DEFINE N == {i \in Nat : i <= R => RunsUpTo(b, w, a, e, q, p, i) /\ f[i] = Len(Joined(p, i))}
<1>7. 0 \in N
  <2>1. <<>> \in Seq(Nat) /\ Len(<<>>) = 0 /\ 1..0 = {}
    OBVIOUS
  <2>2. Len(q) \in Nat
    BY IndicesAre DEF Enumerates
  <2>3. Behindhand(w, e, q, 0 + 1, 0)
    BY <2>2 DEF Behindhand
  <2>4. RunsUpTo(b, w, a, e, q, p, 0) /\ f[0] = Len(Joined(p, 0))
    BY <1>6, <2>1, <2>3, JoinedNone DEF RunsUpTo, Runs
  <2> QED BY <2>4
<1>8. ASSUME NEW i \in N PROVE i + 1 \in N
  <2> SUFFICES ASSUME i + 1 <= R
               PROVE  RunsUpTo(b, w, a, e, q, p, i + 1) /\ f[i + 1] = Len(Joined(p, i + 1))
    OBVIOUS
  <2>1. i \in 0..(R - 1) /\ i <= R /\ i + 1 \in 1..R /\ (i + 1) - 1 = i
    BY <1>1
  <2>2. RunsUpTo(b, w, a, e, q, p, i) /\ f[i] = Len(Joined(p, i))
    BY <2>1
  <2> HIDE DEF N
  <2>3. /\ RunsUpTo(b, w, a, e, q, p, i + 1)
        /\ Len(Joined(p, i + 1)) = Len(Joined(p, i)) + (e[i + 1] - a[i + 1])
    BY <1>5, <2>1, <2>2, NextRun
  <2>4. f[i + 1] = f[i] + lengths[i + 1]
    BY <1>6, <2>1 DEF Runs
  <2> QED BY <1>2, <2>1, <2>2, <2>3, <2>4
<1>9. N = Nat
  <2>1. N \subseteq Nat
    OBVIOUS
  <2> HIDE DEF N
  <2> QED BY <1>7, <1>8, <2>1, AllNumbers, Zenon
<1>10. RunsUpTo(b, w, a, e, q, p, R) /\ f[R] = Len(pos)
  <2>1. R \in N
    BY <1>1, <1>9
  <2> QED BY <1>4, <2>1
<1> HIDE DEF N
<1>11. /\ pos \in Seq(Nat) /\ Len(pos) \in 1..Len(q) /\ q[Len(pos)] = Cell(w, R, e[R])
       /\ \A k \in 1..Len(pos) : pos[k] = b.position_ids[RowOf(w, q[k])][ColumnOf(w, q[k])]
  <2>1. Len(q) \in Nat
    BY IndicesAre DEF Enumerates
  <2>2. pos \in Seq(Nat) /\ Behindhand(w, e, q, R + 1, Len(pos))
    BY <1>4, <1>10 DEF RunsUpTo
  <2>3. (R + 1) - 1 = R /\ R + 1 # 1
    BY <1>1
  <2>4. \A k \in 1..Len(pos) : pos[k] = b.position_ids[RowOf(w, q[k])][ColumnOf(w, q[k])]
    BY <1>4, <1>10 DEF RunsUpTo
  <2>5. Len(pos) \in 0..Len(q) /\ Len(pos) # 0 /\ q[Len(pos)] = Cell(w, R, e[R])
    BY <2>2, <2>3 DEF Behindhand
  <2>6. Len(pos) \in 1..Len(q)
    BY <2>1, <2>5
  <2> QED BY <2>2, <2>4, <2>5, <2>6
<1>12. Len(pos) = Len(q)
  BY <1>11, LastRowEnds
<1>13. Len(q) \in Nat
  BY IndicesAre DEF Enumerates
<1>14. PositionsAre(b, w, q, pos)
  <2>1. Len(pos) \in Nat /\ Len(q) <= Len(pos)
    BY <1>12, <1>13
  <2>2. \A k \in 1..Len(q) : pos[k] = b.position_ids[RowOf(w, q[k])][ColumnOf(w, q[k])]
    BY <1>11, <1>12
  <2> QED BY <2>1, <2>2 DEF PositionsAre
<1> QED BY <1>6, <1>10, <1>12, <1>14

-----------------------------------------------------------------------------
(* Tensor parallel attention. *)

\* What padding adds.
LEMMA PaddingIs ==
  ASSUME NEW l \in Nat, NEW n \in Nat, l <= n, NEW s, IsRow(s, l), NEW z, NEW k \in (l + 1)..n
  PROVE  PadRight(s, n, z)[k] = z
<1> DEFINE X == {s[j] : j \in 1..l} \cup {z}
           u == Repeat(z, n - l)
<1>1. Len(s) = l /\ n - l \in Nat /\ ~ (l >= n) /\ k - l \in 1..(n - l)
  <2>1. Len(s) = l
    BY RowIs
  <2>2. n - l \in Nat /\ ~ (l >= n) /\ k - l \in 1..(n - l)
    OBVIOUS
  <2> QED BY <2>1, <2>2
<1>2. s \in Seq(X)
  <2>1. s = [j \in 1..l |-> s[j]] /\ \A j \in 1..l : s[j] \in X
    BY DEF IsRow
  <2> HIDE DEF X
  <2> QED BY <2>1
<1>3. u \in Seq(X) /\ Len(u) = n - l /\ \A j \in 1..(n - l) : u[j] = z
  <2>1. z \in X
    OBVIOUS
  <2> HIDE DEF X
  <2> QED BY <1>1, <2>1 DEF Repeat
<1>4. PadRight(s, n, z) = s \o u
  BY <1>1 DEF PadRight
<1> HIDE DEF X, u
<1>5. (s \o u)[k] = u[k - l]
  <2>1. k \in 1..(Len(s) + Len(u)) /\ ~ (k <= Len(s))
    BY <1>1, <1>3
  <2> QED BY <1>1, <1>2, <1>3, <2>1
<1> QED BY <1>1, <1>3, <1>4, <1>5

\* A rank's heads.
HeadsOfRank(y, t, N, H, r) ==
  IsMatrix(y, N, H) /\ \A k \in 1..N, h \in 1..H : y[k][h] = <<t[k], Cell(H, r, h)>>

\* The column parallel layer gives every rank its heads.
LEMMA SplitIs ==
  ASSUME NEW n \in Nat \ {0}, NEW H \in Nat \ {0}, NEW heads, heads = n * H,
         NEW x, NEW t, NEW N, IsHidden(x, t, N, heads), NEW r \in 1..n
  PROVE  HeadsOfRank(Split(x, n, "heads", r - 1), t, N, H, r)
<1> DEFINE v(k) == SliceOf(x[k], n, r - 1)
           y == [k \in 1..N |-> v(k)]
<1>1. N \in Nat /\ DOMAIN x = 1..N
  BY RowIs DEF IsHidden
<1>2. ASSUME NEW k \in 1..N
      PROVE  IsRow(v(k), H) /\ \A h \in 1..H : v(k)[h] = <<t[k], Cell(H, r, h)>>
  <2> DEFINE s == x[k]
  <2>1. IsRow(s, n * H) /\ \A h \in 1..(n * H) : s[h] = <<t[k], h>>
    BY DEF IsHidden
  <2> HIDE DEF s
  <2>2. /\ IsRow(SliceOf(s, n, r - 1), H)
        /\ \A h \in 1..H : SliceOf(s, n, r - 1)[h] = s[Cell(H, r, h)] /\ Cell(H, r, h) \in 1..(n * H)
    BY <2>1, SliceIs, Zenon
  <2> QED BY <2>1, <2>2 DEF s
<1>3. Split(x, n, "heads", r - 1) = Each(y)
  BY <1>1 DEF Split
<1> HIDE DEF v
<1>4. IsRow(y, N) /\ \A k \in 1..N : y[k] = v(k)
  BY <1>1 DEF IsRow
<1> HIDE DEF y
<1>5. Each(y) = y
  BY <1>4, RowIs
<1> QED BY <1>2, <1>3, <1>4, <1>5 DEF HeadsOfRank, IsMatrix

\* Its heads have attended at the first l of N places.
RankAttended(y, t, pos, N, H, r, l) ==
  IsMatrix(y, N, H) /\ \A k \in 1..l, h \in 1..H : y[k][h] = Attended(t, pos, k, Cell(H, r, h))

\* A rank takes the padding off, attends, and puts it back.
LEMMA RankAttends ==
  ASSUME NEW n \in Nat \ {0}, NEW H \in Nat \ {0}, NEW r \in 1..n, NEW N, NEW l \in Nat, l <= N,
         NEW y, NEW t, HeadsOfRank(y, t, N, H, r), NEW pos
  PROVE  RankAttended(PadRight(Attend(SubSeq(y, 1, l), pos), N, Repeat(Zero, H)), t, pos, N, H, r, l)
<1> DEFINE x == SubSeq(y, 1, l)
           X == {y[k] : k \in 1..N}
           o == Attend(x, pos)
           z == Repeat(Zero, H)
           out == PadRight(o, N, z)
<1>1. N \in Nat /\ IsRow(y, N) /\ (\A k \in 1..N : IsRow(y[k], H)) /\ \A k \in 1..l : k \in 1..N
  <2>1. IsRow(y, N) /\ \A k \in 1..N : IsRow(y[k], H)
    BY DEF HeadsOfRank, IsMatrix
  <2>2. N \in Nat
    BY <2>1 DEF IsRow
  <2> QED BY <2>1, <2>2
<1>2. y \in Seq(X) /\ Len(y) = N
  BY <1>1, RowIs
<1> HIDE DEF X
<1>3. x \in Seq(X) /\ Len(x) = l /\ \A k \in 1..l : x[k] = y[k]
  <2>1. l \in 0..Len(y)
    BY <1>1, <1>2
  <2> QED BY <1>2, <2>1
<1> HIDE DEF x
<1>4. IsMatrix(x, l, H)
  <2>1. IsRow(x, l)
    BY <1>3, IsARow
  <2> QED BY <1>1, <1>3, <2>1 DEF IsMatrix
<1>5. IsAttention(o, x, l, H, pos)
  BY <1>4, AttendIs
<1> HIDE DEF o
<1>6. IsRow(o, l) /\ \A k \in 1..l : IsRow(o[k], H)
  BY <1>5 DEF IsAttention, IsMatrix
<1>7. IsRow(out, N) /\ \A k \in 1..l : out[k] = o[k]
  <2> HIDE DEF z
  <2> QED BY <1>1, <1>6, PadRightIs
<1>8. IsRow(z, H)
  BY DEF Repeat, IsRow
<1> HIDE DEF z
<1>9. ASSUME NEW k \in 1..N PROVE IsRow(out[k], H)
  <2>1. CASE k \in 1..l
    BY <1>6, <1>7, <2>1
  <2>2. CASE k \notin 1..l
    <3>1. k \in (l + 1)..N
      BY <1>1, <2>2
    <3>2. out[k] = z
      BY <1>1, <1>6, <3>1, PaddingIs
    <3> QED BY <1>8, <3>2
  <2> QED BY <2>1, <2>2
<1>10. ASSUME NEW k \in 1..l, NEW h \in 1..H
       PROVE  out[k][h] = Attended(t, pos, k, Cell(H, r, h))
  <2> DEFINE g == Cell(H, r, h)
  <2> HIDE DEF g
  <2>1. out[k][h] = AttendsTo(x, pos, k, h)
    BY <1>5, <1>7 DEF IsAttention
  <2>2. k \in Nat \ {0}
    OBVIOUS
  <2>3. ASSUME NEW j \in 1..k PROVE x[j][h] = <<t[j], g>>
    <3>1. j \in 1..l /\ j \in 1..N
      BY <1>1
    <3>2. y[j][h] = <<t[j], Cell(H, r, h)>>
      BY <3>1 DEF HeadsOfRank
    <3> QED BY <1>3, <3>1, <3>2 DEF g
  <2>4. AttendsTo(x, pos, k, h) = Attended(t, pos, k, g)
    BY <2>2, <2>3, AttendsToTokens
  <2> QED BY <2>1, <2>4 DEF g
<1> HIDE DEF out
<1>11. RankAttended(out, t, pos, N, H, r, l)
  BY <1>7, <1>9, <1>10 DEF RankAttended, IsMatrix
<1> QED BY <1>11 DEF out, o, x, z

\* The heads of all n ranks at N places, one rank's behind the other's.
HeadsJoined(y, xs, n, N, H) ==
  /\ IsMatrix(y, N, n * H)
  /\ \A k \in 1..N, r \in 1..n, h \in 1..H : y[k][Cell(H, r, h)] = xs[r][k][h]

\* They are put together so.
LEMMA HeadsJoin ==
  ASSUME NEW n \in Nat \ {0}, NEW H \in Nat \ {0}, NEW N, NEW xs, IsRow(xs, n),
         \A r \in 1..n : IsMatrix(xs[r], N, H)
  PROVE  HeadsJoined(Cat(xs, "heads"), xs, n, N, H)
<1> DEFINE v(k) == FlattenSeq([r \in 1..n |-> xs[r][k]])
           y == [k \in 1..N |-> v(k)]
<1>1. N \in Nat /\ DOMAIN xs = 1..n /\ DOMAIN xs[1] = 1..N
  <2>1. 1 \in 1..n
    OBVIOUS
  <2>2. IsRow(xs[1], N)
    BY <2>1 DEF IsMatrix
  <2> QED BY <2>2, RowIs
<1>2. ASSUME NEW k \in 1..N
      PROVE  IsRow(v(k), n * H) /\ \A r \in 1..n, h \in 1..H : v(k)[Cell(H, r, h)] = xs[r][k][h]
  <2> DEFINE x == [r \in 1..n |-> xs[r][k]]
  <2>1. IsRow(x, n) /\ \A r \in 1..n : x[r] = xs[r][k]
    BY DEF IsRow
  <2>2. \A r \in 1..n : IsRow(xs[r][k], H)
    BY DEF IsMatrix
  <2> HIDE DEF x
  <2>3. IsMatrix(x, n, H)
    BY <2>1, <2>2 DEF IsMatrix
  <2>4. /\ IsRow(FlattenSeq(x), n * H)
        /\ \A r \in 1..n, h \in 1..H : FlattenSeq(x)[Cell(H, r, h)] = x[r][h]
    BY <2>3, MatrixIsFlat
  <2> QED BY <2>1, <2>4 DEF x
<1>3. Cat(xs, "heads") = Each(y)
  BY <1>1 DEF Cat
<1> HIDE DEF v
<1>4. IsRow(y, N) /\ \A k \in 1..N : y[k] = v(k)
  BY <1>1 DEF IsRow
<1> HIDE DEF y
<1>5. Each(y) = y
  BY <1>4, RowIs
<1> QED BY <1>2, <1>3, <1>4, <1>5 DEF IsMatrix, HeadsJoined

\* At the first l of N places all heads have attended.
Summed(x, t, pos, N, heads, l) ==
  IsMatrix(x, N, heads) /\ \A k \in 1..l : x[k] = StateAt(t, pos, heads, k)

\* Positions that start over with every sequence, for l tokens together.
StartsOver(lengths, pos, l) ==
  /\ SumSeq(lengths) = l
  /\ pos = FlattenSeq([i \in DOMAIN lengths |-> [k \in 1..lengths[i] |-> k - 1]])

\* What the n ranks have is all of it, or their slices.
RanksHave(out, tokens, pos, n, N, heads, l, parallel) ==
  \E x : /\ Summed(x, tokens, pos, N, heads, l)
         /\ out = [r \in 1..n |-> IF parallel THEN SliceOf(x, n, r - 1) ELSE x]

\* The row parallel layer brings the heads together, and every rank takes all of it or its slice.
LEMMA MegatronAttends ==
  ASSUME NEW n \in Nat \ {0}, NEW H \in Nat \ {0}, NEW heads, heads = n * H, NEW N, NEW tokens,
         IsRow(tokens, N), NEW l \in Nat, l <= N, NEW lengths, NEW pos, StartsOver(lengths, pos, l),
         NEW parallel
  PROVE  RanksHave(MegatronAttention(tokens, lengths, n, heads, parallel), tokens, pos, n, N, heads, l, parallel)
<1> DEFINE hidden == Hidden(tokens, heads)
           y(r) == Split(hidden, n, "heads", r - 1)
           z == Repeat(Zero, H)
           o(r) == PadRight(Attend(SubSeq(y(r), 1, l), pos), N, z)
           out == [r \in 1..n |-> o(r)]
           x == Cat(out, "heads")
<1>1. N \in Nat /\ Len(tokens) = N /\ heads \in Nat
  <2>1. N \in Nat /\ Len(tokens) = N
    BY RowIs
  <2>2. heads \in Nat
    OBVIOUS
  <2> QED BY <2>1, <2>2
<1>2. heads \div n = H
  <2>1. (n * H + 0) \div n = H
    BY DivisionIsUnique
  <2>2. n * H + 0 = heads
    OBVIOUS
  <2> QED BY <2>1, <2>2
<1>3. IsHidden(hidden, tokens, N, heads)
  BY <1>1, HiddenIs
<1> HIDE DEF hidden
<1>4. ASSUME NEW r \in 1..n PROVE RankAttended(o(r), tokens, pos, N, H, r, l)
  <2> DEFINE s == y(r)
  <2>1. HeadsOfRank(s, tokens, N, H, r)
    BY <1>3, SplitIs
  <2> HIDE DEF s
  <2>2. RankAttended(PadRight(Attend(SubSeq(s, 1, l), pos), N, Repeat(Zero, H)), tokens, pos, N, H, r, l)
    BY <2>1, RankAttends
  <2> QED BY <2>2 DEF s
<1>5. MegatronAttention(tokens, lengths, n, heads, parallel) =
        [r \in 1..n |-> IF parallel THEN SliceOf(Cat(Each(out), "heads"), n, r - 1) ELSE Cat(Each(out), "heads")]
  BY <1>1, <1>2, Zenon DEF MegatronAttention, StartsOver, hidden
<1> HIDE DEF o
<1>6. IsRow(out, n) /\ \A r \in 1..n : out[r] = o(r)
  BY DEF IsRow
<1> HIDE DEF out
<1>7. Each(out) = out
  BY <1>6, RowIs
<1>8. \A r \in 1..n : IsMatrix(out[r], N, H)
  BY <1>4, <1>6 DEF RankAttended
<1>9. /\ IsMatrix(x, N, n * H)
      /\ \A k \in 1..N, r \in 1..n, h \in 1..H : x[k][Cell(H, r, h)] = out[r][k][h]
  <2>1. HeadsJoined(x, out, n, N, H)
    BY <1>6, <1>8, HeadsJoin, Zenon
  <2> HIDE DEF x
  <2> QED BY <2>1 DEF HeadsJoined
<1> HIDE DEF x
<1>10. ASSUME NEW k \in 1..l PROVE x[k] = StateAt(tokens, pos, heads, k)
  <2>1. k \in 1..N
    BY <1>1
  <2>2. ASSUME NEW g \in 1..heads PROVE x[k][g] = Attended(tokens, pos, k, g)
    <3>1. RowOf(H, g) \in 1..n /\ ColumnOf(H, g) \in 1..H /\ g = Cell(H, RowOf(H, g), ColumnOf(H, g))
      <4>1. n \in Nat /\ g \in 1..(n * H)
        BY <2>2
      <4> QED BY <4>1, IsCell, Zenon
    <3>2. PICK r \in 1..n, h \in 1..H : g = Cell(H, r, h)
      BY <3>1
    <3>3. x[k][g] = o(r)[k][h]
      BY <1>6, <1>9, <2>1, <3>2
    <3> QED BY <1>4, <3>2, <3>3 DEF RankAttended
  <2>3. IsRow(x[k], heads)
    BY <1>9, <2>1 DEF IsMatrix
  <2>4. x[k] = [g \in 1..heads |-> x[k][g]]
    BY <2>3 DEF IsRow
  <2> QED BY <2>2, <2>4 DEF StateAt
<1>11. Summed(x, tokens, pos, N, heads, l)
  BY <1>9, <1>10 DEF Summed
<1>12. MegatronAttention(tokens, lengths, n, heads, parallel) =
         [r \in 1..n |-> IF parallel THEN SliceOf(x, n, r - 1) ELSE x]
  BY <1>5, <1>7 DEF x
<1> QED BY <1>11, <1>12 DEF RanksHave

\* u is the first l of x.
IsFirst(u, x, l) == IsRow(u, l) /\ \A k \in 1..l : u[k] = x[k]

\* The slices gathered, without the padding.
LEMMA WholeIs ==
  ASSUME NEW n \in Nat \ {0}, NEW m \in Nat \ {0}, NEW x, IsRow(x, n * m), NEW l \in Nat, l <= n * m,
         NEW out, out = [r \in 1..n |-> SliceOf(x, n, r - 1)]
  PROVE  IsFirst(SubSeq(Gather(out), 1, l), x, l)
<1> DEFINE N == n * m
           f == FlattenSeq(out)
           X == {f[k] : k \in 1..N}
           u == SubSeq(f, 1, l)
<1>1. N \in Nat /\ n \in Nat
  OBVIOUS
<1>2. IsRow(out, n) /\ \A r \in 1..n : out[r] = SliceOf(x, n, r - 1)
  BY DEF IsRow
<1>3. ASSUME NEW r \in 1..n
      PROVE  IsRow(out[r], m) /\ \A p \in 1..m : out[r][p] = x[Cell(m, r, p)]
  <2>1. /\ IsRow(SliceOf(x, n, r - 1), m)
        /\ \A p \in 1..m : SliceOf(x, n, r - 1)[p] = x[Cell(m, r, p)] /\ Cell(m, r, p) \in 1..(n * m)
    BY SliceIs, Zenon
  <2> QED BY <1>2, <2>1
<1>4. IsMatrix(out, n, m)
  BY <1>2, <1>3 DEF IsMatrix
<1>5. IsRow(f, N) /\ \A r \in 1..n, p \in 1..m : f[Cell(m, r, p)] = out[r][p]
  <2>1. PICK y : y = out
    OBVIOUS
  <2>2. IsMatrix(y, n, m)
    BY <1>4, <2>1
  <2>3. IsRow(FlattenSeq(y), n * m) /\ \A r \in 1..n, p \in 1..m : FlattenSeq(y)[Cell(m, r, p)] = y[r][p]
    BY <2>2, MatrixIsFlat
  <2> QED BY <2>1, <2>3
<1>6. ASSUME NEW k \in 1..N PROVE f[k] = x[k]
  <2>1. RowOf(m, k) \in 1..n /\ ColumnOf(m, k) \in 1..m /\ k = Cell(m, RowOf(m, k), ColumnOf(m, k))
    BY <1>1, IsCell, Zenon
  <2>2. PICK r \in 1..n, p \in 1..m : k = Cell(m, r, p)
    BY <2>1
  <2> QED BY <1>3, <1>5, <2>2
<1> HIDE DEF f
<1>7. f \in Seq(X) /\ Len(f) = N
  BY <1>5, RowIs
<1>8. l \in 0..N /\ l <= N
  BY <1>1
<1> HIDE DEF X, N
<1>9. u \in Seq(X) /\ Len(u) = l /\ \A k \in 1..l : u[k] = f[k] /\ k \in 1..N
  BY <1>1, <1>7, <1>8
<1>10. IsRow(u, l)
  <2> HIDE DEF u
  <2> QED BY <1>9, IsARow
<1> HIDE DEF u
<1>11. IsRow(u, l) /\ \A k \in 1..l : u[k] = x[k]
  BY <1>6, <1>9, <1>10
<1> QED BY <1>11 DEF u, f, Gather, IsFirst

\* In a full pass over the packed rows, every valid place of a row has its result.
HasResults(full, b, R, w, a, e, heads, labelled) ==
  /\ IsMatrix(full, R, w)
  /\ \A i \in 1..R, c \in 1..w :
       a[i] < c /\ c <= e[i] => IsResult(full[i][c], b, heads, labelled, i, a[i], e[i], c)

\* What has been put back.
LEMMA PutBackRows ==
  ASSUME NEW b, NEW R, NEW w, NEW a, NEW e, IsBatch(b, R, w, a, e),
         NEW q, q = Indices(b.attention_mask, w), NEW heads, NEW labelled, NEW full,
         \E whole, t, pos : PutBack(full, b, q, R, w, heads, labelled, whole, t, pos)
  PROVE  HasResults(full, b, R, w, a, e, heads, labelled)
<1> DEFINE places == Valid(b, R, w)
           N == R * w
<1>1. R \in Nat /\ w \in Nat /\ Enumerates(q, places, N) /\ N \in Nat
  <2>1. Enumerates(Indices(b.attention_mask, w), places, N) /\ N \in Nat
    BY IndicesAre, Zenon
  <2> QED BY <2>1 DEF IsBatch
<1> HIDE DEF places, N
<1>2. PICK whole, t, pos : PutBack(full, b, q, R, w, heads, labelled, whole, t, pos)
  OBVIOUS
<1>3. PackedPass(b, q, w, heads, labelled, whole, t, pos) /\ full = PadInput(whole, q, R, w)
  BY <1>2 DEF PutBack
<1>4. Restored(full, whole, q, R, w)
  BY <1>1, <1>3, PadInputIs
<1>5. ASSUME NEW i \in 1..R, NEW c \in 1..w, a[i] < c, c <= e[i]
      PROVE  IsResult(full[i][c], b, heads, labelled, i, a[i], e[i], c)
  <2>1. HasResult(whole, b, q, w, heads, labelled, i, a[i], e[i], c)
    BY <1>3, <1>5, PassIs
  <2> QED BY <1>4, <2>1 DEF Restored, HasResult
<1> QED BY <1>4, <1>5 DEF Restored, HasResults

\* All places of the packed rows, as every rank has computed them or as they are gathered.
MegatronWhole(out, parallel, l) == IF parallel THEN SubSeq(Gather(out), 1, l) ELSE out[1]
IsWhole(whole, t, pos, heads, l) == IsRow(whole, l) /\ \A k \in 1..l : whole[k] = StateAt(t, pos, heads, k)

\* A rank's places joined with the others' are the packed rows, with their states.
LEMMA MegatronWholeIs ==
  ASSUME NEW n \in Nat \ {0}, NEW H \in Nat \ {0}, NEW heads, heads = n * H,
         NEW l \in Nat \ {0}, NEW ids, IsRow(ids, l), NEW parallel, NEW z,
         NEW tokens, tokens = IF parallel THEN PadRight(ids, l + PadSize(l, n), z) ELSE ids,
         NEW lengths, NEW pos, StartsOver(lengths, pos, l)
  PROVE  /\ IsWhole(MegatronWhole(MegatronAttention(tokens, lengths, n, heads, parallel), parallel, l),
                    tokens, pos, heads, l)
         /\ Begins(tokens, ids, l)
<1>1. PICK out : out = MegatronAttention(tokens, lengths, n, heads, parallel)
  OBVIOUS
<1>2. CASE parallel
  <2>1. PadSize(l, n) \in Nat
    BY PadSizeIs
  <2>2. PICK m \in Nat : l + PadSize(l, n) = n * m
    <3>1. l \in Nat
      OBVIOUS
    <3> QED BY <3>1, PadSizeIs
  <2>3. m \in Nat \ {0} /\ n * m \in Nat /\ l <= n * m
    <3>1. n * 0 = 0
      OBVIOUS
    <3>2. m # 0
      BY <2>1, <2>2, <3>1
    <3>3. n * m \in Nat
      OBVIOUS
    <3> QED BY <2>1, <2>2, <3>2, <3>3
  <2>4. tokens = PadRight(ids, n * m, z)
    BY <1>2, <2>2
  <2> DEFINE N == n * m
  <2>5. N \in Nat /\ l <= N /\ tokens = PadRight(ids, N, z) /\ l \in Nat
    BY <2>3, <2>4
  <2> HIDE DEF N
  <2>6. IsRow(tokens, N) /\ \A k \in 1..l : tokens[k] = ids[k]
    <3>1. IsRow(PadRight(ids, N, z), N) /\ \A k \in 1..l : PadRight(ids, N, z)[k] = ids[k]
      BY <2>5, PadRightIs
    <3> QED BY <2>5, <3>1
  <2>7. PICK x : /\ Summed(x, tokens, pos, N, heads, l)
                 /\ out = [r \in 1..n |-> IF parallel THEN SliceOf(x, n, r - 1) ELSE x]
    <3>1. RanksHave(MegatronAttention(tokens, lengths, n, heads, parallel), tokens, pos, n, N, heads, l, parallel)
      BY <2>5, <2>6, MegatronAttends, Zenon
    <3> QED BY <1>1, <3>1, Zenon DEF RanksHave
  <2>8. out = [r \in 1..n |-> SliceOf(x, n, r - 1)]
    BY <1>2, <2>7
  <2>9. IsRow(x, N)
    BY <2>7 DEF Summed, IsMatrix
  <2>10. IsFirst(SubSeq(Gather(out), 1, l), x, l)
    <3>1. IsRow(x, n * m)
      BY <2>9 DEF N
    <3> QED BY <2>3, <2>5, <2>8, <3>1, WholeIs, Zenon
  <2>11. MegatronWhole(out, parallel, l) = SubSeq(Gather(out), 1, l)
    BY <1>2 DEF MegatronWhole
  <2>12. IsWhole(MegatronWhole(out, parallel, l), tokens, pos, heads, l)
    BY <2>7, <2>10, <2>11 DEF IsWhole, IsFirst, Summed
  <2> QED BY <1>1, <2>6, <2>12 DEF Begins
<1>3. CASE ~ parallel
  <2>1. tokens = ids /\ IsRow(tokens, l) /\ l \in Nat /\ l <= l /\ 1 \in 1..n
    BY <1>3
  <2>2. PICK x : /\ Summed(x, tokens, pos, l, heads, l)
                 /\ out = [r \in 1..n |-> IF parallel THEN SliceOf(x, n, r - 1) ELSE x]
    <3>1. RanksHave(MegatronAttention(tokens, lengths, n, heads, parallel), tokens, pos, n, l, heads, l, parallel)
      BY <2>1, MegatronAttends, Zenon
    <3> QED BY <1>1, <3>1, Zenon DEF RanksHave
  <2>3. MegatronWhole(out, parallel, l) = x
    BY <1>3, <2>1, <2>2 DEF MegatronWhole
  <2>4. IsWhole(x, tokens, pos, heads, l)
    BY <2>2 DEF IsWhole, Summed, IsMatrix
  <2> QED BY <1>1, <2>1, <2>3, <2>4 DEF Begins
<1> QED BY <1>2, <1>3

\* Megatron's forward pass, too, puts such a pass back into rows.
LEMMA MegatronIs ==
  ASSUME NEW b, NEW R, NEW w, NEW a, NEW e, IsBatch(b, R, w, a, e), IsMask(b, R, w),
         NEW q, q = Indices(b.attention_mask, w),
         NEW n \in Nat \ {0}, NEW H \in Nat \ {0}, NEW heads, heads = n * H, NEW parallel
  PROVE  \E whole, t, pos :
           PutBack(MegatronForward(b, n, heads, parallel), b, q, R, w, heads, FALSE, whole, t, pos)
<1> DEFINE l == Len(q)
           ids == Unpad(b.input_ids, q, w)
           lengths == [i \in DOMAIN b.attention_mask |-> SumSeq(b.attention_mask[i])]
           pos == FlattenSeq([i \in DOMAIN lengths |-> [k \in 1..lengths[i] |-> k - 1]])
           zero == <<0, 0, 0>>
           tokens == IF parallel THEN PadRight(ids, l + PadSize(l, n), zero) ELSE ids
           out == MegatronAttention(tokens, lengths, n, heads, parallel)
           whole == MegatronWhole(out, parallel, l)
<1>1. /\ R \in Nat \ {0} /\ w \in Nat \ {0} /\ Len(b.input_ids) = R /\ Width(b) = w
  BY DEF IsBatch, Width
<1>2. Enumerates(q, Valid(b, R, w), R * w) /\ R * w \in Nat
  BY IndicesAre
<1>3. IsRow(q, l) /\ l \in Nat
  BY <1>2, IsARow DEF Enumerates
<1>4. l \in Nat \ {0}
  <2>1. 1 \in 1..R
    BY <1>1
  <2>2. \E k \in 1..l : TRUE
    BY <2>1, RowStands
  <2> HIDE DEF l
  <2> QED BY <1>3, <2>2
<1>5. /\ IsRow(ids, l) /\ Len(ids) = l
      /\ \A k \in 1..l : ids[k] = b.input_ids[RowOf(w, q[k])][ColumnOf(w, q[k])]
  <2>1. IsPacked(ids, b.input_ids, q, w)
    BY <1>3, UnpadIs
  <2> HIDE DEF ids
  <2> QED BY <2>1, RowIs DEF IsPacked
<1>6. SumSeq(lengths) = l /\ PositionsAre(b, w, q, pos)
  <2>1. PICK y : y = lengths
    OBVIOUS
  <2>2. PICK z : z = pos
    OBVIOUS
  <2>3. /\ y = [i \in DOMAIN b.attention_mask |-> SumSeq(b.attention_mask[i])]
        /\ z = FlattenSeq([i \in DOMAIN y |-> [k \in 1..y[i] |-> k - 1]])
    BY <2>1, <2>2, Zenon
  <2> HIDE DEF lengths, pos
  <2>4. SumSeq(y) = Len(q) /\ PositionsAre(b, w, q, z)
    BY <2>3, RunsAre
  <2> QED BY <2>1, <2>2, <2>4
<1>7. MegatronForward(b, n, heads, parallel) = PadInput(whole, q, R, w)
  <2>1. Packed(b, b.input_ids) = ids /\ Len(ids) = l /\ Indices(b.attention_mask, Width(b)) = q
    BY <1>1, <1>5 DEF Packed
  <2> HIDE DEF l, ids, lengths
  <2> QED BY <1>1, <2>1, Zenon DEF MegatronForward, MegatronWhole, lengths
<1> HIDE DEF l, ids
<1>8. IsWhole(whole, tokens, pos, heads, l) /\ Begins(tokens, ids, l)
  <2>1. StartsOver(lengths, pos, l)
    BY <1>6 DEF StartsOver
  <2> HIDE DEF zero, lengths, pos
  <2> QED BY <1>4, <1>5, <2>1, MegatronWholeIs, Zenon
<1> HIDE DEF whole, tokens, pos, lengths, zero
<1>9. ASSUME NEW k \in 1..l
      PROVE  \E label : /\ whole[k] = Result(FALSE, StateAt(tokens, pos, heads, k), label)
                        /\ k < l => label = tokens[k + 1]
  <2>1. whole[k] = StateAt(tokens, pos, heads, k)
    BY <1>8 DEF IsWhole
  <2> QED BY <2>1 DEF Result, HiddenOnly
<1>10. PackedPass(b, q, w, heads, FALSE, whole, tokens, pos)
  BY <1>5, <1>6, <1>8, <1>9 DEF PackedPass, Begins, IsWhole, l
<1>11. PutBack(MegatronForward(b, n, heads, parallel), b, q, R, w, heads, FALSE, whole, tokens, pos)
  BY <1>7, <1>10 DEF PutBack
<1> QED BY <1>11

\* Megatron's forward pass, for every row of the batch.
LEMMA MegatronRows ==
  ASSUME NEW b, NEW R, NEW w, NEW a, NEW e, IsBatch(b, R, w, a, e), IsMask(b, R, w),
         NEW n \in Nat \ {0}, NEW H \in Nat \ {0}, NEW heads, heads = n * H, NEW parallel
  PROVE  HasResults(MegatronForward(b, n, heads, parallel), b, R, w, a, e, heads, FALSE)
<1>1. PICK q : q = Indices(b.attention_mask, w)
  OBVIOUS
<1>2. PICK full : full = MegatronForward(b, n, heads, parallel)
  OBVIOUS
<1>3. \E whole, t, pos : PutBack(full, b, q, R, w, heads, FALSE, whole, t, pos)
  BY <1>1, <1>2, MegatronIs, Zenon
<1>4. HasResults(full, b, R, w, a, e, heads, FALSE)
  BY <1>1, <1>3, PutBackRows, Zenon
<1> QED BY <1>2, <1>4

\* The places behind a up to c, in order.
LEMMA RunInOrder ==
  ASSUME NEW a \in Nat, NEW c \in Nat, a < c, NEW n \in Nat, c <= n, NEW q, Enumerates(q, (a + 1)..c, n)
  PROVE  IsRow(q, c - a) /\ \A k \in 1..(c - a) : q[k] = a + k
<1> DEFINE m == c - a - 1
           places == (a + 1)..c
<1>1. /\ Len(q) \in Nat /\ q \in Seq(Nat) /\ \A j \in 1..Len(q) : q[j] \in Nat /\ a + 1 <= q[j] /\ q[j] <= c
      /\ \A i \in 1..Len(q), j \in 1..Len(q) : i < j => q[i] < q[j]
  BY DEF Enumerates
<1>2. m \in Nat /\ \A j \in 0..m : (a + 1) + j \in places /\ (a + 1) + j <= n
  OBVIOUS
<1>3. 1 \in 1..Len(q) /\ q[1] = a + 1
  <2>1. a + 1 \in places /\ a + 1 <= n
    OBVIOUS
  <2>2. \A y \in places : a + 1 <= y
    OBVIOUS
  <2> HIDE DEF places
  <2>3. 0 \in 0..Len(q) /\ Enumerates(q, places, n)
    BY <1>1 DEF places
  <2>4. 0 + 1 \in 1..Len(q) /\ q[0 + 1] = a + 1
    BY <2>1, <2>2, <2>3, NextStands
  <2> QED BY <2>4
<1>4. \A j \in 0..m : 1 + j \in 1..Len(q) /\ q[1 + j] = (a + 1) + j
  <2>1. HasRun(places, n, q[1], m)
    BY <1>2, <1>3 DEF HasRun
  <2>2. Enumerates(q, places, n)
    OBVIOUS
  <2> HIDE DEF m, places
  <2>3. CountsOn(q, 1, m)
    BY <1>2, <1>3, <2>1, <2>2, RunOfPlaces
  <2> QED BY <1>3, <2>3 DEF CountsOn
<1>5. ASSUME NEW k \in 1..(c - a) PROVE k \in 1..Len(q) /\ q[k] = a + k
  <2>1. k - 1 \in 0..m /\ 1 + (k - 1) = k /\ (a + 1) + (k - 1) = a + k
    OBVIOUS
  <2> HIDE DEF m
  <2> QED BY <1>4, <2>1
<1>6. Len(q) = c - a
  <2>1. PICK l \in Nat \ {0} : l = c - a
    OBVIOUS
  <2>2. l \in 1..(c - a) /\ a + l = c
    BY <2>1
  <2>3. l \in 1..Len(q) /\ q[l] = c
    BY <1>5, <2>2
  <2>4. ~ (l + 1 \in 1..Len(q))
    <3> SUFFICES ASSUME l + 1 \in 1..Len(q) PROVE FALSE
      OBVIOUS
    <3>1. l < l + 1
      OBVIOUS
    <3>2. q[l] < q[l + 1] /\ q[l + 1] <= c /\ q[l + 1] \in Nat
      BY <1>1, <2>3, <3>1
    <3> QED BY <2>3, <3>2
  <2> QED BY <1>1, <2>1, <2>3, <2>4
<1>7. IsRow(q, Len(q))
  BY <1>1, IsARow
<1> QED BY <1>5, <1>6, <1>7

\* Attention with padding: at a valid place, all tokens of the row up to it.
LEMMA PaddedRows ==
  ASSUME NEW b, NEW R, NEW w, NEW a, NEW e, IsBatch(b, R, w, a, e),
         IsMatrix(b.input_ids, R, w), NEW heads \in Nat, NEW hidden, hidden = PaddedAttention(b, heads)
  PROVE  /\ IsMatrix(hidden, R, w)
         /\ \A i \in 1..R, c \in 1..w : a[i] < c /\ c <= e[i] => hidden[i][c] = RowState(b, heads, i, a[i], c)
<1> DEFINE ids == b.input_ids
           sees(i, c) == InOrder({j \in 1..c : b.attention_mask[i][j] = 1}, c)
           v(i, c) == Each([h \in 1..heads |->
             Each([k \in DOMAIN sees(i, c) |-> <<<<ids[i][sees(i, c)[k]], h>>, b.position_ids[i][sees(i, c)[k]]>>])])
           u(i) == [c \in 1..w |-> v(i, c)]
           x == [i \in 1..R |-> u(i)]
<1>1. R \in Nat /\ w \in Nat /\ DOMAIN ids = 1..R /\ \A i \in 1..R : DOMAIN ids[i] = 1..w
  BY RowIs DEF IsMatrix, IsBatch
<1>2. hidden = Each([i \in 1..R |-> Each(u(i))])
  BY <1>1 DEF PaddedAttention, Entries
<1>3. ASSUME NEW i \in 1..R, NEW c \in 1..w, a[i] < c, c <= e[i]
      PROVE  v(i, c) = RowState(b, heads, i, a[i], c)
  <2> DEFINE q == sees(i, c)
             n == c - a[i]
  <2>1. /\ a[i] \in Nat /\ e[i] \in 0..w /\ c \in Nat /\ n \in Nat
        /\ \A j \in 1..c : j \in 1..w /\ j <= e[i]
    <3>1. a[i] \in Nat /\ e[i] \in 0..w
      BY DEF IsBatch
    <3> QED BY <1>1, <1>3, <3>1
  <2>2. {j \in 1..c : b.attention_mask[i][j] = 1} = (a[i] + 1)..c
    <3>1. \A j \in 1..c : b.attention_mask[i][j] = 1 <=> a[i] < j
      BY <2>1 DEF IsBatch
    <3>2. \A j : j \in (a[i] + 1)..c <=> j \in 1..c /\ a[i] < j
      BY <2>1
    <3> QED BY <3>1, <3>2
  <2>3. \A k \in 1..n : b.position_ids[i][a[i] + k] = k - 1
    <3> SUFFICES ASSUME NEW k \in 1..n PROVE b.position_ids[i][a[i] + k] = k - 1
      OBVIOUS
    <3> DEFINE j == a[i] + k
    <3>1. j \in 1..w /\ a[i] < j /\ j <= e[i] /\ j - a[i] - 1 = k - 1
      <4>1. j \in 1..c /\ a[i] < j /\ j - a[i] - 1 = k - 1
        BY <2>1
      <4> QED BY <2>1, <4>1
    <3> HIDE DEF j
    <3>2. b.position_ids[i][j] = j - a[i] - 1
      BY <3>1 DEF IsBatch
    <3> QED BY <3>1, <3>2 DEF j
  <2>4. q = InOrder((a[i] + 1)..c, c)
    BY <2>2
  <2>5. Enumerates(InOrder((a[i] + 1)..c, c), (a[i] + 1)..c, c)
    <3>1. (a[i] + 1)..c \subseteq 1..c
      BY <2>1
    <3> QED BY <2>1, <3>1, InOrderIs
  <2> HIDE DEF q
  <2>6. IsRow(q, n) /\ (\A k \in 1..n : q[k] = a[i] + k) /\ DOMAIN q = 1..n
    <3>1. Enumerates(q, (a[i] + 1)..c, c)
      BY <2>4, <2>5
    <3>2. IsRow(q, n) /\ \A k \in 1..n : q[k] = a[i] + k
      <4>1. PICK from \in Nat : from = a[i]
        BY <2>1
      <4>2. from < c /\ c <= c /\ Enumerates(q, (from + 1)..c, c)
        BY <1>3, <3>1, <4>1
      <4>3. IsRow(q, c - from) /\ \A k \in 1..(c - from) : q[k] = from + k
        BY <2>1, <4>2, RunInOrder
      <4> QED BY <4>1, <4>3
    <3> HIDE DEF n
    <3> QED BY <3>2, RowIs
  <2>7. v(i, c) = Each([h \in 1..heads |-> Each([k \in 1..n |-> <<<<ids[i][q[k]], h>>, b.position_ids[i][q[k]]>>])])
    BY <2>6 DEF q
  <2> DEFINE g(h) == [k \in 1..n |-> <<<<ids[i][a[i] + k], h>>, k - 1>>]
             f == [h \in 1..heads |-> g(h)]
  <2> HIDE DEF n
  <2>8. ASSUME NEW h PROVE [k \in 1..n |-> <<<<ids[i][q[k]], h>>, b.position_ids[i][q[k]]>>] = g(h)
    <3>1. \A k \in 1..n : q[k] = a[i] + k /\ b.position_ids[i][a[i] + k] = k - 1
      BY <2>3, <2>6
    <3>2. \A k \in 1..n : <<<<ids[i][q[k]], h>>, b.position_ids[i][q[k]]>> = <<<<ids[i][a[i] + k], h>>, k - 1>>
      BY <3>1
    <3> HIDE DEF ids
    <3> QED BY <3>2
  <2>9. ASSUME NEW h PROVE Each(g(h)) = g(h)
    <3> DEFINE y == g(h)
    <3>1. IsRow(y, n)
      BY <2>1 DEF IsRow
    <3> HIDE DEF y
    <3>2. Each(y) = y
      BY <3>1, RowIs
    <3> QED BY <3>2 DEF y
  <2> HIDE DEF v, g
  <2>10. v(i, c) = Each(f)
    BY <2>7, <2>8, <2>9
  <2>11. IsRow(f, heads)
    BY DEF IsRow
  <2>12. f = RowState(b, heads, i, a[i], c)
    BY DEF RowState, n, g
  <2> HIDE DEF f
  <2>13. Each(f) = f
    BY <2>11, RowIs
  <2> QED BY <2>10, <2>12, <2>13
<1> HIDE DEF v
<1>4. ASSUME NEW i \in 1..R PROVE IsRow(u(i), w) /\ Each(u(i)) = u(i) /\ \A c \in 1..w : u(i)[c] = v(i, c)
  <2> DEFINE s == u(i)
  <2>1. IsRow(s, w) /\ \A c \in 1..w : s[c] = v(i, c)
    BY <1>1 DEF IsRow
  <2> HIDE DEF s
  <2>2. Each(s) = s
    BY <2>1, RowIs
  <2> QED BY <2>1, <2>2 DEF s
<1> HIDE DEF u
<1>5. IsRow(x, R) /\ \A i \in 1..R : x[i] = u(i)
  BY <1>1 DEF IsRow
<1>6. hidden = Each(x)
  BY <1>2, <1>4
<1> HIDE DEF x
<1>7. Each(x) = x
  BY <1>5, RowIs
<1>8. hidden = x
  BY <1>6, <1>7
<1> QED BY <1>3, <1>4, <1>5, <1>8 DEF IsMatrix

-----------------------------------------------------------------------------
(* Rows of tokens: joined, padded, repeated and cut. *)

\* Two rows, one behind the other.
IsJoin(u, s, l, t, m) ==
  /\ IsRow(u, l + m)
  /\ \A k \in 1..l : u[k] = s[k]
  /\ \A k \in 1..m : u[l + k] = t[k]

\* Joining two rows gives such a row.
LEMMA JoinIs ==
  ASSUME NEW l, NEW m, NEW s, NEW t, IsRow(s, l), IsRow(t, m)
  PROVE  IsJoin(s \o t, s, l, t, m)
<1> DEFINE X == {s[k] : k \in 1..l} \cup {t[k] : k \in 1..m}
           u == s \o t
<1>1. Len(s) = l /\ Len(t) = m /\ l \in Nat /\ m \in Nat
  BY RowIs
<1>2. s \in Seq(X)
  <2>1. s = [k \in 1..l |-> s[k]] /\ \A k \in 1..l : s[k] \in X
    BY DEF IsRow
  <2> HIDE DEF X
  <2> QED BY <1>1, <2>1
<1>3. t \in Seq(X)
  <2>1. t = [k \in 1..m |-> t[k]] /\ \A k \in 1..m : t[k] \in X
    BY DEF IsRow
  <2> HIDE DEF X
  <2> QED BY <1>1, <2>1
<1> HIDE DEF X
<1>4. u \in Seq(X) /\ Len(u) = l + m /\ \A k \in 1..l : u[k] = s[k]
  BY <1>1, <1>2, <1>3
<1>5. ASSUME NEW k \in 1..m PROVE u[l + k] = t[k]
  <2>1. l + k \in 1..(l + m) /\ (l + k) - l = k /\ ~ (l + k <= l)
    BY <1>1
  <2>2. u[l + k] = t[(l + k) - l]
    BY <1>1, <1>2, <1>3, <2>1
  <2> QED BY <2>1, <2>2
<1> HIDE DEF u
<1>6. IsRow(u, l + m)
  BY <1>1, <1>4, IsARow
<1> QED BY <1>4, <1>5, <1>6 DEF IsJoin, u

\* The same number or nothing, many times.
LEMMA RepeatIs ==
  ASSUME NEW z, NEW n \in Nat
  PROVE  IsRow(Repeat(z, n), n) /\ \A k \in 1..n : Repeat(z, n)[k] = z
BY DEF Repeat, IsRow

\* Padding on the left: l places of s at the end of n.
IsPaddedLeft(u, s, l, n, z) ==
  /\ IsRow(u, n)
  /\ \A k \in 1..(n - l) : u[k] = z
  /\ \A k \in 1..l : u[(n - l) + k] = s[k]

\* PadLeft gives such a row.
LEMMA PadLeftIs ==
  ASSUME NEW l \in Nat, NEW n \in Nat, l <= n, NEW s, IsRow(s, l), NEW z
  PROVE  IsPaddedLeft(PadLeft(s, n, z), s, l, n, z)
<1> DEFINE d == n - l
           t == Repeat(z, d)
<1>1. Len(s) = l /\ d \in Nat /\ d + l = n
  <2>1. Len(s) = l
    BY RowIs
  <2> QED BY <2>1
<1> HIDE DEF d
<1>2. IsRow(t, d) /\ \A k \in 1..d : t[k] = z
  BY <1>1, RepeatIs
<1>3. PadLeft(s, n, z) = t \o s
  BY <1>1 DEF PadLeft, d
<1> HIDE DEF t
<1>4. IsJoin(t \o s, t, d, s, l)
  BY <1>2, JoinIs
<1> QED BY <1>1, <1>2, <1>3, <1>4 DEF IsJoin, IsPaddedLeft, d

\* Padding on the right: z behind the l places of s.
IsPaddedRight(u, s, l, n, z) ==
  /\ IsRow(u, n)
  /\ \A k \in 1..l : u[k] = s[k]
  /\ \A k \in 1..n : l < k => u[k] = z

\* PadRight gives such a row.
LEMMA PaddedRightIs ==
  ASSUME NEW l \in Nat, NEW n \in Nat, l <= n, NEW s, IsRow(s, l), NEW z
  PROVE  IsPaddedRight(PadRight(s, n, z), s, l, n, z)
<1>1. Len(s) = l
  BY RowIs
<1>2. CASE l = n
  BY <1>1, <1>2 DEF PadRight, IsPaddedRight
<1>3. CASE l # n
  <2> DEFINE d == n - l
             t == Repeat(z, d)
  <2>1. d \in Nat /\ l + d = n /\ ~ (l >= n)
    BY <1>3
  <2>2. PadRight(s, n, z) = s \o t
    BY <1>1, <2>1 DEF PadRight
  <2> HIDE DEF d
  <2>3. IsRow(t, d) /\ \A k \in 1..d : t[k] = z
    BY <2>1, RepeatIs
  <2> HIDE DEF t
  <2> DEFINE u == s \o t
  <2>4. IsJoin(u, s, l, t, d)
    BY <2>3, JoinIs
  <2> HIDE DEF u
  <2>5. ASSUME NEW k \in 1..n, l < k PROVE u[k] = z
    <3>1. k - l \in 1..d /\ l + (k - l) = k
      BY <2>1, <2>5
    <3> QED BY <2>3, <2>4, <3>1 DEF IsJoin
  <2> QED BY <2>1, <2>2, <2>4, <2>5 DEF IsJoin, IsPaddedRight, u
<1> QED BY <1>2, <1>3

\* A stretch of a row.
LEMMA StretchIs ==
  ASSUME NEW n \in Nat, NEW s, IsRow(s, n), NEW a \in Nat, NEW b \in Nat, a <= b, b <= n
  PROVE  /\ IsRow(SubSeq(s, a + 1, b), b - a)
         /\ \A k \in 1..(b - a) : SubSeq(s, a + 1, b)[k] = s[a + k]
<1> DEFINE X == {s[k] : k \in 1..n}
           t == SubSeq(s, a + 1, b)
<1>1. s \in Seq(X) /\ Len(s) = n
  BY RowIs
<1> HIDE DEF X
<1>2. PICK m \in Nat : m = b - a
  OBVIOUS
<1>3. a + 1 \in 1..(n + 1) /\ b \in 0..n /\ (b - (a + 1)) + 1 = m
  BY <1>2
<1>4. t \in Seq(X) /\ Len(t) = m
  BY <1>1, <1>3
<1>5. \A k \in 1..m : t[k] = s[(a + 1) + k - 1] /\ (a + 1) + k - 1 = a + k
  BY <1>1, <1>3
<1> HIDE DEF t
<1>6. IsRow(t, m)
  BY <1>2, <1>4, IsARow
<1> QED BY <1>2, <1>5, <1>6 DEF t

-----------------------------------------------------------------------------
(* The row of a prompt. *)

\* The places behind a up to e are the valid ones of n.
ValidFrom(mask, a, e, n) ==
  /\ a \in Nat /\ e \in Nat /\ a <= e /\ e <= n /\ IsRow(mask, n)
  /\ \A k \in 1..n : mask[k] = IF a < k /\ k <= e THEN 1 ELSE 0

\* How many of them there are up to place k.
CountedTo(a, e, k) == IF k <= a THEN 0 ELSE IF k <= e THEN k - a ELSE e - a

\* The running sum of a mask, which PositionIds and the reward model read, is this count.
LEMMA CountsTo ==
  ASSUME NEW n, NEW a, NEW e, NEW mask, ValidFrom(mask, a, e, n), NEW k \in 1..n
  PROVE  SumSeq(SubSeq(mask, 1, k)) = CountedTo(a, e, k)
<1> DEFINE s == SubSeq(mask, 1, k)
           places == {j \in 1..k : s[j] = 1}
           b == IF k <= e THEN k ELSE e
<1>0. n \in Nat /\ a \in Nat /\ e \in Nat /\ a <= e /\ e <= n /\ IsRow(mask, n)
  BY DEF ValidFrom, IsRow
<1>1. DOMAIN s = 1..k /\ \A j \in 1..k : s[j] = mask[j] /\ j \in 1..n
  <2>1. PICK z \in Nat : z = 0
    OBVIOUS
  <2>2. z + 1 = 1 /\ k \in Nat /\ z <= k /\ k <= n /\ k - z = k /\ \A j \in 1..k : z + j = j
    BY <1>0, <2>1
  <2>3. /\ IsRow(SubSeq(mask, z + 1, k), k - z)
        /\ \A j \in 1..(k - z) : SubSeq(mask, z + 1, k)[j] = mask[z + j]
    BY <1>0, <2>2, StretchIs
  <2>4. IsRow(s, k) /\ \A j \in 1..k : s[j] = mask[j]
    BY <2>2, <2>3
  <2> HIDE DEF s
  <2>5. DOMAIN s = 1..k
    BY <2>4, RowIs
  <2>6. \A j \in 1..k : j \in 1..n
    BY <1>0
  <2> QED BY <2>4, <2>5, <2>6
<1> HIDE DEF s
<1>2. \A j \in 1..k : s[j] = IF a < j /\ j <= e THEN 1 ELSE 0
  BY <1>1 DEF ValidFrom
<1>3. SumSeq(s) = Cardinality(places)
  <2>1. k \in Nat /\ \A j \in 1..k : s[j] \in {0, 1}
    BY <1>0, <1>2
  <2> QED BY <1>1, <2>1, SumOfMask
<1>4. places = (a + 1)..b
  <2>1. \A j : j \in (a + 1)..b <=> j \in 1..k /\ a < j /\ j <= e
    BY <1>0
  <2> QED BY <1>2, <2>1
<1>5. Cardinality((a + 1)..b) = CountedTo(a, e, k)
  <2> DEFINE x == a + 1
  <2>1. x \in Int /\ b \in Int
    BY <1>0
  <2>2. (IF x > b THEN 0 ELSE b - x + 1) = CountedTo(a, e, k)
    BY <1>0 DEF CountedTo
  <2> HIDE DEF x, b
  <2>3. Cardinality(x..b) = IF x > b THEN 0 ELSE b - x + 1
    BY <2>1, FS_Interval
  <2>4. Cardinality(x..b) = CountedTo(a, e, k)
    BY <2>2, <2>3
  <2> QED BY <2>4 DEF x
<1> QED BY <1>3, <1>4, <1>5 DEF s

\* Positions count them.
PlacesCount(pos, a, e, n) ==
  IsRow(pos, n) /\ \A k \in 1..n : pos[k] \in Nat /\ (a < k /\ k <= e => pos[k] = k - a - 1)

\* PositionIds gives such positions.
LEMMA PositionsCount ==
  ASSUME NEW n, NEW a, NEW e, NEW mask, ValidFrom(mask, a, e, n)
  PROVE  PlacesCount(PositionIds(mask), a, e, n)
<1> DEFINE p == PositionIds(mask)
<1>1. DOMAIN mask = 1..n /\ n \in Nat /\ a \in Nat /\ e \in Nat /\ a <= e
  <2>1. IsRow(mask, n) /\ a \in Nat /\ e \in Nat /\ a <= e
    BY DEF ValidFrom
  <2> QED BY <2>1, RowIs
<1>2. IsRow(p, n)
  BY <1>1 DEF IsRow, PositionIds
<1>3. ASSUME NEW k \in 1..n PROVE p[k] \in Nat /\ (a < k /\ k <= e => p[k] = k - a - 1)
  <2>1. SumSeq(SubSeq(mask, 1, k)) = CountedTo(a, e, k)
    BY CountsTo
  <2>2. p[k] = IF CountedTo(a, e, k) = 0 THEN 0 ELSE CountedTo(a, e, k) - 1
    BY <1>1, <2>1 DEF PositionIds
  <2>3. CountedTo(a, e, k) \in Nat /\ (a < k /\ k <= e => CountedTo(a, e, k) = k - a /\ k - a # 0)
    BY <1>1 DEF CountedTo
  <2> HIDE DEF p
  <2>4. \A x \in Nat : x # 0 => x - 1 \in Nat
    OBVIOUS
  <2> QED BY <2>2, <2>3, <2>4
<1> QED BY <1>2, <1>3 DEF PlacesCount

\* Where the prompt stands in the columns of a row: m places at the end.
PromptStands(row, prompt, m) ==
  /\ m \in 1..PromptWidth /\ IsRow(prompt, m) /\ \A k \in 1..m : prompt[k] # Pad
  /\ IsPaddedLeft(row.input_ids, prompt, m, PromptWidth, Pad)
  /\ ValidFrom(row.attention_mask, PromptWidth - m, PromptWidth, PromptWidth)
  /\ PlacesCount(row.position_ids, PromptWidth - m, PromptWidth, PromptWidth)

\* The row that the data set makes of a prompt stands so.
LEMMA PromptRow ==
  ASSUME NEW d \in Nat \ {0}, NEW m \in 1..PromptWidth
  PROVE  PromptStands(Tokenized(PromptOf(d, m), PromptWidth, TRUE), PromptOf(d, m), m)
<1> DEFINE s == PromptOf(d, m)
           mask == PadLeft(Ones(s), PromptWidth, 0)
           row == Tokenized(s, PromptWidth, TRUE)
<1>1. PromptWidth \in Nat /\ m \in Nat /\ m <= PromptWidth /\ PromptWidth - m \in Nat
  BY SetupsValid
<1>2. IsRow(s, m) /\ \A k \in 1..m : s[k] = <<d, 0, k>>
  BY <1>1 DEF IsRow, PromptOf
<1> HIDE DEF s
<1>3. Len(s) = m
  BY <1>2, RowIs
<1>4. /\ row.input_ids = PadLeft(s, PromptWidth, Pad) /\ row.attention_mask = mask
      /\ row.position_ids = PositionIds(mask)
  BY <1>1, <1>3 DEF Tokenized, Truncated
<1> HIDE DEF row
<1>5. \A k \in 1..m : s[k] # Pad
  BY <1>2 DEF Pad, EOS
<1>6. IsPaddedLeft(row.input_ids, s, m, PromptWidth, Pad)
  BY <1>1, <1>2, <1>4, PadLeftIs
<1>7. ValidFrom(mask, PromptWidth - m, PromptWidth, PromptWidth)
  <2> DEFINE u == Ones(s)
  <2>1. IsRow(u, m) /\ \A k \in 1..m : u[k] = 1
    BY <1>1, <1>3, RepeatIs DEF Ones
  <2> HIDE DEF u
  <2>2. IsPaddedLeft(mask, u, m, PromptWidth, 0)
    BY <1>1, <2>1, PadLeftIs DEF u
  <2> HIDE DEF mask
  <2> DEFINE a == PromptWidth - m
  <2>3. a \in Nat /\ a + m = PromptWidth
    BY <1>1
  <2>4. IsPaddedLeft(mask, u, m, PromptWidth, 0) /\ (\A k \in 1..a : mask[k] = 0) /\ \A k \in 1..m : mask[a + k] = 1
    BY <2>1, <2>2 DEF IsPaddedLeft
  <2> HIDE DEF a
  <2>5. ASSUME NEW k \in 1..PromptWidth PROVE mask[k] = IF a < k /\ k <= PromptWidth THEN 1 ELSE 0
    <3>1. CASE a < k
      <4>1. k - a \in 1..m /\ a + (k - a) = k
        BY <1>1, <2>3, <3>1
      <4> QED BY <1>1, <2>4, <3>1, <4>1
    <3>2. CASE ~ (a < k)
      <4>1. k \in 1..a
        BY <1>1, <2>3, <3>2
      <4> QED BY <2>4, <3>2, <4>1
    <3> QED BY <3>1, <3>2
  <2>6. a <= PromptWidth /\ PromptWidth <= PromptWidth /\ IsRow(mask, PromptWidth)
    BY <1>1, <2>3, <2>4 DEF IsPaddedLeft
  <2> QED BY <1>1, <2>3, <2>5, <2>6 DEF ValidFrom, a
<1> HIDE DEF mask
<1>8. PlacesCount(PositionIds(mask), PromptWidth - m, PromptWidth, PromptWidth)
  BY <1>7, PositionsCount
<1> QED BY <1>2, <1>4, <1>5, <1>6, <1>7, <1>8 DEF PromptStands, row, s

\* The engine is given the prompt.
LEMMA PreProcessed ==
  ASSUME NEW row, NEW prompt, NEW m, PromptStands(row, prompt, m)
  PROVE  PreProcess(row.input_ids) = prompt
<1> DEFINE ids == row.input_ids
           a == PromptWidth - m
           places == {k \in 1..PromptWidth : ids[k] # Pad}
<1>1. PromptWidth \in Nat /\ m \in 1..PromptWidth /\ IsRow(prompt, m) /\ \A k \in 1..m : prompt[k] # Pad
  BY SetupsValid DEF PromptStands
<1>2. a \in Nat /\ a + m = PromptWidth /\ a + 1 \in 1..PromptWidth
  BY <1>1
<1>3. IsRow(ids, PromptWidth) /\ (\A k \in 1..a : ids[k] = Pad) /\ \A k \in 1..m : ids[a + k] = prompt[k]
  BY DEF PromptStands, IsPaddedLeft
<1>4. DOMAIN ids = 1..PromptWidth /\ Len(ids) = PromptWidth
  BY <1>3, RowIs
<1> HIDE DEF a, ids
<1>5. Min(places) = a + 1
  <2>1. a + 1 \in places
    <3>1. 1 \in 1..m
      BY <1>1
    <3> QED BY <1>1, <1>2, <1>3, <3>1
  <2>2. \A k \in places : a + 1 <= k
    <3> SUFFICES ASSUME NEW k \in places, ~ (a + 1 <= k) PROVE FALSE
      OBVIOUS
    <3>1. k \in 1..a
      BY <1>2
    <3> QED BY <1>3, <3>1
  <2>3. places \subseteq Nat
    OBVIOUS
  <2> HIDE DEF places
  <2>4. Min(places) \in places /\ \A x \in places : Min(places) <= x
    BY <2>1, <2>3, MinIsLeast
  <2>5. Min(places) \in Nat /\ Min(places) <= a + 1 /\ a + 1 <= Min(places)
    BY <2>1, <2>2, <2>3, <2>4
  <2> QED BY <1>2, <2>5
<1>6. PreProcess(ids) = SubSeq(ids, a + 1, PromptWidth)
  BY <1>4, <1>5 DEF PreProcess
<1>7. /\ IsRow(SubSeq(ids, a + 1, PromptWidth), PromptWidth - a)
      /\ \A k \in 1..(PromptWidth - a) : SubSeq(ids, a + 1, PromptWidth)[k] = ids[a + k]
  <2>1. a <= PromptWidth
    BY <1>1, <1>2
  <2> QED BY <1>1, <1>2, <1>3, <2>1, StretchIs
<1>8. PromptWidth - a = m
  BY <1>1, <1>2
<1>9. SubSeq(ids, a + 1, PromptWidth) = prompt
  BY <1>1, <1>3, <1>7, <1>8, SameRow
<1> QED BY <1>6, <1>9 DEF ids

-----------------------------------------------------------------------------
(* The row of a prompt and its answer. *)

\* An answer ends with EOS or at the limit, and has EOS nowhere else.
AnswerFits(answer, l) ==
  /\ l \in 1..ResponseWidth /\ IsRow(answer, l)
  /\ \A k \in 1..(l - 1) : answer[k] # EOS
  /\ l < ResponseWidth => answer[l] = EOS

\* The answers that the engine gives are such.
LEMMA AnswersFit ==
  ASSUME NEW d \in Nat \ {0}, NEW prompt, prompt[1] = <<d, 0, 1>>, NEW sample \in Nat \ {0}, NEW a \in Answers
  PROVE  AnswerFits(AnswerTokens(prompt, sample, a), a.len)
<1> DEFINE s == AnswerTokens(prompt, sample, a)
           l == a.len
<1>1. l \in 1..ResponseWidth /\ l \in Nat /\ a.ends \in BOOLEAN /\ (l < ResponseWidth => a.ends)
  BY SetupsValid DEF Answers
<1> HIDE DEF l
<1>2. s = [k \in 1..l |-> IF a.ends /\ k = l THEN EOS ELSE <<d, sample, k>>]
  <2>1. prompt[1][1] = d
    OBVIOUS
  <2> QED BY <2>1 DEF AnswerTokens, l
<1> HIDE DEF s
<1>3. IsRow(s, l) /\ \A k \in 1..l : s[k] = IF a.ends /\ k = l THEN EOS ELSE <<d, sample, k>>
  BY <1>1, <1>2 DEF IsRow
<1>4. ASSUME NEW k \in 1..(l - 1) PROVE s[k] # EOS
  <2>1. k \in 1..l /\ k # l
    BY <1>1
  <2>2. s[k] = <<d, sample, k>>
    BY <1>3, <2>1
  <2>3. <<d, sample, k>> # <<0, 0, 1>>
    OBVIOUS
  <2> QED BY <2>2, <2>3 DEF EOS
<1>5. l < ResponseWidth => s[l] = EOS
  <2>1. l \in 1..l
    BY <1>1
  <2> QED BY <1>1, <1>3, <2>1
<1> QED BY <1>1, <1>3, <1>4, <1>5 DEF AnswerFits, s, l

\* The mask of a padded answer is over the answer.
LEMMA EosMaskIs ==
  ASSUME NEW answer, NEW l, AnswerFits(answer, l), NEW z, NEW padded,
         IsPaddedRight(padded, answer, l, ResponseWidth, z)
  PROVE  IsRow(EosMask(padded), ResponseWidth) /\ \A k \in 1..ResponseWidth : EosMask(padded)[k] = IF k <= l THEN 1 ELSE 0
<1>1. /\ ResponseWidth \in Nat /\ l \in 1..ResponseWidth /\ IsRow(padded, ResponseWidth)
      /\ \A k \in 1..l : padded[k] = answer[k]
  BY SetupsValid DEF AnswerFits, IsPaddedRight
<1>2. DOMAIN padded = 1..ResponseWidth
  BY <1>1, RowIs
<1>3. EosMask(padded) = [k \in 1..ResponseWidth |-> IF \E j \in 1..(k - 1) : padded[j] = EOS THEN 0 ELSE 1]
  BY <1>2 DEF EosMask
<1>4. ASSUME NEW k \in 1..ResponseWidth
      PROVE  (\E j \in 1..(k - 1) : padded[j] = EOS) <=> ~ (k <= l)
  <2>1. CASE k <= l
    <3>1. \A j \in 1..(k - 1) : j \in 1..(l - 1) /\ j \in 1..l
      BY <1>1, <2>1
    <3> QED BY <1>1, <2>1, <3>1 DEF AnswerFits
  <2>2. CASE ~ (k <= l)
    <3>1. l \in 1..(k - 1) /\ l \in 1..l /\ l < ResponseWidth
      BY <1>1, <2>2
    <3> QED BY <1>1, <2>2, <3>1 DEF AnswerFits
  <2> QED BY <2>1, <2>2
<1> QED BY <1>1, <1>3, <1>4 DEF IsRow

\* The columns of a row have its prompt up to PromptWidth and its answer behind.
RowIsOf(ids, mask, pos, prompt, m, answer, l) ==
  LET a == PromptWidth - m
      e == PromptWidth + l
  IN
  /\ m \in 1..PromptWidth /\ IsRow(prompt, m) /\ AnswerFits(answer, l)
  /\ IsRow(ids, RowWidth) /\ IsRow(mask, RowWidth)
  /\ \A c \in 1..RowWidth : mask[c] = IF a < c /\ c <= e THEN 1 ELSE 0
  /\ \A c \in 1..RowWidth : pos[c] \in Nat /\ (a < c /\ c <= e => pos[c] = c - a - 1)
  /\ \A k \in 1..m : ids[a + k] = prompt[k]
  /\ \A k \in 1..l : ids[PromptWidth + k] = answer[k]

\* The row that the rollout makes of a prompt row and its padded answer stands so.
LEMMA RowIsLaid ==
  ASSUME NEW row, NEW prompt, NEW m, PromptStands(row, prompt, m), NEW answer, NEW l, AnswerFits(answer, l),
         NEW padded, padded = PadRight(answer, ResponseWidth, Pad)
  PROVE  RowIsOf(row.input_ids \o padded, row.attention_mask \o EosMask(padded),
                   row.position_ids \o [k \in 1..ResponseWidth |-> Last(row.position_ids) + k],
                   prompt, m, answer, l)
<1> DEFINE P == PromptWidth
           W == ResponseWidth
           a == P - m
           e == P + l
           tail == EosMask(padded)
           more == [k \in 1..W |-> Last(row.position_ids) + k]
           ids == row.input_ids \o padded
           mask == row.attention_mask \o tail
           pos == row.position_ids \o more
<1>1. P \in Nat \ {0} /\ W \in Nat \ {0} /\ m \in 1..P /\ l \in 1..W /\ RowWidth = P + W
  BY SetupsValid DEF PromptStands, AnswerFits, RowWidth
<1>2. a \in Nat /\ a + m = P /\ a < P
  BY <1>1
<1>3. IsPaddedRight(padded, answer, l, W, Pad)
  <2>1. l \in Nat /\ l <= W /\ IsRow(answer, l) /\ W \in Nat
    BY <1>1 DEF AnswerFits
  <2> QED BY <2>1, PaddedRightIs
<1>4. IsRow(tail, W) /\ \A k \in 1..W : tail[k] = IF k <= l THEN 1 ELSE 0
  <2>1. \E z : IsPaddedRight(padded, answer, l, W, z)
    BY <1>3
  <2> QED BY <2>1, EosMaskIs
<1>5. PlacesCount(row.position_ids, a, P, P)
  BY DEF PromptStands
<1>6. IsRow(more, W) /\ \A k \in 1..W : more[k] = (m - 1) + k
  <2>1. Last(row.position_ids) = m - 1
    <3>1. IsRow(row.position_ids, P) /\ row.position_ids[P] = P - a - 1
      BY <1>1, <1>2, <1>5 DEF PlacesCount
    <3>2. Len(row.position_ids) = P
      BY <3>1, RowIs
    <3>3. P - a - 1 = m - 1
      BY <1>1, <1>2
    <3> QED BY <3>1, <3>2, <3>3 DEF Last
  <2>2. IsRow(more, W)
    BY <1>1 DEF IsRow
  <2> QED BY <2>1, <2>2
<1> HIDE DEF tail, more
<1>7. IsJoin(ids, row.input_ids, P, padded, W)
  BY <1>3, JoinIs DEF PromptStands, IsPaddedLeft, IsPaddedRight
<1>8. IsJoin(mask, row.attention_mask, P, tail, W)
  BY <1>4, JoinIs DEF PromptStands, ValidFrom
<1>9. IsJoin(pos, row.position_ids, P, more, W)
  BY <1>5, <1>6, JoinIs DEF PlacesCount
<1> HIDE DEF ids, mask, pos
<1>10. ASSUME NEW c \in 1..RowWidth, c \notin 1..P
       PROVE  c - P \in 1..W /\ P + (c - P) = c
  BY <1>1, <1>10
<1>11. ASSUME NEW c \in 1..RowWidth
       PROVE  mask[c] = IF a < c /\ c <= e THEN 1 ELSE 0
  <2>1. CASE c \in 1..P
    <3>1. mask[c] = row.attention_mask[c] /\ row.attention_mask[c] = IF a < c /\ c <= P THEN 1 ELSE 0
      BY <1>8, <2>1 DEF IsJoin, PromptStands, ValidFrom
    <3>2. c <= e /\ c <= P
      BY <1>1, <2>1
    <3> QED BY <3>1, <3>2
  <2>2. CASE c \notin 1..P
    <3> DEFINE k == c - P
    <3>1. k \in 1..W /\ P + k = c
      BY <1>10, <2>2
    <3>2. a < c /\ (c <= e <=> k <= l)
      BY <1>1, <1>2, <2>2
    <3> HIDE DEF k
    <3>3. mask[c] = tail[k]
      BY <1>8, <3>1 DEF IsJoin
    <3> QED BY <1>4, <3>1, <3>2, <3>3
  <2> QED BY <2>1, <2>2
<1>12. ASSUME NEW c \in 1..RowWidth
       PROVE  pos[c] \in Nat /\ (a < c /\ c <= e => pos[c] = c - a - 1)
  <2>1. CASE c \in 1..P
    <3>1. c <= P /\ pos[c] = row.position_ids[c]
      BY <1>1, <1>9, <2>1 DEF IsJoin
    <3> QED BY <1>5, <2>1, <3>1 DEF PlacesCount
  <2>2. CASE c \notin 1..P
    <3> DEFINE k == c - P
    <3>1. k \in 1..W /\ P + k = c
      BY <1>10, <2>2
    <3>2. (m - 1) + k = c - a - 1 /\ (m - 1) + k \in Nat
      BY <1>1, <1>2, <3>1
    <3> HIDE DEF k
    <3>3. pos[c] = more[k]
      BY <1>9, <3>1 DEF IsJoin
    <3> QED BY <1>6, <3>1, <3>2, <3>3
  <2> QED BY <2>1, <2>2
<1>13. ASSUME NEW k \in 1..m PROVE ids[a + k] = prompt[k]
  <2>1. a + k \in 1..P
    BY <1>1, <1>2
  <2>2. ids[a + k] = row.input_ids[a + k]
    BY <1>7, <2>1 DEF IsJoin
  <2> QED BY <2>2 DEF PromptStands, IsPaddedLeft
<1>14. ASSUME NEW k \in 1..l PROVE ids[P + k] = answer[k]
  <2>1. k \in 1..W
    BY <1>1
  <2> QED BY <1>3, <1>7, <2>1 DEF IsJoin, IsPaddedRight
<1>15. IsRow(ids, RowWidth) /\ IsRow(mask, RowWidth)
  BY <1>1, <1>7, <1>8 DEF IsJoin
<1>16. m \in 1..P /\ IsRow(prompt, m)
  BY DEF PromptStands
<1> HIDE DEF a, e
<1>17. RowIsOf(ids, mask, pos, prompt, m, answer, l)
  BY <1>11, <1>12, <1>13, <1>14, <1>15, <1>16 DEF RowIsOf, a, e
<1> QED BY <1>17 DEF ids, mask, pos, tail, more

-----------------------------------------------------------------------------
(* The rows of the batch, and the log-probabilities of their responses. *)

\* The rows of the batch, and what was said.
RowsStand(R) ==
  /\ R \in Nat \ {0} /\ DOMAIN said = 1..R
  /\ IsRow(batch.input_ids, R) /\ IsRow(batch.attention_mask, R)
  /\ \A i \in 1..R :
       /\ RowIsOf(batch.input_ids[i], batch.attention_mask[i], batch.position_ids[i],
                    said[i].prompt, Len(said[i].prompt), said[i].answer, Len(said[i].answer))
       /\ batch.raw_prompt[i] = said[i].prompt

\* Where the text of a row begins and ends.
Starts(R) == [i \in 1..R |-> PromptWidth - Len(said[i].prompt)]
Ends(R) == [i \in 1..R |-> PromptWidth + Len(said[i].answer)]

\* The rows of the batch are a batch for the forward passes.
LEMMA BatchIs ==
  ASSUME NEW R, RowsStand(R)
  PROVE  /\ IsBatch(batch, R, RowWidth, Starts(R), Ends(R)) /\ IsMask(batch, R, RowWidth)
         /\ IsMatrix(batch.input_ids, R, RowWidth)
<1> DEFINE a == Starts(R)
           e == Ends(R)
           ids == batch.input_ids
           mask == batch.attention_mask
<1>1. /\ PromptWidth \in Nat \ {0} /\ ResponseWidth \in Nat \ {0} /\ RowWidth = PromptWidth + ResponseWidth
      /\ RowWidth \in Nat \ {0} /\ R \in Nat \ {0} /\ IsRow(ids, R) /\ IsRow(mask, R)
  BY SetupsValid DEF RowWidth, RowsStand
<1>2. \A i \in 1..R : a[i] = PromptWidth - Len(said[i].prompt) /\ e[i] = PromptWidth + Len(said[i].answer)
  BY DEF Starts, Ends
<1>3. ASSUME NEW i \in 1..R
      PROVE  /\ Len(said[i].prompt) \in 1..PromptWidth /\ Len(said[i].answer) \in 1..ResponseWidth
             /\ IsRow(ids[i], RowWidth) /\ IsRow(mask[i], RowWidth)
             /\ \A c \in 1..RowWidth : mask[i][c] = IF a[i] < c /\ c <= e[i] THEN 1 ELSE 0
             /\ \A c \in 1..RowWidth : a[i] < c /\ c <= e[i] => batch.position_ids[i][c] = c - a[i] - 1
  <2>1. RowIsOf(ids[i], mask[i], batch.position_ids[i],
                  said[i].prompt, Len(said[i].prompt), said[i].answer, Len(said[i].answer))
    BY DEF RowsStand
  <2> HIDE DEF ids, mask, a, e
  <2> QED BY <1>2, <2>1 DEF RowIsOf, AnswerFits
<1> HIDE DEF a, e, ids, mask
<1>4. \A i \in 1..R : a[i] \in Nat /\ e[i] \in 0..RowWidth /\ a[i] + 2 <= e[i]
  <2> SUFFICES ASSUME NEW i \in 1..R PROVE a[i] \in Nat /\ e[i] \in 0..RowWidth /\ a[i] + 2 <= e[i]
    OBVIOUS
  <2> DEFINE m == Len(said[i].prompt)
             l == Len(said[i].answer)
  <2>1. m \in 1..PromptWidth /\ l \in 1..ResponseWidth /\ a[i] = PromptWidth - m /\ e[i] = PromptWidth + l
    BY <1>2, <1>3
  <2> HIDE DEF m, l
  <2> QED BY <1>1, <2>1
<1>5. IsMatrix(ids, R, RowWidth) /\ IsMatrix(mask, R, RowWidth)
  BY <1>1, <1>3 DEF IsMatrix
<1>6. \A i \in 1..R, c \in 1..RowWidth : mask[i][c] \in {0, 1} /\ (mask[i][c] = 1 <=> (a[i] < c /\ c <= e[i]))
  BY <1>3
<1>7. Len(ids) = R /\ Len(ids[1]) = RowWidth /\ Len(mask) = R
  <2>1. IsRow(ids[1], RowWidth)
    <3>1. 1 \in 1..R
      BY <1>1
    <3> QED BY <1>3, <3>1
  <2> QED BY <1>1, <2>1, RowIs
<1>8. IsBatch(batch, R, RowWidth, a, e)
  BY <1>1, <1>3, <1>4, <1>6, <1>7 DEF IsBatch, ids, mask
<1>9. IsMask(batch, R, RowWidth)
  BY <1>5, <1>6 DEF IsMask, ids, mask
<1> QED BY <1>5, <1>8, <1>9 DEF ids, a, e

\* The state before token j of a response is that of what was said up to it.
LEMMA StateIsSeen ==
  ASSUME NEW R, RowsStand(R), NEW i \in 1..R, NEW j \in 1..Size(i)
  PROVE  /\ Starts(R)[i] < PromptWidth + j - 1 /\ PromptWidth + j - 1 < Ends(R)[i] /\ PromptWidth + j - 1 \in 1..RowWidth
         /\ j \in 1..ResponseWidth
         /\ RowState(batch, setup.heads, i, Starts(R)[i], PromptWidth + j - 1) = Before(i, j)
         /\ batch.input_ids[i][(PromptWidth + j - 1) + 1] = said[i].answer[j]
         /\ batch.input_ids[i][PromptWidth + j] = said[i].answer[j]
<1> DEFINE m == Len(said[i].prompt)
           l == Len(said[i].answer)
           a == PromptWidth - m
           c == PromptWidth + j - 1
           s == said[i].prompt
           t == said[i].answer
           u == s \o t
           ids == batch.input_ids[i]
<1>1. RowIsOf(ids, batch.attention_mask[i], batch.position_ids[i], s, m, t, l)
  BY DEF RowsStand
<1>2. PromptWidth \in Nat \ {0} /\ ResponseWidth \in Nat \ {0} /\ RowWidth = PromptWidth + ResponseWidth
  BY SetupsValid DEF RowWidth
<1>3. m \in 1..PromptWidth /\ l \in 1..ResponseWidth /\ j \in 1..l /\ IsRow(s, m) /\ IsRow(t, l)
  BY <1>1 DEF RowIsOf, AnswerFits, Size
<1>4. /\ \A k \in 1..m : ids[a + k] = s[k]
      /\ \A k \in 1..l : ids[PromptWidth + k] = t[k]
  BY <1>1 DEF RowIsOf
<1>5. Starts(R)[i] = a /\ Ends(R)[i] = PromptWidth + l
  BY DEF Starts, Ends
<1>6. IsJoin(u, s, m, t, l)
  BY <1>3, JoinIs
<1> HIDE DEF m, l, s, t, ids, u
<1>7. a \in Nat /\ a + m = PromptWidth /\ c - a = m + j - 1 /\ a < c /\ c < PromptWidth + l /\ c \in 1..RowWidth
  BY <1>2, <1>3
<1>8. c + 1 = PromptWidth + j /\ j \in 1..ResponseWidth
  BY <1>2, <1>3
<1> HIDE DEF a, c
<1>9. ASSUME NEW k \in 1..(m + j - 1) PROVE ids[a + k] = u[k]
  <2>1. CASE k \in 1..m
    BY <1>4, <1>6, <2>1 DEF IsJoin
  <2>2. CASE k \notin 1..m
    <3>1. k - m \in 1..l /\ m + (k - m) = k /\ PromptWidth + (k - m) = a + k
      BY <1>2, <1>3, <1>7, <2>2
    <3> QED BY <1>4, <1>6, <3>1 DEF IsJoin
  <2> QED BY <2>1, <2>2
<1>10. RowState(batch, setup.heads, i, a, c)
         = [h \in 1..setup.heads |-> [k \in 1..(m + j - 1) |-> <<<<u[k], h>>, k - 1>>]]
  BY <1>7, <1>9 DEF RowState, ids
<1>11. Before(i, j) = [h \in 1..setup.heads |-> [k \in 1..(m + j - 1) |-> <<<<u[k], h>>, k - 1>>]]
  BY DEF Before, SeenIn, RowText, m, u, s, t
<1>12. ids[PromptWidth + j] = t[j]
  BY <1>3, <1>4
<1> QED BY <1>5, <1>7, <1>8, <1>10, <1>11, <1>12 DEF a, c, ids, t

\* The numbers of heads are multiples of those of ranks.
LEMMA EvenlyShared ==
  ASSUME NEW n \in Nat \ {0}, NEW N \in Nat \ {0}, N % n = 0
  PROVE  \E H \in Nat \ {0} : N = n * H
<1>1. N \div n \in Nat /\ N = n * (N \div n) + (N % n)
  BY Division
<1> DEFINE z == n * (N \div n)
<1>2. z \in Int /\ N = z + 0
  BY <1>1
<1> HIDE DEF z
<1>3. N = z
  BY <1>2
<1>4. N \div n # 0
  <2>1. n * 0 = 0
    OBVIOUS
  <2> QED BY <1>3, <2>1 DEF z
<1> QED BY <1>1, <1>3, <1>4 DEF z

\* The places before the tokens of the response.
LEMMA ShiftedIs ==
  ASSUME NEW x, NEW R, IsMatrix(x, R, RowWidth), NEW i \in 1..R, NEW j \in 1..ResponseWidth
  PROVE  /\ DOMAIN ShiftedResponses(x) = 1..R /\ ShiftedResponses(x)[i][j] = x[i][PromptWidth + j - 1]
         /\ Responses(x)[i][j] = x[i][PromptWidth + j]
         /\ DOMAIN Responses(x) = 1..R /\ DOMAIN Responses(x)[i] = 1..ResponseWidth
<1> DEFINE P == PromptWidth
           W == ResponseWidth
           s == x[i]
<1>1. P \in Nat \ {0} /\ W \in Nat \ {0} /\ RowWidth = P + W
  BY SetupsValid DEF RowWidth
<1>2. DOMAIN x = 1..R /\ IsRow(s, RowWidth) /\ Len(s) = RowWidth
  BY RowIs DEF IsMatrix
<1>3. DOMAIN ShiftedResponses(x) = 1..R /\ ShiftedResponses(x)[i] = SubSeq(s, RowWidth - W, RowWidth - 1)
  BY <1>2 DEF ShiftedResponses
<1>4. DOMAIN Responses(x) = 1..R /\ Responses(x)[i] = SubSeq(s, RowWidth - W + 1, RowWidth)
  BY <1>2 DEF Responses
<1> HIDE DEF s, P, W
<1>5. PICK a \in Nat : a + 1 = P
  BY <1>1
<1>6. PICK b \in Nat : b + 1 = RowWidth
  BY <1>1
<1>7. a <= b /\ b <= RowWidth /\ b - a = W /\ RowWidth - W = a + 1 /\ RowWidth - 1 = b /\ a + j = P + j - 1
      /\ RowWidth \in Nat
  BY <1>1, <1>5, <1>6
<1>8. \A k \in 1..(b - a) : SubSeq(s, a + 1, b)[k] = s[a + k]
  BY <1>2, <1>7, StretchIs
<1>9. ShiftedResponses(x)[i][j] = s[P + j - 1]
  BY <1>3, <1>7, <1>8 DEF W
<1>10. P <= RowWidth /\ RowWidth - P = W /\ RowWidth - W + 1 = P + 1 /\ P \in Nat
  BY <1>1, <1>7
<1>11. /\ IsRow(SubSeq(s, P + 1, RowWidth), RowWidth - P)
       /\ \A k \in 1..(RowWidth - P) : SubSeq(s, P + 1, RowWidth)[k] = s[P + k]
  BY <1>2, <1>7, <1>10, StretchIs
<1>12. IsRow(Responses(x)[i], W) /\ Responses(x)[i][j] = s[P + j]
  BY <1>4, <1>10, <1>11 DEF W
<1>13. DOMAIN Responses(x)[i] = 1..W
  BY <1>12, RowIs
<1> QED BY <1>3, <1>4, <1>9, <1>12, <1>13 DEF s, P, W

\* The log-probabilities.
LEMMA LogProbsAre ==
  ASSUME setup \in Setups, NEW R, RowsStand(R), NEW i \in 1..R, NEW j \in 1..Size(i)
  PROVE  LogProbs[i][j] = <<said[i].answer[j], Before(i, j)>>
<1> DEFINE a == Starts(R)
           e == Ends(R)
           w == RowWidth
           n == setup.sp
           heads == setup.heads
           c == PromptWidth + j - 1
<1>1. IsBatch(batch, R, w, a, e) /\ IsMask(batch, R, w) /\ IsMatrix(batch.input_ids, R, w)
  BY BatchIs
<1>2. /\ a[i] < c /\ c <= e[i] /\ c < e[i] /\ c \in 1..w /\ j \in 1..ResponseWidth
      /\ RowState(batch, heads, i, a[i], c) = Before(i, j)
      /\ batch.input_ids[i][c + 1] = said[i].answer[j]
      /\ batch.input_ids[i][PromptWidth + j] = said[i].answer[j]
  <2>1. c < e[i] => c <= e[i]
    <3>1. c \in Int /\ e[i] \in Int
      <4>1. e[i] \in 0..w
        BY <1>1 DEF IsBatch
      <4>2. PromptWidth \in Int /\ j \in Int
        BY SetupsValid DEF Size
      <4> QED BY <4>1, <4>2
    <3> QED BY <3>1
  <2> QED BY <2>1, StateIsSeen
<1>3. setup \in Setup /\ heads % n = 0
  BY SetupsValid
<1>4. n \in Nat \ {0} /\ heads \in Nat \ {0} /\ setup.backend \in {"padded", "rmpad", "megatron"}
  BY <1>3 DEF Setup
<1>5. PICK H \in Nat \ {0} : heads = n * H
  BY <1>3, <1>4, EvenlyShared, Zenon
<1> HIDE DEF a, e, w, n, heads, c
<1>6. ASSUME NEW full, HasResults(full, batch, R, w, a, e, heads, TRUE)
      PROVE  ShiftedResponses(full)[i][j] = <<said[i].answer[j], Before(i, j)>>
  <2>1. IsMatrix(full, R, w) /\ IsResult(full[i][c], batch, heads, TRUE, i, a[i], e[i], c)
    BY <1>2, <1>6 DEF HasResults
  <2>2. full[i][c] = <<said[i].answer[j], Before(i, j)>>
    BY <1>2, <2>1 DEF IsResult, Result, WithLabel
  <2>3. ShiftedResponses(full)[i][j] = full[i][c]
    BY <1>2, <2>1, ShiftedIs DEF w, c
  <2> QED BY <2>2, <2>3
<1>7. ASSUME NEW x, IsMatrix(x, R, w), x[i][c] = RowState(batch, heads, i, a[i], c)
      PROVE  Paired(x)[i][j] = <<said[i].answer[j], Before(i, j)>>
  <2> DEFINE s == Responses(batch.input_ids)
             hidden == ShiftedResponses(x)
             f(r, k) == <<s[r][k], hidden[r][k]>>
             u(r) == [k \in DOMAIN s[r] |-> f(r, k)]
             y == [r \in DOMAIN s |-> Each(u(r))]
  <2>3. Paired(x) = Each(y)
    BY DEF Paired, Entries
  <2>4. DOMAIN s = 1..R /\ DOMAIN s[i] = 1..ResponseWidth /\ s[i][j] = batch.input_ids[i][PromptWidth + j]
    BY <1>1, <1>2, ShiftedIs DEF w
  <2>5. hidden[i][j] = x[i][c]
    BY <1>2, <1>7, ShiftedIs DEF w, c
  <2>6. R \in Nat /\ ResponseWidth \in Nat
    BY SetupsValid DEF RowsStand
  <2> HIDE DEF s, hidden
  <2>7. f(i, j) = <<said[i].answer[j], Before(i, j)>>
    BY <1>2, <1>7, <2>4, <2>5
  <2> HIDE DEF f
  <2>8. IsRow(u(i), ResponseWidth) /\ u(i)[j] = f(i, j)
    BY <1>2, <2>4, <2>6 DEF IsRow
  <2> HIDE DEF u
  <2>9. Each(u(i)) = u(i)
    BY <2>8, RowIs
  <2>10. IsRow(y, R) /\ y[i] = Each(u(i))
    BY <2>4, <2>6 DEF IsRow
  <2> HIDE DEF y
  <2>11. Each(y) = y
    BY <2>10, RowIs
  <2> QED BY <2>3, <2>7, <2>8, <2>9, <2>10, <2>11
<1>8. CASE setup.backend = "padded"
  <2>1. PICK x : x = PaddedAttention(batch, heads)
    OBVIOUS
  <2>2. IsMatrix(x, R, w) /\ x[i][c] = RowState(batch, heads, i, a[i], c)
    <3>1. /\ IsMatrix(x, R, w)
          /\ \A r \in 1..R, k \in 1..w : a[r] < k /\ k <= e[r] => x[r][k] = RowState(batch, heads, r, a[r], k)
      <4>1. heads \in Nat
        BY <1>4
      <4> QED BY <1>1, <2>1, <4>1, PaddedRows
    <3> QED BY <1>2, <3>1
  <2>3. LogProbs = Paired(x)
    BY <1>8, <2>1 DEF LogProbs, heads
  <2> QED BY <1>7, <2>2, <2>3
<1>9. CASE setup.backend = "rmpad"
  <2>1. PICK full : full = RmpadForward(batch, n, heads, TRUE)
    OBVIOUS
  <2>2. HasResults(full, batch, R, w, a, e, heads, TRUE)
    BY <1>1, <1>4, <1>5, <2>1, RmpadRows DEF HasResults
  <2>3. LogProbs = ShiftedResponses(full)
    BY <1>9, <2>1 DEF LogProbs, n, heads
  <2> QED BY <1>6, <2>2, <2>3
<1>10. CASE setup.backend = "megatron"
  <2>1. PICK x : x = MegatronForward(batch, n, heads, setup.sequence_parallel)
    OBVIOUS
  <2>2. HasResults(x, batch, R, w, a, e, heads, FALSE)
    <3>1. PICK parallel : parallel = setup.sequence_parallel
      OBVIOUS
    <3>2. HasResults(MegatronForward(batch, n, heads, parallel), batch, R, w, a, e, heads, FALSE)
      BY <1>1, <1>4, <1>5, MegatronRows, Zenon
    <3> QED BY <2>1, <3>1, <3>2
  <2>3. IsMatrix(x, R, w) /\ IsResult(x[i][c], batch, heads, FALSE, i, a[i], e[i], c)
    BY <1>2, <2>2 DEF HasResults
  <2>4. x[i][c] = RowState(batch, heads, i, a[i], c)
    BY <2>3 DEF IsResult, Result, HiddenOnly
  <2>5. LogProbs = Paired(x)
    BY <1>10, <2>1 DEF LogProbs, n, heads
  <2> QED BY <1>7, <2>3, <2>4, <2>5
<1> QED BY <1>4, <1>8, <1>9, <1>10

-----------------------------------------------------------------------------
(* The last valid place of a row, and the hidden state there. *)

\* The place of the greatest number, when those before it are less.
LEMMA ArgMaxIs ==
  ASSUME NEW n \in Nat, NEW s, DOMAIN s = 1..n, NEW e \in 1..n,
         \A k \in 1..n : s[k] \in Nat /\ s[k] <= s[e] /\ (k < e => s[k] < s[e])
  PROVE  ArgMax(s) = e
<1> DEFINE V == Range(s)
           places == {k \in DOMAIN s : s[k] = Max(V)}
<1>1. s[e] \in V /\ \A y \in V : y <= s[e] /\ y \in Nat
  BY DEF Range
<1> HIDE DEF V
<1>2. Max(V) = s[e]
  <2>1. \E x \in V : \A y \in V : x >= y
    BY <1>1
  <2>2. Max(V) \in V /\ \A y \in V : Max(V) >= y
    BY <2>1, Zenon DEF Max
  <2> QED BY <1>1, <2>2
<1>3. places \subseteq Nat /\ e \in places
  BY <1>2
<1>4. \A k \in places : e <= k
  BY <1>2
<1> HIDE DEF places
<1>5. Min(places) \in places /\ \A x \in places : Min(places) <= x
  BY <1>3, MinIsLeast
<1>6. Min(places) = e
  <2>1. Min(places) <= e /\ e <= Min(places) /\ Min(places) \in Nat /\ e \in Nat
    BY <1>3, <1>4, <1>5
  <2> QED BY <2>1
<1> QED BY <1>6 DEF ArgMax, places, V

\* The positions of a batch are numbers, in the padding too.
HasPositions(b, R, w) == \A i \in 1..R, c \in 1..w : b.position_ids[i][c] \in Nat

\* Both ways to look for the last valid place of a row find it.
LEMMA LastIs ==
  ASSUME NEW b, NEW R, NEW w, NEW a, NEW e, IsBatch(b, R, w, a, e), IsMask(b, R, w), HasPositions(b, R, w),
         NEW i \in 1..R
  PROVE  LastValid(b, i) = e[i] /\ LastCounted(b, i) = e[i]
<1> DEFINE mask == b.attention_mask[i]
           pos == b.position_ids[i]
           x == [k \in DOMAIN mask |-> pos[k] * mask[k]]
           y == [k \in DOMAIN mask |-> SumSeq(SubSeq(mask, 1, k))]
           from == a[i]
           to == e[i]
<1>1. w \in Nat \ {0} /\ from \in Nat /\ to \in 1..w /\ from + 2 <= to
  BY DEF IsBatch
<1>2. IsRow(mask, w)
  BY DEF IsMask, IsMatrix
<1>3. DOMAIN mask = 1..w
  BY <1>2, RowIs
<1>4. \A k \in 1..w : mask[k] = IF from < k /\ k <= to THEN 1 ELSE 0
  <2> SUFFICES ASSUME NEW k \in 1..w PROVE mask[k] = IF from < k /\ k <= to THEN 1 ELSE 0
    OBVIOUS
  <2>1. mask[k] = 1 <=> (from < k /\ k <= to)
    BY DEF IsBatch
  <2>2. mask[k] \in {0, 1}
    BY DEF IsMask
  <2> HIDE DEF mask, from, to
  <2> QED BY <2>1, <2>2
<1>5. \A k \in 1..w : pos[k] \in Nat /\ (from < k /\ k <= to => pos[k] = k - from - 1)
  BY DEF HasPositions, IsBatch
<1> HIDE DEF mask, pos, from, to
<1>6. ArgMax(x) = to
  <2>1. DOMAIN x = 1..w /\ \A k \in 1..w : x[k] = IF from < k /\ k <= to THEN k - from - 1 ELSE 0
    <3> SUFFICES ASSUME NEW k \in 1..w PROVE pos[k] * mask[k] = IF from < k /\ k <= to THEN k - from - 1 ELSE 0
      BY <1>3
    <3>1. CASE from < k /\ k <= to
      <4>1. mask[k] = 1 /\ pos[k] = k - from - 1 /\ pos[k] \in Nat
        BY <1>4, <1>5, <3>1
      <4> QED BY <3>1, <4>1
    <3>2. CASE ~ (from < k /\ k <= to)
      <4>1. mask[k] = 0 /\ pos[k] \in Nat
        BY <1>4, <1>5, <3>2
      <4> QED BY <3>2, <4>1
    <3> QED BY <3>1, <3>2
  <2> HIDE DEF x
  <2>2. x[to] = to - from - 1
    BY <1>1, <2>1
  <2>3. \A k \in 1..w : x[k] \in Nat /\ x[k] <= x[to] /\ (k < to => x[k] < x[to])
    BY <1>1, <2>1, <2>2
  <2> QED BY <1>1, <2>1, <2>3, ArgMaxIs
<1>7. ArgMax(y) = to
  <2>1. ValidFrom(mask, from, to, w)
    BY <1>1, <1>2, <1>4 DEF ValidFrom
  <2>2. DOMAIN y = 1..w /\ \A k \in 1..w : y[k] = CountedTo(from, to, k)
    <3>1. \A k \in 1..w : SumSeq(SubSeq(mask, 1, k)) = CountedTo(from, to, k)
      BY <2>1, CountsTo
    <3> QED BY <1>3, <3>1
  <2> HIDE DEF y
  <2>3. \A k \in 1..w : y[k] \in Nat /\ y[k] <= y[to] /\ (k < to => y[k] < y[to])
    BY <1>1, <2>2 DEF CountedTo
  <2> QED BY <1>1, <2>2, <2>3, ArgMaxIs
<1> QED BY <1>6, <1>7 DEF LastValid, LastCounted, x, y, mask, pos, to

\* The hidden state at the last valid place of every row.
LEMMA ForwardIs ==
  ASSUME setup \in Setups,
         NEW b, NEW R, NEW w, NEW a, NEW e, IsBatch(b, R, w, a, e), IsMask(b, R, w), IsMatrix(b.input_ids, R, w),
         NEW i \in 1..R
  PROVE  Forward(b)[i][e[i]] = RowState(b, setup.heads, i, a[i], e[i])
<1> DEFINE n == setup.sp
           heads == setup.heads
           c == e[i]
<1>1. a[i] < c /\ c <= e[i] /\ c \in 1..w
  BY DEF IsBatch
<1>2. setup \in Setup /\ heads % n = 0
  BY SetupsValid
<1>3. n \in Nat \ {0} /\ heads \in Nat \ {0} /\ setup.backend \in {"padded", "rmpad", "megatron"}
  BY <1>2 DEF Setup
<1>4. PICK H \in Nat \ {0} : heads = n * H
  BY <1>2, <1>3, EvenlyShared, Zenon
<1> HIDE DEF n, heads, c
<1>5. ASSUME NEW full, HasResults(full, b, R, w, a, e, heads, FALSE)
      PROVE  full[i][c] = RowState(b, heads, i, a[i], c)
  <2>1. IsResult(full[i][c], b, heads, FALSE, i, a[i], e[i], c)
    BY <1>1, <1>5 DEF HasResults
  <2> QED BY <2>1 DEF IsResult, Result, HiddenOnly
<1>6. CASE setup.backend = "padded"
  <2>1. PICK x : x = PaddedAttention(b, heads)
    OBVIOUS
  <2>2. \A r \in 1..R, k \in 1..w : a[r] < k /\ k <= e[r] => x[r][k] = RowState(b, heads, r, a[r], k)
    <3>1. heads \in Nat
      BY <1>3
    <3> QED BY <2>1, <3>1, PaddedRows
  <2>3. Forward(b) = x
    BY <1>6, <2>1 DEF Forward, heads
  <2> QED BY <1>1, <2>2, <2>3 DEF c, heads
<1>7. CASE setup.backend = "rmpad"
  <2>1. PICK full : full = RmpadForward(b, n, heads, FALSE)
    OBVIOUS
  <2>2. HasResults(full, b, R, w, a, e, heads, FALSE)
    BY <1>3, <1>4, <2>1, RmpadRows DEF HasResults
  <2>3. Forward(b) = full
    BY <1>7, <2>1 DEF Forward, n, heads
  <2> QED BY <1>5, <2>2, <2>3 DEF c, heads
<1>8. CASE setup.backend = "megatron"
  <2>1. PICK parallel : parallel = setup.sequence_parallel
    OBVIOUS
  <2>2. HasResults(MegatronForward(b, n, heads, parallel), b, R, w, a, e, heads, FALSE)
    BY <1>3, <1>4, MegatronRows, Zenon
  <2>3. Forward(b) = MegatronForward(b, n, heads, parallel)
    BY <1>8, <2>1 DEF Forward, n, heads
  <2> QED BY <1>5, <2>2, <2>3 DEF c, heads
<1> QED BY <1>3, <1>6, <1>7, <1>8

\* The tokens of s at the places, which q enumerates.
IsPicked(u, s, q, places, n) ==
  Enumerates(q, places, n) /\ IsRow(u, Len(q)) /\ \A k \in 1..Len(q) : u[k] = s[q[k]]

\* What has been picked is a row.
LEMMA PickedIs ==
  ASSUME NEW n \in Nat, NEW s, IsRow(s, n), NEW places, places \subseteq 1..n
  PROVE  \E q : IsPicked(Picked(s, places), s, q, places, n)
<1>1. PICK q : q = InOrder(places, n)
  OBVIOUS
<1>2. Enumerates(q, places, n)
  BY <1>1, InOrderIs
<1>3. Len(q) \in Nat /\ DOMAIN q = 1..Len(q)
  BY <1>2 DEF Enumerates
<1>4. Len(s) = n
  BY RowIs
<1>5. Picked(s, places) = [k \in 1..Len(q) |-> s[q[k]]]
  BY <1>1, <1>3, <1>4 DEF Picked
<1>6. IsRow(Picked(s, places), Len(q)) /\ \A k \in 1..Len(q) : Picked(s, places)[k] = s[q[k]]
  BY <1>3, <1>5 DEF IsRow
<1> QED BY <1>2, <1>6 DEF IsPicked

\* The valid tokens of a row are what was said.
LEMMA TokensAre ==
  ASSUME NEW R, RowsStand(R), NEW i \in 1..R
  PROVE  /\ TokensOf(batch.input_ids[i], batch.attention_mask[i]) = RowText(i)
         /\ IsRow(RowText(i), Ends(R)[i] - Starts(R)[i])
         /\ \A k \in 1..(Ends(R)[i] - Starts(R)[i]) : batch.input_ids[i][Starts(R)[i] + k] = RowText(i)[k]
<1> DEFINE m == Len(said[i].prompt)
           l == Len(said[i].answer)
           a == PromptWidth - m
           e == PromptWidth + l
           s == said[i].prompt
           t == said[i].answer
           u == s \o t
           ids == batch.input_ids[i]
           mask == batch.attention_mask[i]
           places == {k \in DOMAIN ids : mask[k] = 1}
<1>1. RowIsOf(ids, mask, batch.position_ids[i], s, m, t, l)
  BY DEF RowsStand
<1>2. PromptWidth \in Nat \ {0} /\ ResponseWidth \in Nat \ {0} /\ RowWidth = PromptWidth + ResponseWidth
  BY SetupsValid DEF RowWidth
<1>3. m \in 1..PromptWidth /\ l \in 1..ResponseWidth /\ IsRow(s, m) /\ IsRow(t, l) /\ IsRow(ids, RowWidth)
  BY <1>1 DEF RowIsOf, AnswerFits
<1>4. /\ \A k \in 1..m : ids[a + k] = s[k]
      /\ \A k \in 1..l : ids[PromptWidth + k] = t[k]
      /\ \A c \in 1..RowWidth : mask[c] = IF a < c /\ c <= e THEN 1 ELSE 0
  BY <1>1 DEF RowIsOf
<1>5. Starts(R)[i] = a /\ Ends(R)[i] = e /\ RowText(i) = u
  BY DEF Starts, Ends, RowText
<1>6. IsJoin(u, s, m, t, l)
  BY <1>3, JoinIs
<1>7. DOMAIN ids = 1..RowWidth
  BY <1>3, RowIs
<1> HIDE DEF m, l, s, t, ids, u, mask
<1>8. a \in Nat /\ e \in Nat /\ a < e /\ e <= RowWidth /\ e - a = m + l /\ a + m = PromptWidth /\ RowWidth \in Nat
  BY <1>2, <1>3
<1>9. places = (a + 1)..e
  <2>1. \A k : k \in (a + 1)..e <=> k \in 1..RowWidth /\ a < k /\ k <= e
    BY <1>8
  <2>2. \A k \in 1..RowWidth : mask[k] = 1 <=> a < k /\ k <= e
    BY <1>4
  <2> HIDE DEF a, e
  <2> QED BY <1>7, <2>1, <2>2
<1>10. ASSUME NEW k \in 1..(m + l) PROVE ids[a + k] = u[k]
  <2>1. CASE k \in 1..m
    BY <1>4, <1>6, <2>1 DEF IsJoin
  <2>2. CASE k \notin 1..m
    <3>1. k - m \in 1..l /\ m + (k - m) = k /\ PromptWidth + (k - m) = a + k
      BY <1>2, <1>3, <1>8, <2>2
    <3> QED BY <1>4, <1>6, <3>1 DEF IsJoin
  <2> QED BY <2>1, <2>2
<1> HIDE DEF a, e, places
<1>11. TokensOf(ids, mask) = u
  <2>1. TokensOf(ids, mask) = Picked(ids, places)
    BY DEF TokensOf, places
  <2>2. places \subseteq 1..RowWidth
    BY <1>7 DEF places
  <2>3. PICK q : IsPicked(Picked(ids, places), ids, q, places, RowWidth)
    <3>1. PICK n \in Nat : n = RowWidth
      BY <1>8
    <3>2. IsRow(ids, n) /\ places \subseteq 1..n
      BY <1>3, <2>2, <3>1
    <3>3. \E q : IsPicked(Picked(ids, places), ids, q, places, n)
      BY <3>2, PickedIs, Zenon
    <3> QED BY <3>1, <3>3
  <2>4. Enumerates(q, (a + 1)..e, RowWidth)
    BY <1>9, <2>3 DEF IsPicked
  <2>5. IsRow(q, e - a) /\ \A k \in 1..(e - a) : q[k] = a + k
    <3>1. PICK n \in Nat : n = RowWidth
      BY <1>8
    <3>2. PICK x \in Nat : x = a
      BY <1>8
    <3>3. PICK y \in Nat : y = e
      BY <1>8
    <3>4. x < y /\ y <= n /\ Enumerates(q, (x + 1)..y, n)
      BY <1>8, <2>4, <3>1, <3>2, <3>3
    <3>5. IsRow(q, y - x) /\ \A k \in 1..(y - x) : q[k] = x + k
      BY <3>4, RunInOrder
    <3> QED BY <3>2, <3>3, <3>5
  <2>6. Len(q) = m + l
    BY <1>8, <2>5, RowIs
  <2>7. \A k \in 1..(m + l) : Picked(ids, places)[k] = u[k]
    BY <1>8, <1>10, <2>3, <2>5, <2>6 DEF IsPicked
  <2>8. Picked(ids, places) = u
    BY <1>6, <2>3, <2>6, <2>7, SameRow DEF IsJoin, IsPicked
  <2> QED BY <2>1, <2>8
<1> QED BY <1>5, <1>6, <1>8, <1>10, <1>11 DEF ids, mask, IsJoin

\* The tokens of the answer, and how many they are.
LEMMA AnswerIs ==
  ASSUME NEW R, RowsStand(R), NEW i \in 1..R
  PROVE  /\ SumSeq(ResponseMask[i]) = Len(said[i].answer)
         /\ SubSeq(Responses(batch.input_ids)[i], 1, Len(said[i].answer)) = said[i].answer
<1> DEFINE l == Len(said[i].answer)
           t == said[i].answer
           m == Len(said[i].prompt)
           ids == batch.input_ids[i]
           mask == batch.attention_mask[i]
           P == PromptWidth
           W == ResponseWidth
           u == ResponseMask[i]
           v == Responses(batch.input_ids)[i]
<1>1. RowIsOf(ids, mask, batch.position_ids[i], said[i].prompt, m, t, l) /\ R \in Nat
  BY DEF RowsStand
<1>2. P \in Nat \ {0} /\ W \in Nat \ {0} /\ RowWidth = P + W /\ RowWidth \in Nat
  BY SetupsValid DEF RowWidth
<1>3. /\ m \in 1..P /\ l \in 1..W /\ IsRow(t, l) /\ IsRow(ids, RowWidth) /\ IsRow(mask, RowWidth)
      /\ \A k \in 1..l : ids[P + k] = t[k]
      /\ \A c \in 1..RowWidth : mask[c] = IF P - m < c /\ c <= P + l THEN 1 ELSE 0
  BY <1>1 DEF RowIsOf, AnswerFits
<1>4. u = SubSeq(mask, P + 1, RowWidth) /\ v = SubSeq(ids, P + 1, RowWidth)
  <2>1. IsRow(batch.input_ids, R) /\ IsRow(batch.attention_mask, R)
    BY DEF RowsStand
  <2>2. DOMAIN batch.input_ids = 1..R /\ DOMAIN batch.attention_mask = 1..R
    BY <2>1, RowIs
  <2>3. Len(ids) = RowWidth /\ Len(mask) = RowWidth
    BY <1>3, RowIs
  <2>4. RowWidth - W + 1 = P + 1
    BY <1>2
  <2>5. u = SubSeq(mask, Len(mask) - W + 1, Len(mask)) /\ v = SubSeq(ids, Len(ids) - W + 1, Len(ids))
    BY <2>2 DEF ResponseMask, Responses
  <2> QED BY <2>3, <2>4, <2>5
<1> HIDE DEF P, W, l, t, m, ids, mask, u, v
<1>5. P <= RowWidth /\ RowWidth - P = W /\ P \in Nat
  BY <1>2
<1>6. IsRow(u, W) /\ \A k \in 1..W : u[k] = mask[P + k]
  BY <1>2, <1>3, <1>4, <1>5, StretchIs
<1>7. IsRow(v, W) /\ \A k \in 1..W : v[k] = ids[P + k]
  BY <1>2, <1>3, <1>4, <1>5, StretchIs
<1>8. l \in Nat /\ l <= W /\ l # 0
  BY <1>2, <1>3
<1>9. SumSeq(u) = l
  <2>1. \A k \in 1..W : u[k] = IF k <= l THEN 1 ELSE 0
    <3> SUFFICES ASSUME NEW k \in 1..W PROVE u[k] = IF k <= l THEN 1 ELSE 0
      OBVIOUS
    <3>1. P + k \in 1..RowWidth /\ P - m < P + k /\ (P + k <= P + l <=> k <= l)
      BY <1>2, <1>3
    <3> QED BY <1>3, <1>6, <3>1
  <2>2. DOMAIN u = 1..W
    BY <1>6, RowIs
  <2>3. SumSeq(u) = Cardinality({k \in 1..W : u[k] = 1})
    <3>1. W \in Nat /\ \A k \in 1..W : u[k] \in {0, 1}
      BY <1>2, <2>1
    <3> QED BY <2>2, <3>1, SumOfMask
  <2>4. {k \in 1..W : u[k] = 1} = 1..l
    BY <1>2, <1>8, <2>1
  <2>5. Cardinality(1..l) = l
    <3>1. Cardinality(1..l) = IF 1 > l THEN 0 ELSE l - 1 + 1
      BY <1>8, FS_Interval
    <3> QED BY <1>8, <3>1
  <2> QED BY <2>3, <2>4, <2>5
<1>10. SubSeq(v, 1, l) = t
  <2>1. PICK z \in Nat : z = 0
    OBVIOUS
  <2>2. z + 1 = 1 /\ z <= l /\ l - z = l /\ \A k \in 1..l : z + k = k /\ k \in 1..W
    BY <1>2, <1>8, <2>1
  <2>3. IsRow(SubSeq(v, z + 1, l), l - z) /\ \A k \in 1..(l - z) : SubSeq(v, z + 1, l)[k] = v[z + k]
    <3>1. PICK y \in Nat : y = l
      BY <1>8
    <3>2. z <= y /\ y <= W /\ W \in Nat
      BY <1>2, <1>8, <2>2, <3>1
    <3>3. IsRow(SubSeq(v, z + 1, y), y - z) /\ \A k \in 1..(y - z) : SubSeq(v, z + 1, y)[k] = v[z + k]
      BY <1>7, <3>2, StretchIs
    <3> QED BY <3>1, <3>3
  <2>4. IsRow(SubSeq(v, 1, l), l) /\ \A k \in 1..l : SubSeq(v, 1, l)[k] = t[k]
    BY <1>3, <1>7, <2>2, <2>3
  <2> QED BY <1>3, <2>4, SameRow
<1> QED BY <1>9, <1>10 DEF u, v, l, t

-----------------------------------------------------------------------------
(* What the reward model reads, and where its scores go. *)

\* Where a text of m tokens stands in a row of n, padded on the right.
TextStands(row, text, m, n) ==
  /\ m \in 1..n /\ 2 <= m /\ IsRow(text, m)
  /\ IsPaddedRight(row.input_ids, text, m, n, Pad)
  /\ ValidFrom(row.attention_mask, 0, m, n)
  /\ PlacesCount(row.position_ids, 0, m, n)

\* A text that is cut on the right keeps at least two tokens when it has as many.
LEMMA CutIs ==
  ASSUME NEW n \in Nat, 2 <= n, NEW l \in Nat, 2 <= l, NEW s, IsRow(s, l)
  PROVE  \E m \in 1..n : 2 <= m /\ IsRow(Truncated(s, n, "right"), m)
<1>1. Len(s) = l
  BY RowIs
<1>2. CASE l <= n
  <2>1. Truncated(s, n, "right") = s /\ l \in 1..n
    BY <1>1, <1>2 DEF Truncated
  <2> QED BY <2>1
<1>3. CASE ~ (l <= n)
  <2>1. Truncated(s, n, "right") = SubSeq(s, 1, n)
    BY <1>1, <1>3 DEF Truncated
  <2>2. PICK z \in Nat : z = 0
    OBVIOUS
  <2>3. z + 1 = 1 /\ z <= n /\ n <= l /\ n - z = n /\ n \in 1..n
    BY <1>3, <2>2
  <2>4. IsRow(SubSeq(s, z + 1, n), n - z)
    BY <2>3, StretchIs
  <2>5. IsRow(SubSeq(s, 1, n), n)
    BY <2>3, <2>4
  <2> QED BY <2>1, <2>3, <2>5
<1> QED BY <1>2, <1>3

\* The row that the reward model's tokenizer makes of a text stands so.
LEMMA TextRow ==
  ASSUME NEW n \in Nat, 2 <= n, NEW l \in Nat, 2 <= l, NEW s, IsRow(s, l)
  PROVE  \E m : TextStands(Tokenized(s, n, FALSE), Truncated(s, n, "right"), m, n)
<1> DEFINE kept == Truncated(s, n, "right")
           ones == Ones(kept)
           mask == PadRight(ones, n, 0)
           row == Tokenized(s, n, FALSE)
<1>1. PICK m \in 1..n : 2 <= m /\ IsRow(kept, m)
  BY CutIs
<1>2. /\ row.input_ids = PadRight(kept, n, Pad) /\ row.attention_mask = mask
      /\ row.position_ids = PositionIds(mask)
  BY DEF Tokenized
<1> HIDE DEF row, kept
<1>3. Len(kept) = m /\ m \in Nat /\ m <= n
  <2>1. Len(kept) = m
    BY <1>1, RowIs
  <2>2. m \in Nat /\ m <= n
    OBVIOUS
  <2> QED BY <2>1, <2>2
<1>4. IsPaddedRight(PadRight(kept, n, Pad), kept, m, n, Pad)
  BY <1>1, <1>3, PaddedRightIs
<1>5. IsRow(ones, m) /\ \A k \in 1..m : ones[k] = 1
  BY <1>3, RepeatIs DEF Ones
<1> HIDE DEF ones
<1>6. IsPaddedRight(mask, ones, m, n, 0)
  BY <1>3, <1>5, PaddedRightIs
<1> HIDE DEF mask
<1>7. ValidFrom(mask, 0, m, n)
  <2>1. IsRow(mask, n) /\ \A k \in 1..n : mask[k] = IF 0 < k /\ k <= m THEN 1 ELSE 0
    <3> SUFFICES ASSUME NEW k \in 1..n PROVE mask[k] = IF k <= m THEN 1 ELSE 0
      BY <1>6 DEF IsPaddedRight
    <3>1. CASE k <= m
      <4>1. k \in 1..m
        BY <1>3, <3>1
      <4> QED BY <1>5, <1>6, <3>1, <4>1 DEF IsPaddedRight
    <3>2. CASE ~ (k <= m)
      <4>1. m < k
        BY <1>3, <3>2
      <4> QED BY <1>6, <3>2, <4>1 DEF IsPaddedRight
    <3> QED BY <3>1, <3>2
  <2> QED BY <1>3, <2>1 DEF ValidFrom
<1>8. PlacesCount(PositionIds(mask), 0, m, n)
  BY <1>7, PositionsCount
<1> QED BY <1>1, <1>2, <1>4, <1>7, <1>8 DEF TextStands, row, kept

\* Rows that are stacked are the rows of the columns.
LEMMA StackIs ==
  ASSUME NEW R \in Nat \ {0}, NEW rows, DOMAIN rows = 1..R, NEW F, DOMAIN rows[1] = F, NEW f \in F
  PROVE  IsRow(Collate(rows)[f], R) /\ \A i \in 1..R : Collate(rows)[f][i] = rows[i][f]
<1>1. Collate(rows)[f] = [i \in 1..R |-> rows[i][f]]
  BY DEF Collate
<1> QED BY <1>1 DEF IsRow

\* The words that the reward model is given.
WordsOf(i) == IF setup.backend = "megatron" THEN RowText(i) ELSE said[i].prompt \o WithoutEos(said[i].answer)

\* Either backend gives the reward model the row's words and one more end: at least two tokens.
LEMMA WordsAre ==
  ASSUME NEW R, RowsStand(R), NEW i \in 1..R
  PROVE  /\ (IF setup.backend = "megatron" THEN ReEncode(i) ELSE SwitchChatTemplate(i)) = WordsOf(i) \o <<End>>
         /\ \E l \in Nat : 2 <= l /\ IsRow(WordsOf(i) \o <<End>>, l)
<1> DEFINE m == Len(said[i].prompt)
           l == Len(said[i].answer)
           s == said[i].prompt
           t == said[i].answer
           last == <<End>>
<1>1. /\ RowIsOf(batch.input_ids[i], batch.attention_mask[i], batch.position_ids[i], s, m, t, l)
      /\ batch.raw_prompt[i] = s
  BY DEF RowsStand
<1>2. m \in 1..PromptWidth /\ l \in 1..ResponseWidth /\ IsRow(s, m) /\ IsRow(t, l)
  BY <1>1 DEF RowIsOf, AnswerFits
<1>3. PromptWidth \in Nat /\ ResponseWidth \in Nat
  BY SetupsValid
<1>4. IsRow(last, 1)
  BY DEF IsRow
<1> HIDE DEF m, l, s, t, last
<1>5. \E k \in Nat \ {0} : IsRow(WordsOf(i), k)
  <2>1. CASE setup.backend = "megatron"
    <3>1. IsJoin(s \o t, s, m, t, l)
      BY <1>2, JoinIs
    <3>2. WordsOf(i) = s \o t
      BY <2>1 DEF WordsOf, RowText, s, t
    <3>3. m + l \in Nat \ {0}
      BY <1>2, <1>3
    <3> QED BY <3>1, <3>2, <3>3 DEF IsJoin
  <2>2. CASE setup.backend # "megatron"
    <3> DEFINE places == {k \in DOMAIN t : t[k] # EOS}
               v == Picked(t, places)
    <3>1. places \subseteq 1..l /\ l \in Nat
      BY <1>2, <1>3, RowIs
    <3> HIDE DEF places
    <3>2. PICK q : IsPicked(v, t, q, places, l)
      BY <1>2, <3>1, PickedIs, Zenon
    <3>3. IsRow(v, Len(q))
      BY <3>2 DEF IsPicked
    <3> HIDE DEF v
    <3>4. Len(q) \in Nat
      BY <3>3 DEF IsRow
    <3>5. IsJoin(s \o v, s, m, v, Len(q))
      BY <1>2, <3>3, JoinIs
    <3>6. WordsOf(i) = s \o v
      BY <2>2 DEF WordsOf, WithoutEos, s, t, v, places
    <3>7. m + Len(q) \in Nat \ {0}
      BY <1>2, <1>3, <3>4
    <3> QED BY <3>5, <3>6, <3>7 DEF IsJoin
  <2> QED BY <2>1, <2>2
<1>6. PICK k \in Nat \ {0} : IsRow(WordsOf(i), k)
  BY <1>5
<1>7. IsRow(WordsOf(i) \o last, k + 1)
  <2>1. PICK u : u = WordsOf(i)
    OBVIOUS
  <2>2. IsJoin(u \o last, u, k, last, 1)
    BY <1>4, <1>6, <2>1, JoinIs
  <2> QED BY <2>1, <2>2 DEF IsJoin
<1>8. (IF setup.backend = "megatron" THEN ReEncode(i) ELSE SwitchChatTemplate(i)) = WordsOf(i) \o last
  <2>1. CASE setup.backend = "megatron"
    <3>1. TokensOf(batch.input_ids[i], batch.attention_mask[i]) = RowText(i)
      BY TokensAre
    <3> QED BY <2>1, <3>1 DEF ReEncode, WordsOf, last
  <2>2. CASE setup.backend # "megatron"
    <3>1. SubSeq(Responses(batch.input_ids)[i], 1, SumSeq(ResponseMask[i])) = t
      BY AnswerIs DEF t
    <3> QED BY <1>1, <2>2, <3>1 DEF SwitchChatTemplate, WordsOf, last, s, t
  <2> QED BY <2>1, <2>2
<1>9. k + 1 \in Nat /\ 2 <= k + 1
  OBVIOUS
<1> QED BY <1>7, <1>8, <1>9 DEF last

\* A batch that the reward model can read, with what it should make of its rows.
Readable(b, R, w, a, e) ==
  /\ IsBatch(b, R, w, a, e) /\ IsMask(b, R, w) /\ IsMatrix(b.input_ids, R, w) /\ HasPositions(b, R, w)
  /\ \A i \in 1..R : RowState(b, setup.heads, i, a[i], e[i]) = Judged(i)

\* The rows themselves.
LEMMA BatchIsRead ==
  ASSUME NEW R, RowsStand(R)
  PROVE  /\ HasPositions(batch, R, RowWidth)
         /\ setup.rm_width = 0 => Readable(batch, R, RowWidth, Starts(R), Ends(R))
<1>1. IsBatch(batch, R, RowWidth, Starts(R), Ends(R)) /\ IsMask(batch, R, RowWidth) /\ IsMatrix(batch.input_ids, R, RowWidth)
  BY BatchIs
<1>2. HasPositions(batch, R, RowWidth)
  <2> SUFFICES ASSUME NEW i \in 1..R, NEW c \in 1..RowWidth PROVE batch.position_ids[i][c] \in Nat
    BY DEF HasPositions
  <2>1. RowIsOf(batch.input_ids[i], batch.attention_mask[i], batch.position_ids[i],
                  said[i].prompt, Len(said[i].prompt), said[i].answer, Len(said[i].answer))
    BY DEF RowsStand
  <2> QED BY <2>1 DEF RowIsOf
<1>3. ASSUME setup.rm_width = 0, NEW i \in 1..R
      PROVE  RowState(batch, setup.heads, i, Starts(R)[i], Ends(R)[i]) = Judged(i)
  <2> DEFINE a == Starts(R)[i]
             n == Ends(R)[i] - a
             u == RowText(i)
  <2>1. IsRow(u, n) /\ \A k \in 1..n : batch.input_ids[i][a + k] = u[k]
    BY TokensAre
  <2>2. Len(u) = n
    BY <2>1, RowIs
  <2>3. Judged(i) = SeenIn(u, Len(u))
    BY <1>3 DEF Judged
  <2>4. RowState(batch, setup.heads, i, a, Ends(R)[i]) = [h \in 1..setup.heads |-> [j \in 1..n |-> <<<<batch.input_ids[i][a + j], h>>, j - 1>>]]
    BY DEF RowState
  <2> HIDE DEF a, n, u
  <2>5. SeenIn(u, n) = [h \in 1..setup.heads |-> [j \in 1..n |-> <<<<batch.input_ids[i][a + j], h>>, j - 1>>]]
    BY <2>1 DEF SeenIn
  <2> QED BY <2>2, <2>3, <2>4, <2>5 DEF a
<1> QED BY <1>1, <1>2, <1>3 DEF Readable

\* The rows that are tokenized again.
LEMMA OtherRowsAreRead ==
  ASSUME setup \in Setups, NEW R, RowsStand(R), setup.rm_width # 0
  PROVE  \E w, a, e : Readable(RmData, R, w, a, e)
<1> DEFINE n == setup.rm_width
           F == {"input_ids", "attention_mask", "position_ids"}
           text(i) == Truncated(WordsOf(i) \o <<End>>, n, "right")
           row(i) == Tokenized(IF setup.backend = "megatron" THEN ReEncode(i) ELSE SwitchChatTemplate(i), n, FALSE)
           rows == [i \in 1..R |-> row(i)]
           b == Collate(rows)
<1>1. n \in Nat /\ 2 <= n
  <2>1. setup \in Setup
    BY SetupsValid
  <2>2. n \in Nat \ {1}
    BY <2>1 DEF Setup
  <2> HIDE DEF n
  <2>3. n # 0
    BY DEF n
  <2> QED BY <2>2, <2>3
<1>2. R \in Nat \ {0} /\ Rows = 1..R
  <2>1. IsRow(batch.input_ids, R) /\ R \in Nat \ {0}
    BY DEF RowsStand
  <2> QED BY <2>1, RowIs DEF Rows
<1>3. RmData = b
  BY <1>2 DEF RmData
<1>4. ASSUME NEW i \in 1..R PROVE DOMAIN row(i) = F /\ \E m : TextStands(row(i), text(i), m, n)
  <2>1. PICK l \in Nat : 2 <= l /\ IsRow(WordsOf(i) \o <<End>>, l)
    BY WordsAre
  <2>2. row(i) = Tokenized(WordsOf(i) \o <<End>>, n, FALSE)
    BY WordsAre
  <2>3. PICK s : s = WordsOf(i) \o <<End>>
    OBVIOUS
  <2> HIDE DEF n
  <2>4. \E m : TextStands(Tokenized(s, n, FALSE), Truncated(s, n, "right"), m, n)
    BY <1>1, <2>1, <2>3, TextRow
  <2>5. \E m : TextStands(row(i), text(i), m, n)
    BY <2>2, <2>3, <2>4
  <2>6. DOMAIN row(i) = F
    BY <2>2 DEF Tokenized
  <2> QED BY <2>5, <2>6
<1> HIDE DEF row
<1>5. /\ IsRow(b.input_ids, R) /\ IsRow(b.attention_mask, R) /\ IsRow(b.position_ids, R)
      /\ \A i \in 1..R : /\ b.input_ids[i] = row(i).input_ids /\ b.attention_mask[i] = row(i).attention_mask
                         /\ b.position_ids[i] = row(i).position_ids
  <2>1. DOMAIN rows = 1..R /\ DOMAIN rows[1] = F /\ \A i \in 1..R : rows[i] = row(i)
    <3>1. 1 \in 1..R
      BY <1>2
    <3> QED BY <1>4, <3>1
  <2> HIDE DEF rows, F
  <2>2. ASSUME NEW f \in F PROVE IsRow(b[f], R) /\ \A i \in 1..R : b[f][i] = row(i)[f]
    BY <1>2, <2>1, <2>2, StackIs
  <2>3. "input_ids" \in F /\ "attention_mask" \in F /\ "position_ids" \in F
    BY DEF F
  <2> HIDE DEF b
  <2> QED BY <2>2, <2>3
<1> HIDE DEF b, text, n, F, rows
<1> DEFINE e == [i \in 1..R |-> CHOOSE m : TextStands(row(i), text(i), m, n)]
           a == [i \in 1..R |-> 0]
<1>6. \A i \in 1..R : a[i] = 0 /\ TextStands(row(i), text(i), e[i], n)
  BY <1>4
<1> HIDE DEF e, a
<1>7. ASSUME NEW i \in 1..R
      PROVE  /\ a[i] = 0 /\ e[i] \in 1..n /\ 2 <= e[i] /\ IsRow(text(i), e[i])
             /\ IsRow(b.input_ids[i], n) /\ IsRow(b.attention_mask[i], n)
             /\ \A k \in 1..e[i] : b.input_ids[i][k] = text(i)[k]
             /\ \A c \in 1..n : b.attention_mask[i][c] = IF 0 < c /\ c <= e[i] THEN 1 ELSE 0
             /\ \A c \in 1..n : /\ b.position_ids[i][c] \in Nat
                                /\ 0 < c /\ c <= e[i] => b.position_ids[i][c] = c - 0 - 1
  BY <1>5, <1>6 DEF TextStands, IsPaddedRight, ValidFrom, PlacesCount
<1>8. IsMatrix(b.input_ids, R, n) /\ IsMatrix(b.attention_mask, R, n)
  BY <1>5, <1>7 DEF IsMatrix
<1>9. Len(b.input_ids) = R /\ Len(b.input_ids[1]) = n /\ Len(b.attention_mask) = R
  <2>1. 1 \in 1..R
    BY <1>2
  <2>2. IsRow(b.input_ids[1], n)
    BY <1>7, <2>1
  <2> QED BY <1>5, <2>2, RowIs
<1>10. IsBatch(b, R, n, a, e)
  <2>1. \A i \in 1..R : a[i] \in Nat /\ e[i] \in 0..n /\ a[i] + 2 <= e[i]
    BY <1>1, <1>7
  <2>2. \A i \in 1..R, c \in 1..n : (b.attention_mask[i][c] = 1) <=> (a[i] < c /\ c <= e[i])
    BY <1>7
  <2>3. \A i \in 1..R, c \in 1..n : a[i] < c /\ c <= e[i] => b.position_ids[i][c] = c - a[i] - 1
    BY <1>7
  <2> QED BY <1>1, <1>2, <1>9, <2>1, <2>2, <2>3 DEF IsBatch
<1>11. IsMask(b, R, n)
  <2>1. \A i \in 1..R, c \in 1..n : b.attention_mask[i][c] \in {0, 1}
    BY <1>7
  <2> QED BY <1>8, <2>1 DEF IsMask
<1>12. HasPositions(b, R, n)
  BY <1>7 DEF HasPositions
<1>13. ASSUME NEW i \in 1..R PROVE RowState(b, setup.heads, i, a[i], e[i]) = Judged(i)
  <2>1. PICK u : u = text(i)
    OBVIOUS
  <2>2. PICK m \in 1..n : m = e[i]
    BY <1>7
  <2>3. a[i] = 0 /\ m \in Nat /\ IsRow(u, m) /\ \A k \in 1..m : b.input_ids[i][k] = u[k]
    BY <1>1, <1>7, <2>1, <2>2
  <2>4. Judged(i) = SeenIn(u, Len(u))
    BY <2>1 DEF Judged, WordsOf, text, n
  <2>5. Len(u) = m
    BY <2>3, RowIs
  <2>6. m - 0 = m /\ \A k \in 1..m : 0 + k = k
    BY <2>3
  <2>7. RowState(b, setup.heads, i, 0, m) = [h \in 1..setup.heads |-> [j \in 1..m |-> <<<<u[j], h>>, j - 1>>]]
    BY <2>3, <2>6 DEF RowState
  <2>8. SeenIn(u, m) = [h \in 1..setup.heads |-> [j \in 1..m |-> <<<<u[j], h>>, j - 1>>]]
    BY DEF SeenIn
  <2> QED BY <2>2, <2>3, <2>4, <2>5, <2>7, <2>8
<1>14. Readable(b, R, n, a, e)
  BY <1>8, <1>10, <1>11, <1>12, <1>13 DEF Readable
<1> QED BY <1>3, <1>14

\* The reward model's result at the end of what it has read of a row is that for the row.
LEMMA ResultsAreJudged ==
  ASSUME setup \in Setups, NEW R, RowsStand(R), NEW i \in 1..R
  PROVE  Forward(RmData)[i][IF setup.backend = "megatron" THEN LastCounted(RmData, i) ELSE LastValid(RmData, i)]
           = Judged(i)
<1>1. \E w, a, e : Readable(RmData, R, w, a, e)
  <2>1. CASE setup.rm_width = 0
    <3>1. RmData = batch
      BY <2>1 DEF RmData
    <3> QED BY <2>1, <3>1, BatchIsRead
  <2>2. CASE setup.rm_width # 0
    BY <2>2, OtherRowsAreRead
  <2> QED BY <2>1, <2>2
<1>2. PICK w, a, e : Readable(RmData, R, w, a, e)
  BY <1>1
<1>3. PICK b : b = RmData
  OBVIOUS
<1>4. Readable(b, R, w, a, e)
  BY <1>2, <1>3
<1>5. LastValid(b, i) = e[i] /\ LastCounted(b, i) = e[i]
  BY <1>4, LastIs DEF Readable
<1>6. Forward(b)[i][e[i]] = RowState(b, setup.heads, i, a[i], e[i])
  BY <1>4, ForwardIs DEF Readable
<1>7. RowState(b, setup.heads, i, a[i], e[i]) = Judged(i)
  BY <1>4 DEF Readable
<1> QED BY <1>3, <1>5, <1>6, <1>7

\* The scores stand at the last tokens.
LEMMA ScoresAre ==
  ASSUME NEW R, RowsStand(R), NEW scores, NEW i \in 1..R, NEW j \in 1..ResponseWidth
  PROVE  ExpandToTokenLevel(scores)[i][j] = IF j = Size(i) THEN scores[i] ELSE Zero
<1> DEFINE cell(r, k) == IF k = LastValid(batch, r) THEN scores[r] ELSE Zero
           x == [r \in 1..R |-> [k \in 1..RowWidth |-> cell(r, k)]]
<1>1. PromptWidth \in Nat \ {0} /\ ResponseWidth \in Nat \ {0} /\ RowWidth = PromptWidth + ResponseWidth
  BY SetupsValid DEF RowWidth
<1>2. R \in Nat \ {0} /\ Rows = 1..R
  <2>1. IsRow(batch.input_ids, R) /\ R \in Nat \ {0}
    BY DEF RowsStand
  <2> QED BY <2>1, RowIs DEF Rows
<1>3. ExpandToTokenLevel(scores) = Responses(x)
  BY <1>2 DEF ExpandToTokenLevel
<1>4. LastValid(batch, i) = PromptWidth + Size(i) /\ Size(i) \in 1..ResponseWidth
  <2>1. LastValid(batch, i) = Ends(R)[i]
    <3>1. IsBatch(batch, R, RowWidth, Starts(R), Ends(R)) /\ IsMask(batch, R, RowWidth) /\ HasPositions(batch, R, RowWidth)
      BY BatchIs, BatchIsRead
    <3> QED BY <3>1, LastIs
  <2>2. RowIsOf(batch.input_ids[i], batch.attention_mask[i], batch.position_ids[i],
                  said[i].prompt, Len(said[i].prompt), said[i].answer, Len(said[i].answer))
    BY DEF RowsStand
  <2> QED BY <2>1, <2>2 DEF Ends, Size, RowIsOf, AnswerFits
<1> HIDE DEF cell
<1>5. IsMatrix(x, R, RowWidth)
  BY <1>1, <1>2 DEF IsMatrix, IsRow
<1>6. PromptWidth + j \in 1..RowWidth /\ (j = Size(i) <=> PromptWidth + j = PromptWidth + Size(i))
  BY <1>1, <1>4
<1>7. x[i][PromptWidth + j] = cell(i, PromptWidth + j)
  BY <1>6
<1> HIDE DEF x
<1>8. Responses(x)[i][j] = x[i][PromptWidth + j]
  BY <1>5, ShiftedIs
<1> QED BY <1>3, <1>4, <1>6, <1>7, <1>8 DEF cell

-----------------------------------------------------------------------------
(* The steps of the program. *)

\* The prompts that are kept: there are some, and each fits.
DocsFit == \E K \in Nat \ {0} : IsRow(docs, K) /\ \A d \in 1..K : docs[d] \in 1..PromptWidth

Columns == {"input_ids", "attention_mask", "position_ids", "raw_prompt", "uid"}

BatchInv ==
  /\ setup \in Setups
  /\ phase = "read" => docs \in [1..Docs -> 1..MaxPrompt]
  /\ phase \in {"prompts", "rollout"} => DocsFit
  /\ phase = "rollout" => batch = Collate([d \in DOMAIN docs |-> GetItem(d)])
  /\ phase \in {"log_probs", "values", "scores"} => \E R : RowsStand(R)
  /\ phase = "log_probs" => DOMAIN batch = Columns
  /\ phase = "values" => DOMAIN batch = Columns \cup {"old_log_probs"}
  /\ phase = "scores" => DOMAIN batch = Columns \cup {"old_log_probs", "values"}
  /\ LogProbsMatch /\ ScoreAtLastToken

\* The files before the first step are as the invariant says.
LEMMA BatchInitHolds == BatchInit => BatchInv
BY DEF BatchInit, BatchInv, LogProbsMatch, ScoreAtLastToken

\* Dropping the long prompts leaves prompts that fit, or the trainer gives up.
LEMMA ReadFilesKeeps == BatchInv /\ ReadFiles => BatchInv'
<1> SUFFICES ASSUME BatchInv, ReadFiles PROVE BatchInv'
  OBVIOUS
<1> DEFINE N == Len(docs)
           fits == {d \in DOMAIN docs : docs[d] <= PromptWidth}
           kept == InOrder(fits, N)
           K == Len(kept)
<1>1. /\ phase = "read" /\ docs' = [d \in DOMAIN kept |-> docs[kept[d]]]
      /\ phase' = IF docs' = <<>> THEN "error" ELSE "prompts"
      /\ UNCHANGED setup
  BY DEF ReadFiles
<1>2. docs \in [1..Docs -> 1..MaxPrompt] /\ Docs \in Nat /\ MaxPrompt \in Nat /\ setup \in Setups
  BY <1>1, SetupsValid DEF BatchInv
<1>3. N = Docs /\ DOMAIN docs = 1..Docs
  <2>1. docs = [d \in 1..Docs |-> docs[d]]
    BY <1>2
  <2>2. IsRow(docs, Docs)
    BY <1>2, <2>1 DEF IsRow
  <2> QED BY <2>2, RowIs
<1>4. Enumerates(kept, fits, N)
  <2>1. fits \subseteq 1..N /\ N \in Nat
    BY <1>2, <1>3
  <2> HIDE DEF fits, N
  <2> QED BY <2>1, InOrderIs
<1> HIDE DEF kept
<1>5. kept \in Seq(Nat) /\ K \in Nat /\ DOMAIN kept = 1..K /\ \A j \in 1..K : kept[j] \in fits
  BY <1>4 DEF Enumerates
<1>6. IsRow(docs', K) /\ \A d \in 1..K : docs'[d] \in 1..PromptWidth
  <2>1. \A d \in 1..K : kept[d] \in 1..Docs /\ docs[kept[d]] <= PromptWidth
    BY <1>3, <1>5
  <2>2. \A d \in 1..K : docs[kept[d]] \in 1..PromptWidth
    <3>1. PromptWidth \in Nat
      BY SetupsValid
    <3> QED BY <1>2, <2>1, <3>1
  <2> HIDE DEF K
  <2> QED BY <1>1, <1>5, <2>2 DEF IsRow
<1>7. phase' = "prompts" => K # 0
  <2> SUFFICES ASSUME K = 0 PROVE docs' = <<>>
    BY <1>1
  <2>1. DOMAIN docs' = 1..0 /\ docs' = [d \in DOMAIN docs' |-> docs'[d]]
    BY <1>1, <1>5
  <2> QED BY <2>1
<1>8. DocsFit' \/ phase' = "error"
  BY <1>1, <1>5, <1>6, <1>7 DEF DocsFit
<1>9. phase' \in {"error", "prompts"}
  BY <1>1
<1> QED BY <1>1, <1>2, <1>8, <1>9 DEF BatchInv, LogProbsMatch, ScoreAtLastToken

\* The columns of the batch are the stacked rows of the prompts.
LEMMA GetBatchKeeps == BatchInv /\ GetBatch => BatchInv'
<1> SUFFICES ASSUME BatchInv, GetBatch PROVE BatchInv'
  OBVIOUS
<1>1. /\ phase = "prompts" /\ phase' = "rollout" /\ UNCHANGED <<setup, docs, said, loss>>
      /\ batch' = Collate([d \in DOMAIN docs |-> GetItem(d)])
  BY DEF GetBatch
<1>2. setup \in Setups /\ DocsFit
  BY <1>1 DEF BatchInv
<1>3. DocsFit'
  BY <1>1, <1>2 DEF DocsFit
<1>4. batch' = Collate([d \in DOMAIN docs' |-> GetItem(d)'])
  BY <1>1 DEF GetItem, Tokenized, Pad, With, EOS
<1> QED BY <1>1, <1>2, <1>3, <1>4 DEF BatchInv, LogProbsMatch, ScoreAtLastToken

\* The columns of the prompts.
LEMMA CollatedIs ==
  ASSUME NEW K \in Nat \ {0}, IsRow(docs, K), \A d \in 1..K : docs[d] \in 1..PromptWidth,
         NEW b, b = Collate([d \in DOMAIN docs |-> GetItem(d)])
  PROVE  /\ Len(b.input_ids) = K /\ Len(b.attention_mask) = K /\ Len(b.position_ids) = K /\ Len(b.raw_prompt) = K
         /\ \A d \in 1..K : /\ b.input_ids[d] = Tokenized(PromptOf(d, docs[d]), PromptWidth, TRUE).input_ids
                            /\ b.attention_mask[d] = Tokenized(PromptOf(d, docs[d]), PromptWidth, TRUE).attention_mask
                            /\ b.position_ids[d] = Tokenized(PromptOf(d, docs[d]), PromptWidth, TRUE).position_ids
                            /\ b.raw_prompt[d] = PromptOf(d, docs[d])
<1> DEFINE row(d) == Tokenized(PromptOf(d, docs[d]), PromptWidth, TRUE)
           rows == [d \in 1..K |-> GetItem(d)]
           F == {"input_ids", "attention_mask", "position_ids", "raw_prompt"}
<1>1. DOMAIN docs = 1..K /\ 1 \in 1..K
  <2>1. DOMAIN docs = 1..K
    BY RowIs
  <2> QED BY <2>1
<1>2. ASSUME NEW d
      PROVE  /\ DOMAIN GetItem(d) = F /\ GetItem(d).raw_prompt = PromptOf(d, docs[d])
             /\ GetItem(d).input_ids = row(d).input_ids /\ GetItem(d).attention_mask = row(d).attention_mask
             /\ GetItem(d).position_ids = row(d).position_ids
  <2>1. DOMAIN row(d) = {"input_ids", "attention_mask", "position_ids"}
    BY DEF Tokenized
  <2> HIDE DEF row
  <2>2. GetItem(d) = With(row(d), [raw_prompt |-> PromptOf(d, docs[d])])
    BY DEF GetItem, row
  <2> QED BY <2>1, <2>2 DEF With
<1> HIDE DEF row
<1>3. DOMAIN rows = 1..K /\ \A d \in 1..K : rows[d] = GetItem(d)
  OBVIOUS
<1>4. b = Collate(rows)
  BY <1>1
<1> HIDE DEF rows
<1>5. DOMAIN rows[1] = F
  BY <1>1, <1>2, <1>3
<1> HIDE DEF F
<1>6. ASSUME NEW f \in F PROVE Len(b[f]) = K /\ \A d \in 1..K : b[f][d] = GetItem(d)[f]
  <2>1. IsRow(b[f], K) /\ \A d \in 1..K : b[f][d] = rows[d][f]
    <3>1. IsRow(Collate(rows)[f], K) /\ \A d \in 1..K : Collate(rows)[f][d] = rows[d][f]
      BY <1>3, <1>5, StackIs
    <3> QED BY <1>4, <3>1
  <2> QED BY <1>3, <2>1, RowIs
<1>7. "input_ids" \in F /\ "attention_mask" \in F /\ "position_ids" \in F /\ "raw_prompt" \in F
  BY DEF F
<1> QED BY <1>2, <1>6, <1>7 DEF row

\* Every row of the extended batch is a prompt and one of its answers.
LEMMA GenerateKeeps == BatchInv /\ Generate => BatchInv'
<1> SUFFICES ASSUME BatchInv, Generate PROVE BatchInv'
  OBVIOUS
<1> DEFINE n == setup.n
           asked == [d \in DOMAIN docs |-> PreProcess(batch.input_ids[d])]
           Prompt(i) == asked[((i - 1) \div n) + 1]
           D(i) == RowOf(n, i)
<1>1. phase = "rollout" /\ phase' = "log_probs" /\ UNCHANGED <<setup, docs, loss>>
  BY DEF Generate
<1>2. PICK choice \in [1..(n * Len(docs)) -> Answers] :
        LET answers == [i \in DOMAIN choice |-> AnswerTokens(Prompt(i), ((i - 1) % n) + 1, choice[i])]
        IN /\ said' = [i \in DOMAIN choice |-> [prompt |-> Prompt(i), answer |-> answers[i]]]
           /\ batch' = Extended(batch, answers)
  BY DEF Generate
<1>3. setup \in Setups /\ DocsFit /\ batch = Collate([d \in DOMAIN docs |-> GetItem(d)])
  BY <1>1 DEF BatchInv
<1>4. n \in Nat \ {0}
  BY <1>3, SetupsValid DEF Setup
<1>5. PICK K \in Nat \ {0} : IsRow(docs, K) /\ \A d \in 1..K : docs[d] \in 1..PromptWidth
  BY <1>3 DEF DocsFit
<1>6. Len(docs) = K /\ DOMAIN docs = 1..K
  BY <1>5, RowIs
<1> DEFINE R == n * K
           row(d) == Tokenized(PromptOf(d, docs[d]), PromptWidth, TRUE)
           answer(i) == AnswerTokens(Prompt(i), ((i - 1) % n) + 1, choice[i])
           answers == [i \in DOMAIN choice |-> answer(i)]
<1>7. /\ Len(batch.input_ids) = K /\ Len(batch.attention_mask) = K /\ Len(batch.position_ids) = K
      /\ Len(batch.raw_prompt) = K
      /\ \A d \in 1..K : /\ batch.input_ids[d] = row(d).input_ids
                         /\ batch.attention_mask[d] = row(d).attention_mask
                         /\ batch.position_ids[d] = row(d).position_ids
                         /\ batch.raw_prompt[d] = PromptOf(d, docs[d])
  BY <1>3, <1>5, CollatedIs
<1>8. ASSUME NEW d \in 1..K PROVE PromptStands(row(d), PromptOf(d, docs[d]), docs[d])
  <2>1. d \in Nat \ {0} /\ docs[d] \in 1..PromptWidth
    BY <1>5
  <2> QED BY <2>1, PromptRow
<1> HIDE DEF row
<1>9. \A d \in 1..K : asked[d] = PromptOf(d, docs[d])
  BY <1>6, <1>7, <1>8, PreProcessed
<1> HIDE DEF asked
<1>10. R \in Nat \ {0} /\ R = K * n
  <2>1. R \in Nat /\ R = K * n
    BY <1>4
  <2>2. n * 0 + n <= n * K
    BY <1>4, ProductGrows
  <2> HIDE DEF n
  <2> QED BY <1>4, <2>1, <2>2
<1>11. \A i \in 1..R : D(i) \in 1..K /\ ((i - 1) % n) + 1 \in Nat \ {0}
  <2> SUFFICES ASSUME NEW i \in 1..R PROVE D(i) \in 1..K /\ ((i - 1) % n) + 1 \in Nat \ {0}
    OBVIOUS
  <2>1. i \in 1..(K * n) /\ K \in Nat /\ i \in Nat
    BY <1>10
  <2>2. D(i) \in 1..K
    <3> HIDE DEF n
    <3>1. RowOf(n, i) \in 1..K /\ ColumnOf(n, i) \in 1..n /\ i = Cell(n, RowOf(n, i), ColumnOf(n, i))
      BY <1>4, <2>1, IsCell, Zenon
    <3> QED BY <3>1
  <2>3. (i - 1) % n \in Nat
    <3> HIDE DEF n
    <3> QED BY <1>4, <2>1
  <2> QED BY <2>2, <2>3
<1>12. DOMAIN choice = 1..R /\ \A i \in 1..R : choice[i] \in Answers
  BY <1>2, <1>6
<1>13. \A i \in 1..R : Prompt(i) = PromptOf(D(i), docs[D(i)])
  BY <1>9, <1>11 DEF RowOf
<1> HIDE DEF n, R, D, Prompt
<1>14. ASSUME NEW i \in 1..R PROVE AnswerFits(answer(i), choice[i].len)
  <2>1. Prompt(i)[1] = <<D(i), 0, 1>>
    <3>1. 1 \in 1..docs[D(i)]
      BY <1>5, <1>11
    <3> QED BY <1>13, <3>1 DEF PromptOf
  <2>2. D(i) \in Nat \ {0} /\ ((i - 1) % n) + 1 \in Nat \ {0} /\ choice[i] \in Answers
    BY <1>11, <1>12
  <2> QED BY <2>1, <2>2, AnswersFit
<1> HIDE DEF answer
<1>15. /\ said' = [i \in 1..R |-> [prompt |-> Prompt(i), answer |-> answers[i]]]
       /\ batch' = Extended(batch, answers) /\ DOMAIN answers = 1..R /\ \A i \in 1..R : answers[i] = answer(i)
  <2>1. said' = [i \in DOMAIN choice |-> [prompt |-> Prompt(i), answer |-> answers[i]]] /\ batch' = Extended(batch, answers)
    BY <1>2 DEF answer, Prompt, n
  <2> QED BY <1>12, <2>1
<1> HIDE DEF answers
<1> DEFINE padded(i) == PadRight(answers[i], ResponseWidth, Pad)
           ids(i) == batch.input_ids[D(i)] \o padded(i)
           mask(i) == batch.attention_mask[D(i)] \o EosMask(padded(i))
           pos(i) == batch.position_ids[D(i)] \o [k \in 1..ResponseWidth |-> Last(batch.position_ids[D(i)]) + k]
<1>16. /\ DOMAIN batch' = Columns
       /\ batch'.input_ids = [i \in 1..R |-> ids(i)]
       /\ batch'.attention_mask = [i \in 1..R |-> mask(i)]
       /\ batch'.position_ids = [i \in 1..R |-> pos(i)]
       /\ batch'.raw_prompt = [i \in 1..R |-> batch.raw_prompt[D(i)]]
  <2> DEFINE x == Interleaved(batch.input_ids, n)
             y == Interleaved(batch.attention_mask, n)
             z == Interleaved(batch.position_ids, n)
             texts == Interleaved(batch.raw_prompt, n)
             p == [i \in DOMAIN answers |-> PadRight(answers[i], ResponseWidth, Pad)]
  <2>1. /\ DOMAIN x = 1..R /\ \A i \in 1..R : x[i] = batch.input_ids[D(i)]
        /\ DOMAIN y = 1..R /\ \A i \in 1..R : y[i] = batch.attention_mask[D(i)]
        /\ DOMAIN z = 1..R /\ \A i \in 1..R : z[i] = batch.position_ids[D(i)]
        /\ texts = [i \in 1..R |-> batch.raw_prompt[D(i)]]
    BY <1>7 DEF Interleaved, R, D, RowOf
  <2>2. \A i \in 1..R : p[i] = padded(i)
    BY <1>15
  <2>3. /\ DOMAIN batch' = Columns
        /\ batch'.input_ids = [i \in DOMAIN x |-> x[i] \o p[i]]
        /\ batch'.attention_mask = [i \in DOMAIN x |-> y[i] \o EosMask(p[i])]
        /\ batch'.position_ids = [i \in DOMAIN x |-> z[i] \o [k \in 1..ResponseWidth |-> Last(z[i]) + k]]
        /\ batch'.raw_prompt = texts
    BY <1>15 DEF Extended, Columns, n
  <2>4. batch'.raw_prompt = [i \in 1..R |-> batch.raw_prompt[D(i)]]
    BY <2>1, <2>3
  <2> HIDE DEF x, y, z, texts, p, padded
  <2>5. batch'.input_ids = [i \in 1..R |-> ids(i)]
    BY <2>1, <2>2, <2>3
  <2>6. batch'.attention_mask = [i \in 1..R |-> mask(i)]
    BY <2>1, <2>2, <2>3
  <2>7. batch'.position_ids = [i \in 1..R |-> pos(i)]
    BY <2>1, <2>2, <2>3
  <2> QED BY <2>3, <2>4, <2>5, <2>6, <2>7
<1>17. ASSUME NEW i \in 1..R
       PROVE  /\ said'[i].prompt = Prompt(i) /\ Len(Prompt(i)) = docs[D(i)]
              /\ said'[i].answer = answers[i] /\ Len(answers[i]) = choice[i].len
              /\ RowIsOf(ids(i), mask(i), pos(i), Prompt(i), docs[D(i)], answers[i], choice[i].len)
  <2>1. said'[i].prompt = Prompt(i) /\ said'[i].answer = answers[i]
    BY <1>15
  <2>2. PromptStands(row(D(i)), Prompt(i), docs[D(i)])
    BY <1>8, <1>11, <1>13
  <2>3. AnswerFits(answers[i], choice[i].len)
    BY <1>14, <1>15
  <2>4. Len(Prompt(i)) = docs[D(i)] /\ Len(answers[i]) = choice[i].len
    <3>1. IsRow(Prompt(i), docs[D(i)]) /\ IsRow(answers[i], choice[i].len)
      BY <2>2, <2>3 DEF PromptStands, AnswerFits
    <3> QED BY <3>1, RowIs
  <2>5. RowIsOf(row(D(i)).input_ids \o padded(i), row(D(i)).attention_mask \o EosMask(padded(i)),
                  row(D(i)).position_ids \o [k \in 1..ResponseWidth |-> Last(row(D(i)).position_ids) + k],
                  Prompt(i), docs[D(i)], answers[i], choice[i].len)
    BY <2>2, <2>3, RowIsLaid
  <2>6. RowIsOf(ids(i), mask(i), pos(i), Prompt(i), docs[D(i)], answers[i], choice[i].len)
    BY <1>7, <1>11, <2>5
  <2> QED BY <2>1, <2>4, <2>6
<1>18. \E r : RowsStand(r)'
  <2> HIDE DEF ids, mask, pos
  <2>1. IsRow(batch'.input_ids, R) /\ IsRow(batch'.attention_mask, R)
    BY <1>10, <1>16 DEF IsRow
  <2>2. DOMAIN said' = 1..R
    BY <1>15
  <2>3. ASSUME NEW i \in 1..R
        PROVE  /\ RowIsOf(batch'.input_ids[i], batch'.attention_mask[i], batch'.position_ids[i],
                            said'[i].prompt, Len(said'[i].prompt), said'[i].answer, Len(said'[i].answer))
               /\ batch'.raw_prompt[i] = said'[i].prompt
    <3>1. batch'.input_ids[i] = ids(i) /\ batch'.attention_mask[i] = mask(i) /\ batch'.position_ids[i] = pos(i)
      BY <1>16
    <3>2. batch'.raw_prompt[i] = Prompt(i)
      BY <1>7, <1>11, <1>13, <1>16
    <3> QED BY <1>17, <3>1, <3>2
  <2>4. PICK r : r = R
    OBVIOUS
  <2>5. RowsStand(r)'
    BY <1>10, <2>1, <2>2, <2>3, <2>4 DEF RowsStand
  <2> QED BY <2>5
<1> QED BY <1>1, <1>3, <1>16, <1>18 DEF BatchInv, LogProbsMatch, ScoreAtLastToken, Columns

\* A batch with more columns has the columns it had, and the rows with them.
LEMMA WithKeeps ==
  ASSUME NEW b, NEW more, Columns \subseteq DOMAIN b
  PROVE  LET c == With(b, more)
         IN /\ c.input_ids = b.input_ids /\ c.attention_mask = b.attention_mask
            /\ c.position_ids = b.position_ids /\ c.raw_prompt = b.raw_prompt
BY DEF With, Columns

\* So the rows of the batch stand as they did.
LEMMA RowsRemain ==
  ASSUME NEW R, RowsStand(R), NEW more, batch' = With(batch, more), Columns \subseteq DOMAIN batch, UNCHANGED said
  PROVE  RowsStand(R)' /\ Rows' = Rows /\ Rows = 1..R
<1>1. /\ batch'.input_ids = batch.input_ids /\ batch'.attention_mask = batch.attention_mask
      /\ batch'.position_ids = batch.position_ids /\ batch'.raw_prompt = batch.raw_prompt
  <2>1. PICK b : b = batch
    OBVIOUS
  <2>2. batch' = With(b, more) /\ Columns \subseteq DOMAIN b
    BY <2>1
  <2> QED BY <2>1, <2>2, WithKeeps
<1>2. RowsStand(R)'
  BY <1>1 DEF RowsStand
<1>3. DOMAIN batch.input_ids = 1..R
  <2>1. IsRow(batch.input_ids, R)
    BY DEF RowsStand
  <2> QED BY <2>1, RowIs
<1> QED BY <1>1, <1>2, <1>3 DEF Rows

\* What should come of a row does not depend on the columns.
LEMMA DuesRemain ==
  ASSUME UNCHANGED <<setup, said>>, NEW i, NEW j
  PROVE  Size(i)' = Size(i) /\ Before(i, j)' = Before(i, j) /\ Judged(i)' = Judged(i)
BY DEF Size, Before, Judged, SeenIn, RowText, WithoutEos, EOS, End, Picked

\* The log-probabilities come out of the forward pass of the backend, and the rows stand as they did.
LEMMA ComputeLogProbKeeps == BatchInv /\ ComputeLogProb => BatchInv'
<1> SUFFICES ASSUME BatchInv, ComputeLogProb PROVE BatchInv'
  OBVIOUS
<1>1. /\ phase = "log_probs" /\ phase' = "values" /\ UNCHANGED <<setup, docs, said, loss>>
      /\ batch' = With(batch, [old_log_probs |-> LogProbs])
  BY DEF ComputeLogProb
<1>2. setup \in Setups /\ DOMAIN batch = Columns /\ \E R : RowsStand(R)
  BY <1>1 DEF BatchInv
<1>3. PICK R : RowsStand(R)
  BY <1>2
<1>4. PICK x : x = LogProbs
  OBVIOUS
<1>5. batch' = With(batch, [old_log_probs |-> x])
  BY <1>1, <1>4
<1>6. DOMAIN batch' = Columns \cup {"old_log_probs"} /\ batch'.old_log_probs = x
  BY <1>2, <1>5 DEF With, Columns
<1>7. RowsStand(R)' /\ Rows' = 1..R
  <2>1. PICK more : more = [old_log_probs |-> x]
    OBVIOUS
  <2>2. batch' = With(batch, more)
    BY <1>5, <2>1
  <2> QED BY <1>1, <1>2, <1>3, <2>2, RowsRemain
<1>8. DOMAIN said' = 1..R
  BY <1>7 DEF RowsStand
<1>9. ASSUME NEW i \in 1..R, NEW j \in 1..Size(i)
      PROVE  batch'.old_log_probs[i][j] = <<said'[i].answer[j], Before(i, j)'>>
  <2>1. LogProbs[i][j] = <<said[i].answer[j], Before(i, j)>>
    BY <1>2, <1>3, <1>9, LogProbsAre
  <2>2. Before(i, j)' = Before(i, j)
    BY <1>1, DuesRemain
  <2> QED BY <1>1, <1>4, <1>6, <2>1, <2>2
<1>10. LogProbsMatch'
  <2>1. \A i : Size(i)' = Size(i)
    BY <1>1, DuesRemain
  <2> QED BY <1>7, <1>8, <1>9, <2>1 DEF LogProbsMatch
<1> QED BY <1>1, <1>2, <1>6, <1>7, <1>10 DEF BatchInv, ScoreAtLastToken

\* The critic adds a column.
LEMMA ComputeValuesKeeps == BatchInv /\ ComputeValues => BatchInv'
<1> SUFFICES ASSUME BatchInv, ComputeValues PROVE BatchInv'
  OBVIOUS
<1>1. /\ phase = "values" /\ phase' = "scores" /\ UNCHANGED <<setup, docs, said, loss>>
      /\ \E x : batch' = With(batch, [values |-> x])
  BY DEF ComputeValues
<1>2. setup \in Setups /\ DOMAIN batch = Columns \cup {"old_log_probs"} /\ \E R : RowsStand(R)
  BY <1>1 DEF BatchInv
<1>3. PICK R : RowsStand(R)
  BY <1>2
<1>4. PICK x : batch' = With(batch, [values |-> x])
  BY <1>1
<1>5. DOMAIN batch' = Columns \cup {"old_log_probs", "values"}
  BY <1>2, <1>4 DEF With
<1>6. RowsStand(R)'
  <2>1. PICK more : more = [values |-> x]
    OBVIOUS
  <2>2. batch' = With(batch, more)
    BY <1>4, <2>1
  <2> QED BY <1>1, <1>2, <1>3, <2>2, RowsRemain
<1> QED BY <1>1, <1>2, <1>5, <1>6 DEF BatchInv, LogProbsMatch, ScoreAtLastToken

\* The scores come out of what the reward model reads of the rows.
LEMMA ScoresComeOut == BatchInv /\ ComputeScore /\ HasRmData => BatchInv'
<1> SUFFICES ASSUME BatchInv, ComputeScore, HasRmData PROVE BatchInv'
  OBVIOUS
<1> DEFINE judged == [i \in Rows |-> Forward(RmData)[i][IF setup.backend = "megatron" THEN LastCounted(RmData, i)
                                                      ELSE LastValid(RmData, i)]]
<1>1. /\ phase = "scores" /\ phase' = "advantages" /\ UNCHANGED <<setup, docs, said, loss>>
      /\ batch' = With(batch, [scores |-> ExpandToTokenLevel(judged)])
  BY DEF ComputeScore
<1>2. setup \in Setups /\ DOMAIN batch = Columns \cup {"old_log_probs", "values"} /\ \E R : RowsStand(R)
  BY <1>1 DEF BatchInv
<1>3. PICK R : RowsStand(R)
  BY <1>2
<1>4. PICK x : x = ExpandToTokenLevel(judged)
  OBVIOUS
<1>5. batch' = With(batch, [scores |-> x])
  BY <1>1, <1>4
<1>6. batch'.scores = x
  BY <1>2, <1>5 DEF With, Columns
<1>7. Rows' = 1..R /\ Rows = 1..R
  <2>1. PICK more : more = [scores |-> x]
    OBVIOUS
  <2>2. batch' = With(batch, more)
    BY <1>5, <2>1
  <2> QED BY <1>1, <1>2, <1>3, <2>2, RowsRemain
<1>8. ASSUME NEW i \in 1..R, NEW j \in 1..ResponseWidth
      PROVE  x[i][j] = IF j = Size(i) THEN Judged(i) ELSE Zero
  <2>1. judged[i] = Judged(i)
    BY <1>2, <1>3, <1>7, ResultsAreJudged
  <2> HIDE DEF judged
  <2>2. x[i][j] = IF j = Size(i) THEN judged[i] ELSE Zero
    <3>1. PICK scores : scores = judged
      OBVIOUS
    <3>2. ExpandToTokenLevel(scores)[i][j] = IF j = Size(i) THEN scores[i] ELSE Zero
      BY <1>3, ScoresAre
    <3> QED BY <1>4, <3>1, <3>2
  <2> QED BY <2>1, <2>2
<1>9. ScoreAtLastToken'
  <2>1. \A i : Size(i)' = Size(i) /\ Judged(i)' = Judged(i)
    BY <1>1, DuesRemain
  <2> QED BY <1>6, <1>7, <1>8, <2>1 DEF ScoreAtLastToken
<1> QED BY <1>1, <1>2, <1>9 DEF BatchInv, LogProbsMatch

\* Without anything to read the program fails, and nothing is promised of the batch.
LEMMA ComputeScoreKeeps == BatchInv /\ ComputeScore => BatchInv'
<1> SUFFICES ASSUME BatchInv, ComputeScore, ~ HasRmData PROVE BatchInv'
  BY ScoresComeOut
<1>1. phase' = "error" /\ setup' = setup
  BY DEF ComputeScore
<1> QED BY <1>1 DEF BatchInv, LogProbsMatch, ScoreAtLastToken

\* The later steps leave the phases that the invariant speaks of.
LEMMA OthersLeave == BatchInv /\ (ComputeAdvantage \/ Update) => BatchInv'
<1> SUFFICES ASSUME BatchInv, ComputeAdvantage \/ Update PROVE BatchInv'
  OBVIOUS
<1>1. setup' = setup /\ phase' \in {"losses", "done", "error"}
  BY DEF ComputeAdvantage, Update
<1> QED BY <1>1 DEF BatchInv, LogProbsMatch, ScoreAtLastToken

\* No step of the program leaves the invariant.
LEMMA BatchNextKeeps == BatchInv /\ [BatchNext]_batchVars => BatchInv'
<1> SUFFICES ASSUME BatchInv, [BatchNext]_batchVars PROVE BatchInv'
  OBVIOUS
<1>1. CASE BatchNext
  BY <1>1, ReadFilesKeeps, GetBatchKeeps, GenerateKeeps, ComputeLogProbKeeps, ComputeValuesKeeps, ComputeScoreKeeps,
     OthersLeave DEF BatchNext
<1>2. CASE UNCHANGED batchVars
  <2>1. UNCHANGED <<setup, phase, docs, said, batch, loss>>
    BY <1>2 DEF batchVars
  <2>2. DocsFit' = DocsFit /\ \A R : RowsStand(R)' = RowsStand(R)
    BY <2>1 DEF DocsFit, RowsStand
  <2>3. Collate([d \in DOMAIN docs |-> GetItem(d)])' = Collate([d \in DOMAIN docs |-> GetItem(d)])
    BY <2>1 DEF GetItem, Tokenized, Pad, With, EOS, Collate
  <2>4. /\ \A i : Size(i)' = Size(i) /\ Judged(i)' = Judged(i) /\ \A j : Before(i, j)' = Before(i, j)
        /\ Rows' = Rows
    BY <2>1, DuesRemain DEF Rows
  <2>5. LogProbsMatch'
    BY <2>1, <2>4 DEF BatchInv, LogProbsMatch
  <2>6. ScoreAtLastToken'
    BY <2>1, <2>4 DEF BatchInv, ScoreAtLastToken
  <2> QED BY <2>1, <2>2, <2>3, <2>5, <2>6 DEF BatchInv
<1> QED BY <1>1, <1>2

\* The log-probability of every valid token of a response is that of the token in the context of all
\* the tokens before it in its row and of no other, whatever the backend: the padding that the data
\* set and the rollout put, its removal, the rolled labels (or the responses put beside the states),
\* the slices for the ranks and the exchange of places and heads are undone.  For every width, set of prompts and answers, and every setup.
THEOREM LogProbsAreOfTheirTokens == BatchSpec => []LogProbsMatch
<1>1. BatchInv => LogProbsMatch
  BY DEF BatchInv
<1> QED BY <1>1, BatchInitHolds, BatchNextKeeps, PTL DEF BatchSpec

\* Whenever scores come out, the reward model's score of a row stands at the last valid token of its
\* response and nothing stands elsewhere, also when the reward model reads other tokens, cut at its own
\* length: for every width, set of prompts and answers, and every setup, of which those on the FSDP side
\* without a tokenizer for the reward model end before there is a score.
THEOREM ScoresAreAtLastTokens == BatchSpec => []ScoreAtLastToken
<1>1. BatchInv => ScoreAtLastToken
  BY DEF BatchInv
<1> QED BY <1>1, BatchInitHolds, BatchNextKeeps, PTL DEF BatchSpec
=============================================================================
