--------------------------- MODULE SequenceLemmas ----------------------------
(***************************************************************************)
(* Facts about numbers and about sequences that are put together of pieces,  *)
(* which the proofs about several components use.  Induction over numbers is  *)
(* done with a set in place of the predicate.                                 *)
(***************************************************************************)
EXTENDS Integers, Sequences, SequencesExt, SequenceTheorems, WellFoundedInduction, TLAPS

(* Numbers. *)

\* A set of numbers with 0 and the number after each of its own is all of them.
LEMMA AllNumbers ==
  ASSUME NEW S, S \subseteq Nat, 0 \in S, \A n \in S : n + 1 \in S
  PROVE  S = Nat
<1> DEFINE R == OpToRel(<, Nat)
           T == Nat \ S
<1>1. SUFFICES ASSUME T # {} PROVE FALSE
  OBVIOUS
<1>2. IsWellFoundedOn(R, Nat) /\ T \subseteq Nat
  BY NatLessThanWellFounded
<1>3. PICK x \in T : \A y \in T : ~ (<<y, x>> \in R)
  <2> HIDE DEF T, R
  <2> QED BY <1>1, <1>2, WFMin, Zenon
<1>4. x \in Nat /\ x # 0
  BY <1>3
<1>5. x - 1 \in Nat /\ x - 1 < x /\ (x - 1) + 1 = x
  BY <1>4
<1>6. <<x - 1, x>> \in R
  BY <1>4, <1>5 DEF OpToRel
<1>7. x - 1 \in S
  BY <1>3, <1>5, <1>6
<1> QED BY <1>3, <1>5, <1>7

\* The least of a set of numbers is one of them.
LEMMA MinIsLeast ==
  ASSUME NEW S, S \subseteq Nat, S # {}
  PROVE  Min(S) \in S /\ \A x \in S : Min(S) <= x
<1>1. IsWellFoundedOn(OpToRel(<, Nat), Nat)
  BY NatLessThanWellFounded
<1>2. PICK x \in S : \A y \in S : ~ (<<y, x>> \in OpToRel(<, Nat))
  BY <1>1, WFMin, Zenon
<1>3. \A y \in S : x <= y
  <2>1. SUFFICES ASSUME NEW y \in S, ~ (x <= y) PROVE FALSE
    OBVIOUS
  <2>2. x \in Nat /\ y \in Nat /\ y < x
    BY <2>1
  <2>3. <<y, x>> \in OpToRel(<, Nat)
    BY <2>2 DEF OpToRel
  <2> QED BY <1>2, <2>3
<1> QED BY <1>3, Zenon DEF Min

\* A product with a number that is not zero grows with its other factor.
LEMMA ProductGrows ==
  ASSUME NEW m \in Nat \ {0}, NEW a \in Nat, NEW b \in Nat, a < b
  PROVE  m * a + m <= m * b
<1>1. PICK d \in Nat : b = a + 1 + d
  <2>1. b - a - 1 \in Nat /\ b = a + 1 + (b - a - 1)
    OBVIOUS
  <2> QED BY <2>1
<1>2. m * b = m * a + m + m * d
  BY <1>1
<1>3. m * d \in Nat
  OBVIOUS
<1>4. m * a \in Nat
  OBVIOUS
<1> QED BY <1>2, <1>3, <1>4

\* Quotient and remainder are the only ones of their kind.
LEMMA DivisionIsUnique ==
  ASSUME NEW m \in Nat \ {0}, NEW q \in Nat, NEW r \in 0..(m - 1)
  PROVE  (m * q + r) \div m = q /\ (m * q + r) % m = r
<1> DEFINE a == m * q + r
           p == a \div m
           s == a % m
<1>1. m * q \in Nat /\ a \in Nat
  OBVIOUS
<1> HIDE DEF a
<1>2. p \in Nat /\ s \in 0..(m - 1) /\ a = m * p + s
  BY <1>1
<1> HIDE DEF p, s
<1>3. m * p \in Nat /\ m * p + s = m * q + r
  BY <1>2 DEF a
<1>4. p = q
  <2>1. CASE p < q
    <3>1. m * p + m <= m * q
      BY <1>2, <2>1, ProductGrows
    <3> QED BY <1>1, <1>2, <1>3, <3>1
  <2>2. CASE q < p
    <3>1. m * q + m <= m * p
      BY <1>2, <2>2, ProductGrows
    <3> QED BY <1>1, <1>2, <1>3, <3>1
  <2> QED BY <1>2, <2>1, <2>2
<1>5. s = r
  BY <1>1, <1>2, <1>3, <1>4
<1> QED BY <1>4, <1>5 DEF p, s, a

\* A number is its quotient times the divisor and the remainder.
LEMMA Division ==
  ASSUME NEW m \in Nat \ {0}, NEW a \in Nat
  PROVE  a \div m \in Nat /\ a % m \in 0..(m - 1) /\ a = m * (a \div m) + (a % m)
OBVIOUS

\* The number r is that of place t of row d of plane s, in planes of D rows of T places.
InGrid(T, D, s, d, t, r) ==
  /\ T \in Nat \ {0} /\ D \in Nat \ {0} /\ s \in Nat /\ d \in 0..(D - 1) /\ t \in 0..(T - 1)
  /\ r = (T * D) * s + T * d + t

\* The place is found by dividing the number.
LEMMA GridPlace ==
  ASSUME NEW T, NEW D, NEW s, NEW d, NEW t, NEW r, InGrid(T, D, s, d, t, r)
  PROVE  /\ r \in Nat /\ r % T = t /\ (r \div T) % D = d
         /\ r \div (T * D) = s /\ r % (T * D) = T * d + t
<1>0. /\ T \in Nat \ {0} /\ D \in Nat \ {0} /\ s \in Nat /\ d \in 0..(D - 1) /\ t \in 0..(T - 1)
      /\ r = (T * D) * s + T * d + t
  BY DEF InGrid
<1> USE <1>0
<1> DEFINE TD == T * D
           u == T * d
           v == TD * s
           a == D * s + d
<1>1. TD \in Nat \ {0} /\ u \in Nat /\ v \in Nat /\ a \in Nat
  OBVIOUS
<1>2. u + T <= TD
  BY ProductGrows
<1>3. r = v + (u + t) /\ u + t \in 0..(TD - 1)
  <2> HIDE DEF TD, u, v
  <2>1. u + t \in 0..(TD - 1)
    BY <1>1, <1>2
  <2>2. r = v + u + t
    BY DEF TD, u, v
  <2>3. v + u + t = v + (u + t)
    BY <1>1
  <2> QED BY <2>1, <2>2, <2>3
<1>4. T * a = v + u
  <2>1. T * a = T * (D * s) + T * d
    OBVIOUS
  <2>2. T * (D * s) = (T * D) * s
    OBVIOUS
  <2> QED BY <2>1, <2>2
<1>5. r = T * a + t
  <2>1. v + (u + t) = (v + u) + t
    <3> HIDE DEF u, v
    <3> QED BY <1>1
  <2> QED BY <1>3, <1>4, <2>1
<1>6. r \div TD = s /\ r % TD = u + t
  <2> HIDE DEF TD, u
  <2>1. (TD * s + (u + t)) \div TD = s /\ (TD * s + (u + t)) % TD = u + t
    BY <1>1, <1>3, DivisionIsUnique
  <2> QED BY <1>3, <2>1
<1>7. r \div T = a /\ r % T = t
  <2> HIDE DEF a
  <2> QED BY <1>1, <1>5, DivisionIsUnique
<1>8. a % D = d
  BY DivisionIsUnique
<1>9. r \in Nat
  <2> HIDE DEF TD, u, v
  <2> QED BY <1>1, <1>3
<1> QED BY <1>6, <1>7, <1>8, <1>9

\* Every number has its place.
LEMMA GridHasPlace ==
  ASSUME NEW T \in Nat \ {0}, NEW D \in Nat \ {0}, NEW r \in Nat
  PROVE  /\ r \div (T * D) \in Nat /\ (r \div T) % D \in 0..(D - 1) /\ r % T \in 0..(T - 1)
         /\ r = (T * D) * (r \div (T * D)) + T * ((r \div T) % D) + (r % T)
<1> DEFINE a == r \div T
           t == r % T
           s == a \div D
           d == a % D
<1>1. a \in Nat /\ t \in 0..(T - 1) /\ r = T * a + t
  BY Division
<1>2. s \in Nat /\ d \in 0..(D - 1) /\ a = D * s + d
  <2> HIDE DEF a
  <2> QED BY <1>1, Division
<1> HIDE DEF a, t, s, d
<1>3. r = (T * D) * s + T * d + t
  <2>1. T * a = T * (D * s) + T * d
    BY <1>2
  <2>2. T * (D * s) = (T * D) * s
    BY <1>2
  <2>3. r = T * a + t
    BY <1>1
  <2>4. r = (T * (D * s) + T * d) + t
    BY <2>1, <2>3
  <2> QED BY <2>2, <2>4
<1>4. r \div (T * D) = s
  <2>1. InGrid(T, D, s, d, t, r)
    BY <1>1, <1>2, <1>3 DEF InGrid
  <2> QED BY <2>1, GridPlace
<1> QED BY <1>1, <1>2, <1>3, <1>4 DEF d, t, a

(* Sequences. *)

\* A sequence and three positions in it.
Cut(X, s, i, j, k) ==
  /\ s \in Seq(X) /\ i \in Nat /\ j \in Nat /\ k \in Nat
  /\ i <= j /\ j <= k /\ k <= Len(s)

\* The elements behind position i up to position j.
Part(s, i, j) == SubSeq(s, i + 1, j)

\* A part of a sequence goes on with the part behind it.
LEMMA PartsJoin ==
  ASSUME NEW X, NEW s, NEW i, NEW j, NEW k, Cut(X, s, i, j, k)
  PROVE  /\ Part(s, i, j) \in Seq(X)
         /\ Part(s, i, j) \o Part(s, j, k) = Part(s, i, k)
<1> USE DEF Cut
<1> DEFINE a == SubSeq(s, i + 1, j)
           b == SubSeq(s, j + 1, k)
           c == SubSeq(s, i + 1, k)
<1>1. Len(s) \in Nat
  BY LenProperties
<1>2. /\ a \in Seq(X) /\ Len(a) = j - i /\ \A n \in 1..(j - i) : a[n] = s[i + n]
      /\ b \in Seq(X) /\ Len(b) = k - j /\ \A n \in 1..(k - j) : b[n] = s[j + n]
      /\ c \in Seq(X) /\ Len(c) = k - i /\ \A n \in 1..(k - i) : c[n] = s[i + n]
  BY <1>1, SubSeqProperties
<1> HIDE DEF a, b, c
<1>3. a \o b \in Seq(X) /\ Len(a \o b) = Len(a) + Len(b)
  BY <1>2, ConcatProperties
<1>4. ASSUME NEW n \in 1..Len(c) PROVE (a \o b)[n] = c[n]
  <2>1. CASE n <= j - i
    BY <1>2, <1>3, <2>1
  <2>2. CASE ~ (n <= j - i)
    <3>1. n - (j - i) \in 1..(k - j) /\ j + (n - (j - i)) = i + n
      BY <1>2, <2>2
    <3>2. (a \o b)[n] = b[n - (j - i)]
      <4>1. Len(a) \in Nat /\ Len(b) \in Nat /\ Len(a) = j - i
        BY <1>2
      <4>2. n \in 1..(Len(a) + Len(b)) /\ ~ (n <= Len(a))
        BY <1>2, <2>2
      <4>3. a \in Seq(X) /\ b \in Seq(X)
        BY <1>2
      <4>4. (a \o b)[n] = IF n <= Len(a) THEN a[n] ELSE b[n - Len(a)]
        BY <4>2, <4>3, ConcatProperties
      <4>5. (a \o b)[n] = b[n - Len(a)]
        BY <4>2, <4>4
      <4> QED BY <4>1, <4>5
    <3>3. b[n - (j - i)] = s[i + n]
      BY <1>2, <3>1
    <3> QED BY <1>2, <3>2, <3>3
  <2> QED BY <2>1, <2>2
<1>5. Len(a \o b) = Len(c)
  <2>1. (j - i) + (k - j) = k - i
    OBVIOUS
  <2>2. Len(a) = j - i /\ Len(b) = k - j /\ Len(c) = k - i
    BY <1>2
  <2> QED BY <1>3, <2>1, <2>2
<1>6. a \o b = c
  <2>1. \A n \in 1..Len(c) : (a \o b)[n] = c[n]
    BY <1>4
  <2> QED BY <1>2, <1>3, <1>5, <2>1, SeqEqual
<1> QED BY <1>2, <1>6 DEF Part, a, b, c

(* Sequences put together by FlattenSeq. *)

\* n pieces, each a sequence over X.
Pieces(X, p, n) == n \in Nat /\ \A i \in 1..n : p[i] \in Seq(X)

\* The first k pieces put together.
Joined(p, k) == FlattenSeq([i \in 1..k |-> p[i]])

\* What FlattenSeq has of each number of pieces.
Joins(f, p, n) == f = [i \in 1..n |-> IF i = 1 THEN p[i] ELSE f[i - 1] \o p[i]]

\* There is such a function, and FlattenSeq is its last value.
LEMMA JoinsExist ==
  ASSUME NEW p, NEW n \in Nat
  PROVE  \E f : Joins(f, p, n)
<1> DEFINE S == {k \in Nat : \E f : Joins(f, p, k)}
<1>1. 0 \in S
  <2>1. Joins([i \in 1..0 |-> <<>>], p, 0)
    BY DEF Joins
  <2> QED BY <2>1
<1>2. ASSUME NEW k \in S PROVE k + 1 \in S
  <2>1. PICK f : Joins(f, p, k)
    OBVIOUS
  <2> DEFINE g == [i \in 1..(k + 1) |->
                    IF i <= k THEN f[i] ELSE IF i = 1 THEN p[i] ELSE f[i - 1] \o p[i]]
  <2>2. ASSUME NEW i \in 1..(k + 1)
        PROVE  g[i] = IF i = 1 THEN p[i] ELSE g[i - 1] \o p[i]
    <3>1. CASE i = 1
      BY <2>1, <3>1 DEF Joins
    <3>2. CASE i # 1
      <4>1. i - 1 \in 1..k /\ i - 1 \in 1..(k + 1) /\ i - 1 <= k
        BY <3>2
      <4>2. g[i - 1] = f[i - 1]
        BY <4>1
      <4>3. g[i] = f[i - 1] \o p[i]
        <5>1. CASE i <= k
          <6>1. i \in 1..k
            BY <5>1
          <6>2. f[i] = f[i - 1] \o p[i]
            BY <2>1, <3>2, <6>1 DEF Joins
          <6> QED BY <5>1, <6>2
        <5>2. CASE ~ (i <= k)
          BY <3>2, <5>2
        <5> QED BY <5>1, <5>2
      <4> HIDE DEF g
      <4> QED BY <3>2, <4>2, <4>3
    <3> QED BY <3>1, <3>2
  <2>3. Joins(g, p, k + 1)
    <3>1. g = [i \in 1..(k + 1) |-> g[i]]
      OBVIOUS
    <3> HIDE DEF g
    <3> QED BY <2>2, <3>1 DEF Joins
  <2> HIDE DEF g
  <2> QED BY <2>3
<1>3. S = Nat
  <2>1. S \subseteq Nat
    OBVIOUS
  <2> HIDE DEF S
  <2> QED BY <1>1, <1>2, <2>1, AllNumbers, Zenon
<1> QED BY <1>3

\* No pieces make nothing.
LEMMA JoinedNone ==
  ASSUME NEW p
  PROVE  Joined(p, 0) = <<>>
BY DEF Joined, FlattenSeq

\* Some pieces make what the last of such functions says.
LEMMA JoinedLast ==
  ASSUME NEW p, NEW n \in Nat, n # 0
  PROVE  \E f : Joins(f, p, n) /\ Joined(p, n) = f[n]
<1> DEFINE q == [i \in 1..n |-> p[i]]
<1>1. Len(q) = n
  OBVIOUS
<1>2. PICK f : f = CHOOSE g : Joins(g, q, n)
  OBVIOUS
<1>3. Joins(f, q, n)
  <2> HIDE DEF q
  <2>1. \E g : Joins(g, q, n)
    BY JoinsExist
  <2> QED BY <1>2, <2>1, Zenon
<1>4. FlattenSeq(q) = f[n]
  <2> HIDE DEF q
  <2>1. Len(q) # 0
    BY <1>1
  <2> QED BY <1>1, <1>2, <2>1, Zenon DEF FlattenSeq, Joins
<1>5. Joins(f, p, n)
  BY <1>3 DEF Joins
<1> QED BY <1>4, <1>5 DEF Joined

\* One more piece is put behind the others, and pieces are put together into a sequence.
LEMMA JoinedNext ==
  ASSUME NEW X, NEW p, NEW n, Pieces(X, p, n), NEW k \in 0..n
  PROVE  /\ Joined(p, k) \in Seq(X)
         /\ k < n => Joined(p, k + 1) = Joined(p, k) \o p[k + 1]
<1> USE DEF Pieces
<1>1. ASSUME NEW j \in 1..n
      PROVE  /\ Joined(p, j) \in Seq(X)
             /\ j < n => Joined(p, j + 1) = Joined(p, j) \o p[j + 1]
  <2>1. PICK f : Joins(f, p, j) /\ Joined(p, j) = f[j]
    BY <1>1, JoinedLast
  <2> DEFINE S == {i \in Nat : i \in 1..j => f[i] \in Seq(X)}
  <2>2. S = Nat
    <3>1. 0 \in S
      OBVIOUS
    <3>2. ASSUME NEW i \in S PROVE i + 1 \in S
      <4>1. SUFFICES ASSUME i + 1 \in 1..j PROVE f[i + 1] \in Seq(X)
        OBVIOUS
      <4>2. p[i + 1] \in Seq(X)
        BY <4>1
      <4>3. CASE i = 0
        BY <2>1, <4>1, <4>2, <4>3 DEF Joins
      <4>4. CASE i # 0
        <5>1. f[i + 1] = f[i] \o p[i + 1]
          <6>1. (i + 1) - 1 = i /\ i + 1 # 1
            BY <4>4
          <6> QED BY <2>1, <4>1, <6>1 DEF Joins
        <5>2. f[i] \in Seq(X)
          BY <4>1, <4>4
        <5> QED BY <4>2, <5>1, <5>2, ConcatProperties
      <4> QED BY <4>3, <4>4
    <3>3. S \subseteq Nat
      OBVIOUS
    <3> HIDE DEF S
    <3> QED BY <3>1, <3>2, <3>3, AllNumbers, Zenon
  <2>3. Joined(p, j) \in Seq(X)
    <3>1. j \in S
      <4> HIDE DEF S
      <4> QED BY <2>2
    <3> QED BY <2>1, <3>1
  <2>4. ASSUME j < n PROVE Joined(p, j + 1) = Joined(p, j) \o p[j + 1]
    <3>1. PICK g : Joins(g, p, j + 1) /\ Joined(p, j + 1) = g[j + 1]
      BY JoinedLast
    <3> DEFINE T == {i \in Nat : i \in 1..j => g[i] = f[i]}
    <3>2. T = Nat
      <4>1. 0 \in T
        OBVIOUS
      <4>2. ASSUME NEW i \in T PROVE i + 1 \in T
        <5>1. SUFFICES ASSUME i + 1 \in 1..j PROVE g[i + 1] = f[i + 1]
          OBVIOUS
        <5>2. i + 1 \in 1..(j + 1) /\ (i + 1) - 1 = i
          BY <5>1
        <5>3. CASE i = 0
          BY <2>1, <3>1, <5>1, <5>2, <5>3 DEF Joins
        <5>4. CASE i # 0
          <6>1. g[i] = f[i] /\ i + 1 # 1
            BY <5>1, <5>4
          <6>2. f[i + 1] = f[i] \o p[i + 1]
            BY <2>1, <5>1, <5>2, <6>1 DEF Joins
          <6>3. g[i + 1] = g[i] \o p[i + 1]
            BY <3>1, <5>2, <6>1 DEF Joins
          <6> QED BY <6>1, <6>2, <6>3
        <5> QED BY <5>3, <5>4
      <4>3. T \subseteq Nat
        OBVIOUS
      <4> HIDE DEF T
      <4> QED BY <4>1, <4>2, <4>3, AllNumbers, Zenon
    <3>3. g[j] = f[j]
      <4>1. j \in T
        <5> HIDE DEF T
        <5> QED BY <3>2
      <4> QED BY <4>1
    <3>4. j + 1 \in 1..(j + 1) /\ (j + 1) - 1 = j /\ j + 1 # 1
      OBVIOUS
    <3>5. g[j + 1] = g[j] \o p[j + 1]
      BY <3>1, <3>4 DEF Joins
    <3> QED BY <2>1, <3>1, <3>3, <3>5
  <2> QED BY <2>3, <2>4
<1>2. CASE k = 0
  <2>1. Joined(p, 0) = <<>> /\ <<>> \in Seq(X)
    BY JoinedNone, EmptySeq
  <2>2. ASSUME 0 < n PROVE Joined(p, 1) = p[1]
    <3>1. PICK f : Joins(f, p, 1) /\ Joined(p, 1) = f[1]
      BY JoinedLast
    <3> QED BY <3>1 DEF Joins
  <2>3. ASSUME 0 < n PROVE <<>> \o p[1] = p[1]
    <3>1. p[1] \in Seq(X)
      BY <2>3
    <3> QED BY <3>1
  <2>4. Joined(p, k) = <<>>
    BY <1>2, <2>1
  <2>5. ASSUME k < n PROVE Joined(p, k + 1) = Joined(p, k) \o p[k + 1]
    <3>1. 0 < n /\ k + 1 = 1
      BY <1>2, <2>5
    <3>2. Joined(p, 1) = p[1] /\ <<>> \o p[1] = p[1]
      BY <2>2, <2>3, <3>1
    <3> QED BY <2>4, <3>1, <3>2
  <2> QED BY <2>1, <2>4, <2>5
<1>3. CASE k # 0
  BY <1>1, <1>3
<1> QED BY <1>2, <1>3

\* The pieces of a sequence, cut at the bounds b, which do not decrease.
Slices(X, s, p, b, n) ==
  /\ s \in Seq(X) /\ n \in Nat
  /\ \A k \in 0..n : b[k] \in 0..Len(s)
  /\ \A k \in 1..n : b[k - 1] <= b[k] /\ p[k] = Part(s, b[k - 1], b[k])

\* Slices put together are the sequence from the first bound to the last.
LEMMA SlicesMakeWhole ==
  ASSUME NEW X, NEW s, NEW p, NEW b, NEW n, Slices(X, s, p, b, n)
  PROVE  /\ Pieces(X, p, n)
         /\ \A k \in 0..n : b[0] <= b[k] /\ Joined(p, k) = Part(s, b[0], b[k])
<1>0. \A i, j, k : Cut(X, s, i, j, k) => Part(s, i, j) \o Part(s, j, k) = Part(s, i, k)
  BY PartsJoin
<1>1. Pieces(X, p, n)
  <2>1. ASSUME NEW k \in 1..n PROVE p[k] \in Seq(X)
    <3>1. /\ k - 1 \in 0..n /\ k \in 0..n
          /\ Len(s) \in Nat
      BY LenProperties DEF Slices
    <3>2. b[k - 1] \in 0..Len(s) /\ b[k] \in 0..Len(s) /\ b[k - 1] <= b[k]
      BY <2>1, <3>1 DEF Slices
    <3>3. Part(s, b[k - 1], b[k]) \in Seq(X)
      <4>1. Cut(X, s, b[k - 1], b[k], b[k])
        BY <3>1, <3>2 DEF Cut, Slices
      <4> QED BY <4>1, PartsJoin
    <3> QED BY <2>1, <3>3 DEF Slices
  <2> QED BY <2>1 DEF Pieces, Slices
<1> DEFINE S == {k \in Nat : k \in 0..n =>
                   b[0] <= b[k] /\ Joined(p, k) = Part(s, b[0], b[k])}
<1>2. 0 \in S
  <2>1. b[0] \in 0..Len(s)
    BY DEF Slices
  <2>2. Part(s, b[0], b[0]) = <<>>
    BY <2>1 DEF Part
  <2>3. Joined(p, 0) = <<>>
    BY JoinedNone, Zenon
  <2>4. b[0] <= b[0]
    BY <2>1
  <2> QED BY <2>2, <2>3, <2>4
<1>3. ASSUME NEW k \in S PROVE k + 1 \in S
  <2>1. SUFFICES ASSUME k + 1 \in 0..n
                 PROVE  /\ b[0] <= b[k + 1]
                        /\ Joined(p, k + 1) = Part(s, b[0], b[k + 1])
    OBVIOUS
  <2>2. /\ k \in 0..n /\ k < n /\ k + 1 \in 1..n /\ (k + 1) - 1 = k /\ 0 \in 0..n
        /\ Len(s) \in Nat
    BY <2>1, LenProperties DEF Slices
  <2>3. b[0] <= b[k] /\ Joined(p, k) = Part(s, b[0], b[k])
    BY <2>2
  <2>4. /\ b[0] \in 0..Len(s) /\ b[k] \in 0..Len(s) /\ b[k + 1] \in 0..Len(s)
        /\ b[k] <= b[k + 1] /\ p[k + 1] = Part(s, b[k], b[k + 1])
    BY <2>1, <2>2 DEF Slices
  <2>5. Joined(p, k + 1) = Joined(p, k) \o p[k + 1]
    BY <1>1, <2>2, JoinedNext
  <2>6. Part(s, b[0], b[k]) \o Part(s, b[k], b[k + 1]) = Part(s, b[0], b[k + 1])
    <3>1. Cut(X, s, b[0], b[k], b[k + 1])
      BY <2>2, <2>3, <2>4 DEF Cut, Slices
    <3> QED BY <1>0, <3>1, Zenon
  <2>7. b[0] <= b[k + 1]
    BY <2>2, <2>3, <2>4
  <2> QED BY <2>3, <2>4, <2>5, <2>6, <2>7
<1>4. S = Nat
  <2>1. S \subseteq Nat
    OBVIOUS
  <2> HIDE DEF S
  <2> QED BY <1>2, <1>3, <2>1, AllNumbers, Zenon
<1>5. \A k \in 0..n : k \in S
  <2> HIDE DEF S
  <2>1. n \in Nat
    BY DEF Slices
  <2> QED BY <1>4, <2>1
<1> QED BY <1>1, <1>5

\* All of a sequence.
LEMMA PartIsAll ==
  ASSUME NEW X, NEW s \in Seq(X)
  PROVE  Part(s, 0, Len(s)) = s
BY SubSeqFull DEF Part

\* n pieces of length L.
EvenPieces(X, p, n, L) == Pieces(X, p, n) /\ L \in Nat /\ \A i \in 1..n : Len(p[i]) = L

\* Pieces of one length come back when what they make is cut into parts of this length.
LEMMA PiecesComeBack ==
  ASSUME NEW X, NEW p, NEW n, NEW L, EvenPieces(X, p, n, L)
  PROVE  /\ Joined(p, n) \in Seq(X) /\ Len(Joined(p, n)) = L * n
         /\ \A q \in 1..n : Part(Joined(p, n), L * (q - 1), L * q) = p[q]
<1> DEFINE S == {k \in Nat : k \in 0..n =>
                   /\ Len(Joined(p, k)) = L * k
                   /\ \A q \in 1..k : \A j \in 1..L : Joined(p, k)[L * (q - 1) + j] = p[q][j]}
<1>10. Pieces(X, p, n) /\ L \in Nat /\ \A i \in 1..n : Len(p[i]) = L
  BY DEF EvenPieces
<1> USE <1>10
<1>0. n \in Nat /\ \A i \in 1..n : p[i] \in Seq(X)
  BY DEF Pieces
<1>9. \A k \in 0..n : Joined(p, k) \in Seq(X) /\ (k < n => Joined(p, k + 1) = Joined(p, k) \o p[k + 1])
  BY JoinedNext
<1>1. 0 \in S
  <2>1. Len(Joined(p, 0)) = L * 0
    BY JoinedNone
  <2> QED BY <2>1
<1>2. ASSUME NEW k \in S PROVE k + 1 \in S
  <2>1. SUFFICES ASSUME k + 1 \in 0..n
                 PROVE  /\ Len(Joined(p, k + 1)) = L * (k + 1)
                        /\ \A q \in 1..(k + 1) : \A j \in 1..L :
                             Joined(p, k + 1)[L * (q - 1) + j] = p[q][j]
    OBVIOUS
  <2>2. k \in Nat /\ k \in 0..n /\ k < n /\ k + 1 \in 1..n
    BY <1>0, <2>1
  <2>3. /\ Len(Joined(p, k)) = L * k
        /\ \A q \in 1..k : \A j \in 1..L : Joined(p, k)[L * (q - 1) + j] = p[q][j]
    BY <2>2
  <2>4. Joined(p, k) \in Seq(X) /\ Joined(p, k + 1) = Joined(p, k) \o p[k + 1]
    BY <1>9, <2>2
  <2>5. p[k + 1] \in Seq(X) /\ Len(p[k + 1]) = L
    BY <1>0, <2>2
  <2> DEFINE a == Joined(p, k)
             b == p[k + 1]
  <2>6. /\ a \in Seq(X) /\ b \in Seq(X) /\ Len(a) = L * k /\ Len(b) = L
        /\ Joined(p, k + 1) = a \o b /\ L * k \in Nat
    BY <2>2, <2>3, <2>4, <2>5
  <2> HIDE DEF a, b
  <2>7. /\ Len(a \o b) = Len(a) + Len(b)
        /\ \A i \in 1..(Len(a) + Len(b)) : (a \o b)[i] = IF i <= Len(a) THEN a[i] ELSE b[i - Len(a)]
    BY <2>6, ConcatProperties
  <2>8. L * (k + 1) = L * k + L
    BY <2>2
  <2>9. ASSUME NEW q \in 1..(k + 1), NEW j \in 1..L
        PROVE  (a \o b)[L * (q - 1) + j] = p[q][j]
    <3>1. CASE q = k + 1
      <4>1. L * (q - 1) + j = L * k + j
        BY <2>2, <3>1
      <4>2. /\ L * k + j \in 1..(Len(a) + Len(b)) /\ ~ (L * k + j <= Len(a))
            /\ (L * k + j) - Len(a) = j
        BY <2>6
      <4>3. (a \o b)[L * k + j] = b[j]
        BY <2>7, <4>2
      <4> QED BY <3>1, <4>1, <4>3 DEF b
    <3>2. CASE q # k + 1
      <4>1. q \in 1..k /\ q - 1 \in Nat /\ q - 1 < k
        BY <2>2, <3>2
      <4>2. L * (q - 1) + L <= L * k
        <5>1. L # 0
          OBVIOUS
        <5> QED BY <2>2, <4>1, <5>1, ProductGrows
      <4>3. L * (q - 1) \in Nat
        BY <4>1
      <4>4. L * (q - 1) + j \in 1..(Len(a) + Len(b)) /\ L * (q - 1) + j <= Len(a)
        <5> DEFINE lo == L * (q - 1)
        <5>1. lo \in Nat /\ lo + L <= L * k /\ L * k \in Nat /\ Len(a) = L * k /\ Len(b) = L
          BY <2>6, <4>2, <4>3
        <5> HIDE DEF lo
        <5>2. lo + j \in 1..(Len(a) + Len(b)) /\ lo + j <= Len(a)
          BY <5>1
        <5> QED BY <5>2 DEF lo
      <4>5. (a \o b)[L * (q - 1) + j] = a[L * (q - 1) + j]
        BY <2>7, <4>4
      <4>6. Joined(p, k)[L * (q - 1) + j] = p[q][j]
        BY <2>3, <4>1
      <4> QED BY <4>5, <4>6 DEF a
    <3> QED BY <3>1, <3>2
  <2>10. Len(a \o b) = L * (k + 1)
    BY <2>6, <2>7, <2>8
  <2>11. \A q \in 1..(k + 1) : \A j \in 1..L : (a \o b)[L * (q - 1) + j] = p[q][j]
    BY <2>9
  <2>12. Joined(p, k + 1) = a \o b
    BY <2>6, Zenon
  <2>13. Len(Joined(p, k + 1)) = L * (k + 1)
    BY <2>10, <2>12
  <2>14. \A q \in 1..(k + 1) : \A j \in 1..L : Joined(p, k + 1)[L * (q - 1) + j] = p[q][j]
    <3> DEFINE d == Joined(p, k + 1)
    <3>1. d = a \o b
      BY <2>12
    <3> HIDE DEF d
    <3>2. \A q \in 1..(k + 1) : \A j \in 1..L : d[L * (q - 1) + j] = p[q][j]
      BY <2>11, <3>1
    <3> QED BY <3>2 DEF d
  <2> QED BY <2>13, <2>14
<1>3. S = Nat
  <2>1. S \subseteq Nat
    OBVIOUS
  <2> HIDE DEF S
  <2> QED BY <1>1, <1>2, <2>1, AllNumbers, Zenon
<1>4. n \in S
  <2> HIDE DEF S
  <2> QED BY <1>0, <1>3
<1> DEFINE c == Joined(p, n)
<1>5. c \in Seq(X)
  BY <1>0, JoinedNext
<1>6. Len(c) = L * n /\ \A q \in 1..n : \A j \in 1..L : c[L * (q - 1) + j] = p[q][j]
  BY <1>0, <1>4
<1> HIDE DEF c
<1>7. ASSUME NEW q \in 1..n PROVE Part(c, L * (q - 1), L * q) = p[q]
  <2>1. q - 1 \in Nat /\ L * (q - 1) \in Nat /\ L * q = L * (q - 1) + L
    BY <1>0
  <2>2. L * q <= L * n
    <3>1. CASE q = n
      BY <1>0, <2>1, <3>1
    <3>2. CASE q # n /\ L # 0
      <4>1. q \in Nat /\ q < n /\ L \in Nat \ {0}
        BY <1>0, <3>2
      <4>2. L * q + L <= L * n
        BY <1>0, <4>1, ProductGrows
      <4>3. L * q \in Nat /\ L * n \in Nat
        BY <1>0, <4>1
      <4> QED BY <4>2, <4>3
    <3>3. CASE L = 0
      BY <1>0, <3>3
    <3> QED BY <3>1, <3>2, <3>3
  <2> DEFINE lo == L * (q - 1)
             d == SubSeq(c, lo + 1, lo + L)
  <2>3. lo \in Nat /\ lo + L <= Len(c) /\ Len(c) \in Nat
    BY <1>0, <1>5, <1>6, <2>1, <2>2, LenProperties
  <2> HIDE DEF lo
  <2>4. d \in Seq(X) /\ Len(d) = L /\ \A j \in 1..L : d[j] = c[lo + j]
    BY <1>5, <2>3, SubSeqProperties
  <2> HIDE DEF d
  <2>5. p[q] \in Seq(X) /\ Len(p[q]) = L
    BY <1>0
  <2>6. \A j \in 1..L : d[j] = p[q][j]
    BY <1>6, <2>4 DEF lo
  <2>7. d = p[q]
    BY <2>4, <2>5, <2>6, SeqEqual
  <2> QED BY <2>1, <2>7 DEF d, lo, Part
<1> QED BY <1>5, <1>6, <1>7 DEF c

\* The parts of s of length z are at every m-th of n places, beginning behind place base, and
\* there is nothing at the others.
Dealt(X, s, p, n, z, m, parts, base) ==
  /\ s \in Seq(X) /\ n \in Nat /\ z \in Nat /\ m \in Nat \ {0} /\ parts \in Nat /\ base \in Nat
  /\ base + m * parts <= n /\ z * parts = Len(s)
  /\ \A j \in Nat : j < parts => p[base + m * j + 1] = Part(s, z * j, z * (j + 1))
  /\ \A k \in 1..n : p[k] # <<>> => \E j \in Nat : j < parts /\ k = base + m * j + 1

\* What is spread in this way is put together again.
LEMMA DealtIsWhole ==
  ASSUME NEW X, NEW s, NEW p, NEW n, NEW z, NEW m, NEW parts, NEW base,
         Dealt(X, s, p, n, z, m, parts, base)
  PROVE  Joined(p, n) = s
<1>0. /\ s \in Seq(X) /\ n \in Nat /\ z \in Nat /\ m \in Nat \ {0} /\ parts \in Nat /\ base \in Nat
      /\ base + m * parts <= n /\ z * parts = Len(s)
  BY DEF Dealt
<1>1. \A j \in Nat : j < parts => p[base + m * j + 1] = Part(s, z * j, z * (j + 1))
  BY DEF Dealt
<1>2. \A k \in 1..n : p[k] # <<>> => \E j \in Nat : j < parts /\ k = base + m * j + 1
  BY DEF Dealt
<1>3. \A a, b \in Nat : a < b => m * a + m <= m * b /\ m * a \in Nat /\ m * b \in Nat
  <2>1. ASSUME NEW a \in Nat, NEW b \in Nat, a < b
        PROVE  m * a + m <= m * b /\ m * a \in Nat /\ m * b \in Nat
    BY <1>0, <2>1, ProductGrows
  <2> QED BY <2>1
<1>4. ASSUME NEW j \in Nat, j < parts
      PROVE  /\ z * 0 = 0 /\ z * j \in Nat /\ z * (j + 1) \in Nat
             /\ z * j <= z * (j + 1) /\ z * (j + 1) <= Len(s)
             /\ Cut(X, s, 0, z * j, z * (j + 1))
             /\ Part(s, z * j, z * (j + 1)) \in Seq(X)
  <2>1. z * j \in Nat /\ z * (j + 1) = z * j + z /\ Len(s) \in Nat
    BY <1>0, LenProperties
  <2>2. z * (j + 1) <= Len(s)
    <3>1. CASE z = 0
      BY <1>0, <2>1, <3>1
    <3>2. CASE z # 0
      <4>1. z * j + z <= z * parts
        BY <1>0, <1>4, <3>2, ProductGrows
      <4> QED BY <1>0, <2>1, <4>1
    <3> QED BY <3>1, <3>2
  <2>3. z * j <= z * (j + 1) /\ z * (j + 1) \in Nat
    <3> DEFINE a == z * j
               b == z * (j + 1)
    <3>1. a \in Nat /\ b = a + z
      BY <2>1
    <3> HIDE DEF a, b
    <3>2. a <= b /\ b \in Nat
      BY <1>0, <3>1
    <3> QED BY <3>2 DEF a, b
  <2>4. Cut(X, s, 0, z * j, z * (j + 1))
    BY <1>0, <2>1, <2>2, <2>3 DEF Cut
  <2>5. Cut(X, s, z * j, z * (j + 1), z * (j + 1))
    BY <1>0, <2>1, <2>2, <2>3 DEF Cut
  <2>6. Part(s, z * j, z * (j + 1)) \in Seq(X)
    BY <2>5, PartsJoin
  <2>7. z * 0 = 0
    BY <1>0
  <2> QED BY <2>1, <2>2, <2>3, <2>4, <2>6, <2>7
<1>5. Pieces(X, p, n)
  <2>1. ASSUME NEW k \in 1..n PROVE p[k] \in Seq(X)
    <3>1. CASE p[k] = <<>>
      BY <3>1, EmptySeq
    <3>2. CASE p[k] # <<>>
      <4>1. PICK j \in Nat : j < parts /\ k = base + m * j + 1
        BY <1>2, <3>2
      <4>2. p[k] = Part(s, z * j, z * (j + 1))
        BY <1>1, <4>1
      <4> QED BY <1>4, <4>1, <4>2
    <3> QED BY <3>1, <3>2
  <2> QED BY <1>0, <2>1 DEF Pieces
<1> DEFINE Upto(k, q) ==
             /\ q \in Nat /\ q <= parts
             /\ \A j \in Nat : j < q => base + m * j < k
             /\ q < parts => k <= base + m * q
             /\ Joined(p, k) = Part(s, 0, z * q)
           S == {k \in Nat : k <= n => \E q : Upto(k, q)}
<1>6. 0 \in S
  <2>1. Upto(0, 0)
    <3>1. Joined(p, 0) = <<>> /\ z * 0 = 0 /\ m * 0 = 0
      BY <1>0, JoinedNone
    <3>2. Part(s, 0, 0) = <<>>
      BY <1>0 DEF Part
    <3> QED BY <1>0, <3>1, <3>2
  <2> HIDE DEF Upto
  <2> QED BY <2>1
<1>7. ASSUME NEW k \in S PROVE k + 1 \in S
  <2>1. SUFFICES ASSUME k + 1 <= n PROVE \E q : Upto(k + 1, q)
    OBVIOUS
  <2>2. k \in Nat /\ k <= n /\ k \in 0..n /\ k < n /\ k + 1 \in 1..n
    BY <1>0, <2>1
  <2>3. PICK q : Upto(k, q)
    <3> HIDE DEF Upto
    <3> QED BY <2>2
  <2>4. /\ q \in Nat /\ q <= parts
        /\ \A j \in Nat : j < q => base + m * j < k
        /\ q < parts => k <= base + m * q
        /\ Joined(p, k) = Part(s, 0, z * q)
    BY <2>3
  <2>5. Joined(p, k + 1) = Joined(p, k) \o p[k + 1] /\ Joined(p, k) \in Seq(X)
    BY <1>5, <2>2, JoinedNext
  <2> HIDE DEF S
  <2>6. CASE q < parts /\ k = base + m * q
    <3>1. p[k + 1] = Part(s, z * q, z * (q + 1))
      BY <1>1, <2>4, <2>6
    <3>2. Cut(X, s, 0, z * q, z * (q + 1))
      BY <1>4, <2>4, <2>6
    <3>3. Part(s, 0, z * q) \o Part(s, z * q, z * (q + 1)) = Part(s, 0, z * (q + 1))
      BY <3>2, PartsJoin
    <3>4. Joined(p, k + 1) = Part(s, 0, z * (q + 1))
      BY <2>4, <2>5, <3>1, <3>3, Zenon
    <3>5. q + 1 \in Nat /\ q + 1 <= parts
      BY <1>0, <2>4, <2>6
    <3>6. ASSUME NEW j \in Nat, j < q + 1 PROVE base + m * j < k + 1
      <4>1. CASE j = q
        <5> DEFINE a == m * q
        <5>1. a \in Nat
          BY <1>0, <2>4
        <5> HIDE DEF a
        <5> QED BY <1>0, <2>2, <2>6, <4>1, <5>1 DEF a
      <4>2. CASE j < q
        <5> DEFINE a == m * j
        <5>1. a \in Nat
          BY <1>0
        <5>3. base + a < k
          BY <2>4, <4>2, Zenon
        <5> HIDE DEF a
        <5>2. base + a < k + 1
          BY <1>0, <2>2, <5>1, <5>3
        <5> QED BY <5>2 DEF a
      <4> QED BY <2>4, <3>6, <4>1, <4>2
    <3>7. q + 1 < parts => k + 1 <= base + m * (q + 1)
      <4> DEFINE a == m * q
                 b == m * (q + 1)
      <4>1. a + m <= b /\ a \in Nat /\ b \in Nat
        <5>1. q + 1 \in Nat /\ q < q + 1
          BY <2>4
        <5> QED BY <1>3, <2>4, <5>1
      <4>2. k = base + a
        BY <2>6
      <4> HIDE DEF a, b
      <4>3. k + 1 <= base + b
        BY <1>0, <4>1, <4>2
      <4> QED BY <4>3 DEF b
    <3>8. Upto(k + 1, q + 1)
      BY <3>4, <3>5, <3>6, <3>7
    <3> HIDE DEF Upto
    <3> QED BY <3>8
  <2>7. CASE ~ (q < parts /\ k = base + m * q)
    <3>1. p[k + 1] = <<>>
      <4>1. SUFFICES ASSUME p[k + 1] # <<>> PROVE FALSE
        OBVIOUS
      <4>2. PICK j \in Nat : j < parts /\ k + 1 = base + m * j + 1
        BY <1>2, <2>2, <4>1
      <4> DEFINE a == m * j
                 b == m * q
      <4>3. a \in Nat /\ b \in Nat /\ k = base + a
        BY <1>0, <2>2, <2>4, <4>2
      <4>4. j # q
        BY <2>7, <4>2, <4>3
      <4>5. ~ (j < q)
        BY <1>0, <2>2, <2>4, <4>3
      <4>6. q < j
        BY <2>4, <4>4, <4>5
      <4>7. b + m <= a
        BY <1>3, <2>4, <4>6
      <4>8. q < parts
        BY <1>0, <2>4, <4>2, <4>6
      <4>9. k <= base + b
        BY <2>4, <4>8
      <4> HIDE DEF a, b
      <4> QED BY <1>0, <4>3, <4>7, <4>9
    <3>2. Joined(p, k + 1) = Joined(p, k)
      <4>1. Joined(p, k) \o <<>> = Joined(p, k)
        BY <2>5
      <4> QED BY <2>5, <3>1, <4>1
    <3>3. ASSUME NEW j \in Nat, j < q PROVE base + m * j < k + 1
      <4> DEFINE a == m * j
      <4>1. a \in Nat
        BY <1>0
      <4>3. base + a < k
        BY <2>4, <3>3, Zenon
      <4> HIDE DEF a
      <4>2. base + a < k + 1
        BY <1>0, <2>2, <4>1, <4>3
      <4> QED BY <4>2 DEF a
    <3>4. q < parts => k + 1 <= base + m * q
      <4> DEFINE b == m * q
      <4>1. b \in Nat /\ (q < parts => k <= base + b /\ k # base + b)
        BY <1>0, <2>4, <2>7
      <4> HIDE DEF b
      <4>2. q < parts => k + 1 <= base + b
        BY <1>0, <2>2, <4>1
      <4> QED BY <4>2 DEF b
    <3>5. Upto(k + 1, q)
      BY <2>4, <3>2, <3>3, <3>4
    <3> HIDE DEF Upto
    <3> QED BY <3>5
  <2> QED BY <2>6, <2>7
<1>8. S = Nat
  <2>1. S \subseteq Nat
    OBVIOUS
  <2> HIDE DEF S
  <2> QED BY <1>6, <1>7, <2>1, AllNumbers, Zenon
<1>9. PICK q : Upto(n, q)
  <2>1. n \in S
    <3> HIDE DEF S
    <3> QED BY <1>0, <1>8
  <2> HIDE DEF Upto
  <2> QED BY <1>0, <2>1
<1>10. q = parts
  <2>1. SUFFICES ASSUME q < parts PROVE FALSE
    BY <1>0, <1>9
  <2> DEFINE a == m * q
             b == m * parts
  <2>2. a \in Nat /\ b \in Nat /\ a + m <= b /\ base + b <= n /\ n <= base + a
    BY <1>0, <1>3, <1>9, <2>1
  <2> HIDE DEF a, b
  <2> QED BY <1>0, <2>2
<1>11. Joined(p, n) = Part(s, 0, Len(s))
  BY <1>0, <1>9, <1>10
<1> QED BY <1>0, <1>11, PartIsAll
=============================================================================
