---------------------------- MODULE MegatronProofs ----------------------------
(***************************************************************************)
(* The theorems about the Megatron backend: between two calls the ranks are    *)
(* at rest, cutting the weights for the grid loses nothing, and every call     *)
(* gives the driver every row in its place with the version of its model.      *)
(*                                                                         *)
(* A rank has a script for the call it is at.  IInv says of every rank how far *)
(* it is in it and what it holds after so many operations; a collective        *)
(* operation finds its whole group at one place of their scripts.           *)
(***************************************************************************)
EXTENDS Megatron, SequenceLemmas, FiniteSetTheorems, TLAPS

(* The sizes of a configuration, and the places in its grid. *)

\* The rows of a data parallel rank, the part of them a stage takes of a rollout, the part
\* of this that one of its engines takes, and the minibatches of the rows.
Share == config.rows \div config.dp
Portion == config.rows \div (config.pp * config.dp)
Crumb == Portion \div MicroDp
Minibatches == Share \div config.mini

\* The configuration of this run is one that fits.
Fits == config \in Configs

\* The fields of a configuration.
LEMMA ConfigFields ==
  ASSUME Fits
  PROVE  /\ config.tp \in Nat \ {0} /\ config.dp \in Nat \ {0} /\ config.pp \in Nat \ {0}
         /\ config.infer \in Nat \ {0} /\ config.layers \in Nat /\ config.heads \in Nat \ {0}
         /\ config.kv \in Nat \ {0} /\ config.inner \in Nat
         /\ config.rows \in Nat \ {0} /\ config.micro \in Nat \ {0} /\ config.mini \in Nat \ {0}
         /\ config.epochs \in Nat /\ config.shuffle \in BOOLEAN /\ config.offload \in BOOLEAN
         /\ config.calls \in Seq(Methods)
BY ConfigsFit DEF Fits, Config

\* What divides a number makes it up.
LEMMA Divides ==
  ASSUME NEW m \in Nat \ {0}, NEW a \in Nat, a % m = 0
  PROVE  a \div m \in Nat /\ a = m * (a \div m) /\ (a # 0 => a \div m # 0)
<1>1. a \div m \in Nat /\ a = m * (a \div m) + (a % m)
  BY Division
<1>2. a = m * (a \div m)
  <2> DEFINE d == a \div m
             x == m * d
  <2>1. a = x + 0 /\ x \in Nat
    BY <1>1
  <2> QED BY <2>1
<1>3. a \div m = 0 => a = 0
  BY <1>2
<1> QED BY <1>1, <1>2, <1>3

\* A multiple of m, divided by it.
LEMMA Multiple ==
  ASSUME NEW m \in Nat \ {0}, NEW q \in Nat
  PROVE  (m * q) \div m = q /\ (m * q) % m = 0 /\ m * q \in Nat
<1> DEFINE a == m * q
<1>1. (m * q + 0) \div m = q /\ (m * q + 0) % m = 0
  BY DivisionIsUnique
<1>2. a \in Nat /\ a + 0 = a
  OBVIOUS
<1> QED BY <1>1, <1>2

\* The sizes are multiples of one another.
LEMMA Sizes ==
  ASSUME Fits
  PROVE  /\ MicroDp \in Nat \ {0} /\ config.tp = MicroDp * config.infer
         /\ LayersPerStage \in Nat /\ config.layers = config.pp * LayersPerStage
         /\ Share \in Nat \ {0} /\ config.rows = config.dp * Share
         /\ Portion \in Nat \ {0} /\ Share = config.pp * Portion
         /\ config.rows = (config.pp * config.dp) * Portion
         /\ Crumb \in Nat \ {0} /\ Portion = MicroDp * Crumb
         /\ Minibatches \in Nat \ {0} /\ Share = config.mini * Minibatches
<1>0. /\ config.tp \in Nat \ {0} /\ config.dp \in Nat \ {0} /\ config.pp \in Nat \ {0}
      /\ config.infer \in Nat \ {0} /\ config.layers \in Nat /\ config.rows \in Nat \ {0}
      /\ config.mini \in Nat \ {0}
  BY ConfigFields
<1>1. /\ config.layers % config.pp = 0 /\ config.tp % config.infer = 0
      /\ config.rows % (config.dp * config.pp * (config.tp \div config.infer)) = 0
      /\ (config.rows \div config.dp) % config.mini = 0
  BY ConfigsFit DEF Fits
<1>2. LayersPerStage \in Nat /\ config.layers = config.pp * LayersPerStage
  BY <1>0, <1>1, Divides DEF LayersPerStage
<1>3. MicroDp \in Nat \ {0} /\ config.tp = config.infer * MicroDp
  <2>1. /\ config.tp \div config.infer \in Nat
        /\ config.tp = config.infer * (config.tp \div config.infer)
        /\ config.tp \div config.infer # 0
    BY <1>0, <1>1, Divides
  <2> QED BY <2>1 DEF MicroDp
<1> DEFINE d == config.dp
           p == config.pp
           m == MicroDp
           n == config.rows
           whole == d * p * m
           c == n \div whole
<1>4. d \in Nat \ {0} /\ p \in Nat \ {0} /\ m \in Nat \ {0} /\ n \in Nat \ {0}
  BY <1>0, <1>3
<1>5. n % whole = 0
  BY <1>1 DEF MicroDp
<1>6. whole \in Nat \ {0} /\ d * p \in Nat \ {0}
  <2> HIDE DEF d, p, m, n
  <2>1. d * p \in Nat \ {0}
    BY <1>4
  <2> QED BY <1>4, <2>1
<1>7. c \in Nat \ {0} /\ n = whole * c
  <2> HIDE DEF whole, n
  <2> QED BY <1>4, <1>5, <1>6, Divides
<1>8. /\ Portion = m * c /\ m * c \in Nat \ {0} /\ n = (p * d) * (m * c)
  <2>1. n = (p * d) * (m * c) /\ m * c \in Nat \ {0} /\ p * d \in Nat \ {0}
    <3> HIDE DEF c, n, d, p, m
    <3> QED BY <1>4, <1>7
  <2>2. n \div (p * d) = m * c
    <3> HIDE DEF c, n, d, p, m
    <3> DEFINE x == p * d
               y == m * c
    <3>1. x \in Nat \ {0} /\ y \in Nat /\ n = x * y
      BY <2>1
    <3> HIDE DEF x, y
    <3>2. n \div x = y
      BY <3>1, Multiple
    <3> QED BY <3>2 DEF x, y
  <2> QED BY <2>1, <2>2 DEF Portion
<1>9. Share = p * Portion /\ Share \in Nat \ {0} /\ n = d * Share
  <2>1. n = d * (p * Portion) /\ p * Portion \in Nat \ {0}
    <3> HIDE DEF c, n, d, p, m
    <3> QED BY <1>4, <1>8
  <2>2. n \div d = p * Portion
    <3> HIDE DEF c, n, d, p, m
    <3> QED BY <1>4, <2>1, Multiple
  <2> QED BY <2>1, <2>2 DEF Share
<1>10. Crumb = c /\ Portion = m * Crumb
  <2>1. (m * c) \div m = c
    <3> HIDE DEF c, m
    <3> QED BY <1>4, <1>7, Multiple
  <2> QED BY <1>8, <2>1 DEF Crumb
<1>11. Minibatches \in Nat \ {0} /\ Share = config.mini * Minibatches
  <2>1. Share % config.mini = 0
    BY <1>1 DEF Share
  <2> QED BY <1>0, <1>9, <2>1, Divides DEF Minibatches
<1>12. config.tp = MicroDp * config.infer
  BY <1>0, <1>3
<1>13. Portion \in Nat \ {0}
  BY <1>8
<1>14. n = (p * d) * Portion
  BY <1>8
<1> QED BY <1>2, <1>3, <1>7, <1>9, <1>10, <1>11, <1>12, <1>13, <1>14

\* The number of ranks, as the grid has it.
LEMMA WorldNat == Fits => World \in Nat \ {0} /\ World = (config.tp * config.dp) * config.pp
<1> SUFFICES ASSUME Fits PROVE World \in Nat \ {0} /\ World = (config.tp * config.dp) * config.pp
  OBVIOUS
<1>1. config.tp \in Nat \ {0} /\ config.dp \in Nat \ {0} /\ config.pp \in Nat \ {0}
  BY ConfigFields
<1>2. config.tp * config.dp \in Nat \ {0}
  BY <1>1
<1> DEFINE x == config.tp * config.dp
<1>3. x * config.pp \in Nat \ {0}
  <2> HIDE DEF x
  <2> QED BY <1>1, <1>2 DEF x
<1> QED BY <1>3 DEF World

\* Every rank has its place.
LEMMA Placing ==
  ASSUME Fits, NEW r \in Ranks
  PROVE  /\ r \in Nat /\ Tp(r) \in 0..(config.tp - 1) /\ Dp(r) \in 0..(config.dp - 1)
         /\ Pp(r) \in Stages /\ Pp(r) \in Nat
         /\ r = (config.tp * config.dp) * Pp(r) + config.tp * Dp(r) + Tp(r)
<1>1. config.tp \in Nat \ {0} /\ config.dp \in Nat \ {0} /\ config.pp \in Nat \ {0}
  BY ConfigFields
<1>2. World \in Nat \ {0} /\ World = (config.tp * config.dp) * config.pp
  BY WorldNat
<1>3. r \in Nat /\ r < World
  BY <1>2 DEF Ranks
<1>4. /\ Pp(r) \in Nat /\ Dp(r) \in 0..(config.dp - 1) /\ Tp(r) \in 0..(config.tp - 1)
      /\ r = (config.tp * config.dp) * Pp(r) + config.tp * Dp(r) + Tp(r)
  <2>1. /\ r \div (config.tp * config.dp) \in Nat
        /\ (r \div config.tp) % config.dp \in 0..(config.dp - 1) /\ r % config.tp \in 0..(config.tp - 1)
        /\ r = (config.tp * config.dp) * (r \div (config.tp * config.dp))
                 + config.tp * ((r \div config.tp) % config.dp) + (r % config.tp)
    BY <1>1, <1>3, GridHasPlace, Zenon
  <2> QED BY <2>1, Zenon DEF Pp, Dp, Tp
<1>6. Pp(r) \in Nat /\ Dp(r) \in Nat /\ Tp(r) \in Nat
  BY <1>1, <1>4
<1>5. Pp(r) < config.pp
  <2> DEFINE x == config.tp * config.dp
             y == config.tp * Dp(r)
             z == x * Pp(r)
  <2>1. x \in Nat \ {0} /\ y \in Nat
    BY <1>1, <1>6
  <2>2. z \in Nat
    <3> HIDE DEF x
    <3> QED BY <1>4, <2>1
  <2>3. SUFFICES ASSUME config.pp <= Pp(r) PROVE FALSE
    BY <1>1, <1>4
  <2>4. x * config.pp <= z
    <3> HIDE DEF x
    <3>1. CASE config.pp = Pp(r)
      <4>1. z = x * config.pp /\ x * config.pp \in Nat
        BY <1>1, <2>1, <3>1
      <4> QED BY <4>1
    <3>2. CASE config.pp < Pp(r)
      <4>1. x * config.pp + x <= x * Pp(r)
        BY <1>1, <1>4, <2>1, <3>2, ProductGrows
      <4>2. x * config.pp \in Nat /\ x * Pp(r) \in Nat
        BY <1>1, <1>4, <2>1
      <4> QED BY <2>1, <4>1, <4>2
    <3>3. config.pp = Pp(r) \/ config.pp < Pp(r)
      BY <1>1, <1>6, <2>3
    <3> QED BY <3>1, <3>2, <3>3
  <2>5. World <= z /\ r = z + y + Tp(r)
    BY <1>2, <1>4, <2>4
  <2> HIDE DEF z, y
  <2> QED BY <1>2, <1>3, <1>4, <2>1, <2>2, <2>5
<1> QED BY <1>1, <1>3, <1>4, <1>5 DEF Stages

\* There is one rank at every place, the one the saver computes.
LEMMA PlaceHasRank ==
  ASSUME Fits, NEW t \in 0..(config.tp - 1), NEW d \in 0..(config.dp - 1), NEW s \in Stages
  PROVE  /\ GlobalRank(t, d, s) \in Ranks
         /\ GlobalRank(t, d, s) = (config.tp * config.dp) * s + config.tp * d + t
         /\ Tp(GlobalRank(t, d, s)) = t /\ Dp(GlobalRank(t, d, s)) = d /\ Pp(GlobalRank(t, d, s)) = s
<1> DEFINE r == GlobalRank(t, d, s)
           x == config.tp * config.dp
           y == config.tp * d
           z == x * s
<1>1. config.tp \in Nat \ {0} /\ config.dp \in Nat \ {0} /\ config.pp \in Nat \ {0} /\ s \in Nat
  BY ConfigFields DEF Stages
<1>2. World \in Nat \ {0} /\ World = x * config.pp
  BY WorldNat
<1>3. r = z + y + t
  <2>1. (s * config.dp + d) * config.tp = (config.tp * config.dp) * s + config.tp * d
    BY <1>1
  <2> QED BY <2>1 DEF GlobalRank
<1>4. InGrid(config.tp, config.dp, s, d, t, r)
  BY <1>1, <1>3 DEF InGrid
<1>5. r \in Nat /\ Tp(r) = t /\ Dp(r) = d /\ Pp(r) = s
  BY <1>4, GridPlace DEF Tp, Dp, Pp
<1>6. r < World
  <2>1. x \in Nat \ {0} /\ y \in Nat
    BY <1>1
  <2>2. x * s + x <= x * config.pp
    <3> HIDE DEF x
    <3> QED BY <1>1, <2>1, ProductGrows DEF Stages
  <2>3. y + config.tp <= x
    BY <1>1, ProductGrows
  <2>4. z \in Nat
    <3> HIDE DEF x
    <3> QED BY <1>1, <2>1
  <2>5. z + x <= World
    BY <1>2, <2>2
  <2> HIDE DEF x, y, z, r
  <2> QED BY <1>1, <1>2, <1>3, <2>1, <2>3, <2>4, <2>5
<1>7. r \in Ranks
  BY <1>2, <1>5, <1>6 DEF Ranks
<1> QED BY <1>3, <1>5, <1>7

\* And only one.
LEMMA OnePlace ==
  ASSUME Fits, NEW q \in Ranks, NEW r \in Ranks, Tp(q) = Tp(r), Dp(q) = Dp(r), Pp(q) = Pp(r)
  PROVE  q = r
<1>1. /\ q = (config.tp * config.dp) * Pp(q) + config.tp * Dp(q) + Tp(q)
      /\ r = (config.tp * config.dp) * Pp(r) + config.tp * Dp(r) + Tp(r)
  BY Placing
<1> QED BY <1>1

\* The rank of stage s in the pipeline of r.
Along(r, s) == GlobalRank(Tp(r), Dp(r), s)

\* A pipeline has one rank of every stage.
LEMMA Pipeline ==
  ASSUME Fits, NEW r \in Ranks, NEW s \in Stages
  PROVE  /\ Along(r, s) \in PpGroup(r) /\ Along(r, s) \in Ranks
         /\ Tp(Along(r, s)) = Tp(r) /\ Dp(Along(r, s)) = Dp(r) /\ Pp(Along(r, s)) = s
         /\ \A q \in PpGroup(r) : Pp(q) = s => q = Along(r, s)
         /\ (CHOOSE q \in PpGroup(r) : Pp(q) = s) = Along(r, s)
<1>1. /\ Along(r, s) \in Ranks
      /\ Tp(Along(r, s)) = Tp(r) /\ Dp(Along(r, s)) = Dp(r) /\ Pp(Along(r, s)) = s
  BY Placing, PlaceHasRank DEF Along
<1>2. Along(r, s) \in PpGroup(r)
  BY <1>1 DEF PpGroup
<1>3. ASSUME NEW q \in PpGroup(r), Pp(q) = s PROVE q = Along(r, s)
  BY <1>1, <1>3, OnePlace DEF PpGroup
<1>4. (CHOOSE q \in PpGroup(r) : Pp(q) = s) = Along(r, s)
  BY <1>1, <1>2, <1>3
<1> QED BY <1>1, <1>2, <1>3, <1>4

\* The stages of a configuration.
LEMMA StagesAre ==
  ASSUME Fits
  PROVE  0 \in Stages /\ LastStage \in Stages /\ Stages \subseteq Nat
BY ConfigFields, SMTT(30) DEF Stages, LastStage

\* Every rank is in its groups, and a group is that of each of its ranks.
LEMMA Groups ==
  ASSUME NEW r \in Ranks
  PROVE  /\ r \in TpGroup(r) /\ r \in DpGroup(r) /\ r \in PpGroup(r) /\ r \in MpGroup(r)
         /\ r \in MicroGroup(r) /\ r \in InferGroup(r)
         /\ TpGroup(r) \subseteq Ranks /\ DpGroup(r) \subseteq Ranks /\ PpGroup(r) \subseteq Ranks
         /\ MpGroup(r) \subseteq Ranks /\ MicroGroup(r) \subseteq Ranks
         /\ InferGroup(r) \subseteq TpGroup(r)
         /\ \A q \in TpGroup(r) : TpGroup(q) = TpGroup(r)
         /\ \A q \in DpGroup(r) : DpGroup(q) = DpGroup(r)
         /\ \A q \in PpGroup(r) : PpGroup(q) = PpGroup(r)
         /\ \A q \in MpGroup(r) : MpGroup(q) = MpGroup(r)
         /\ \A q \in MicroGroup(r) : MicroGroup(q) = MicroGroup(r)
BY DEF TpGroup, DpGroup, PpGroup, MpGroup, MicroGroup, InferGroup

\* The least of a data parallel group is the one that reads the checkpoint.
LEMMA LeastOfDp ==
  ASSUME Fits, NEW r \in Ranks
  PROVE  /\ Min(DpGroup(r)) \in DpGroup(r)
         /\ Min(DpGroup(r)) \in Ranks /\ Dp(Min(DpGroup(r))) = 0
         /\ Tp(Min(DpGroup(r))) = Tp(r) /\ Pp(Min(DpGroup(r))) = Pp(r)
<1>1. DpGroup(r) \subseteq Nat /\ DpGroup(r) # {}
  BY Groups, Placing
<1> DEFINE m == Min(DpGroup(r))
           q == GlobalRank(Tp(r), 0, Pp(r))
<1>2. m \in DpGroup(r) /\ \A x \in DpGroup(r) : m <= x
  BY <1>1, MinIsLeast, Zenon
<1> HIDE DEF m
<1>3. m \in Ranks /\ Tp(m) = Tp(r) /\ Pp(m) = Pp(r)
  BY <1>2 DEF DpGroup
<1>4. config.tp \in Nat \ {0} /\ config.dp \in Nat \ {0}
  BY ConfigFields
<1>5. q \in DpGroup(r) /\ q = (config.tp * config.dp) * Pp(r) + config.tp * 0 + Tp(r)
  BY <1>4, Placing, PlaceHasRank DEF DpGroup
<1>6. m <= q
  BY <1>2, <1>5
<1>7. m = (config.tp * config.dp) * Pp(r) + config.tp * Dp(m) + Tp(r) /\ Dp(m) \in Nat
      /\ Pp(r) \in Nat /\ Tp(r) \in Nat
  BY <1>3, <1>4, Placing
<1>8. Dp(m) = 0
  <2> DEFINE x == (config.tp * config.dp) * Pp(r)
             y == config.tp * Dp(m)
  <2>1. x \in Nat /\ y \in Nat
    BY <1>4, <1>7
  <2>2. m = x + y + Tp(r) /\ q = x + 0 + Tp(r)
    BY <1>4, <1>5, <1>7
  <2>3. y <= 0
    <3> HIDE DEF x, y, q
    <3> QED BY <1>6, <1>7, <2>1, <2>2
  <2>4. Dp(m) # 0 => y > 0
    BY <1>4, <1>7
  <2> QED BY <2>3, <2>4, <2>1
<1> QED BY <1>2, <1>3, <1>8 DEF m

\* What a one to one function from 1..n onto a set says of the set.
LEMMA CountedBy ==
  ASSUME NEW S, NEW n \in Nat, NEW f, \A i \in 1..n : f[i] \in S,
         \A x \in S : \E i \in 1..n : f[i] = x,
         \A i, j \in 1..n : f[i] = f[j] => i = j
  PROVE  IsFiniteSet(S) /\ Cardinality(S) = n
<1> DEFINE g == [i \in 1..n |-> f[i]]
<1>1. IsFiniteSet(1..n) /\ Cardinality(1..n) = n
  <2>1. Cardinality(1..n) = IF 1 > n THEN 0 ELSE n - 1 + 1
    BY FS_Interval
  <2> QED BY <2>1, FS_Interval
<1>2. g \in [1..n -> S] /\ \A i \in 1..n : g[i] = f[i]
  OBVIOUS
<1> HIDE DEF g
<1>3. g \in Surjection(1..n, S)
  BY <1>2 DEF Surjection
<1>4. g \in Injection(1..n, S)
  BY <1>2 DEF Injection, IsInjective
<1> QED BY <1>1, <1>3, <1>4, FS_Surjection

\* g lists the numbers of G by size.
Lists(g, n, G) ==
  /\ n \in Nat /\ G \subseteq Nat /\ \A i \in 1..n : g[i] \in G
  /\ \A x \in G : \E i \in 1..n : g[i] = x
  /\ \A i, j \in 1..n : i < j => g[i] < g[j]

\* The element below which there are i - 1 is the one listed at i.
LEMMA ListedAt ==
  ASSUME NEW g, NEW n, NEW G, Lists(g, n, G)
  PROVE  /\ IsFiniteSet(G) /\ Cardinality(G) = n
         /\ \A i \in 1..n : (CHOOSE q \in G : Cardinality({p \in G : p < q}) = i - 1) = g[i]
<1> USE DEF Lists
<1>1. \A i \in 1..n : g[i] \in Nat
  OBVIOUS
<1>2. ASSUME NEW i \in 1..n, NEW j \in 1..n
      PROVE  (g[i] = g[j] => i = j) /\ (g[i] < g[j] <=> i < j)
  <2>1. i < j \/ i = j \/ j < i
    OBVIOUS
  <2>2. g[i] \in Nat /\ g[j] \in Nat
    BY <1>1
  <2> QED BY <2>1, <2>2
<1>3. IsFiniteSet(G) /\ Cardinality(G) = n
  BY <1>2, CountedBy, Zenon
<1>4. ASSUME NEW i \in 1..n PROVE Cardinality({p \in G : p < g[i]}) = i - 1
  <2> DEFINE B == {p \in G : p < g[i]}
  <2>1. i - 1 \in Nat /\ \A j \in 1..(i - 1) : j \in 1..n /\ j < i
    OBVIOUS
  <2>2. \A j \in 1..(i - 1) : g[j] \in B
    BY <2>1
  <2>3. ASSUME NEW x \in B PROVE \E j \in 1..(i - 1) : g[j] = x
    <3>1. PICK j \in 1..n : g[j] = x
      OBVIOUS
    <3>2. j < i
      BY <1>2, <3>1
    <3>3. j \in 1..(i - 1)
      BY <3>2
    <3> QED BY <3>1, <3>3
  <2>4. \A j, k \in 1..(i - 1) : g[j] = g[k] => j = k
    BY <1>2, <2>1
  <2> HIDE DEF B, Lists
  <2>5. Cardinality(B) = i - 1
    BY <2>1, <2>2, <2>3, <2>4, CountedBy, Zenon
  <2> QED BY <2>5 DEF B
<1>5. ASSUME NEW i \in 1..n
      PROVE  (CHOOSE q \in G : Cardinality({p \in G : p < q}) = i - 1) = g[i]
  <2> DEFINE P(q) == Cardinality({p \in G : p < q}) = i - 1
  <2>1. g[i] \in G /\ P(g[i])
    BY <1>4
  <2>2. ASSUME NEW q \in G, P(q) PROVE q = g[i]
    <3>1. PICK k \in 1..n : g[k] = q
      OBVIOUS
    <3>2. k - 1 = i - 1
      BY <1>4, <2>2, <3>1
    <3> QED BY <3>1, <3>2
  <2> HIDE DEF P
  <2>3. (CHOOSE q \in G : P(q)) = g[i]
    BY <2>1, <2>2
  <2> QED BY <2>3 DEF P
<1> QED BY <1>3, <1>5

\* n pieces of length L that have the elements of s one after the other.
CutEvenly(X, p, n, L, s) ==
  /\ EvenPieces(X, p, n, L) /\ s \in Seq(X) /\ Len(s) = L * n
  /\ \A q \in 1..n, j \in 1..L : p[q][j] = s[L * (q - 1) + j]

\* They make s.
LEMMA EvenJoin ==
  ASSUME NEW X, NEW p, NEW n, NEW L, NEW s, CutEvenly(X, p, n, L, s)
  PROVE  Joined(p, n) = s
<1> USE DEF CutEvenly
<1>1. n \in Nat /\ L \in Nat /\ \A i \in 1..n : p[i] \in Seq(X) /\ Len(p[i]) = L
  BY DEF EvenPieces, Pieces
<1> DEFINE t == Joined(p, n)
<1>2. /\ t \in Seq(X) /\ Len(t) = L * n
      /\ \A q \in 1..n : Part(t, L * (q - 1), L * q) = p[q]
  BY PiecesComeBack
<1> HIDE DEF t
<1>3. ASSUME NEW i \in 1..Len(s) PROVE t[i] = s[i]
  <2> DEFINE a == i - 1
             q == (a \div L) + 1
             j == (a % L) + 1
  <2>1. L \in Nat \ {0} /\ a \in Nat
    <3>1. Len(s) # 0
      OBVIOUS
    <3>2. L # 0
      BY <1>1, <3>1
    <3> QED BY <1>1, <3>2
  <2>2. a \div L \in Nat /\ a % L \in 0..(L - 1) /\ a = L * (a \div L) + (a % L)
    BY <2>1, Division
  <2> HIDE DEF a
  <2>3. i = L * (q - 1) + j /\ j \in 1..L
    <3> DEFINE x == L * (a \div L)
    <3>1. x \in Nat /\ a = x + (a % L) /\ L * (q - 1) = x
      BY <2>1, <2>2
    <3>2. i = a + 1
      BY DEF a
    <3> HIDE DEF x
    <3> QED BY <2>1, <2>2, <3>1, <3>2
  <2>4. q \in 1..n
    <3>1. q \in Nat \ {0}
      BY <2>2
    <3>2. SUFFICES ASSUME n < q PROVE FALSE
      BY <1>1, <3>1
    <3>3. a \div L >= n
      BY <1>1, <2>2, <3>2
    <3>4. L * (a \div L) >= L * n
      <4> DEFINE b == a \div L
      <4>1. b \in Nat /\ b >= n
        BY <2>2, <3>3
      <4> HIDE DEF b
      <4>2. b = n \/ n < b
        BY <1>1, <4>1
      <4>3. n < b => L * n + L <= L * b
        BY <1>1, <2>1, <4>1, ProductGrows
      <4>4. L * n \in Nat /\ L * b \in Nat
        BY <1>1, <4>1
      <4>5. L * b >= L * n
        BY <2>1, <4>2, <4>3, <4>4
      <4> QED BY <4>5 DEF b
    <3>5. a < L * n /\ L * n \in Nat
      BY <1>1 DEF a
    <3> DEFINE x == L * (a \div L)
               y == L * n
    <3>6. x \in Nat /\ y \in Nat /\ x >= y /\ a < y /\ a = x + (a % L)
      BY <2>1, <2>2, <3>4, <3>5
    <3> HIDE DEF x, y
    <3> QED BY <2>1, <2>2, <3>6
  <2> HIDE DEF q, j
  <2>5. p[q] = SubSeq(t, L * (q - 1) + 1, L * q)
    BY <1>2, <2>4 DEF Part
  <2>6. SubSeq(t, L * (q - 1) + 1, L * q)[j] = t[L * (q - 1) + j]
    <3> DEFINE x == L * (q - 1)
               y == L * q
    <3>1. x \in Nat /\ y = x + L
      BY <2>1, <2>4
    <3> HIDE DEF x, y
    <3>2. SubSeq(t, x + 1, y)[j] = t[x + j]
      BY <2>1, <2>3, <3>1
    <3> QED BY <3>2 DEF x, y
  <2>7. p[q][j] = s[L * (q - 1) + j]
    BY <2>3, <2>4
  <2> QED BY <2>3, <2>5, <2>6, <2>7
<1>4. t = s
  BY <1>2, <1>3, SeqEqual
<1> QED BY <1>4 DEF t

\* A rank's place among those of its micro group, and the engine's number of this group.
LEMMA MicroPlace ==
  ASSUME Fits, NEW r \in Ranks
  PROVE  /\ MicroRank(r) \in 0..(MicroDp - 1) /\ InferRank(r) \in 0..(config.infer - 1)
         /\ r \div MicroDp \in Nat
         /\ r = MicroDp * (r \div MicroDp) + MicroRank(r)
         /\ Tp(r) = MicroDp * InferRank(r) + MicroRank(r)
         /\ r \div MicroDp = config.infer * (config.dp * Pp(r) + Dp(r)) + InferRank(r)
<1> DEFINE M == MicroDp
           t == Tp(r)
           b == t \div M
           i == t % M
           c == config.dp * Pp(r) + Dp(r)
           a == config.infer * c + b
<1>1. /\ config.tp \in Nat \ {0} /\ config.dp \in Nat \ {0} /\ config.infer \in Nat \ {0}
      /\ M \in Nat \ {0} /\ config.tp = M * config.infer
  BY ConfigFields, Sizes
<1>2. /\ Pp(r) \in Nat /\ Dp(r) \in Nat /\ t \in 0..(config.tp - 1)
      /\ r = (config.tp * config.dp) * Pp(r) + config.tp * Dp(r) + t
  BY <1>1, Placing
<1>3. c \in Nat
  BY <1>1, <1>2
<1>4. b \in Nat /\ i \in 0..(M - 1) /\ t = M * b + i
  <2> HIDE DEF M
  <2>1. M \in Nat \ {0} /\ t \in Nat
    BY <1>1, <1>2
  <2> HIDE DEF t
  <2> QED BY <2>1, Division
<1>5. r = config.tp * c + t
  <2>1. (config.tp * config.dp) * Pp(r) + config.tp * Dp(r) = config.tp * c
    BY <1>1, <1>2
  <2> QED BY <1>2, <2>1
<1> HIDE DEF c, b, i, t, M
<1>6. a \in Nat /\ r = M * a + i
  <2>1. config.infer * c \in Nat
    BY <1>1, <1>3
  <2>2. config.tp * c = M * (config.infer * c)
    BY <1>1, <1>3
  <2> DEFINE x == config.infer * c
  <2>3. M * (x + b) = M * x + M * b /\ x \in Nat /\ M * x \in Nat /\ M * b \in Nat
    <3>1. x \in Nat
      BY <2>1
    <3> HIDE DEF x
    <3> QED BY <1>1, <1>4, <3>1
  <2>4. r = M * x + (M * b + i)
    BY <1>4, <1>5, <2>2
  <2>5. r = M * (x + b) + i
    <3> HIDE DEF x
    <3> DEFINE y == M * x
               z == M * b
    <3>1. y \in Nat /\ z \in Nat /\ i \in Int
      BY <1>4, <2>3
    <3>2. y + (z + i) = (y + z) + i
      <4> HIDE DEF y, z
      <4> QED BY <3>1
    <3> QED BY <2>3, <2>4, <3>2
  <2> QED BY <1>4, <2>1, <2>5
<1> HIDE DEF a
<1>7. r \div M = a /\ r % M = i
  BY <1>1, <1>4, <1>6, DivisionIsUnique
<1>8. b < config.infer
  <2>1. SUFFICES ASSUME config.infer <= b PROVE FALSE
    BY <1>1, <1>4
  <2>2. M * config.infer <= M * b
    <3>1. config.infer = b \/ config.infer < b
      BY <1>1, <1>4, <2>1
    <3>2. config.infer < b => M * config.infer + M <= M * b
      BY <1>1, <1>4, ProductGrows
    <3>3. M * config.infer \in Nat /\ M * b \in Nat
      BY <1>1, <1>4
    <3> QED BY <1>1, <3>1, <3>2, <3>3
  <2>3. t < M * config.infer /\ t \in Nat
    BY <1>1, <1>2
  <2> DEFINE y == M * config.infer
             z == M * b
  <2>4. y \in Nat /\ z \in Nat /\ y <= z /\ t < y /\ t = z + i
    BY <1>1, <1>4, <2>2, <2>3
  <2> HIDE DEF y, z
  <2> QED BY <1>4, <2>3, <2>4
<1>9. MicroRank(r) = i /\ InferRank(r) = b
  BY <1>7 DEF MicroRank, InferRank, b, t, M
<1>10. /\ i \in 0..(M - 1) /\ b \in 0..(config.infer - 1) /\ a \in Nat /\ r = M * a + i
       /\ t = M * b + i /\ a = config.infer * c + b
  BY <1>1, <1>4, <1>6, <1>8 DEF a
<1> QED BY <1>7, <1>9, <1>10 DEF M, t, c

\* Rank i of the micro group of r.
Peer(r, i) == MicroDp * (r \div MicroDp) + i

\* A micro group has one rank for every micro rank, all of one pipeline stage and one engine.
LEMMA Peers ==
  ASSUME Fits, NEW r \in Ranks
  PROVE  /\ \A i \in 0..(MicroDp - 1) :
              /\ Peer(r, i) \in MicroGroup(r) /\ Peer(r, i) \in Ranks
              /\ MicroRank(Peer(r, i)) = i
              /\ Tp(Peer(r, i)) = MicroDp * InferRank(r) + i
         /\ \A q \in MicroGroup(r) :
              /\ q = Peer(r, MicroRank(q)) /\ q \in Ranks
              /\ Dp(q) = Dp(r) /\ Pp(q) = Pp(r) /\ InferRank(q) = InferRank(r)
<1>1. /\ config.tp \in Nat \ {0} /\ config.infer \in Nat \ {0}
      /\ MicroDp \in Nat \ {0} /\ config.tp = MicroDp * config.infer
  BY ConfigFields, Sizes
<1>2. /\ InferRank(r) \in 0..(config.infer - 1)
      /\ r \div MicroDp = config.infer * (config.dp * Pp(r) + Dp(r)) + InferRank(r)
  BY MicroPlace
<1>3. Dp(r) \in 0..(config.dp - 1) /\ Pp(r) \in Stages
  BY Placing
<1>4. ASSUME NEW i \in 0..(MicroDp - 1)
      PROVE  /\ Peer(r, i) \in MicroGroup(r) /\ Peer(r, i) \in Ranks
             /\ MicroRank(Peer(r, i)) = i /\ InferRank(Peer(r, i)) = InferRank(r)
             /\ Tp(Peer(r, i)) = MicroDp * InferRank(r) + i
             /\ Dp(Peer(r, i)) = Dp(r) /\ Pp(Peer(r, i)) = Pp(r)
  <2> DEFINE t == MicroDp * InferRank(r) + i
             q == GlobalRank(t, Dp(r), Pp(r))
  <2>1. t \in 0..(config.tp - 1)
    <3>1. MicroDp * InferRank(r) + MicroDp <= MicroDp * config.infer
      BY <1>1, <1>2, ProductGrows
    <3> DEFINE x == MicroDp * InferRank(r)
    <3>2. x \in Nat
      BY <1>1, <1>2
    <3>3. x + MicroDp <= config.tp
      BY <1>1, <3>1
    <3> HIDE DEF x
    <3>4. x + i \in 0..(config.tp - 1)
      BY <1>1, <3>2, <3>3
    <3> QED BY <3>4 DEF x
  <2> HIDE DEF t
  <2>2. q \in Ranks /\ Tp(q) = t /\ Dp(q) = Dp(r) /\ Pp(q) = Pp(r)
    BY <1>3, <2>1, PlaceHasRank
  <2> HIDE DEF q
  <2>3. MicroDp * InferRank(r) + i = t
    BY DEF t
  <2>4. t \div MicroDp = InferRank(r) /\ t % MicroDp = i
    <3>1. MicroDp \in Nat \ {0} /\ InferRank(r) \in Nat
      BY <1>1, <1>2
    <3>2. (MicroDp * InferRank(r) + i) \div MicroDp = InferRank(r)
          /\ (MicroDp * InferRank(r) + i) % MicroDp = i
      BY <3>1, DivisionIsUnique
    <3> QED BY <2>3, <3>2
  <2>5. InferRank(q) = InferRank(r)
    BY <2>2, <2>4 DEF InferRank
  <2>6. /\ q \div MicroDp = config.infer * (config.dp * Pp(q) + Dp(q)) + InferRank(q)
        /\ q = MicroDp * (q \div MicroDp) + MicroRank(q)
        /\ Tp(q) = MicroDp * InferRank(q) + MicroRank(q) /\ MicroRank(q) \in 0..(MicroDp - 1)
    BY <2>2, MicroPlace
  <2>7. q \div MicroDp = r \div MicroDp
    BY <1>2, <2>2, <2>5, <2>6
  <2>8. MicroRank(q) = i
    <3> DEFINE x == MicroDp * InferRank(r)
    <3>1. x + i = x + MicroRank(q) /\ x \in Int
      BY <1>1, <1>2, <2>2, <2>3, <2>5, <2>6
    <3> HIDE DEF x
    <3> QED BY <2>6, <3>1
  <2>9. q = Peer(r, i)
    BY <2>6, <2>7, <2>8 DEF Peer
  <2>10. q \in MicroGroup(r)
    BY <2>2, <2>7 DEF MicroGroup
  <2> QED BY <2>2, <2>3, <2>5, <2>8, <2>9, <2>10
<1>5. ASSUME NEW q \in MicroGroup(r)
      PROVE  q = Peer(r, MicroRank(q)) /\ q \in Ranks /\ MicroRank(q) \in 0..(MicroDp - 1)
  <2>1. q \in Ranks /\ q \div MicroDp = r \div MicroDp
    BY DEF MicroGroup
  <2>2. q = MicroDp * (q \div MicroDp) + MicroRank(q) /\ MicroRank(q) \in 0..(MicroDp - 1)
    BY <2>1, MicroPlace
  <2> QED BY <2>1, <2>2 DEF Peer
<1> QED BY <1>4, <1>5

\* What is gathered in a micro group is what its ranks have, in the order of the micro ranks.
LEMMA GatheredMicro ==
  ASSUME Fits, NEW r \in Ranks
  PROVE  Gathered(MicroGroup(r)) = Joined([i \in 1..MicroDp |-> rank[Peer(r, i - 1)].out], MicroDp)
<1> DEFINE g == [i \in 1..MicroDp |-> Peer(r, i - 1)]
           G == MicroGroup(r)
<1>1. MicroDp \in Nat \ {0} /\ r \div MicroDp \in Nat
  BY Sizes, MicroPlace
<1>2. Lists(g, MicroDp, G)
  <2>1. G \subseteq Nat
    BY Groups, Placing
  <2>2. \A i \in 1..MicroDp : g[i] \in G
    <3>1. \A i \in 1..MicroDp : i - 1 \in 0..(MicroDp - 1)
      BY <1>1
    <3> QED BY <3>1, Peers
  <2>3. ASSUME NEW x \in G PROVE \E i \in 1..MicroDp : g[i] = x
    <3>1. x = Peer(r, MicroRank(x)) /\ x \in Ranks
      BY Peers
    <3>2. MicroRank(x) \in 0..(MicroDp - 1)
      BY <3>1, MicroPlace
    <3>3. MicroRank(x) + 1 \in 1..MicroDp /\ (MicroRank(x) + 1) - 1 = MicroRank(x)
      BY <1>1, <3>2
    <3> QED BY <3>1, <3>3
  <2>4. ASSUME NEW i \in 1..MicroDp, NEW j \in 1..MicroDp, i < j PROVE g[i] < g[j]
    <3> DEFINE x == MicroDp * (r \div MicroDp)
    <3>1. x \in Nat
      BY <1>1
    <3>2. g[i] = x + (i - 1) /\ g[j] = x + (j - 1)
      BY DEF Peer
    <3> HIDE DEF x, g
    <3> QED BY <2>4, <3>1, <3>2
  <2> HIDE DEF g, G
  <2> QED BY <1>1, <2>1, <2>2, <2>3, <2>4 DEF Lists
<1>3. /\ Cardinality(G) = MicroDp
      /\ \A i \in 1..MicroDp : (CHOOSE q \in G : Cardinality({p \in G : p < q}) = i - 1) = g[i]
  <2> HIDE DEF g, G
  <2> QED BY <1>2, ListedAt
<1>4. Gathered(G) = FlattenSeq([i \in 1..MicroDp |->
         rank[CHOOSE q \in G : Cardinality({p \in G : p < q}) = i - 1].out])
  BY <1>3 DEF Gathered
<1>5. Gathered(G) = FlattenSeq([i \in 1..MicroDp |-> rank[g[i]].out])
  <2> HIDE DEF g
  <2> DEFINE h(i) == CHOOSE q \in G : Cardinality({p \in G : p < q}) = i - 1
  <2>2. \A i \in 1..MicroDp : h(i) = g[i]
    BY <1>3
  <2> HIDE DEF h
  <2>3. [i \in 1..MicroDp |-> rank[h(i)].out] = [i \in 1..MicroDp |-> rank[g[i]].out]
    BY <2>2
  <2>1. [i \in 1..MicroDp |-> rank[CHOOSE q \in G : Cardinality({p \in G : p < q}) = i - 1].out]
         = [i \in 1..MicroDp |-> rank[g[i]].out]
    BY <2>3 DEF h
  <2> QED BY <1>4, <2>1
<1>6. [i \in 1..MicroDp |-> [j \in 1..MicroDp |-> rank[Peer(r, j - 1)].out][i]]
         = [i \in 1..MicroDp |-> rank[g[i]].out]
  OBVIOUS
<1> QED BY <1>5, <1>6 DEF Joined

\* And in a pipeline, in the order of the stages.
LEMMA GatheredPipeline ==
  ASSUME Fits, NEW r \in Ranks
  PROVE  Gathered(PpGroup(r)) = Joined([i \in 1..config.pp |-> rank[Along(r, i - 1)].out], config.pp)
<1> DEFINE n == config.pp
           g == [i \in 1..n |-> Along(r, i - 1)]
           G == PpGroup(r)
<1>1. n \in Nat \ {0} /\ config.tp \in Nat \ {0} /\ config.dp \in Nat \ {0}
  BY ConfigFields
<1>2. /\ Tp(r) \in 0..(config.tp - 1) /\ Dp(r) \in 0..(config.dp - 1) /\ Dp(r) \in Nat
      /\ \A i \in 1..n : i - 1 \in Stages
  <2>1. \A i \in 1..n : i - 1 \in Stages
    BY <1>1 DEF Stages
  <2> QED BY <1>1, <2>1, Placing
<1>3. Lists(g, n, G)
  <2>1. G \subseteq Nat
    BY Groups, Placing
  <2>2. \A i \in 1..n : g[i] \in G
    BY <1>2, Pipeline
  <2>3. ASSUME NEW x \in G PROVE \E i \in 1..n : g[i] = x
    <3>1. x \in Ranks
      BY DEF PpGroup
    <3>2. Pp(x) \in Stages /\ x = Along(r, Pp(x))
      BY <3>1, Placing, Pipeline
    <3>3. Pp(x) + 1 \in 1..n /\ (Pp(x) + 1) - 1 = Pp(x)
      BY <1>1, <3>2 DEF Stages
    <3> QED BY <3>2, <3>3
  <2>4. ASSUME NEW i \in 1..n, NEW j \in 1..n, i < j PROVE g[i] < g[j]
    <3> DEFINE x == config.tp * config.dp
               y == config.tp * Dp(r) + Tp(r)
    <3>1. x \in Nat \ {0} /\ y \in Nat
      BY <1>1, <1>2
    <3>2. g[i] = x * (i - 1) + config.tp * Dp(r) + Tp(r) /\ g[j] = x * (j - 1) + config.tp * Dp(r) + Tp(r)
      BY <1>2, PlaceHasRank DEF Along
    <3>3. g[i] = x * (i - 1) + y /\ g[j] = x * (j - 1) + y
      <4>1. config.tp * Dp(r) \in Nat /\ Tp(r) \in Nat /\ x * (i - 1) \in Nat /\ x * (j - 1) \in Nat
        <5> HIDE DEF x
        <5> QED BY <1>1, <1>2, <3>1
      <4> DEFINE a == config.tp * Dp(r)
                 u == x * (i - 1)
                 v == x * (j - 1)
      <4>2. a \in Nat /\ u \in Nat /\ v \in Nat /\ g[i] = u + a + Tp(r) /\ g[j] = v + a + Tp(r)
            /\ y = a + Tp(r) /\ Tp(r) \in Nat
        BY <3>2, <4>1
      <4>3. g[i] = u + y /\ g[j] = v + y
        <5> HIDE DEF a, u, v, y, g
        <5> QED BY <4>2
      <4> QED BY <4>3
    <3>4. x * (i - 1) + x <= x * (j - 1)
      <4> HIDE DEF x
      <4> QED BY <1>1, <2>4, <3>1, ProductGrows
    <3> DEFINE u == x * (i - 1)
               v == x * (j - 1)
    <3>5. u \in Nat /\ v \in Nat /\ u + x <= v
      <4>1. u \in Nat /\ v \in Nat
        <5> HIDE DEF x
        <5> QED BY <1>1, <3>1
      <4> QED BY <3>4, <4>1
    <3>6. g[i] = u + y /\ g[j] = v + y
      BY <3>3
    <3> HIDE DEF x, y, u, v, g
    <3> QED BY <3>1, <3>5, <3>6
  <2> HIDE DEF g, G
  <2> QED BY <1>1, <2>1, <2>2, <2>3, <2>4 DEF Lists
<1>4. /\ Cardinality(G) = n
      /\ \A i \in 1..n : (CHOOSE q \in G : Cardinality({p \in G : p < q}) = i - 1) = g[i]
  <2> HIDE DEF g, G, n
  <2> QED BY <1>3, ListedAt
<1>5. Gathered(G) = FlattenSeq([i \in 1..n |-> rank[g[i]].out])
  <2> HIDE DEF g
  <2> DEFINE h(i) == CHOOSE q \in G : Cardinality({p \in G : p < q}) = i - 1
  <2>2. \A i \in 1..n : h(i) = g[i]
    BY <1>4
  <2> HIDE DEF h
  <2>3. [i \in 1..n |-> rank[h(i)].out] = [i \in 1..n |-> rank[g[i]].out]
    BY <2>2
  <2>1. [i \in 1..n |-> rank[CHOOSE q \in G : Cardinality({p \in G : p < q}) = i - 1].out]
         = [i \in 1..n |-> rank[g[i]].out]
    BY <2>3 DEF h
  <2> QED BY <1>4, <2>1 DEF Gathered
<1>6. [i \in 1..n |-> [j \in 1..n |-> rank[Along(r, j - 1)].out][i]]
         = [i \in 1..n |-> rank[g[i]].out]
  OBVIOUS
<1> QED BY <1>5, <1>6 DEF Joined

(* Rows and pieces of tensors, one behind the other. *)

\* Piece i of k of a sequence, which makes k pieces of n.
Piece(X, s, k, n, i) ==
  s \in Seq(X) /\ k \in Nat \ {0} /\ n \in Nat /\ Len(s) = k * n /\ i \in 0..(k - 1)

\* The n elements behind place n * i.
Sliced(X, s, k, n, i) ==
  /\ SliceOf(s, k, i) \in Seq(X) /\ Len(SliceOf(s, k, i)) = n
  /\ SliceOf(s, k, i) = Part(s, n * i, n * (i + 1))
  /\ \A j \in 1..n : SliceOf(s, k, i)[j] = s[n * i + j] /\ n * i + j \in 1..Len(s)

\* They are the piece.
LEMMA SliceIs ==
  ASSUME NEW X, NEW s, NEW k, NEW n, NEW i, Piece(X, s, k, n, i)
  PROVE  Sliced(X, s, k, n, i)
<1> USE DEF Piece
<1> DEFINE a == n * i
           b == n * (i + 1)
<1>1. Len(s) \div k = n
  BY Multiple
<1>2. a \in Nat /\ b = a + n /\ b <= Len(s) /\ Len(s) \in Nat
  <2>1. a \in Nat /\ b = a + n
    OBVIOUS
  <2>2. n * (i + 1) <= n * k
    <3>1. i + 1 = k \/ i + 1 < k
      OBVIOUS
    <3>2. CASE n = 0
      BY <3>2
    <3>3. CASE n # 0 /\ i + 1 < k
      <4>1. n * (i + 1) + n <= n * k
        BY <3>3, ProductGrows
      <4>2. n * (i + 1) \in Nat /\ n * k \in Nat
        OBVIOUS
      <4> QED BY <4>1, <4>2
    <3>4. CASE i + 1 = k
      BY <3>4
    <3> QED BY <3>1, <3>2, <3>3, <3>4
  <2>3. n * k = k * n /\ k * n \in Nat
    OBVIOUS
  <2> QED BY <2>1, <2>2, <2>3
<1>3. SliceOf(s, k, i) = SubSeq(s, a + 1, b)
  <2>1. i * n = a /\ (i + 1) * n = b
    OBVIOUS
  <2> HIDE DEF a, b
  <2> QED BY <1>1, <2>1 DEF SliceOf
<1> HIDE DEF a, b
<1>4. /\ SubSeq(s, a + 1, b) \in Seq(X) /\ Len(SubSeq(s, a + 1, b)) = n
      /\ \A j \in 1..n : SubSeq(s, a + 1, b)[j] = s[a + j] /\ a + j \in 1..Len(s)
  BY <1>2, SubSeqProperties
<1> QED BY <1>3, <1>4 DEF Sliced, Part, a, b

\* The n numbers behind a.
Run(a, n) == [j \in 1..n |-> a + j]

\* Rows and what is computed for them with weights of version v.
Tagged(rows, v) == [i \in DOMAIN rows |-> <<rows[i], v>>]

\* n pieces of a tensor, behind the first a.
Cols(what, layer, a, n) == [j \in 1..n |-> <<what, layer, a + j>>]

\* A run is a sequence.
LEMMA RunSeq ==
  ASSUME NEW a \in Nat, NEW n \in Nat
  PROVE  /\ Run(a, n) \in Seq(Nat) /\ Len(Run(a, n)) = n /\ DOMAIN Run(a, n) = 1..n
         /\ \A j \in 1..n : Run(a, n)[j] = a + j
BY DEF Run

\* So is a tagged run.
LEMMA TaggedSeq ==
  ASSUME NEW a \in Nat, NEW n \in Nat, NEW v
  PROVE  /\ Tagged(Run(a, n), v) \in Seq(Nat \X {v}) /\ Len(Tagged(Run(a, n), v)) = n
         /\ DOMAIN Tagged(Run(a, n), v) = 1..n
         /\ \A j \in 1..n : Tagged(Run(a, n), v)[j] = <<a + j, v>>
<1>1. Tagged(Run(a, n), v) = [j \in 1..n |-> <<a + j, v>>]
  BY RunSeq DEF Tagged
<1> QED BY <1>1

\* A piece of a run is a run.
LEMMA RunSlice ==
  ASSUME NEW a \in Nat, NEW n \in Nat, NEW k \in Nat \ {0}, NEW i \in 0..(k - 1)
  PROVE  SliceOf(Run(a, k * n), k, i) = Run(a + n * i, n)
<1>1. k * n \in Nat /\ n * i \in Nat /\ a + n * i \in Nat
  OBVIOUS
<1> DEFINE s == Run(a, k * n)
           t == SliceOf(s, k, i)
           u == Run(a + n * i, n)
<1>2. s \in Seq(Nat) /\ Len(s) = k * n /\ \A j \in 1..Len(s) : s[j] = a + j
  BY <1>1, RunSeq
<1>3. u \in Seq(Nat) /\ Len(u) = n /\ \A j \in 1..n : u[j] = (a + n * i) + j
  BY <1>1, RunSeq
<1> HIDE DEF s, u
<1>4. /\ t \in Seq(Nat) /\ Len(t) = n
      /\ \A j \in 1..n : t[j] = s[n * i + j] /\ n * i + j \in 1..Len(s)
  <2>1. Piece(Nat, s, k, n, i)
    BY <1>2 DEF Piece
  <2>2. Sliced(Nat, s, k, n, i)
    BY <2>1, SliceIs
  <2> QED BY <2>2 DEF Sliced
<1>5. ASSUME NEW j \in 1..n PROVE t[j] = u[j]
  <2> DEFINE x == n * i
  <2>1. x \in Nat /\ t[j] = a + (x + j) /\ u[j] = (a + x) + j
    BY <1>1, <1>2, <1>3, <1>4
  <2> HIDE DEF x, t
  <2> QED BY <2>1
<1>6. t = u
  <2> HIDE DEF t
  <2> QED BY <1>3, <1>4, <1>5, SeqEqual
<1> QED BY <1>6 DEF s, t, u

\* The rows that the driver deals to a rank.
LEMMA RowsDealt ==
  ASSUME Fits, NEW r \in Ranks
  PROVE  /\ DpCompute(r) = Run(Share * Dp(r), Share)
         /\ PpAsDp(r) = Run(Portion * (Dp(r) * config.pp + Pp(r)), Portion)
<1>1. /\ config.dp \in Nat \ {0} /\ config.pp \in Nat \ {0} /\ config.rows \in Nat
      /\ Share \in Nat \ {0} /\ config.rows = config.dp * Share
      /\ Portion \in Nat \ {0} /\ config.rows = (config.pp * config.dp) * Portion
  BY ConfigFields, Sizes
<1>2. Dp(r) \in 0..(config.dp - 1) /\ Pp(r) \in 0..(config.pp - 1)
  BY Placing DEF Stages
<1>3. AllRows = Run(0, config.rows)
  BY <1>1 DEF AllRows, Run
<1>4. DpCompute(r) = Run(Share * Dp(r), Share)
  <2>1. SliceOf(Run(0, config.dp * Share), config.dp, Dp(r)) = Run(0 + Share * Dp(r), Share)
    BY <1>1, <1>2, RunSlice
  <2>2. Share * Dp(r) \in Nat
    BY <1>1, <1>2
  <2>3. 0 + Share * Dp(r) = Share * Dp(r)
    BY <2>2
  <2> QED BY <1>1, <1>3, <2>1, <2>3 DEF DpCompute
<1>5. PpAsDp(r) = Run(Portion * (Dp(r) * config.pp + Pp(r)), Portion)
  <2> DEFINE k == config.pp * config.dp
             i == Dp(r) * config.pp + Pp(r)
  <2>1. k \in Nat \ {0} /\ i \in Nat
    BY <1>1, <1>2
  <2>2. i < k
    <3>1. config.pp * Dp(r) + config.pp <= config.pp * config.dp
      BY <1>1, <1>2, ProductGrows
    <3>2. config.pp * Dp(r) = Dp(r) * config.pp
      BY <1>1, <1>2
    <3> DEFINE x == Dp(r) * config.pp
    <3>3. x \in Nat /\ x + config.pp <= k
      BY <1>1, <1>2, <3>1, <3>2
    <3> HIDE DEF x, k
    <3>4. x + Pp(r) < k
      BY <1>1, <1>2, <2>1, <3>3
    <3> QED BY <3>4 DEF x
  <2> HIDE DEF k, i
  <2>3. SliceOf(Run(0, k * Portion), k, i) = Run(0 + Portion * i, Portion)
    BY <1>1, <2>1, <2>2, RunSlice
  <2>4. Portion * i \in Nat
    BY <1>1, <2>1
  <2>5. 0 + Portion * i = Portion * i
    BY <2>4
  <2> QED BY <1>1, <1>3, <2>3, <2>5 DEF PpAsDp, k, i
<1> QED BY <1>4, <1>5

\* k tagged runs of n rows, one behind the other.
TaggedPieces(p, a, n, k, N, v) ==
  /\ a \in Nat /\ n \in Nat /\ k \in Nat /\ N = n * k
  /\ \A i \in 1..k : p[i] = Tagged(Run(a + n * (i - 1), n), v)

\* They are a tagged run.
LEMMA TaggedJoin ==
  ASSUME NEW a, NEW n, NEW k, NEW N, NEW v, NEW p, TaggedPieces(p, a, n, k, N, v)
  PROVE  Joined(p, k) = Tagged(Run(a, N), v)
<1> USE DEF TaggedPieces
<1> DEFINE X == Nat \X {v}
           s == Tagged(Run(a, n * k), v)
<1>1. n * k \in Nat /\ \A i \in 1..k : n * (i - 1) \in Nat /\ a + n * (i - 1) \in Nat
  OBVIOUS
<1>2. s \in Seq(X) /\ Len(s) = n * k /\ \A j \in 1..(n * k) : s[j] = <<a + j, v>>
  BY <1>1, TaggedSeq, ZenonT(60)
<1>3. ASSUME NEW i \in 1..k
      PROVE  /\ p[i] \in Seq(X) /\ Len(p[i]) = n
             /\ \A j \in 1..n : p[i][j] = <<(a + n * (i - 1)) + j, v>>
  <2>1. a + n * (i - 1) \in Nat
    BY <1>1
  <2> HIDE DEF X
  <2> DEFINE b == a + n * (i - 1)
  <2> HIDE DEF b
  <2>2. b \in Nat /\ p[i] = Tagged(Run(b, n), v)
    BY <2>1 DEF b
  <2>3. /\ p[i] \in Seq(X) /\ Len(p[i]) = n
        /\ \A j \in 1..n : p[i][j] = <<b + j, v>>
    <3>1. /\ Tagged(Run(b, n), v) \in Seq(X) /\ Len(Tagged(Run(b, n), v)) = n
          /\ \A j \in 1..n : Tagged(Run(b, n), v)[j] = <<b + j, v>>
      BY <2>2, TaggedSeq, Zenon DEF X
    <3> QED BY <2>2, <3>1
  <2> QED BY <2>3 DEF b
<1>4. EvenPieces(X, p, k, n)
  BY <1>3 DEF EvenPieces, Pieces
<1> HIDE DEF s, X
<1>5. ASSUME NEW i \in 1..k, NEW j \in 1..n PROVE p[i][j] = s[n * (i - 1) + j]
  <2> DEFINE x == n * (i - 1)
  <2>1. x \in Nat /\ x + n <= n * k
    <3>1. x \in Nat
      BY <1>1
    <3>2. i = k \/ i < k
      OBVIOUS
    <3>3. CASE i = k
      BY <3>3
    <3>4. CASE i - 1 < k /\ n # 0
      <4>1. n * (i - 1) + n <= n * k
        BY <3>4, ProductGrows
      <4> QED BY <3>1, <4>1
    <3> QED BY <3>1, <3>2, <3>3, <3>4
  <2>2. p[i][j] = <<(a + x) + j, v>>
    BY <1>3
  <2> HIDE DEF x
  <2>3. x + j \in 1..(n * k)
    BY <1>1, <2>1
  <2>4. s[x + j] = <<a + (x + j), v>>
    BY <1>2, <2>3
  <2>5. (a + x) + j = a + (x + j)
    BY <2>1
  <2> QED BY <2>2, <2>4, <2>5 DEF x
<1>6. Joined(p, k) = s
  <2>1. CutEvenly(X, p, k, n, s)
    BY <1>2, <1>4, <1>5 DEF CutEvenly
  <2> QED BY <2>1, EvenJoin
<1> QED BY <1>6 DEF s

\* The micro-batches of a batch that they divide make it up again.
LEMMA MicrosJoin ==
  ASSUME Fits, NEW X, NEW s \in Seq(X), Len(s) % config.micro = 0
  PROVE  FlattenSeq(MicrosOf(s)) = s
<1> DEFINE m == config.micro
           k == Len(s) \div m
           p == MicrosOf(s)
<1>1. m \in Nat \ {0} /\ Len(s) \in Nat
  BY ConfigFields
<1>2. k \in Nat /\ Len(s) = m * k
  <2> HIDE DEF m
  <2> QED BY <1>1, Divides DEF m
<1> HIDE DEF k, m
<1>3. p = [i \in 1..k |-> SubSeq(s, (i - 1) * m + 1, i * m)]
  BY DEF MicrosOf, m, k
<1>4. ASSUME NEW i \in 1..k
      PROVE  /\ p[i] \in Seq(X) /\ Len(p[i]) = m
             /\ \A j \in 1..m : p[i][j] = s[m * (i - 1) + j]
  <2> DEFINE x == m * (i - 1)
  <2>1. x \in Nat /\ (i - 1) * m = x /\ i * m = x + m
    BY <1>1, <1>2
  <2>2. x + m <= m * k
    <3>1. i - 1 \in Nat /\ i - 1 < k
      BY <1>2
    <3> QED BY <1>1, <1>2, <3>1, ProductGrows
  <2>3. p[i] = SubSeq(s, x + 1, x + m)
    BY <1>3, <2>1
  <2> HIDE DEF x
  <2>4. /\ SubSeq(s, x + 1, x + m) \in Seq(X) /\ Len(SubSeq(s, x + 1, x + m)) = m
        /\ \A j \in 1..m : SubSeq(s, x + 1, x + m)[j] = s[x + j]
    BY <1>1, <1>2, <2>1, <2>2, SubSeqProperties
  <2> QED BY <2>3, <2>4 DEF x
<1>5. EvenPieces(X, p, k, m)
  BY <1>1, <1>2, <1>4 DEF EvenPieces, Pieces
<1>6. Joined(p, k) = s
  <2> HIDE DEF p
  <2>1. CutEvenly(X, p, k, m, s)
    BY <1>2, <1>4, <1>5 DEF CutEvenly
  <2> QED BY <2>1, EvenJoin
<1>7. [i \in 1..k |-> p[i]] = p
  BY <1>3
<1> QED BY <1>6, <1>7 DEF Joined

\* Place j of piece i of k pieces of n is one of the places of the whole.
LEMMA Position ==
  ASSUME NEW n \in Nat, NEW k \in Nat, NEW i \in 1..k, NEW j \in 1..n
  PROVE  n * (i - 1) \in Nat /\ n * (i - 1) + j \in 1..(n * k)
<1> DEFINE x == n * (i - 1)
           y == n * k
<1>1. x \in Nat /\ y \in Nat
  OBVIOUS
<1>2. x + n <= y
  <2>1. i - 1 < k /\ n # 0
    OBVIOUS
  <2>2. n * (i - 1) + n <= n * k
    BY <2>1, ProductGrows
  <2> QED BY <2>2
<1> HIDE DEF x, y
<1>3. x \in Nat /\ x + j \in 1..y
  BY <1>1, <1>2
<1> QED BY <1>3 DEF x, y

\* k times n pieces of a tensor, one behind the other.
ColsPieces(p, what, layer, a, n, k, N) ==
  /\ a \in Nat /\ n \in Nat /\ k \in Nat /\ N = n * k
  /\ \A i \in 1..k : p[i] = Cols(what, layer, a + n * (i - 1), n)

\* They are a piece of it.
LEMMA ColsJoin ==
  ASSUME NEW what, NEW layer, NEW a, NEW n, NEW k, NEW N, NEW p,
         ColsPieces(p, what, layer, a, n, k, N)
  PROVE  Joined(p, k) = Cols(what, layer, a, N)
<1> USE DEF ColsPieces
<1> DEFINE X == {what} \X {layer} \X Nat
           s == Cols(what, layer, a, N)
<1>1. N \in Nat
  OBVIOUS
<1>2. s \in Seq(X) /\ Len(s) = N /\ \A j \in 1..N : s[j] = <<what, layer, a + j>>
  <2>1. N \in Nat /\ a \in Nat
    BY <1>1
  <2> HIDE DEF ColsPieces
  <2> QED BY <2>1 DEF Cols
<1>3. ASSUME NEW i \in 1..k
      PROVE  /\ p[i] \in Seq(X) /\ Len(p[i]) = n
             /\ \A j \in 1..n : p[i][j] = <<what, layer, (a + n * (i - 1)) + j>>
  <2> HIDE DEF X
  <2> DEFINE b == a + n * (i - 1)
  <2>1. b \in Nat /\ n \in Nat
    OBVIOUS
  <2> HIDE DEF b, ColsPieces
  <2>2. p[i] = Cols(what, layer, b, n)
    BY DEF b, ColsPieces
  <2>3. /\ p[i] \in Seq(X) /\ Len(p[i]) = n
        /\ \A j \in 1..n : p[i][j] = <<what, layer, b + j>>
    BY <2>1, <2>2 DEF X, Cols
  <2> QED BY <2>3 DEF b
<1>4. EvenPieces(X, p, k, n)
  BY <1>3 DEF EvenPieces, Pieces
<1> HIDE DEF s, X
<1>5. ASSUME NEW i \in 1..k, NEW j \in 1..n PROVE p[i][j] = s[n * (i - 1) + j]
  <2> DEFINE x == n * (i - 1)
  <2>1. x \in Nat /\ x + j \in 1..N
    BY Position
  <2>2. p[i][j] = <<what, layer, (a + x) + j>>
    BY <1>3
  <2> HIDE DEF x
  <2>3. s[x + j] = <<what, layer, a + (x + j)>>
    BY <1>2, <2>1
  <2>4. (a + x) + j = a + (x + j)
    BY <2>1
  <2> QED BY <2>2, <2>3, <2>4 DEF x
<1>6. CutEvenly(X, p, k, n, s)
  BY <1>2, <1>4, <1>5 DEF CutEvenly
<1>7. Joined(p, k) = s
  BY <1>6, EvenJoin
<1> QED BY <1>7 DEF s

\* Shard i of k of N columns are the n behind the first a.
Shard(N, k, n, i, a) ==
  k \in Nat \ {0} /\ n \in Nat /\ i \in 0..(k - 1) /\ N = k * n /\ a = n * i

\* They are what the loader cuts out of a tensor.
LEMMA CutOutIs ==
  ASSUME NEW what, NEW layer, NEW k, NEW n, NEW i, NEW N, NEW a, Shard(N, k, n, i, a)
  PROVE  CutOut(what, layer, N, k, i) = Cols(what, layer, a, n)
<1> USE DEF Shard
<1> DEFINE X == {what} \X {layer} \X Nat
           s == Tensor(what, layer, N)
           t == SliceOf(s, k, i)
           u == Cols(what, layer, a, n)
<1>1. N \in Nat /\ a \in Nat /\ n \in Nat
  OBVIOUS
<1>2. s \in Seq(X) /\ Len(s) = N /\ \A j \in 1..N : s[j] = <<what, layer, j>>
  <2> HIDE DEF Shard
  <2> QED BY <1>1 DEF Tensor
<1>3. u \in Seq(X) /\ Len(u) = n /\ \A j \in 1..n : u[j] = <<what, layer, a + j>>
  <2> HIDE DEF Shard
  <2> QED BY <1>1 DEF Cols
<1> HIDE DEF s, u, X
<1>4. Piece(X, s, k, n, i)
  BY <1>2 DEF Piece
<1>5. /\ t \in Seq(X) /\ Len(t) = n
      /\ \A j \in 1..n : t[j] = s[a + j] /\ a + j \in 1..N
  <2>1. Sliced(X, s, k, n, i)
    BY <1>4, SliceIs
  <2> QED BY <1>2, <2>1 DEF Sliced
<1>6. \A j \in 1..n : t[j] = u[j]
  <2> HIDE DEF t, Shard
  <2> QED BY <1>2, <1>3, <1>5
<1>7. t = u
  <2> HIDE DEF t
  <2> QED BY <1>3, <1>5, <1>6, SeqEqual
<1> QED BY <1>7 DEF CutOut, s, t, u

\* The shards of N columns that the loader cuts for the ranks of a micro group, n each.
EnginePieces(p, what, layer, N, n, b) ==
  /\ n \in Nat /\ N = config.tp * n /\ b \in 0..(config.infer - 1)
  /\ \A i \in 1..MicroDp : p[i] = CutOut(what, layer, N, config.tp, MicroDp * b + i - 1)

\* They make the engine's shard.
LEMMA EngineCols ==
  ASSUME Fits, NEW what, NEW layer, NEW N, NEW n, NEW b, NEW p,
         EnginePieces(p, what, layer, N, n, b)
  PROVE  Joined(p, MicroDp) = CutOut(what, layer, N, config.infer, b)
<1> DEFINE M == MicroDp
           m == n * M
           a == m * b
<1>1. /\ M \in Nat \ {0} /\ config.infer \in Nat \ {0} /\ config.tp \in Nat \ {0}
      /\ config.tp = M * config.infer /\ n \in Nat /\ N = config.tp * n
      /\ b \in 0..(config.infer - 1)
      /\ \A i \in 1..M : p[i] = CutOut(what, layer, N, config.tp, M * b + i - 1)
  BY ConfigFields, Sizes DEF EnginePieces
<1> HIDE DEF M
<1>2. m \in Nat /\ a \in Nat /\ N = config.infer * m
  BY <1>1
<1>3. ASSUME NEW i \in 1..M PROVE p[i] = Cols(what, layer, a + n * (i - 1), n)
  <2> DEFINE q == M * b + i - 1
             c == a + n * (i - 1)
  <2>1. M * b \in Nat /\ M * b + M <= M * config.infer
    BY <1>1, ProductGrows
  <2>2. q \in 0..(config.tp - 1)
    <3> DEFINE x == M * b
    <3>1. x \in Nat /\ x + M <= config.tp
      BY <1>1, <2>1
    <3> HIDE DEF x
    <3>2. x + i - 1 \in 0..(config.tp - 1)
      BY <1>1, <3>1
    <3> QED BY <3>2 DEF x
  <2>3. p[i] = CutOut(what, layer, N, config.tp, q)
    BY <1>1
  <2>4. c = n * q
    <3>1. n * (M * b + (i - 1)) = n * (M * b) + n * (i - 1)
      BY <1>1
    <3>2. n * (M * b) = (n * M) * b
      BY <1>1
    <3>3. q = M * b + (i - 1)
      BY <1>1
    <3> QED BY <3>1, <3>2, <3>3
  <2> HIDE DEF q, c
  <2>5. Shard(N, config.tp, n, q, c)
    BY <1>1, <2>2, <2>4 DEF Shard
  <2>6. p[i] = Cols(what, layer, c, n)
    BY <2>3, <2>5, CutOutIs
  <2> QED BY <2>6 DEF c
<1>4. Shard(N, config.infer, m, b, a)
  <2> HIDE DEF m
  <2> QED BY <1>1, <1>2 DEF Shard
<1>5. ColsPieces(p, what, layer, a, n, M, m)
  <2> HIDE DEF a
  <2> QED BY <1>1, <1>2, <1>3 DEF ColsPieces
<1> HIDE DEF m, a
<1>6. Joined(p, M) = Cols(what, layer, a, m)
  BY <1>5, ColsJoin
<1>7. CutOut(what, layer, N, config.infer, b) = Cols(what, layer, a, m)
  BY <1>4, CutOutIs
<1> QED BY <1>6, <1>7 DEF M

\* All the shards of N columns.
AllPieces(p, what, layer, N, n) ==
  /\ n \in Nat /\ N = config.tp * n
  /\ \A i \in 1..config.tp : p[i] = CutOut(what, layer, N, config.tp, i - 1)

\* They make the tensor.
LEMMA WholeCols ==
  ASSUME Fits, NEW what, NEW layer, NEW N, NEW n, NEW p, AllPieces(p, what, layer, N, n)
  PROVE  Joined(p, config.tp) = Tensor(what, layer, N)
<1>1. /\ config.tp \in Nat \ {0} /\ n \in Nat /\ N = config.tp * n
      /\ \A i \in 1..config.tp : p[i] = CutOut(what, layer, N, config.tp, i - 1)
  BY ConfigFields DEF AllPieces
<1>2. ASSUME NEW i \in 1..config.tp PROVE p[i] = Cols(what, layer, 0 + n * (i - 1), n)
  <2> DEFINE c == 0 + n * (i - 1)
  <2>1. i - 1 \in 0..(config.tp - 1)
    BY <1>1
  <2>2. c = n * (i - 1)
    BY <1>1, <2>1
  <2> HIDE DEF c
  <2>3. Shard(N, config.tp, n, i - 1, c)
    BY <1>1, <2>1, <2>2 DEF Shard
  <2>4. p[i] = Cols(what, layer, c, n)
    BY <1>1, <2>3, CutOutIs
  <2> QED BY <2>4 DEF c
<1>3. N \in Nat /\ N = n * config.tp
  BY <1>1
<1>4. ColsPieces(p, what, layer, 0, n, config.tp, N)
  BY <1>1, <1>2, <1>3 DEF ColsPieces
<1>5. Joined(p, config.tp) = Cols(what, layer, 0, N)
  BY <1>4, ColsJoin
<1>6. Cols(what, layer, 0, N) = Tensor(what, layer, N)
  BY <1>3 DEF Cols, Tensor
<1> QED BY <1>5, <1>6

\* What a shard has of the keys and of the inner columns, and the queries to a key.
PerKv == config.heads \div config.kv
KvShard == config.kv \div config.tp
InnerShard == config.inner \div config.tp

\* The shards' sizes.
LEMMA ShardSizes ==
  ASSUME Fits
  PROVE  /\ PerKv \in Nat \ {0} /\ KvShard \in Nat \ {0} /\ InnerShard \in Nat
         /\ config.kv = config.tp * KvShard /\ config.inner = config.tp * InnerShard
         /\ PerKv * KvShard \in Nat /\ config.heads = config.tp * (PerKv * KvShard)
<1>1. /\ config.tp \in Nat \ {0} /\ config.heads \in Nat \ {0} /\ config.kv \in Nat \ {0}
      /\ config.inner \in Nat
  BY ConfigFields
<1>2. config.heads % config.kv = 0 /\ config.kv % config.tp = 0 /\ config.inner % config.tp = 0
  BY ConfigsFit DEF Fits
<1>3. PerKv \in Nat \ {0} /\ config.heads = config.kv * PerKv
  BY <1>1, <1>2, Divides DEF PerKv
<1>4. KvShard \in Nat \ {0} /\ config.kv = config.tp * KvShard
  BY <1>1, <1>2, Divides DEF KvShard
<1>5. InnerShard \in Nat /\ config.inner = config.tp * InnerShard
  BY <1>1, <1>2, Divides DEF InnerShard
<1>6. PerKv * KvShard \in Nat /\ config.heads = config.tp * (PerKv * KvShard)
  <2>1. (config.tp * KvShard) * PerKv = config.tp * (PerKv * KvShard)
    BY <1>1, <1>3, <1>4
  <2> QED BY <1>3, <1>4, <2>1
<1> QED BY <1>3, <1>4, <1>5, <1>6

\* Shard i of a tensor of kind W, cut into shards of n.
CutOf(W, what, N, n, i) ==
  what \in W /\ n \in Nat /\ N = config.tp * n /\ i \in 0..(config.tp - 1)

\* n pieces of such a tensor.
PiecesOf(s, W, layer, n) == s \in Seq(W \X {layer} \X Nat) /\ Len(s) = n

\* The shards that the loader cuts of a tensor have one size.
LEMMA CutOutLength ==
  ASSUME Fits, NEW W, NEW what, NEW layer, NEW N, NEW n, NEW i, CutOf(W, what, N, n, i)
  PROVE  PiecesOf(CutOut(what, layer, N, config.tp, i), W, layer, n)
<1> USE DEF CutOf
<1> DEFINE a == n * i
<1>1. config.tp \in Nat \ {0} /\ a \in Nat
  BY ConfigFields
<1>2. Shard(N, config.tp, n, i, a)
  BY <1>1 DEF Shard
<1> HIDE DEF a
<1>3. CutOut(what, layer, N, config.tp, i) = Cols(what, layer, a, n)
  BY <1>2, CutOutIs
<1>4. Cols(what, layer, a, n) \in Seq(W \X {layer} \X Nat) /\ Len(Cols(what, layer, a, n)) = n
  BY <1>1 DEF Cols
<1> QED BY <1>3, <1>4 DEF PiecesOf

\* A sequence of m elements and one of n.
Two(X, a, b, m, n) ==
  a \in Seq(X) /\ b \in Seq(X) /\ m \in Nat /\ n \in Nat /\ Len(a) = m /\ Len(b) = n

\* They are the first m and the other n of s.
Halves(X, s, a, b, m, n) ==
  /\ s \in Seq(X) /\ Len(s) = m + n
  /\ SubSeq(s, 1, m) = a /\ SubSeq(s, m + 1, m + n) = b
  /\ \A j \in 1..m : s[j] = a[j]

\* What is laid end to end can be told apart again.
LEMMA TwoParts ==
  ASSUME NEW X, NEW a, NEW b, NEW m, NEW n, Two(X, a, b, m, n)
  PROVE  Halves(X, a \o b, a, b, m, n)
<1> DEFINE s == a \o b
           u == SubSeq(s, 1, m)
           v == SubSeq(s, m + 1, m + n)
<1>0. a \in Seq(X) /\ b \in Seq(X) /\ m \in Nat /\ n \in Nat /\ Len(a) = m /\ Len(b) = n
  BY DEF Two
<1>1. /\ s \in Seq(X) /\ Len(s) = m + n
      /\ \A j \in 1..m : s[j] = a[j]
      /\ \A j \in 1..n : s[m + j] = b[j]
  <2>1. s \in Seq(X) /\ Len(s) = m + n
    BY <1>0, ConcatProperties
  <2>2. \A j \in 1..(m + n) : s[j] = IF j <= m THEN a[j] ELSE b[j - m]
    BY <1>0, ConcatProperties
  <2>3. ASSUME NEW j \in 1..m PROVE s[j] = a[j]
    BY <1>0, <2>2
  <2>4. ASSUME NEW j \in 1..n PROVE s[m + j] = b[j]
    <3>1. m + j \in 1..(m + n) /\ ~ (m + j <= m) /\ (m + j) - m = j
      BY <1>0
    <3> QED BY <2>2, <3>1
  <2> QED BY <2>1, <2>3, <2>4
<1> HIDE DEF s
<1>2. u \in Seq(X) /\ Len(u) = m /\ \A j \in 1..m : u[j] = s[j]
  BY <1>0, <1>1, SubSeqProperties
<1>3. v \in Seq(X) /\ Len(v) = n /\ \A j \in 1..n : v[j] = s[m + j]
  <2>1. Len(v) = n /\ v \in Seq(X) /\ \A j \in 1..n : v[j] = s[(m + 1) + j - 1]
    BY <1>0, <1>1, SubSeqProperties
  <2>2. \A j \in 1..n : (m + 1) + j - 1 = m + j
    BY <1>0
  <2> HIDE DEF v
  <2> QED BY <2>1, <2>2
<1> HIDE DEF u, v
<1>4. u = a /\ v = b
  BY <1>0, <1>1, <1>2, <1>3, SeqEqual
<1> QED BY <1>1, <1>4 DEF s, u, v, Halves

\* A sequence of m elements and two of n.
Three(X, a, b, c, m, n) == Two(X, a, b, m, n) /\ c \in Seq(X) /\ Len(c) = n

\* They are the first m, the next n and the last n of s.
Thirds(X, s, a, b, c, m, n) ==
  /\ s \in Seq(X) /\ Len(s) = m + n + n
  /\ SubSeq(s, 1, m) = a /\ SubSeq(s, m + 1, m + n) = b
  /\ SubSeq(s, m + n + 1, m + n + n) = c

\* So can three parts.
LEMMA ThreeParts ==
  ASSUME NEW X, NEW a, NEW b, NEW c, NEW m, NEW n, Three(X, a, b, c, m, n)
  PROVE  Thirds(X, (a \o b) \o c, a, b, c, m, n)
<1> DEFINE d == a \o b
           s == d \o c
           mn == m + n
<1>0. m \in Nat /\ n \in Nat /\ mn \in Nat
  BY DEF Two, Three
<1>1. Halves(X, d, a, b, m, n)
  BY TwoParts DEF Three
<1>2. d \in Seq(X) /\ Len(d) = mn /\ SubSeq(d, 1, m) = a /\ SubSeq(d, m + 1, m + n) = b
  BY <1>1 DEF Halves
<1> HIDE DEF d
<1>3. Two(X, d, c, mn, n)
  BY <1>0, <1>2 DEF Two, Three
<1> HIDE DEF mn
<1>4. Halves(X, s, d, c, mn, n)
  BY <1>3, TwoParts
<1>5. /\ s \in Seq(X) /\ Len(s) = mn + n
      /\ SubSeq(s, mn + 1, mn + n) = c /\ \A j \in 1..mn : s[j] = d[j]
  BY <1>4 DEF Halves
<1> HIDE DEF s
<1>6. SubSeq(s, 1, m) = a
  <2> DEFINE u == SubSeq(s, 1, m)
             v == SubSeq(d, 1, m)
  <2>1. u \in Seq(X) /\ Len(u) = m /\ \A j \in 1..m : u[j] = s[j]
    BY <1>0, <1>5, SubSeqProperties DEF mn
  <2>2. v \in Seq(X) /\ Len(v) = m /\ \A j \in 1..m : v[j] = d[j]
    BY <1>0, <1>2, SubSeqProperties DEF mn
  <2>3. \A j \in 1..m : j \in 1..mn
    BY <1>0 DEF mn
  <2> HIDE DEF u, v
  <2>4. u = v
    BY <1>5, <2>1, <2>2, <2>3, SeqEqual
  <2> QED BY <1>2, <2>4 DEF u, v
<1>7. SubSeq(s, m + 1, m + n) = b
  <2> DEFINE u == SubSeq(s, m + 1, m + n)
             v == SubSeq(d, m + 1, m + n)
  <2>1. u \in Seq(X) /\ Len(u) = n /\ \A j \in 1..n : u[j] = s[(m + 1) + j - 1]
    BY <1>0, <1>5, SubSeqProperties DEF mn
  <2>2. v \in Seq(X) /\ Len(v) = n /\ \A j \in 1..n : v[j] = d[(m + 1) + j - 1]
    BY <1>0, <1>2, SubSeqProperties DEF mn
  <2>3. \A j \in 1..n : (m + 1) + j - 1 \in 1..mn
    BY <1>0 DEF mn
  <2> HIDE DEF u, v
  <2>4. u = v
    BY <1>5, <2>1, <2>2, <2>3, SeqEqual
  <2> QED BY <1>2, <2>4 DEF u, v
<1>8. Len(s) = m + n + n /\ SubSeq(s, m + n + 1, m + n + n) = c
  BY <1>0, <1>5 DEF mn
<1> QED BY <1>5, <1>6, <1>7, <1>8 DEF s, d, Thirds

(* The names of the tensors, and the shards of those of every kind. *)

\* The kinds of names that a stage has.
LEMMA NameKinds ==
  ASSUME Fits, NEW s \in Stages, NEW n \in NamesOf(s)
  PROVE  \/ n[1] \in LayerKinds /\ n[2] \in 0..(LayersPerStage - 1) /\ n = <<n[1], n[2]>>
         \/ n = <<"embed", 0>> /\ s = 0
         \/ n = <<"head", 0>> /\ s = LastStage
<1>1. CASE n \in LayerKinds \X (0..(LayersPerStage - 1))
  BY <1>1
<1>2. CASE n \in IF s = 0 THEN {<<"embed", 0>>} ELSE {}
  BY <1>2
<1>3. CASE n \in IF s = LastStage THEN {<<"head", 0>>} ELSE {}
  BY <1>3
<1> QED BY <1>1, <1>2, <1>3 DEF NamesOf

\* The place of layer j of stage s.
LEMMA PlaceOfLayer ==
  ASSUME Fits, NEW s \in Stages, NEW j \in 0..(LayersPerStage - 1)
  PROVE  j + s * LayersPerStage \in 0..(config.layers - 1) /\ LayerMap[j + s * LayersPerStage] = <<s, j>>
<1> DEFINE L == LayersPerStage
           x == L * s
<1>1. L \in Nat \ {0} /\ s \in Nat /\ config.pp \in Nat \ {0} /\ s < config.pp /\ config.layers = config.pp * L
  <2>1. L \in Nat /\ config.layers = config.pp * L
    BY Sizes
  <2>2. config.pp \in Nat \ {0}
    BY ConfigFields
  <2> HIDE DEF L
  <2>3. j \in 0..(L - 1)
    BY DEF L
  <2>4. L # 0
    BY <2>1, <2>3
  <2>5. s \in Nat /\ s < config.pp
    BY <2>2 DEF Stages
  <2> QED BY <2>1, <2>2, <2>4, <2>5
<1>2. x + L <= L * config.pp /\ x \in Nat
  BY <1>1, ProductGrows
<1>3. (x + j) \div L = s /\ (x + j) % L = j
  BY <1>1, DivisionIsUnique
<1>4. s * L = x /\ config.pp * L = L * config.pp
  BY <1>1
<1> HIDE DEF x
<1>5. config.layers \in Nat /\ x + L <= config.layers
  BY <1>1, <1>2, <1>4, ConfigFields
<1>6. j + x \in 0..(config.layers - 1) /\ j + x = x + j
  BY <1>1, <1>2, <1>5
<1> HIDE DEF L
<1>7. LayerMap[j + x] = <<s, j>>
  BY <1>3, <1>6 DEF LayerMap, L
<1> QED BY <1>4, <1>6, <1>7 DEF L

\* The name in the engine says the stage, and the name there.
LEMMA NameBack ==
  ASSUME Fits, NEW s \in Stages, NEW n \in NamesOf(s)
  PROVE  /\ NormalName(n, s) \in ModelNames /\ NormalName(n, s)[1] = n[1]
         /\ StageOf(NormalName(n, s)) = s /\ LocalName(NormalName(n, s)) = n
<1> DEFINE name == NormalName(n, s)
<1>1. name \in ModelNames
  BY DEF ModelNames
<1>2. s \in Nat /\ LayersPerStage \in Nat
  BY Sizes, StagesAre
<1>3. name[1] = n[1] /\ StageOf(name) = s
  <2>1. CASE n[1] \in LayerKinds /\ n[2] \in 0..(LayersPerStage - 1)
    <3>1. name[1] = n[1] /\ name[2] = n[2] + s * LayersPerStage
      BY <2>1 DEF NormalName
    <3>2. LayerMap[name[2]] = <<s, n[2]>>
      BY <2>1, <3>1, PlaceOfLayer
    <3>3. n[1] # "embed" /\ n[1] # "head"
      BY <2>1 DEF LayerKinds
    <3> HIDE DEF name
    <3> QED BY <3>1, <3>2, <3>3 DEF StageOf
  <2>2. CASE n = <<"embed", 0>> /\ s = 0
    BY <2>2 DEF NormalName, LayerKinds, StageOf
  <2>3. CASE n = <<"head", 0>> /\ s = LastStage
    BY <2>3 DEF NormalName, LayerKinds, StageOf
  <2> QED BY <2>1, <2>2, <2>3, NameKinds
<1>4. ASSUME NEW m \in NamesOf(s), NormalName(m, s) = name PROVE m = n
  <2>1. CASE n[1] \in LayerKinds /\ n[2] \in 0..(LayersPerStage - 1) /\ n = <<n[1], n[2]>>
    <3>1. name = <<n[1], n[2] + s * LayersPerStage>>
      BY <2>1 DEF NormalName
    <3>2. m[1] \in LayerKinds /\ m[2] \in 0..(LayersPerStage - 1) /\ m = <<m[1], m[2]>>
      <4>1. CASE m = <<"embed", 0>>
        BY <2>1, <3>1, <4>1, <1>4 DEF NormalName, LayerKinds
      <4>2. CASE m = <<"head", 0>>
        BY <2>1, <3>1, <4>2, <1>4 DEF NormalName, LayerKinds
      <4> QED BY <4>1, <4>2, NameKinds
    <3>3. name = <<m[1], m[2] + s * LayersPerStage>>
      BY <3>2, <1>4 DEF NormalName
    <3> DEFINE x == s * LayersPerStage
    <3>4. x \in Nat
      BY <1>2
    <3>5. m[1] = n[1] /\ m[2] + x = n[2] + x
      BY <3>1, <3>3
    <3> HIDE DEF x
    <3>6. m[2] = n[2]
      BY <2>1, <3>2, <3>4, <3>5
    <3> QED BY <2>1, <3>2, <3>5, <3>6
  <2>2. CASE n = <<"embed", 0>> \/ n = <<"head", 0>>
    <3>1. name = n /\ name[1] \notin LayerKinds
      BY <2>2 DEF NormalName, LayerKinds
    <3>2. m[1] \notin LayerKinds
      BY <3>1, <1>4 DEF NormalName
    <3>3. NormalName(m, s) = m
      BY <3>2 DEF NormalName
    <3> QED BY <3>1, <3>3, <1>4
  <2> QED BY <2>1, <2>2, NameKinds
<1> HIDE DEF name
<1>5. (CHOOSE m \in NamesOf(s) : NormalName(m, s) = name) = n
  BY <1>4 DEF name
<1>6. LocalName(name) = n
  BY <1>3, <1>5 DEF LocalName
<1> QED BY <1>1, <1>3, <1>6 DEF name

\* A name in the engine is that of a tensor of a stage.
LEMMA ModelNameIs ==
  ASSUME Fits, NEW name \in ModelNames
  PROVE  /\ StageOf(name) \in Stages /\ LocalName(name) \in NamesOf(StageOf(name))
         /\ NormalName(LocalName(name), StageOf(name)) = name /\ LocalName(name)[1] = name[1]
<1>1. PICK s \in Stages : \E n \in NamesOf(s) : name = NormalName(n, s)
  BY DEF ModelNames
<1>2. PICK n \in NamesOf(s) : name = NormalName(n, s)
  BY <1>1
<1>3. StageOf(name) = s /\ LocalName(name) = n /\ name[1] = n[1]
  BY <1>2, NameBack
<1> QED BY <1>2, <1>3

\* The parts of the shards that the loader cuts for rank i of the tensor ranks.
LEMMA QkvParts ==
  ASSUME Fits, NEW l, NEW i \in 0..(config.tp - 1)
  PROVE  Thirds({"q", "k", "v"} \X {l} \X Nat, QkvShard(l, config.tp, i),
                CutOut("q", l, config.heads, config.tp, i), CutOut("k", l, config.kv, config.tp, i),
                CutOut("v", l, config.kv, config.tp, i), PerKv * KvShard, KvShard)
<1> DEFINE W == {"q", "k", "v"}
           X == W \X {l} \X Nat
           a == CutOut("q", l, config.heads, config.tp, i)
           b == CutOut("k", l, config.kv, config.tp, i)
           c == CutOut("v", l, config.kv, config.tp, i)
           m == PerKv * KvShard
<1>1. m \in Nat /\ KvShard \in Nat /\ config.kv = config.tp * KvShard /\ config.heads = config.tp * m
  BY ShardSizes
<1> HIDE DEF m
<1>2. a \in Seq(X) /\ Len(a) = m
  <2>1. CutOf(W, "q", config.heads, m, i)
    BY <1>1 DEF CutOf
  <2>2. PiecesOf(a, W, l, m)
    BY <2>1, CutOutLength
  <2> QED BY <2>2 DEF PiecesOf
<1>3. b \in Seq(X) /\ Len(b) = KvShard
  <2>1. CutOf(W, "k", config.kv, KvShard, i)
    BY <1>1 DEF CutOf
  <2>2. PiecesOf(b, W, l, KvShard)
    BY <2>1, CutOutLength
  <2> QED BY <2>2 DEF PiecesOf
<1>4. c \in Seq(X) /\ Len(c) = KvShard
  <2>1. CutOf(W, "v", config.kv, KvShard, i)
    BY <1>1 DEF CutOf
  <2>2. PiecesOf(c, W, l, KvShard)
    BY <2>1, CutOutLength
  <2> QED BY <2>2 DEF PiecesOf
<1>5. QkvShard(l, config.tp, i) = (a \o b) \o c
  BY DEF QkvShard
<1> HIDE DEF a, b, c, X
<1>6. Three(X, a, b, c, m, KvShard)
  BY <1>1, <1>2, <1>3, <1>4 DEF Two, Three
<1>7. Thirds(X, (a \o b) \o c, a, b, c, m, KvShard)
  BY <1>6, ThreeParts
<1> QED BY <1>5, <1>7 DEF a, b, c, m, X, W

\* The halves of a fused gate and up shard are the shards of the two.
LEMMA GateUpParts ==
  ASSUME Fits, NEW l, NEW i \in 0..(config.tp - 1)
  PROVE  Halves({"gate", "up"} \X {l} \X Nat, GateUpShard(l, config.tp, i),
                CutOut("gate", l, config.inner, config.tp, i), CutOut("up", l, config.inner, config.tp, i),
                InnerShard, InnerShard)
<1> DEFINE W == {"gate", "up"}
           X == W \X {l} \X Nat
           a == CutOut("gate", l, config.inner, config.tp, i)
           b == CutOut("up", l, config.inner, config.tp, i)
<1>1. InnerShard \in Nat /\ config.inner = config.tp * InnerShard
  BY ShardSizes
<1>2. a \in Seq(X) /\ Len(a) = InnerShard
  <2>1. CutOf(W, "gate", config.inner, InnerShard, i)
    BY <1>1 DEF CutOf
  <2>2. PiecesOf(a, W, l, InnerShard)
    BY <2>1, CutOutLength
  <2> QED BY <2>2 DEF PiecesOf
<1>3. b \in Seq(X) /\ Len(b) = InnerShard
  <2>1. CutOf(W, "up", config.inner, InnerShard, i)
    BY <1>1 DEF CutOf
  <2>2. PiecesOf(b, W, l, InnerShard)
    BY <2>1, CutOutLength
  <2> QED BY <2>2 DEF PiecesOf
<1>4. GateUpShard(l, config.tp, i) = a \o b
  BY DEF GateUpShard
<1> HIDE DEF a, b, X
<1>5. Two(X, a, b, InnerShard, InnerShard)
  BY <1>1, <1>2, <1>3 DEF Two
<1>6. Halves(X, a \o b, a, b, InnerShard, InnerShard)
  BY <1>5, TwoParts
<1> QED BY <1>4, <1>6 DEF a, b, X, W

\* What a list of k shards gives from one place to another.
Gather(sh, k, from, to) == Joined([i \in 1..k |-> SubSeq(sh[i], from, to)], k)

\* It is what the concatenation does with all the shards.
LEMMA GatherIs ==
  ASSUME NEW sh, NEW k, NEW from, NEW to, DOMAIN sh = 1..k
  PROVE  FlattenSeq([i \in DOMAIN sh |-> SubSeq(sh[i], from, to)]) = Gather(sh, k, from, to)
<1> DEFINE p == [i \in 1..k |-> SubSeq(sh[i], from, to)]
<1>1. [i \in 1..k |-> p[i]] = p
  OBVIOUS
<1>2. Joined(p, k) = FlattenSeq(p)
  BY <1>1 DEF Joined
<1> QED BY <1>2 DEF Gather

\* k shards of m queries and of a size of keys and values.
QkvShards(n, sh, k, m, size) ==
  /\ n[1] = "qkv" /\ DOMAIN sh = 1..k /\ size \in Nat /\ config.heads \div config.kv \in Nat
  /\ m \in Nat /\ m = (config.heads \div config.kv) * size
  /\ Len(sh[1]) = m + size + size

\* What DefaultTpConcat makes of the shards of one kind.
LEMMA ConcatQkv ==
  ASSUME NEW n, NEW sh, NEW k, NEW m, NEW size, QkvShards(n, sh, k, m, size)
  PROVE  DefaultTpConcat(n, sh)
           = (Gather(sh, k, 1, m) \o Gather(sh, k, m + 1, m + size))
               \o Gather(sh, k, m + size + 1, m + size + size)
<1> USE DEF QkvShards
<1> DEFINE c == config.heads \div config.kv
<1>1. c \in Nat /\ m = c * size
  OBVIOUS
<1> HIDE DEF c
<1>2. (c + 1) * size = m + size /\ (c + 2) * size = m + size + size
  BY <1>1
<1>3. (m + size + size) \div (c + 2) = size
  <2>1. c + 2 \in Nat \ {0} /\ (c + 2) * size = m + size + size
    BY <1>1, <1>2
  <2> QED BY <2>1, Multiple
<1>4. Len(sh[1]) \div (c + 2) = size
  BY <1>3
<1> DEFINE G(from, to) == FlattenSeq([i \in DOMAIN sh |-> SubSeq(sh[i], from, to)])
<1>5. DefaultTpConcat(n, sh) = (G(1, c * size) \o G(c * size + 1, (c + 1) * size))
                                 \o G((c + 1) * size + 1, (c + 2) * size)
  <2>1. DefaultTpConcat(n, sh) = LET z == Len(sh[1]) \div (c + 2) IN
          (G(1, c * z) \o G(c * z + 1, (c + 1) * z)) \o G((c + 1) * z + 1, (c + 2) * z)
    BY DEF DefaultTpConcat, c
  <2> HIDE DEF G
  <2> QED BY <1>4, <2>1
<1>6. \A from, to : G(from, to) = Gather(sh, k, from, to)
  BY GatherIs
<1> HIDE DEF G
<1> QED BY <1>1, <1>2, <1>5, <1>6

\* The halves of fused gate and up shards are gathered one after the other.
LEMMA ConcatGateUp ==
  ASSUME NEW n, n[1] = "gate_up", NEW sh, NEW k, DOMAIN sh = 1..k, NEW m \in Nat,
         Len(sh[1]) = m + m
  PROVE  DefaultTpConcat(n, sh) = Gather(sh, k, 1, m) \o Gather(sh, k, m + 1, m + m)
<1>1. Len(sh[1]) \div 2 = m /\ 2 * m = m + m
  OBVIOUS
<1> DEFINE G(from, to) == FlattenSeq([i \in DOMAIN sh |-> SubSeq(sh[i], from, to)])
<1>2. DefaultTpConcat(n, sh) = G(1, m) \o G(m + 1, m + m)
  <2>1. DefaultTpConcat(n, sh) = LET half == Len(sh[1]) \div 2 IN G(1, half) \o G(half + 1, 2 * half)
    BY DEF DefaultTpConcat
  <2> HIDE DEF G
  <2> QED BY <1>1, <2>1
<1>3. \A from, to : G(from, to) = Gather(sh, k, from, to)
  BY GatherIs
<1> HIDE DEF G
<1> QED BY <1>2, <1>3

\* The shards of any other tensor are laid end to end.
LEMMA ConcatOther ==
  ASSUME NEW n, n[1] # "qkv", n[1] # "gate_up", NEW sh, NEW k, sh = [i \in 1..k |-> sh[i]]
  PROVE  DefaultTpConcat(n, sh) = Joined(sh, k)
<1>1. DefaultTpConcat(n, sh) = FlattenSeq(sh)
  BY DEF DefaultTpConcat
<1> QED BY <1>1 DEF Joined

\* The shards of a tensor that the ranks of micro group b of a tensor parallel group hold.
EngineShards(sh, name, b) ==
  /\ b \in 0..(config.infer - 1)
  /\ sh = [i \in 1..MicroDp |-> ShardOf(name, config.tp, MicroDp * b + i - 1)]

\* Their numbers are those of tensor ranks.
LEMMA EngineShardNumbers ==
  ASSUME Fits, NEW b \in 0..(config.infer - 1)
  PROVE  \A i \in 1..MicroDp : MicroDp * b + i - 1 \in 0..(config.tp - 1)
<1>1. MicroDp \in Nat \ {0} /\ config.tp = MicroDp * config.infer
  BY Sizes
<1>2. config.infer \in Nat \ {0} /\ b \in Nat /\ b < config.infer
  BY ConfigFields
<1>3. MicroDp * b + MicroDp <= MicroDp * config.infer
  BY <1>1, <1>2, ProductGrows
<1> DEFINE x == MicroDp * b
<1>4. x \in Nat /\ x + MicroDp <= config.tp /\ config.tp \in Nat
  BY <1>1, <1>2, <1>3, ConfigFields
<1> HIDE DEF x
<1> SUFFICES \A i \in 1..MicroDp : x + i - 1 \in 0..(config.tp - 1)
  BY DEF x
<1> QED BY <1>1, <1>4

\* From one place to another the shards of an engine have their parts of one tensor.
EngineParts(sh, from, to, what, l, N, n, b) ==
  /\ n \in Nat /\ N = config.tp * n /\ b \in 0..(config.infer - 1)
  /\ \A i \in 1..MicroDp : SubSeq(sh[i], from, to) = CutOut(what, l, N, config.tp, MicroDp * b + i - 1)

\* Together they are the engine's part of it.
LEMMA EngineGathers ==
  ASSUME Fits, NEW sh, NEW from, NEW to, NEW what, NEW l, NEW N, NEW n, NEW b,
         EngineParts(sh, from, to, what, l, N, n, b)
  PROVE  Gather(sh, MicroDp, from, to) = CutOut(what, l, N, config.infer, b)
<1> DEFINE p == [i \in 1..MicroDp |-> SubSeq(sh[i], from, to)]
<1>1. EnginePieces(p, what, l, N, n, b)
  BY DEF EngineParts, EnginePieces
<1> HIDE DEF p
<1>2. Joined(p, MicroDp) = CutOut(what, l, N, config.infer, b)
  BY <1>1, EngineCols
<1> QED BY <1>2 DEF Gather, p

\* The shards of an engine, put together.
LEMMA EngineConcats ==
  ASSUME Fits, NEW name, name[1] # "norm", NEW n, n[1] = name[1], NEW sh, NEW b,
         EngineShards(sh, name, b)
  PROVE  DefaultTpConcat(n, sh) = ShardOf(name, config.infer, b)
<1> DEFINE l == name[2]
           N(i) == MicroDp * b + i - 1
<1>1. /\ b \in 0..(config.infer - 1) /\ DOMAIN sh = 1..MicroDp
      /\ sh = [i \in 1..MicroDp |-> sh[i]]
      /\ \A i \in 1..MicroDp : sh[i] = ShardOf(name, config.tp, N(i))
  BY DEF EngineShards
<1>2. \A i \in 1..MicroDp : N(i) \in 0..(config.tp - 1)
  BY <1>1, EngineShardNumbers
<1>3. 1 \in 1..MicroDp
  BY Sizes
<1>4. CASE n[1] = "qkv"
  <2> DEFINE m == PerKv * KvShard
             X == {"q", "k", "v"} \X {l} \X Nat
             q(i) == CutOut("q", l, config.heads, config.tp, N(i))
             k(i) == CutOut("k", l, config.kv, config.tp, N(i))
             v(i) == CutOut("v", l, config.kv, config.tp, N(i))
  <2>1. PerKv \in Nat /\ KvShard \in Nat /\ m \in Nat /\ config.heads = config.tp * m /\ config.kv = config.tp * KvShard
    BY ShardSizes
  <2>2. \A i \in 1..MicroDp : sh[i] = QkvShard(l, config.tp, N(i))
    BY <1>1, <1>4 DEF ShardOf
  <2> HIDE DEF N
  <2>3. \A i \in 1..MicroDp : Thirds(X, QkvShard(l, config.tp, N(i)), q(i), k(i), v(i), m, KvShard)
    BY <1>2, QkvParts
  <2> HIDE DEF X, q, k, v
  <2>4. \A i \in 1..MicroDp : Thirds(X, sh[i], q(i), k(i), v(i), m, KvShard)
    BY <2>2, <2>3
  <2>5. Len(sh[1]) = m + KvShard + KvShard
    BY <1>3, <2>4 DEF Thirds
  <2>6. m = (config.heads \div config.kv) * KvShard /\ config.heads \div config.kv \in Nat
    BY <2>1 DEF PerKv
  <2> HIDE DEF m
  <2>7. DefaultTpConcat(n, sh)
           = (Gather(sh, MicroDp, 1, m) \o Gather(sh, MicroDp, m + 1, m + KvShard))
               \o Gather(sh, MicroDp, m + KvShard + 1, m + KvShard + KvShard)
    <3>1. QkvShards(n, sh, MicroDp, m, KvShard)
      BY <1>1, <1>4, <2>1, <2>5, <2>6 DEF QkvShards
    <3> QED BY <3>1, ConcatQkv
  <2>8. Gather(sh, MicroDp, 1, m) = CutOut("q", l, config.heads, config.infer, b)
    <3>1. EngineParts(sh, 1, m, "q", l, config.heads, m, b)
      BY <1>1, <2>1, <2>4 DEF EngineParts, Thirds, q, N
    <3> QED BY <3>1, EngineGathers
  <2>9. Gather(sh, MicroDp, m + 1, m + KvShard) = CutOut("k", l, config.kv, config.infer, b)
    <3>1. EngineParts(sh, m + 1, m + KvShard, "k", l, config.kv, KvShard, b)
      BY <1>1, <2>1, <2>4 DEF EngineParts, Thirds, k, N
    <3> QED BY <3>1, EngineGathers
  <2>10. Gather(sh, MicroDp, m + KvShard + 1, m + KvShard + KvShard) = CutOut("v", l, config.kv, config.infer, b)
    <3>1. EngineParts(sh, m + KvShard + 1, m + KvShard + KvShard, "v", l, config.kv, KvShard, b)
      BY <1>1, <2>1, <2>4 DEF EngineParts, Thirds, v, N
    <3> QED BY <3>1, EngineGathers
  <2>11. ShardOf(name, config.infer, b) = QkvShard(l, config.infer, b)
    BY <1>4 DEF ShardOf
  <2> QED BY <2>7, <2>8, <2>9, <2>10, <2>11 DEF QkvShard
<1>5. CASE n[1] = "gate_up"
  <2> DEFINE X == {"gate", "up"} \X {l} \X Nat
             g(i) == CutOut("gate", l, config.inner, config.tp, N(i))
             u(i) == CutOut("up", l, config.inner, config.tp, N(i))
             m == InnerShard
  <2>1. m \in Nat /\ config.inner = config.tp * m
    BY ShardSizes
  <2>2. \A i \in 1..MicroDp : sh[i] = GateUpShard(l, config.tp, N(i))
    BY <1>1, <1>5 DEF ShardOf
  <2> HIDE DEF N
  <2>3. \A i \in 1..MicroDp : Halves(X, GateUpShard(l, config.tp, N(i)), g(i), u(i), m, m)
    BY <1>2, GateUpParts
  <2> HIDE DEF X, g, u
  <2>4. \A i \in 1..MicroDp : Halves(X, sh[i], g(i), u(i), m, m)
    BY <2>2, <2>3
  <2>5. Len(sh[1]) = m + m
    BY <1>3, <2>4 DEF Halves
  <2> HIDE DEF m
  <2>6. DefaultTpConcat(n, sh) = Gather(sh, MicroDp, 1, m) \o Gather(sh, MicroDp, m + 1, m + m)
    BY <1>1, <1>5, <2>1, <2>5, ConcatGateUp
  <2>7. Gather(sh, MicroDp, 1, m) = CutOut("gate", l, config.inner, config.infer, b)
    <3>1. EngineParts(sh, 1, m, "gate", l, config.inner, m, b)
      BY <1>1, <2>1, <2>4 DEF EngineParts, Halves, g, N
    <3> QED BY <3>1, EngineGathers
  <2>8. Gather(sh, MicroDp, m + 1, m + m) = CutOut("up", l, config.inner, config.infer, b)
    <3>1. EngineParts(sh, m + 1, m + m, "up", l, config.inner, m, b)
      BY <1>1, <2>1, <2>4 DEF EngineParts, Halves, u, N
    <3> QED BY <3>1, EngineGathers
  <2>9. ShardOf(name, config.infer, b) = GateUpShard(l, config.infer, b)
    BY <1>5 DEF ShardOf
  <2> QED BY <2>6, <2>7, <2>8, <2>9 DEF GateUpShard
<1>6. CASE n[1] # "qkv" /\ n[1] # "gate_up"
  <2>1. InnerShard \in Nat /\ config.inner = config.tp * InnerShard
    BY ShardSizes
  <2>2. DefaultTpConcat(n, sh) = Joined(sh, MicroDp)
    BY <1>1, <1>6, ConcatOther
  <2>3. \A i \in 1..MicroDp : sh[i] = CutOut(name[1], l, config.inner, config.tp, N(i))
    BY <1>1, <1>6 DEF ShardOf
  <2>4. EnginePieces(sh, name[1], l, config.inner, InnerShard, b)
    BY <1>1, <2>1, <2>3 DEF EnginePieces
  <2>5. Joined(sh, MicroDp) = CutOut(name[1], l, config.inner, config.infer, b)
    BY <2>4, EngineCols
  <2>6. ShardOf(name, config.infer, b) = CutOut(name[1], l, config.inner, config.infer, b)
    BY <1>6 DEF ShardOf
  <2> QED BY <2>2, <2>5, <2>6
<1> QED BY <1>4, <1>5, <1>6

\* All the shards of a tensor.
AllShards(sh, name) == sh = [i \in 1..config.tp |-> ShardOf(name, config.tp, i - 1)]

\* From one place to another they have their parts of one tensor.
WholeParts(sh, from, to, what, l, N, n) ==
  /\ n \in Nat /\ N = config.tp * n /\ DOMAIN sh = 1..config.tp
  /\ \A i \in 1..config.tp : SubSeq(sh[i], from, to) = CutOut(what, l, N, config.tp, i - 1)

\* Which the saver puts together.
LEMMA WholeGathers ==
  ASSUME Fits, NEW sh, NEW from, NEW to, NEW what, NEW l, NEW N, NEW n,
         WholeParts(sh, from, to, what, l, N, n)
  PROVE  PartOf(sh, from, to) = Tensor(what, l, N)
<1> DEFINE p == [i \in 1..config.tp |-> SubSeq(sh[i], from, to)]
<1>1. AllPieces(p, what, l, N, n)
  BY DEF WholeParts, AllPieces
<1>2. Gather(sh, config.tp, from, to) = Joined(p, config.tp)
  BY DEF Gather
<1> HIDE DEF p
<1>3. Joined(p, config.tp) = Tensor(what, l, N)
  BY <1>1, WholeCols
<1>4. PartOf(sh, from, to) = Gather(sh, config.tp, from, to)
  BY GatherIs DEF WholeParts, PartOf
<1> QED BY <1>2, <1>3, <1>4

\* What the saver makes of all the shards of a tensor.
LEMMA SaverMerges ==
  ASSUME Fits, NEW name, NEW sh, AllShards(sh, name)
  PROVE  /\ name[1] = "qkv" => MergedQkv(sh) =
              <<Tensor("q", name[2], config.heads), Tensor("k", name[2], config.kv), Tensor("v", name[2], config.kv)>>
         /\ name[1] = "gate_up" => MergedGateUp(sh) =
              <<Tensor("gate", name[2], config.inner), Tensor("up", name[2], config.inner)>>
         /\ name[1] = "norm" => sh[1] = Tensor("norm", name[2], 1)
         /\ name[1] \notin {"qkv", "gate_up", "norm"} => FlattenSeq(sh) = Tensor(name[1], name[2], config.inner)
<1> DEFINE l == name[2]
<1>1. /\ DOMAIN sh = 1..config.tp /\ sh = [i \in 1..config.tp |-> sh[i]]
      /\ \A i \in 1..config.tp : sh[i] = ShardOf(name, config.tp, i - 1)
  BY DEF AllShards
<1>2. /\ config.tp \in Nat \ {0} /\ \A i \in 1..config.tp : i - 1 \in 0..(config.tp - 1)
  BY ConfigFields
<1>4. CASE name[1] = "qkv"
  <2> DEFINE m == PerKv * KvShard
             X == {"q", "k", "v"} \X {l} \X Nat
             q(i) == CutOut("q", l, config.heads, config.tp, i - 1)
             k(i) == CutOut("k", l, config.kv, config.tp, i - 1)
             v(i) == CutOut("v", l, config.kv, config.tp, i - 1)
  <2>1. KvShard \in Nat /\ m \in Nat /\ config.heads = config.tp * m /\ config.kv = config.tp * KvShard
    BY ShardSizes
  <2>2. \A i \in 1..config.tp : sh[i] = QkvShard(l, config.tp, i - 1)
    BY <1>1, <1>4 DEF ShardOf
  <2>3. \A i \in 1..config.tp : Thirds(X, QkvShard(l, config.tp, i - 1), q(i), k(i), v(i), m, KvShard)
    BY <1>2, QkvParts
  <2> HIDE DEF X, q, k, v
  <2>4. \A i \in 1..config.tp : Thirds(X, sh[i], q(i), k(i), v(i), m, KvShard)
    BY <2>2, <2>3
  <2>5. config.heads \div config.tp = m /\ config.kv \div config.tp = KvShard
    <3> HIDE DEF m
    <3> QED BY <1>2, <2>1, Multiple
  <2>6. m + 2 * KvShard = m + KvShard + KvShard
    BY <2>1
  <2> HIDE DEF m
  <2>7. MergedQkv(sh) = <<PartOf(sh, 1, m), PartOf(sh, m + 1, m + KvShard),
                          PartOf(sh, m + KvShard + 1, m + KvShard + KvShard)>>
    BY <2>5, <2>6 DEF MergedQkv
  <2>8. PartOf(sh, 1, m) = Tensor("q", l, config.heads)
    <3>1. WholeParts(sh, 1, m, "q", l, config.heads, m)
      BY <1>1, <2>1, <2>4 DEF WholeParts, Thirds, q
    <3> QED BY <3>1, WholeGathers
  <2>9. PartOf(sh, m + 1, m + KvShard) = Tensor("k", l, config.kv)
    <3>1. WholeParts(sh, m + 1, m + KvShard, "k", l, config.kv, KvShard)
      BY <1>1, <2>1, <2>4 DEF WholeParts, Thirds, k
    <3> QED BY <3>1, WholeGathers
  <2>10. PartOf(sh, m + KvShard + 1, m + KvShard + KvShard) = Tensor("v", l, config.kv)
    <3>1. WholeParts(sh, m + KvShard + 1, m + KvShard + KvShard, "v", l, config.kv, KvShard)
      BY <1>1, <2>1, <2>4 DEF WholeParts, Thirds, v
    <3> QED BY <3>1, WholeGathers
  <2> QED BY <1>4, <2>7, <2>8, <2>9, <2>10
<1>5. CASE name[1] = "gate_up"
  <2> DEFINE X == {"gate", "up"} \X {l} \X Nat
             g(i) == CutOut("gate", l, config.inner, config.tp, i - 1)
             u(i) == CutOut("up", l, config.inner, config.tp, i - 1)
             m == InnerShard
  <2>1. m \in Nat /\ config.inner = config.tp * m
    BY ShardSizes
  <2>2. \A i \in 1..config.tp : sh[i] = GateUpShard(l, config.tp, i - 1)
    BY <1>1, <1>5 DEF ShardOf
  <2>3. \A i \in 1..config.tp : Halves(X, GateUpShard(l, config.tp, i - 1), g(i), u(i), m, m)
    BY <1>2, GateUpParts
  <2> HIDE DEF X, g, u
  <2>4. \A i \in 1..config.tp : Halves(X, sh[i], g(i), u(i), m, m)
    BY <2>2, <2>3
  <2>5. config.inner \div config.tp = m /\ 2 * m = m + m
    BY <2>1, <1>2 DEF InnerShard
  <2> HIDE DEF m
  <2>6. MergedGateUp(sh) = <<PartOf(sh, 1, m), PartOf(sh, m + 1, m + m)>>
    BY <2>5 DEF MergedGateUp
  <2>7. PartOf(sh, 1, m) = Tensor("gate", l, config.inner)
    <3>1. WholeParts(sh, 1, m, "gate", l, config.inner, m)
      BY <1>1, <2>1, <2>4 DEF WholeParts, Halves, g
    <3> QED BY <3>1, WholeGathers
  <2>8. PartOf(sh, m + 1, m + m) = Tensor("up", l, config.inner)
    <3>1. WholeParts(sh, m + 1, m + m, "up", l, config.inner, m)
      BY <1>1, <2>1, <2>4 DEF WholeParts, Halves, u
    <3> QED BY <3>1, WholeGathers
  <2> QED BY <1>5, <2>6, <2>7, <2>8
<1>6. CASE name[1] = "norm"
  <2>1. 1 \in 1..config.tp
    BY <1>2
  <2> QED BY <1>1, <1>6, <2>1 DEF ShardOf
<1>7. CASE name[1] \notin {"qkv", "gate_up", "norm"}
  <2>1. InnerShard \in Nat /\ config.inner = config.tp * InnerShard
    BY ShardSizes
  <2>2. FlattenSeq(sh) = Joined(sh, config.tp)
    BY <1>1 DEF Joined
  <2>3. \A i \in 1..config.tp : sh[i] = CutOut(name[1], l, config.inner, config.tp, i - 1)
    BY <1>1, <1>7 DEF ShardOf
  <2>4. AllPieces(sh, name[1], l, config.inner, InnerShard)
    BY <2>1, <2>3 DEF AllPieces
  <2>5. Joined(sh, config.tp) = Tensor(name[1], l, config.inner)
    BY <2>4, WholeCols
  <2> QED BY <1>7, <2>2, <2>5
<1> QED BY <1>4, <1>5, <1>6, <1>7

(* The programs as scripts: the operation at every place of a call. *)

\* The operations of init_model on a data parallel rank 0; the others begin with the barrier.
InitLen == config.layers + config.pp + 5
InitOp(i) ==
  IF i = 1 THEN OpAt("load_embed", 0)
  ELSE IF i <= config.layers + 1 THEN OpAt("load_layer", i - 2)
  ELSE IF i = config.layers + 2 THEN OpAt("load_head", LastStage)
  ELSE IF i = config.layers + 3 THEN Op("barrier")
  ELSE IF i = config.layers + 4 THEN Op("dp_params")
  ELSE IF i = config.layers + 5 THEN Op("to_cuda")
  ELSE OpAt("stage", i - config.layers - 6)

\* Those of a rollout.
GenLen == config.pp + (IF MicroDp > 1 THEN 7 ELSE 6)
GenOp(i) ==
  IF i = 1 THEN Op("to_cuda")
  ELSE IF i <= config.pp + 1 THEN OpAt("stage", i - 2)
  ELSE IF i = config.pp + 2 THEN (IF MicroDp > 1 THEN Op("gather_params") ELSE Op("keep_params"))
  ELSE IF i = config.pp + 3 THEN Op("tp_batch")
  ELSE IF i = config.pp + 4 THEN Op("generate")
  ELSE IF i = GenLen THEN Op("offload")
  ELSE IF i = GenLen - 1 THEN Op("gather_pp")
  ELSE Op("gather_micro")

\* Those of a forward pass, of a model that may have to come to the GPU first.
ModelOf(m) ==
  IF m \in {"compute_log_prob", "update_actor"} THEN "actor"
  ELSE IF m = "compute_ref_log_prob" THEN "ref"
  ELSE IF m = "compute_rm_score" THEN "rm" ELSE "critic"
Lead(m) == IF config.offload /\ m \in {"compute_ref_log_prob", "compute_rm_score"} THEN 1 ELSE 0
FwdLen(m) == IF Lead(m) = 1 THEN 5 ELSE 3
FwdOp(m, i) ==
  IF i = Lead(m) + 1 THEN Op("pp_batch")
  ELSE IF i = Lead(m) + 2 THEN OpOn("forward", ModelOf(m))
  ELSE IF i = Lead(m) + 3 THEN Op("pp_output")
  ELSE IF i = 1 THEN OpOn("fetch", ModelOf(m)) ELSE OpOn("release", ModelOf(m))

\* Those of an update: three for each minibatch of each epoch.
Blocks == Minibatches * config.epochs
UpdOp(m, i) ==
  IF (i - 1) % 3 = 0 THEN OpAt("minibatch", (((i - 1) \div 3) % Minibatches) + 1)
  ELSE IF (i - 1) % 3 = 1 THEN Op("pp_batch") ELSE OpOn("step", ModelOf(m))

IsForward(m) == m \in {"compute_log_prob", "compute_ref_log_prob", "compute_values", "compute_rm_score"}

ScriptLen(m) ==
  IF m = "init_model" THEN InitLen ELSE IF m = "generate_sequences" THEN GenLen
  ELSE IF IsUpdate(m) THEN 3 * Blocks ELSE FwdLen(m)
ScriptOp(m, i) ==
  IF m = "init_model" THEN InitOp(i) ELSE IF m = "generate_sequences" THEN GenOp(i)
  ELSE IF IsUpdate(m) THEN UpdOp(m, i) ELSE FwdOp(m, i)
Script(m) == [i \in 1..ScriptLen(m) |-> ScriptOp(m, i)]

\* What is left of a sequence behind its first n.
Rest(s, n) == SubSeq(s, n + 1, Len(s))

\* Where a rank begins.
Skipped(m, r) == IF m = "init_model" /\ Dp(r) # 0 THEN config.layers + 2 ELSE 0

\* A script is a sequence.
LEMMA ScriptIs ==
  ASSUME Fits, NEW m \in Methods
  PROVE  /\ ScriptLen(m) \in Nat /\ Script(m) \in Seq({ScriptOp(m, i) : i \in 1..ScriptLen(m)})
         /\ Len(Script(m)) = ScriptLen(m) /\ \A i \in 1..ScriptLen(m) : Script(m)[i] = ScriptOp(m, i)
<1>1. config.layers \in Nat /\ config.pp \in Nat \ {0} /\ config.epochs \in Nat
  BY ConfigFields
<1>2. MicroDp \in Nat \ {0} /\ Minibatches \in Nat \ {0}
  BY Sizes
<1>3. InitLen \in Nat
  BY <1>1 DEF InitLen
<1>4. GenLen \in Nat
  BY <1>1, <1>2 DEF GenLen
<1>5. Blocks \in Nat
  BY <1>1, <1>2 DEF Blocks
<1>6. 3 * Blocks \in Nat
  BY <1>5
<1>7. FwdLen(m) \in Nat
  BY DEF FwdLen
<1>8. ScriptLen(m) \in Nat
  BY <1>3, <1>4, <1>6, <1>7 DEF ScriptLen
<1> QED BY <1>8 DEF Script

\* The first of what is left, and what is left then.
LEMMA RestMoves ==
  ASSUME NEW X, NEW s \in Seq(X), NEW n \in 0..Len(s)
  PROVE  /\ Len(Rest(s, n)) = Len(s) - n
         /\ Rest(s, n) # <<>> => n < Len(s) /\ Head(Rest(s, n)) = s[n + 1] /\ Tail(Rest(s, n)) = Rest(s, n + 1)
<1> DEFINE u == Rest(s, n)
           v == Rest(s, n + 1)
           z == Len(s)
<1>1. z \in Nat /\ n \in Nat /\ n <= z
  OBVIOUS
<1>2. u \in Seq(X) /\ Len(u) = z - n /\ \A j \in 1..(z - n) : u[j] = s[n + j]
  <2>1. Len(u) = (IF n + 1 <= z THEN z - (n + 1) + 1 ELSE 0) /\ u \in Seq(X)
        /\ \A j \in 1..(z - (n + 1) + 1) : u[j] = s[(n + 1) + j - 1]
    BY <1>1, SubSeqProperties DEF Rest
  <2>2. \A j \in 1..(z - n) : j \in 1..(z - (n + 1) + 1) /\ (n + 1) + j - 1 = n + j
    BY <1>1
  <2> HIDE DEF u
  <2> QED BY <1>1, <2>1, <2>2
<1>3. ASSUME u # <<>> PROVE n < z /\ Head(u) = s[n + 1] /\ Tail(u) = v
  <2>1. n < z
    <3> SUFFICES ASSUME n = z PROVE FALSE
      BY <1>1
    <3> HIDE DEF u
    <3> QED BY <1>1, <1>2, <1>3
  <2>2. v \in Seq(X) /\ Len(v) = z - (n + 1) /\ \A j \in 1..(z - (n + 1)) : v[j] = s[(n + 1) + j]
    <3>1. Len(v) = (IF n + 2 <= z THEN z - (n + 2) + 1 ELSE 0) /\ v \in Seq(X)
          /\ \A j \in 1..(z - (n + 2) + 1) : v[j] = s[(n + 2) + j - 1]
      BY <1>1, <2>1, SubSeqProperties, SMTT(30) DEF Rest
    <3>2. \A j \in 1..(z - (n + 1)) : j \in 1..(z - (n + 2) + 1) /\ (n + 2) + j - 1 = (n + 1) + j
      BY <1>1
    <3> HIDE DEF v
    <3> QED BY <1>1, <2>1, <3>1, <3>2
  <2> HIDE DEF u, v
  <2>3. Head(u) = u[1] /\ 1 \in 1..(z - n)
    BY <1>1, <1>2, <2>1
  <2>4. Tail(u) \in Seq(X) /\ Len(Tail(u)) = z - (n + 1) /\ \A j \in 1..(z - (n + 1)) : Tail(u)[j] = u[j + 1]
    BY <1>1, <1>2, <1>3, <2>1
  <2>5. \A j \in 1..(z - (n + 1)) : j + 1 \in 1..(z - n) /\ n + (j + 1) = (n + 1) + j
    BY <1>1
  <2> DEFINE w == Tail(u)
  <2>6. \A j \in 1..(z - (n + 1)) : w[j] = v[j]
    BY <1>2, <2>2, <2>4, <2>5
  <2>7. w \in Seq(X) /\ v \in Seq(X) /\ Len(w) = Len(v) /\ \A j \in 1..Len(w) : w[j] = v[j]
    BY <2>2, <2>4, <2>6
  <2> HIDE DEF w
  <2>8. w = v
    BY <2>7, SeqEqual
  <2> QED BY <1>2, <2>1, <2>3, <2>8 DEF w
<1> HIDE DEF u, v
<1> QED BY <1>2, <1>3 DEF u, v

\* What f has at the n places behind a.
Seg(s, f, a, n) == a \in Nat /\ n \in Nat /\ s = [j \in 1..n |-> f[a + j]]

\* n places behind a, and then k.
Segs(s, t, f, a, n, k, b, c) == Seg(s, f, a, n) /\ Seg(t, f, b, k) /\ b = a + n /\ c = n + k

\* Two such pieces, one behind the other, are one.
LEMMA SegsJoin ==
  ASSUME NEW s, NEW t, NEW f, NEW a, NEW n, NEW k, NEW b, NEW c, Segs(s, t, f, a, n, k, b, c)
  PROVE  Seg(s \o t, f, a, c)
<1> DEFINE X == {f[i] : i \in Nat}
           u == [j \in 1..c |-> f[a + j]]
           w == s \o t
<1>1. /\ a \in Nat /\ n \in Nat /\ k \in Nat /\ b = a + n /\ c = n + k
      /\ s = [j \in 1..n |-> f[a + j]] /\ t = [j \in 1..k |-> f[b + j]]
  BY DEF Segs, Seg
<1>2. \A i \in Nat : f[i] \in X
  OBVIOUS
<1>3. \A i \in 1..n : a + i \in Nat
  BY <1>1
<1>4. \A i \in 1..k : b + i \in Nat
  BY <1>1
<1>5. \A i \in 1..c : a + i \in Nat
  BY <1>1
<1> HIDE DEF X
<1>6. s \in Seq(X) /\ Len(s) = n /\ t \in Seq(X) /\ Len(t) = k
  <2>1. \A i \in 1..n : f[a + i] \in X
    BY <1>2, <1>3
  <2>2. \A i \in 1..k : f[b + i] \in X
    BY <1>2, <1>4
  <2>3. s \in Seq(X) /\ Len(s) = n
    <3>1. n \in Nat /\ s = [j \in 1..n |-> f[a + j]]
      BY <1>1
    <3> QED BY <2>1, <3>1
  <2>4. t \in Seq(X) /\ Len(t) = k
    <3>1. k \in Nat /\ t = [j \in 1..k |-> f[b + j]]
      BY <1>1
    <3> QED BY <2>2, <3>1
  <2> QED BY <2>3, <2>4
<1>7. u \in Seq(X) /\ Len(u) = c
  <2>1. c \in Nat
    BY <1>1
  <2>2. \A i \in 1..c : f[a + i] \in X
    BY <1>2, <1>5
  <2> QED BY <2>1, <2>2
<1>8. w \in Seq(X) /\ Len(w) = c /\ \A j \in 1..c : w[j] = IF j <= n THEN s[j] ELSE t[j - n]
  <2>1. c = n + k
    BY <1>1
  <2>2. /\ w \in Seq(X) /\ Len(w) = Len(s) + Len(t)
        /\ \A j \in 1..(Len(s) + Len(t)) : w[j] = IF j <= Len(s) THEN s[j] ELSE t[j - Len(s)]
    BY <1>6, ConcatProperties
  <2> HIDE DEF w
  <2> QED BY <1>6, <2>1, <2>2
<1>9. ASSUME NEW j \in 1..c PROVE w[j] = u[j]
  <2>1. CASE j <= n
    BY <1>1, <1>8, <2>1
  <2>2. CASE ~ (j <= n)
    <3>1. j - n \in 1..k /\ b + (j - n) = a + j
      BY <1>1, <2>2
    <3>2. t[j - n] = f[b + (j - n)]
      BY <1>1, <3>1
    <3> QED BY <1>8, <2>2, <3>1, <3>2
  <2> QED BY <2>1, <2>2
<1> HIDE DEF w
<1>10. \A j \in 1..Len(w) : w[j] = u[j]
  BY <1>8, <1>9
<1> HIDE DEF u
<1>11. w = u
  BY <1>7, <1>8, <1>10, SeqEqual
<1>12. c \in Nat
  BY <1>1
<1> QED BY <1>1, <1>11, <1>12 DEF w, u, Seg

\* A piece of a script to its end is what is left of it.
LEMMA SegIsRest ==
  ASSUME Fits, NEW m \in Methods, NEW a \in Nat, NEW n, NEW s, a + n = ScriptLen(m), Seg(s, Script(m), a, n)
  PROVE  s = Rest(Script(m), a)
<1> DEFINE f == Script(m)
           z == ScriptLen(m)
           X == {ScriptOp(m, i) : i \in 1..z}
           u == Rest(f, a)
<1>1. f \in Seq(X) /\ Len(f) = z /\ z \in Nat
  BY ScriptIs
<1>2. n \in Nat /\ s = [j \in 1..n |-> f[a + j]] /\ a + n = z
  BY DEF Seg
<1> HIDE DEF X, f, z
<1>3. u \in Seq(X) /\ Len(u) = n /\ \A j \in 1..n : u[j] = f[a + j]
  <2>1. Len(u) = (IF a + 1 <= z THEN z - (a + 1) + 1 ELSE 0) /\ u \in Seq(X)
        /\ \A j \in 1..(z - (a + 1) + 1) : u[j] = f[(a + 1) + j - 1]
    BY <1>1, <1>2, SubSeqProperties DEF Rest
  <2>2. \A j \in 1..n : j \in 1..(z - (a + 1) + 1) /\ (a + 1) + j - 1 = a + j
    BY <1>2
  <2> HIDE DEF u
  <2> QED BY <1>1, <1>2, <2>1, <2>2
<1>4. \A j \in 1..n : f[a + j] \in X
  <2>1. \A j \in 1..n : a + j \in 1..Len(f)
    BY <1>1, <1>2
  <2> QED BY <1>1, <2>1
<1>5. s \in Seq(X) /\ Len(s) = n /\ \A j \in 1..n : s[j] = f[a + j]
  BY <1>2, <1>4
<1> HIDE DEF u
<1>6. s = u
  BY <1>3, <1>5, SeqEqual
<1> QED BY <1>6 DEF u, f

\* The stages' parameters go around at the places behind a of a script.
LEMMA StagesSeg ==
  ASSUME Fits, NEW r, NEW f, NEW a \in Nat,
         \A s \in 1..config.pp : f[a + s] = OpAt("stage", s - 1)
  PROVE  Seg(AllgatherParams(r), f, a, config.pp)
<1>1. config.pp \in Nat
  BY ConfigFields
<1> QED BY <1>1 DEF AllgatherParams, Seg

\* init_model.
LEMMA InitProgram ==
  ASSUME Fits, NEW r \in Ranks
  PROVE  ProgramOf("init_model", r) = Rest(Script("init_model"), Skipped("init_model", r))
<1> DEFINE m == "init_model"
           f == Script(m)
           L == config.layers
           p == config.pp
           loads == (<<OpAt("load_embed", 0)>> \o [l \in 1..L |-> OpAt("load_layer", l - 1)])
                      \o <<OpAt("load_head", LastStage)>>
           rest == <<Op("barrier"), Op("dp_params")>>
           build == <<Op("to_cuda")>> \o AllgatherParams(r)
           first == IF Dp(r) = 0 THEN loads ELSE <<>>
           a == IF Dp(r) = 0 THEN 0 ELSE L + 2
<1>1. L \in Nat /\ p \in Nat \ {0} /\ m \in Methods
  BY ConfigFields DEF Methods
<1>2. ScriptLen(m) = L + p + 5 /\ \A i \in 1..(L + p + 5) : f[i] = InitOp(i)
  BY DEF ScriptLen, Script, InitLen, ScriptOp
<1>3. ProgramOf(m, r) = (first \o rest) \o build
  BY DEF ProgramOf, InitModel, LoadProgram, BuildRollout
<1> HIDE DEF f
<1>4. Seg(loads, f, 0, L + 2)
  <2> DEFINE u == <<OpAt("load_embed", 0)>>
             v == [l \in 1..L |-> OpAt("load_layer", l - 1)]
             w == <<OpAt("load_head", LastStage)>>
  <2>1. Seg(u, f, 0, 1)
    <3>1. f[0 + 1] = OpAt("load_embed", 0)
      BY <1>1, <1>2 DEF InitOp
    <3> QED BY <3>1 DEF Seg
  <2>2. Seg(v, f, 1, L)
    <3>1. ASSUME NEW l \in 1..L PROVE f[1 + l] = OpAt("load_layer", l - 1)
      <4>1. 1 + l \in 1..(L + p + 5) /\ 1 + l # 1 /\ 1 + l <= L + 1 /\ (1 + l) - 2 = l - 1
        BY <1>1
      <4> QED BY <1>2, <4>1 DEF InitOp
    <3> QED BY <1>1, <3>1 DEF Seg
  <2>3. Seg(w, f, L + 1, 1)
    <3>1. f[(L + 1) + 1] = OpAt("load_head", LastStage)
      <4>1. (L + 1) + 1 \in 1..(L + p + 5) /\ (L + 1) + 1 # 1 /\ ~ ((L + 1) + 1 <= L + 1) /\ (L + 1) + 1 = L + 2
        BY <1>1
      <4> QED BY <1>2, <4>1 DEF InitOp
    <3> QED BY <1>1, <3>1 DEF Seg
  <2> HIDE DEF u, v, w
  <2>4. Seg(u \o v, f, 0, L + 1)
    <3>1. Segs(u, v, f, 0, 1, L, 1, L + 1)
      BY <1>1, <2>1, <2>2 DEF Segs
    <3> QED BY <3>1, SegsJoin
  <2> DEFINE uv == u \o v
  <2> HIDE DEF uv
  <2>5. Seg(uv, f, 0, L + 1)
    BY <2>4 DEF uv
  <2>6. Segs(uv, w, f, 0, L + 1, 1, L + 1, L + 2)
    BY <1>1, <2>5, <2>3 DEF Segs
  <2>7. Seg(uv \o w, f, 0, L + 2)
    BY <2>6, SegsJoin
  <2> QED BY <2>7 DEF uv, u, v, w
<1>5. Seg(rest, f, L + 2, 2)
  <2>1. f[(L + 2) + 1] = Op("barrier")
    <3>1. (L + 2) + 1 \in 1..(L + p + 5) /\ (L + 2) + 1 # 1 /\ ~ ((L + 2) + 1 <= L + 1) /\ (L + 2) + 1 # L + 2
          /\ (L + 2) + 1 = L + 3
      BY <1>1
    <3> QED BY <1>2, <3>1 DEF InitOp
  <2>2. f[(L + 2) + 2] = Op("dp_params")
    <3>1. (L + 2) + 2 \in 1..(L + p + 5) /\ (L + 2) + 2 # 1 /\ ~ ((L + 2) + 2 <= L + 1) /\ (L + 2) + 2 # L + 2
          /\ (L + 2) + 2 # L + 3 /\ (L + 2) + 2 = L + 4
      BY <1>1
    <3> QED BY <1>2, <3>1 DEF InitOp
  <2>3. [j \in 1..2 |-> f[(L + 2) + j]] = <<f[(L + 2) + 1], f[(L + 2) + 2]>>
    OBVIOUS
  <2> QED BY <1>1, <2>1, <2>2, <2>3 DEF Seg
<1>6. Seg(build, f, L + 4, p + 1)
  <2> DEFINE u == <<Op("to_cuda")>>
             v == AllgatherParams(r)
  <2>1. Seg(u, f, L + 4, 1)
    <3>1. f[(L + 4) + 1] = Op("to_cuda")
      <4>1. (L + 4) + 1 \in 1..(L + p + 5) /\ (L + 4) + 1 # 1 /\ ~ ((L + 4) + 1 <= L + 1) /\ (L + 4) + 1 # L + 2
            /\ (L + 4) + 1 # L + 3 /\ (L + 4) + 1 # L + 4 /\ (L + 4) + 1 = L + 5
        BY <1>1
      <4> QED BY <1>2, <4>1 DEF InitOp
    <3> QED BY <1>1, <3>1 DEF Seg
  <2>2. Seg(v, f, L + 5, p)
    <3>1. ASSUME NEW s \in 1..p PROVE f[(L + 5) + s] = OpAt("stage", s - 1)
      <4> DEFINE i == (L + 5) + s
      <4>1. i \in 1..(L + p + 5) /\ i # 1 /\ ~ (i <= L + 1) /\ i # L + 2
            /\ i # L + 3 /\ i # L + 4 /\ i # L + 5 /\ i - L - 6 = s - 1
        BY <1>1
      <4> HIDE DEF i
      <4>2. f[i] = OpAt("stage", s - 1)
        BY <1>2, <4>1 DEF InitOp
      <4> QED BY <4>2 DEF i
    <3>2. L + 5 \in Nat
      BY <1>1
    <3> QED BY <3>1, <3>2, StagesSeg
  <2> HIDE DEF u, v
  <2>3. Segs(u, v, f, L + 4, 1, p, L + 5, p + 1)
    BY <1>1, <2>1, <2>2 DEF Segs
  <2>4. Seg(u \o v, f, L + 4, p + 1)
    BY <2>3, SegsJoin
  <2> QED BY <2>4 DEF u, v
<1>7. Seg(first, f, a, L + 2 - a)
  <2>1. CASE Dp(r) = 0
    BY <1>1, <1>4, <2>1
  <2>2. CASE Dp(r) # 0
    BY <1>1, <2>2 DEF Seg
  <2> QED BY <2>1, <2>2
<1>8. a \in Nat /\ L + 2 - a \in Nat /\ a + (L + 2 - a) = L + 2
  BY <1>1
<1>9. Skipped(m, r) = a
  BY DEF Skipped
<1> HIDE DEF first, rest, build, a, m
<1>10. Seg(first \o rest, f, a, L + 4 - a)
  <2>1. Segs(first, rest, f, a, L + 2 - a, 2, L + 2, L + 4 - a)
    BY <1>1, <1>5, <1>7, <1>8 DEF Segs
  <2> QED BY <2>1, SegsJoin
<1> DEFINE b == first \o rest
<1> HIDE DEF b
<1>11. Seg(b, f, a, L + 4 - a)
  BY <1>10 DEF b
<1>12. Segs(b, build, f, a, L + 4 - a, p + 1, L + 4, L + p + 5 - a)
  BY <1>1, <1>6, <1>8, <1>11 DEF Segs
<1>13. Seg(b \o build, f, a, L + p + 5 - a)
  BY <1>12, SegsJoin
<1>14. a + (L + p + 5 - a) = ScriptLen(m)
  BY <1>1, <1>2, <1>8
<1>15. b \o build = Rest(f, a)
  BY <1>1, <1>8, <1>13, <1>14, SegIsRest DEF f
<1> QED BY <1>3, <1>9, <1>15 DEF f, b, m

\* What the script of a rollout has at its places.
LEMMA GenPlaces ==
  ASSUME Fits
  PROVE  LET f == Script("generate_sequences")
             p == config.pp
             e == IF MicroDp > 1 THEN 1 ELSE 0 IN
         /\ p \in Nat \ {0} /\ GenLen = p + 6 + e /\ GenLen \in Nat
         /\ ScriptLen("generate_sequences") = GenLen /\ \A i \in 1..GenLen : f[i] = GenOp(i)
         /\ f[1] = Op("to_cuda") /\ \A s \in 1..p : f[1 + s] = OpAt("stage", s - 1)
         /\ f[p + 2] = IF MicroDp > 1 THEN Op("gather_params") ELSE Op("keep_params")
         /\ f[p + 3] = Op("tp_batch") /\ f[p + 4] = Op("generate")
         /\ MicroDp > 1 => f[p + 5] = Op("gather_micro")
         /\ f[p + 5 + e] = Op("gather_pp") /\ f[p + 6 + e] = Op("offload")
<1> DEFINE f == Script("generate_sequences")
           p == config.pp
           e == IF MicroDp > 1 THEN 1 ELSE 0
           z == GenLen
<1>1. p \in Nat \ {0}
  BY ConfigFields
<1>2. z = p + 6 + e /\ z \in Nat /\ e \in {0, 1} /\ (e = 1 <=> MicroDp > 1)
  BY <1>1 DEF GenLen
<1>3. ScriptLen("generate_sequences") = z /\ \A i \in 1..z : f[i] = GenOp(i)
  BY DEF ScriptLen, Script, ScriptOp
<1> HIDE DEF f, e, z
<1>4. f[1] = Op("to_cuda")
  <2>1. 1 \in 1..z
    BY <1>1, <1>2
  <2> QED BY <1>3, <2>1 DEF GenOp
<1>5. ASSUME NEW s \in 1..p PROVE f[1 + s] = OpAt("stage", s - 1)
  <2>1. 1 + s \in 1..z /\ 1 + s # 1 /\ 1 + s <= p + 1 /\ (1 + s) - 2 = s - 1
    BY <1>1, <1>2
  <2> QED BY <1>3, <2>1 DEF GenOp
<1>6. f[p + 2] = IF MicroDp > 1 THEN Op("gather_params") ELSE Op("keep_params")
  <2>1. p + 2 \in 1..z /\ p + 2 # 1 /\ ~ (p + 2 <= p + 1)
    BY <1>1, <1>2
  <2> QED BY <1>3, <2>1 DEF GenOp
<1>7. f[p + 3] = Op("tp_batch")
  <2>1. p + 3 \in 1..z /\ p + 3 # 1 /\ ~ (p + 3 <= p + 1) /\ p + 3 # p + 2
    BY <1>1, <1>2
  <2> QED BY <1>3, <2>1 DEF GenOp
<1>8. f[p + 4] = Op("generate")
  <2>1. p + 4 \in 1..z /\ p + 4 # 1 /\ ~ (p + 4 <= p + 1) /\ p + 4 # p + 2 /\ p + 4 # p + 3
    BY <1>1, <1>2
  <2> QED BY <1>3, <2>1 DEF GenOp
<1>9. f[p + 5 + e] = Op("gather_pp")
  <2> DEFINE i == p + 5 + e
  <2>1. /\ i \in 1..z /\ i # 1 /\ ~ (i <= p + 1) /\ i # p + 2 /\ i # p + 3 /\ i # p + 4
        /\ i # z /\ i = z - 1
    BY <1>1, <1>2
  <2> HIDE DEF i
  <2>2. f[i] = Op("gather_pp")
    BY <1>3, <2>1 DEF GenOp, z
  <2> QED BY <2>2 DEF i
<1>10. f[p + 6 + e] = Op("offload")
  <2> DEFINE i == p + 6 + e
  <2>1. /\ i \in 1..z /\ i # 1 /\ ~ (i <= p + 1) /\ i # p + 2 /\ i # p + 3 /\ i # p + 4 /\ i = z
    BY <1>1, <1>2
  <2> HIDE DEF i
  <2>2. f[i] = Op("offload")
    BY <1>3, <2>1 DEF GenOp, z
  <2> QED BY <2>2 DEF i
<1>11. ASSUME MicroDp > 1 PROVE f[p + 5] = Op("gather_micro")
  <2> DEFINE i == p + 5
  <2>1. /\ i \in 1..z /\ i # 1 /\ ~ (i <= p + 1) /\ i # p + 2 /\ i # p + 3 /\ i # p + 4
        /\ i # z /\ i # z - 1
    BY <1>1, <1>2, <1>11
  <2> HIDE DEF i
  <2>2. f[i] = Op("gather_micro")
    BY <1>3, <2>1 DEF GenOp, z
  <2> QED BY <2>2 DEF i
<1> QED BY <1>1, <1>2, <1>3, <1>4, <1>5, <1>6, <1>7, <1>8, <1>9, <1>10, <1>11 DEF f, e, z

\* One operation is a piece of a script.
LEMMA SegOne ==
  ASSUME NEW f, NEW a \in Nat, NEW b, b = a + 1, NEW x, f[b] = x
  PROVE  Seg(<<x>>, f, a, 1)
BY DEF Seg

\* A rollout.
LEMMA GenProgram ==
  ASSUME Fits, NEW r \in Ranks
  PROVE  ProgramOf("generate_sequences", r) = Rest(Script("generate_sequences"), 0)
<1> DEFINE m == "generate_sequences"
           f == Script(m)
           p == config.pp
           e == IF MicroDp > 1 THEN 1 ELSE 0
           s1 == <<Op("to_cuda")>>
           s2 == AllgatherParams(r)
           s3 == IF MicroDp > 1 THEN <<Op("gather_params")>> ELSE <<Op("keep_params")>>
           s4 == <<Op("tp_batch"), Op("generate")>>
           s5 == IF MicroDp > 1 THEN <<Op("gather_micro")>> ELSE <<>>
           s6 == <<Op("gather_pp")>>
           s7 == <<Op("offload")>>
           u2 == s1 \o s2
           u3 == u2 \o s3
           u4 == u3 \o s4
           u5 == u4 \o s5
           u6 == u5 \o s6
           u7 == u6 \o s7
<1>1. ProgramOf(m, r) = u7
  BY DEF ProgramOf, GenerateSequences, Enter, Exit
<1>2. /\ p \in Nat \ {0} /\ GenLen = p + 6 + e /\ GenLen \in Nat /\ ScriptLen(m) = GenLen
      /\ f[1] = Op("to_cuda") /\ \A s \in 1..p : f[1 + s] = OpAt("stage", s - 1)
      /\ f[p + 2] = IF MicroDp > 1 THEN Op("gather_params") ELSE Op("keep_params")
      /\ f[p + 3] = Op("tp_batch") /\ f[p + 4] = Op("generate")
      /\ MicroDp > 1 => f[p + 5] = Op("gather_micro")
      /\ f[p + 5 + e] = Op("gather_pp") /\ f[p + 6 + e] = Op("offload")
  BY GenPlaces
<1>3. e \in {0, 1} /\ (e = 1 <=> MicroDp > 1)
  OBVIOUS
<1>4. m \in Methods
  BY DEF Methods
<1> HIDE DEF f
<1>5. Seg(s1, f, 0, 1)
  BY <1>2, SegOne
<1>6. Seg(s2, f, 1, p)
  BY <1>2, StagesSeg
<1>7. Seg(s3, f, p + 1, 1)
  <2>1. p + 1 \in Nat /\ p + 2 = (p + 1) + 1
    BY <1>2
  <2> QED BY <1>2, <2>1, SegOne
<1>8. Seg(s4, f, p + 2, 2)
  <2>1. [j \in 1..2 |-> f[(p + 2) + j]] = <<f[(p + 2) + 1], f[(p + 2) + 2]>>
    OBVIOUS
  <2>2. p + 2 \in Nat /\ (p + 2) + 1 = p + 3 /\ (p + 2) + 2 = p + 4
    BY <1>2
  <2> QED BY <1>2, <2>1, <2>2 DEF Seg
<1>9. Seg(s5, f, p + 4, e)
  <2>1. p + 4 \in Nat /\ p + 5 = (p + 4) + 1
    BY <1>2
  <2>2. CASE MicroDp > 1
    BY <1>2, <2>1, <2>2, SegOne
  <2>3. CASE ~ (MicroDp > 1)
    BY <2>1, <2>3 DEF Seg
  <2> QED BY <2>2, <2>3
<1> HIDE DEF e
<1>10. Seg(s6, f, p + 4 + e, 1)
  <2>1. p + 4 + e \in Nat /\ p + 5 + e = (p + 4 + e) + 1
    BY <1>2, <1>3
  <2> QED BY <1>2, <2>1, SegOne
<1>11. Seg(s7, f, p + 5 + e, 1)
  <2>1. p + 5 + e \in Nat /\ p + 6 + e = (p + 5 + e) + 1
    BY <1>2, <1>3
  <2> QED BY <1>2, <2>1, SegOne
<1> HIDE DEF s1, s2, s3, s4, s5, s6, s7
<1>12. Seg(u2, f, 0, p + 1)
  <2>1. Segs(s1, s2, f, 0, 1, p, 1, p + 1)
    BY <1>2, <1>5, <1>6 DEF Segs
  <2> QED BY <2>1, SegsJoin
<1> HIDE DEF u2
<1>13. Seg(u3, f, 0, p + 2)
  <2>1. Segs(u2, s3, f, 0, p + 1, 1, p + 1, p + 2)
    BY <1>2, <1>7, <1>12 DEF Segs
  <2> QED BY <2>1, SegsJoin
<1> HIDE DEF u3
<1>14. Seg(u4, f, 0, p + 4)
  <2>1. Segs(u3, s4, f, 0, p + 2, 2, p + 2, p + 4)
    BY <1>2, <1>8, <1>13 DEF Segs
  <2> QED BY <2>1, SegsJoin
<1> HIDE DEF u4
<1>15. Seg(u5, f, 0, p + 4 + e)
  <2>1. Segs(u4, s5, f, 0, p + 4, e, p + 4, p + 4 + e)
    BY <1>2, <1>3, <1>9, <1>14 DEF Segs
  <2> QED BY <2>1, SegsJoin
<1> HIDE DEF u5
<1>16. Seg(u6, f, 0, p + 5 + e)
  <2>1. Segs(u5, s6, f, 0, p + 4 + e, 1, p + 4 + e, p + 5 + e)
    BY <1>2, <1>3, <1>10, <1>15 DEF Segs
  <2> QED BY <2>1, SegsJoin
<1> HIDE DEF u6
<1>17. Seg(u7, f, 0, p + 6 + e)
  <2>1. Segs(u6, s7, f, 0, p + 5 + e, 1, p + 5 + e, p + 6 + e)
    BY <1>2, <1>3, <1>11, <1>16 DEF Segs
  <2> QED BY <2>1, SegsJoin
<1> HIDE DEF u7
<1>18. 0 + (p + 6 + e) = ScriptLen(m) /\ 0 \in Nat
  BY <1>2, <1>3
<1> HIDE DEF m
<1>19. u7 = Rest(f, 0)
  BY <1>4, <1>17, <1>18, SegIsRest DEF f
<1> QED BY <1>1, <1>19 DEF f, m

\* A forward pass.
LEMMA ForwardProgram ==
  ASSUME Fits, NEW r \in Ranks, NEW m, IsForward(m)
  PROVE  ProgramOf(m, r) = Rest(Script(m), 0)
<1> DEFINE f == Script(m)
           k == Lead(m)
           x == OpOn("fetch", ModelOf(m))
           y == OpOn("release", ModelOf(m))
           b == Op("pp_batch")
           c == OpOn("forward", ModelOf(m))
           d == Op("pp_output")
<1>1. m \in Methods /\ m # "init_model" /\ m # "generate_sequences" /\ ~ IsUpdate(m)
  BY DEF IsForward, Methods, IsUpdate
<1>2. ScriptLen(m) = FwdLen(m) /\ \A i \in 1..FwdLen(m) : f[i] = FwdOp(m, i)
  BY <1>1 DEF ScriptLen, Script, ScriptOp
<1>3. ProgramOf(m, r) = IF k = 1 THEN <<x>> \o <<b, c, d>> \o <<y>> ELSE <<b, c, d>>
  <2>1. Forward(ModelOf(m)) = <<b, c, d>>
    BY DEF Forward
  <2>2. CASE m = "compute_log_prob" \/ m = "compute_values"
    <3>1. ProgramOf(m, r) = Forward(ModelOf(m)) /\ k = 0
      BY <2>2 DEF ProgramOf, ComputeLogProb, ComputeValues, ModelOf, Lead
    <3> QED BY <2>1, <3>1
  <2>3. CASE m = "compute_ref_log_prob" \/ m = "compute_rm_score"
    <3>1. ProgramOf(m, r) = ForwardOffloaded(ModelOf(m))
      BY <2>3 DEF ProgramOf, ComputeRefLogProb, ComputeReward, ModelOf
    <3>2. k = IF config.offload THEN 1 ELSE 0
      BY <2>3 DEF Lead
    <3>3. ProgramOf(m, r) = IF config.offload THEN <<x>> \o <<b, c, d>> \o <<y>> ELSE <<b, c, d>>
      BY <2>1, <3>1 DEF ForwardOffloaded
    <3> HIDE DEF k, x, b, c, d, y
    <3> QED BY <3>2, <3>3
  <2> QED BY <2>2, <2>3 DEF IsForward
<1>4. CASE k = 1
  <2>1. FwdLen(m) = 5
    BY <1>4 DEF FwdLen
  <2>2. f[1] = x /\ f[2] = b /\ f[3] = c /\ f[4] = d /\ f[5] = y
    BY <1>2, <1>4, <2>1 DEF FwdOp
  <2> DEFINE u == <<x>>
             v == <<b, c, d>>
             w == <<y>>
             uv == u \o v
  <2> HIDE DEF f, x, b, c, d, y
  <2>3. Seg(u, f, 0, 1) /\ Seg(v, f, 1, 3) /\ Seg(w, f, 4, 1)
    BY <2>2 DEF Seg
  <2>4. ProgramOf(m, r) = uv \o w
    BY <1>3, <1>4
  <2> HIDE DEF u, v, w
  <2>5. Seg(uv, f, 0, 4)
    <3>1. Segs(u, v, f, 0, 1, 3, 1, 4)
      BY <2>3 DEF Segs
    <3> QED BY <3>1, SegsJoin
  <2> HIDE DEF uv
  <2>6. Seg(uv \o w, f, 0, 5)
    <3>1. Segs(uv, w, f, 0, 4, 1, 4, 5)
      BY <2>3, <2>5 DEF Segs
    <3> QED BY <3>1, SegsJoin
  <2> DEFINE all == uv \o w
  <2>7. all = Rest(f, 0)
    <3>1. 0 \in Nat /\ 0 + 5 = ScriptLen(m) /\ Seg(all, f, 0, 5)
      BY <1>2, <2>1, <2>6
    <3> HIDE DEF all
    <3> QED BY <1>1, <3>1, SegIsRest DEF f
  <2> QED BY <2>4, <2>7 DEF f
<1>5. CASE k # 1
  <2>0. k = 0
    BY <1>5 DEF Lead
  <2>1. FwdLen(m) = 3
    BY <1>5 DEF FwdLen
  <2>2. f[1] = b /\ f[2] = c /\ f[3] = d
    BY <1>2, <2>0, <2>1 DEF FwdOp
  <2> HIDE DEF f, b, c, d
  <2>3. Seg(<<b, c, d>>, f, 0, 3)
    BY <2>2 DEF Seg
  <2>4. <<b, c, d>> = Rest(f, 0)
    BY <1>1, <1>2, <2>1, <2>3, SegIsRest DEF f
  <2> QED BY <1>3, <1>5, <2>4 DEF f
<1> QED BY <1>4, <1>5

\* Place 3 * k + j of an update, where j is 1, 2 or 3.
LEMMA UpdPlace ==
  ASSUME Fits, NEW m, NEW k \in Nat
  PROVE  /\ UpdOp(m, 3 * k + 1) = OpAt("minibatch", (k % Minibatches) + 1)
         /\ UpdOp(m, 3 * k + 2) = Op("pp_batch")
         /\ UpdOp(m, 3 * k + 3) = OpOn("step", ModelOf(m))
<1>1. (3 * k + 1) - 1 = 3 * k /\ (3 * k + 2) - 1 = 3 * k + 1 /\ (3 * k + 3) - 1 = 3 * k + 2
  OBVIOUS
<1>2. (3 * k) % 3 = 0 /\ (3 * k) \div 3 = k /\ (3 * k + 1) % 3 = 1 /\ (3 * k + 2) % 3 = 2
  OBVIOUS
<1>3. UpdOp(m, 3 * k + 1) = OpAt("minibatch", (k % Minibatches) + 1)
  <2> HIDE DEF Minibatches
  <2>1. \A i : i - 1 = 3 * k => UpdOp(m, i) = OpAt("minibatch", (k % Minibatches) + 1)
    BY <1>2 DEF UpdOp
  <2> QED BY <1>1, <2>1
<1>4. UpdOp(m, 3 * k + 2) = Op("pp_batch")
  <2>1. \A i : i - 1 = 3 * k + 1 => UpdOp(m, i) = Op("pp_batch")
    BY <1>2 DEF UpdOp
  <2> QED BY <1>1, <2>1
<1>5. UpdOp(m, 3 * k + 3) = OpOn("step", ModelOf(m))
  <2>1. \A i : i - 1 = 3 * k + 2 => UpdOp(m, i) = OpOn("step", ModelOf(m))
    BY <1>2 DEF UpdOp
  <2> QED BY <1>1, <2>1
<1> QED BY <1>3, <1>4, <1>5

\* The places of an update repeat themselves with every epoch.
LEMMA UpdRepeats ==
  ASSUME Fits, NEW m, NEW e \in Nat, NEW j \in Nat \ {0}
  PROVE  UpdOp(m, (3 * Minibatches) * e + j) = UpdOp(m, j)
<1> DEFINE M == Minibatches
           i == j - 1
           q == i \div 3
           t == i % 3
           w == M * e
           x == w + q
<1>1. M \in Nat \ {0}
  BY Sizes
<1>2. i \in Nat /\ q \in Nat /\ t \in 0..2 /\ i = 3 * q + t /\ j = 3 * q + t + 1
  OBVIOUS
<1> HIDE DEF i, q, t, M
<1>3. w \in Nat /\ x \in Nat
  BY <1>1, <1>2
<1>4. (3 * M) * e = 3 * w
  BY <1>1
<1>5. x % M = q % M
  <2> DEFINE a == q \div M
             b == q % M
             y == e + a
  <2>2. a \in Nat /\ b \in 0..(M - 1) /\ q = M * a + b
    BY <1>1, <1>2
  <2> HIDE DEF a, b
  <2>3. y \in Nat /\ M * y = w + M * a
    BY <1>1, <2>2
  <2>4. x = M * y + b
    <3> DEFINE v == M * a
    <3>1. v \in Nat /\ q = v + b /\ M * y = w + v
      BY <1>1, <2>2, <2>3
    <3> HIDE DEF v, w
    <3> QED BY <1>3, <2>2, <3>1
  <2> HIDE DEF y, x
  <2>5. x % M = b
    BY <1>1, <2>2, <2>3, <2>4, DivisionIsUnique
  <2> QED BY <2>5 DEF b
<1> DEFINE z == (3 * M) * e + j
<1>6. z = 3 * x + t + 1
  <2> HIDE DEF w
  <2>1. 3 * x = 3 * w + 3 * q
    BY <1>2, <1>3
  <2> QED BY <1>2, <1>3, <1>4, <2>1
<1> HIDE DEF z, x, w
<1>7. UpdOp(m, z) = UpdOp(m, j)
  <2>1. CASE t = 0
    <3>1. z = 3 * x + 1 /\ j = 3 * q + 1
      BY <1>2, <1>3, <1>6, <2>1
    <3> QED BY <1>2, <1>3, <1>5, <3>1, UpdPlace, ZenonT(60) DEF M
  <2>2. CASE t = 1
    <3>1. z = 3 * x + 2 /\ j = 3 * q + 2
      BY <1>2, <1>3, <1>6, <2>2
    <3> QED BY <1>2, <1>3, <3>1, UpdPlace
  <2>3. CASE t = 2
    <3>1. z = 3 * x + 3 /\ j = 3 * q + 3
      BY <1>2, <1>3, <1>6, <2>3
    <3> QED BY <1>2, <1>3, <3>1, UpdPlace
  <2> QED BY <1>2, <2>1, <2>2, <2>3
<1> QED BY <1>7 DEF z, M

\* The first z places of an update.
UpdPart(m, z) == [i \in 1..z |-> UpdOp(m, i)]

\* These are operations, and as many.
LEMMA UpdPartSeq ==
  ASSUME NEW m, NEW z \in Nat
  PROVE  /\ UpdPart(m, z) \in Seq({UpdOp(m, i) : i \in Nat}) /\ Len(UpdPart(m, z)) = z
         /\ \A i \in 1..z : UpdPart(m, z)[i] = UpdOp(m, i)
BY DEF UpdPart

\* The minibatches make an epoch.
LEMMA EpochIs ==
  ASSUME Fits, NEW m
  PROVE  FlattenSeq([k \in 1..Minibatches |->
            <<OpAt("minibatch", k), Op("pp_batch"), OpOn("step", ModelOf(m))>>]) = UpdPart(m, 3 * Minibatches)
<1> DEFINE M == Minibatches
           X == {UpdOp(m, i) : i \in Nat}
           p == [k \in 1..M |-> <<OpAt("minibatch", k), Op("pp_batch"), OpOn("step", ModelOf(m))>>]
           s == UpdPart(m, 3 * M)
<1>1. M \in Nat \ {0} /\ 3 * M \in Nat
  <2>1. M \in Nat \ {0}
    BY Sizes
  <2> QED BY <2>1
<1>2. ASSUME NEW k \in 1..M
      PROVE  /\ 3 * (k - 1) + 1 \in Nat /\ 3 * (k - 1) + 2 \in Nat /\ 3 * (k - 1) + 3 \in Nat
             /\ UpdOp(m, 3 * (k - 1) + 1) = OpAt("minibatch", k)
             /\ UpdOp(m, 3 * (k - 1) + 2) = Op("pp_batch")
             /\ UpdOp(m, 3 * (k - 1) + 3) = OpOn("step", ModelOf(m))
  <2>1. k - 1 \in Nat /\ (k - 1) % M = k - 1 /\ (k - 1) + 1 = k
    <3> HIDE DEF M
    <3>1. k - 1 \in 0..(M - 1)
      BY <1>1
    <3>2. (M * 0 + (k - 1)) % M = k - 1
      BY <1>1, <3>1, DivisionIsUnique
    <3> QED BY <1>1, <3>1, <3>2
  <2>2. UpdOp(m, 3 * (k - 1) + 1) = OpAt("minibatch", ((k - 1) % M) + 1)
    BY <2>1, UpdPlace
  <2>3. /\ UpdOp(m, 3 * (k - 1) + 2) = Op("pp_batch")
        /\ UpdOp(m, 3 * (k - 1) + 3) = OpOn("step", ModelOf(m))
    BY <2>1, UpdPlace
  <2>4. 3 * (k - 1) + 1 \in Nat /\ 3 * (k - 1) + 2 \in Nat /\ 3 * (k - 1) + 3 \in Nat
    BY <2>1
  <2> QED BY <2>1, <2>2, <2>3, <2>4
<1>3. \A i \in Nat : UpdOp(m, i) \in X
  OBVIOUS
<1> HIDE DEF X, M
<1>4. ASSUME NEW k \in 1..M
      PROVE  /\ p[k] \in Seq(X) /\ Len(p[k]) = 3
             /\ \A j \in 1..3 : p[k][j] = s[3 * (k - 1) + j]
  <2> DEFINE a == OpAt("minibatch", k)
             b == Op("pp_batch")
             c == OpOn("step", ModelOf(m))
  <2>1. p[k] = <<a, b, c>>
    OBVIOUS
  <2>2. a \in X /\ b \in X /\ c \in X
    <3>1. /\ 3 * (k - 1) + 1 \in Nat /\ 3 * (k - 1) + 2 \in Nat /\ 3 * (k - 1) + 3 \in Nat
          /\ UpdOp(m, 3 * (k - 1) + 1) = a /\ UpdOp(m, 3 * (k - 1) + 2) = b
          /\ UpdOp(m, 3 * (k - 1) + 3) = c
      BY <1>2
    <3> HIDE DEF a, b, c
    <3> QED BY <1>3, <3>1
  <2>3. 3 * (k - 1) + 1 \in 1..(3 * M) /\ 3 * (k - 1) + 2 \in 1..(3 * M) /\ 3 * (k - 1) + 3 \in 1..(3 * M)
    BY <1>1
  <2>4. /\ s[3 * (k - 1) + 1] = a /\ s[3 * (k - 1) + 2] = b /\ s[3 * (k - 1) + 3] = c
    BY <1>1, <1>2, <2>3 DEF UpdPart
  <2> HIDE DEF a, b, c, p, s
  <2>5. p[k] \in Seq(X) /\ Len(p[k]) = 3 /\ p[k][1] = a /\ p[k][2] = b /\ p[k][3] = c
    BY <2>1, <2>2
  <2>6. ASSUME NEW j \in 1..3 PROVE p[k][j] = s[3 * (k - 1) + j]
    <3>1. CASE j = 1
      BY <2>4, <2>5, <3>1
    <3>2. CASE j = 2
      BY <2>4, <2>5, <3>2
    <3>3. CASE j = 3
      BY <2>4, <2>5, <3>3
    <3> QED BY <3>1, <3>2, <3>3
  <2> QED BY <2>5, <2>6
<1>5. s \in Seq(X) /\ Len(s) = 3 * M
  BY <1>1, UpdPartSeq DEF X
<1>6. [k \in 1..M |-> p[k]] = p
  OBVIOUS
<1> HIDE DEF p, s
<1>7. CutEvenly(X, p, M, 3, s)
  BY <1>1, <1>4, <1>5 DEF CutEvenly, EvenPieces, Pieces
<1>8. Joined(p, M) = s
  BY <1>7, EvenJoin
<1> QED BY <1>6, <1>8 DEF Joined, p, s, M

\* And the epochs the update.
LEMMA UpdateIs ==
  ASSUME Fits, NEW m
  PROVE  Update(ModelOf(m)) = UpdPart(m, 3 * Blocks)
<1> DEFINE M == Minibatches
           E == config.epochs
           L == 3 * M
           X == {UpdOp(m, i) : i \in Nat}
           epoch == UpdPart(m, L)
           p == [e \in 1..E |-> epoch]
           z == 3 * Blocks
           s == UpdPart(m, z)
<1>1. E \in Nat /\ M \in Nat \ {0} /\ L \in Nat
  <2>1. E \in Nat /\ M \in Nat \ {0}
    BY ConfigFields, Sizes
  <2> QED BY <2>1
<1>2. z \in Nat /\ z = L * E
  BY <1>1 DEF Blocks
<1>3. Update(ModelOf(m)) = FlattenSeq(p)
  <2>1. (config.rows \div config.dp) \div config.mini = M
    BY DEF Share, Minibatches
  <2>2. FlattenSeq([k \in 1..M |-> <<OpAt("minibatch", k), Op("pp_batch"), OpOn("step", ModelOf(m))>>]) = epoch
    BY EpochIs
  <2>3. Update(ModelOf(m)) = LET steps == M
            step(k) == <<OpAt("minibatch", k), Op("pp_batch"), OpOn("step", ModelOf(m))>>
            ep == FlattenSeq([k \in 1..steps |-> step(k)])
        IN  FlattenSeq([e \in 1..E |-> ep])
    BY <2>1 DEF Update
  <2> HIDE DEF epoch, M
  <2> QED BY <2>2, <2>3
<1>4. epoch \in Seq(X) /\ Len(epoch) = L /\ \A i \in 1..L : epoch[i] = UpdOp(m, i)
  BY <1>1, UpdPartSeq
<1>5. s \in Seq(X) /\ Len(s) = z /\ \A i \in 1..z : s[i] = UpdOp(m, i)
  BY <1>2, UpdPartSeq
<1>6. ASSUME NEW e \in 1..E PROVE /\ p[e] \in Seq(X) /\ Len(p[e]) = L
                                  /\ \A j \in 1..L : p[e][j] = s[L * (e - 1) + j]
  <2>1. p[e] = epoch
    OBVIOUS
  <2>2. ASSUME NEW j \in 1..L PROVE epoch[j] = s[L * (e - 1) + j]
    <3>1. L * (e - 1) + j \in 1..(L * E)
      <4> HIDE DEF L
      <4> QED BY <1>1, Position
    <3>2. UpdOp(m, L * (e - 1) + j) = UpdOp(m, j)
      <4>1. e - 1 \in Nat /\ j \in Nat \ {0}
        BY <1>1
      <4> QED BY <4>1, UpdRepeats
    <3> HIDE DEF L, s, epoch, z
    <3> QED BY <1>2, <1>4, <1>5, <3>1, <3>2
  <2> HIDE DEF epoch, p, s, L
  <2> QED BY <1>4, <2>1, <2>2
<1>7. p = [e \in 1..E |-> p[e]]
  OBVIOUS
<1> HIDE DEF p, s, epoch, L, z, X, E
<1>8. CutEvenly(X, p, E, L, s)
  BY <1>1, <1>2, <1>5, <1>6 DEF CutEvenly, EvenPieces, Pieces
<1>9. Joined(p, E) = s
  BY <1>8, EvenJoin
<1> QED BY <1>3, <1>7, <1>9 DEF Joined, s, z

\* An update.
LEMMA UpdateProgram ==
  ASSUME Fits, NEW r \in Ranks, NEW m, IsUpdate(m)
  PROVE  ProgramOf(m, r) = Rest(Script(m), 0)
<1> DEFINE z == 3 * Blocks
           s == UpdPart(m, z)
<1>1. m \in Methods /\ m # "init_model" /\ m # "generate_sequences"
  BY DEF IsUpdate, Methods
<1>2. ScriptLen(m) = z /\ Script(m) = s
  BY <1>1 DEF ScriptLen, Script, ScriptOp, UpdPart
<1>3. z \in Nat
  BY <1>1, <1>2, ScriptIs
<1>4. Seg(s, Script(m), 0, z)
  <2>1. \A i \in 1..z : s[0 + i] = s[i]
    OBVIOUS
  <2>2. s = [i \in 1..z |-> s[0 + i]]
    BY <2>1 DEF UpdPart
  <2> QED BY <1>2, <1>3, <2>2 DEF Seg
<1>5. 0 \in Nat /\ 0 + z = ScriptLen(m)
  BY <1>2, <1>3
<1>6. s = Rest(Script(m), 0)
  <2> HIDE DEF s, z
  <2> QED BY <1>1, <1>4, <1>5, SegIsRest
<1>7. ProgramOf(m, r) = Update(ModelOf(m))
  <2>1. CASE m = "update_critic"
    BY <2>1 DEF ProgramOf, ModelOf
  <2>2. CASE m = "update_actor"
    BY <2>2 DEF ProgramOf, ModelOf
  <2> QED BY <2>1, <2>2 DEF IsUpdate
<1> QED BY <1>6, <1>7, UpdateIs

\* What a method has a rank do is its script, from where the rank begins.
LEMMA ProgramsAreScripts ==
  ASSUME Fits, NEW r \in Ranks, NEW m \in Methods
  PROVE  /\ ProgramOf(m, r) = Rest(Script(m), Skipped(m, r))
         /\ Skipped(m, r) \in 0..ScriptLen(m)
<1>1. CASE m = "init_model"
  <2>1. config.layers \in Nat /\ config.pp \in Nat
    BY ConfigFields
  <2>2. ScriptLen(m) = config.layers + config.pp + 5
    BY <1>1 DEF ScriptLen, InitLen
  <2>3. Skipped(m, r) \in 0..ScriptLen(m)
    BY <2>1, <2>2 DEF Skipped
  <2> QED BY <1>1, <2>3, InitProgram
<1>2. CASE m # "init_model"
  <2>1. Skipped(m, r) = 0
    BY <1>2 DEF Skipped
  <2>2. 0 \in 0..ScriptLen(m)
    <3>1. ScriptLen(m) \in Nat
      BY ScriptIs
    <3> QED BY <3>1
  <2>3. m = "generate_sequences" \/ IsForward(m) \/ IsUpdate(m)
    BY <1>2 DEF Methods, IsForward, IsUpdate
  <2> QED BY <2>1, <2>2, <2>3, GenProgram, ForwardProgram, UpdateProgram
<1> QED BY <1>1, <1>2

(* Where in which method a rank is that comes to an operation. *)

\* Operation i of a script is at its place.
InitPlace(i, op) ==
  \/ op = OpAt("load_embed", 0) /\ i = 1
  \/ op.op = "load_layer" /\ i = op.at + 2 /\ op.at \in 0..(config.layers - 1)
  \/ op = OpAt("load_head", LastStage) /\ i = config.layers + 2
  \/ op = Op("barrier") /\ i = config.layers + 3
  \/ op = Op("dp_params") /\ i = config.layers + 4
  \/ op = Op("to_cuda") /\ i = config.layers + 5
  \/ op.op = "stage" /\ op.at \in Stages /\ i = config.layers + 6 + op.at

GenPlace(i, op) ==
  \/ op = Op("to_cuda") /\ i = 1
  \/ op.op = "stage" /\ op.at \in Stages /\ i = op.at + 2
  \/ op = Op("gather_params") /\ i = config.pp + 2 /\ MicroDp > 1
  \/ op = Op("keep_params") /\ i = config.pp + 2 /\ ~ (MicroDp > 1)
  \/ op = Op("tp_batch") /\ i = config.pp + 3
  \/ op = Op("generate") /\ i = config.pp + 4
  \/ op = Op("gather_micro") /\ i = config.pp + 5 /\ MicroDp > 1
  \/ op = Op("gather_pp") /\ i = GenLen - 1
  \/ op = Op("offload") /\ i = GenLen

FwdPlace(m, i, op) ==
  \/ op = Op("pp_batch") /\ i = Lead(m) + 1
  \/ op = OpOn("forward", ModelOf(m)) /\ i = Lead(m) + 2
  \/ op = Op("pp_output") /\ i = Lead(m) + 3
  \/ op = OpOn("fetch", ModelOf(m)) /\ i = 1 /\ Lead(m) = 1
  \/ op = OpOn("release", ModelOf(m)) /\ i = FwdLen(m) /\ Lead(m) = 1

UpdPlaceOf(m, i, op) ==
  \E k \in 0..(Blocks - 1) :
    \/ op = OpAt("minibatch", (k % Minibatches) + 1) /\ i = 3 * k + 1
    \/ op = Op("pp_batch") /\ i = 3 * k + 2
    \/ op = OpOn("step", ModelOf(m)) /\ i = 3 * k + 3

\* The operations of init_model are at their places.
LEMMA InitPlaces ==
  ASSUME Fits, NEW i \in 1..InitLen
  PROVE  InitPlace(i, InitOp(i))
<1> DEFINE L == config.layers
           p == config.pp
           o == InitOp(i)
<1>1. L \in Nat /\ p \in Nat \ {0} /\ i \in 1..(L + p + 5)
  BY ConfigFields DEF InitLen
<1>2. CASE i = 1
  BY <1>2 DEF InitOp, InitPlace
<1>3. CASE i # 1 /\ i <= L + 1
  <2>1. o = OpAt("load_layer", i - 2)
    BY <1>3 DEF InitOp
  <2>2. i - 2 \in 0..(L - 1) /\ i = (i - 2) + 2
    BY <1>1, <1>3
  <2>3. o.op = "load_layer" /\ o.at = i - 2
    BY <2>1 DEF OpAt
  <2> HIDE DEF o
  <2> QED BY <2>2, <2>3 DEF InitPlace, o
<1>4. CASE i = L + 2
  BY <1>1, <1>4 DEF InitOp, InitPlace
<1>5. CASE i = L + 3
  BY <1>1, <1>5 DEF InitOp, InitPlace
<1>6. CASE i = L + 4
  BY <1>1, <1>6 DEF InitOp, InitPlace
<1>7. CASE i = L + 5
  BY <1>1, <1>7 DEF InitOp, InitPlace
<1>8. CASE i > L + 5
  <2>0. i # 1 /\ ~ (i <= L + 1) /\ i # L + 2 /\ i # L + 3 /\ i # L + 4 /\ i # L + 5
    BY <1>1, <1>8
  <2>1. o = OpAt("stage", i - L - 6)
    BY <2>0 DEF InitOp
  <2>2. i - L - 6 \in Stages /\ i = L + 6 + (i - L - 6)
    BY <1>1, <1>8 DEF Stages
  <2>3. o.op = "stage" /\ o.at = i - L - 6
    BY <2>1 DEF OpAt
  <2> HIDE DEF o
  <2> QED BY <2>2, <2>3 DEF InitPlace, o
<1> QED BY <1>1, <1>2, <1>3, <1>4, <1>5, <1>6, <1>7, <1>8

\* So are those of a rollout.
LEMMA GenPlacesOf ==
  ASSUME Fits, NEW i \in 1..GenLen
  PROVE  GenPlace(i, GenOp(i))
<1> DEFINE p == config.pp
           o == GenOp(i)
           z == GenLen
<1>1. p \in Nat \ {0} /\ i \in 1..z /\ z = p + (IF MicroDp > 1 THEN 7 ELSE 6)
  BY ConfigFields DEF GenLen
<1> HIDE DEF z
<1>2. CASE i = 1
  BY <1>2 DEF GenOp, GenPlace
<1>3. CASE i # 1 /\ i <= p + 1
  <2>1. o = OpAt("stage", i - 2)
    BY <1>3 DEF GenOp
  <2>2. i - 2 \in Stages /\ i = (i - 2) + 2
    BY <1>1, <1>3 DEF Stages
  <2>3. o.op = "stage" /\ o.at = i - 2
    BY <2>1 DEF OpAt
  <2> HIDE DEF o
  <2> QED BY <2>2, <2>3 DEF GenPlace, o
<1>4. CASE i = p + 2
  BY <1>1, <1>4 DEF GenOp, GenPlace
<1>5. CASE i = p + 3
  BY <1>1, <1>5 DEF GenOp, GenPlace
<1>6. CASE i = p + 4
  BY <1>1, <1>6 DEF GenOp, GenPlace
<1>7. CASE i > p + 4
  <2>0. i # 1 /\ ~ (i <= p + 1) /\ i # p + 2 /\ i # p + 3 /\ i # p + 4
    BY <1>1, <1>7
  <2>1. CASE i = z
    BY <2>0, <2>1 DEF GenOp, GenPlace, z
  <2>2. CASE i # z /\ i = z - 1
    BY <2>0, <2>2 DEF GenOp, GenPlace, z
  <2>3. CASE i # z /\ i # z - 1
    <3>1. MicroDp > 1 /\ i = p + 5
      BY <1>1, <1>7, <2>3
    <3>2. o = Op("gather_micro")
      BY <2>0, <2>3 DEF GenOp, z
    <3> QED BY <3>1, <3>2 DEF GenPlace
  <2> QED BY <2>1, <2>2, <2>3
<1> QED BY <1>1, <1>2, <1>3, <1>4, <1>5, <1>6, <1>7

\* So are those of a forward pass.
LEMMA FwdPlaces ==
  ASSUME NEW m, NEW i \in 1..FwdLen(m)
  PROVE  FwdPlace(m, i, FwdOp(m, i))
<1>1. CASE Lead(m) = 1
  BY <1>1 DEF FwdLen, FwdOp, FwdPlace
<1>2. CASE Lead(m) # 1
  <2>1. Lead(m) = 0
    BY <1>2 DEF Lead
  <2> QED BY <2>1 DEF FwdLen, FwdOp, FwdPlace
<1> QED BY <1>1, <1>2

\* So are those of an update.
LEMMA UpdPlaces ==
  ASSUME Fits, NEW m, NEW i \in 1..(3 * Blocks)
  PROVE  UpdPlaceOf(m, i, UpdOp(m, i))
<1>1. Blocks \in Nat
  <2>1. config.epochs \in Nat /\ Minibatches \in Nat
    BY ConfigFields, Sizes
  <2> QED BY <2>1 DEF Blocks
<1> DEFINE B == Blocks
<1> HIDE DEF B
<1>2. B \in Nat /\ i \in 1..(3 * B)
  BY <1>1 DEF B
<1>3. PICK k \in 0..(B - 1) : i = 3 * k + 1 \/ i = 3 * k + 2 \/ i = 3 * k + 3
  <2>1. /\ (i - 1) \div 3 \in 0..(B - 1)
        /\ \/ i = 3 * ((i - 1) \div 3) + 1 \/ i = 3 * ((i - 1) \div 3) + 2 \/ i = 3 * ((i - 1) \div 3) + 3
    BY <1>2
  <2> QED BY <2>1
<1>4. k \in Nat /\ k \in 0..(Blocks - 1)
  BY <1>1, <1>3 DEF B
<1>5. /\ UpdOp(m, 3 * k + 1) = OpAt("minibatch", (k % Minibatches) + 1)
      /\ UpdOp(m, 3 * k + 2) = Op("pp_batch")
      /\ UpdOp(m, 3 * k + 3) = OpOn("step", ModelOf(m))
  BY <1>4, UpdPlace
<1> QED BY <1>3, <1>4, <1>5 DEF UpdPlaceOf

\* Every operation of a method is at its place.
PlaceOf(m, i, op) ==
  IF m = "init_model" THEN InitPlace(i, op) ELSE IF m = "generate_sequences" THEN GenPlace(i, op)
  ELSE IF IsUpdate(m) THEN UpdPlaceOf(m, i, op) ELSE FwdPlace(m, i, op)

\* Whatever the method, each operation of its script is at a place that it has.
LEMMA ScriptPlaces ==
  ASSUME Fits, NEW m \in Methods, NEW i \in 1..ScriptLen(m)
  PROVE  PlaceOf(m, i, Script(m)[i])
<1>1. Script(m)[i] = ScriptOp(m, i)
  BY ScriptIs
<1>2. CASE m = "init_model"
  BY <1>1, <1>2, InitPlaces DEF PlaceOf, ScriptOp, ScriptLen
<1>3. CASE m = "generate_sequences"
  BY <1>1, <1>3, GenPlacesOf DEF PlaceOf, ScriptOp, ScriptLen
<1>4. CASE m # "init_model" /\ m # "generate_sequences" /\ IsUpdate(m)
  BY <1>1, <1>4, UpdPlaces DEF PlaceOf, ScriptOp, ScriptLen
<1>5. CASE m # "init_model" /\ m # "generate_sequences" /\ ~ IsUpdate(m)
  BY <1>1, <1>5, FwdPlaces DEF PlaceOf, ScriptOp, ScriptLen
<1> QED BY <1>2, <1>3, <1>4, <1>5

\* Where an operation of each kind is.
LEMMA KindPlaces ==
  ASSUME NEW m \in Methods, NEW i, NEW op, PlaceOf(m, i, op)
  PROVE  /\ op.op = "load_embed" => m = "init_model" /\ i = 1
         /\ op.op = "load_layer" => m = "init_model" /\ i = op.at + 2 /\ op.at \in 0..(config.layers - 1)
         /\ op.op = "load_head" => m = "init_model" /\ i = config.layers + 2
         /\ op.op = "barrier" => m = "init_model" /\ i = config.layers + 3
         /\ op.op = "dp_params" => m = "init_model" /\ i = config.layers + 4
         /\ op.op = "to_cuda" => \/ m = "init_model" /\ i = config.layers + 5
                                 \/ m = "generate_sequences" /\ i = 1
         /\ op.op = "stage" => /\ op.at \in Stages
                               /\ \/ m = "init_model" /\ i = config.layers + 6 + op.at
                                  \/ m = "generate_sequences" /\ i = op.at + 2
         /\ op.op = "gather_params" => m = "generate_sequences" /\ i = config.pp + 2 /\ MicroDp > 1
         /\ op.op = "keep_params" => m = "generate_sequences" /\ i = config.pp + 2 /\ ~ (MicroDp > 1)
         /\ op.op = "tp_batch" => m = "generate_sequences" /\ i = config.pp + 3
         /\ op.op = "generate" => m = "generate_sequences" /\ i = config.pp + 4
         /\ op.op = "gather_micro" => m = "generate_sequences" /\ i = config.pp + 5 /\ MicroDp > 1
         /\ op.op = "gather_pp" => m = "generate_sequences" /\ i = GenLen - 1
         /\ op.op = "offload" => m = "generate_sequences" /\ i = GenLen
         /\ op.op = "pp_batch" => \/ IsForward(m) /\ i = Lead(m) + 1
                                  \/ IsUpdate(m) /\ \E k \in 0..(Blocks - 1) : i = 3 * k + 2
         /\ op.op = "forward" => IsForward(m) /\ op.model = ModelOf(m) /\ i = Lead(m) + 2
         /\ op.op = "pp_output" => IsForward(m) /\ i = Lead(m) + 3
         /\ op.op = "fetch" => IsForward(m) /\ op.model = ModelOf(m) /\ i = 1 /\ Lead(m) = 1
         /\ op.op = "release" => IsForward(m) /\ op.model = ModelOf(m) /\ i = FwdLen(m) /\ Lead(m) = 1
         /\ op.op = "minibatch" => /\ IsUpdate(m)
                                   /\ \E k \in 0..(Blocks - 1) : i = 3 * k + 1 /\ op.at = (k % Minibatches) + 1
         /\ op.op = "step" => /\ IsUpdate(m) /\ op.model = ModelOf(m)
                              /\ \E k \in 0..(Blocks - 1) : i = 3 * k + 3
<1>1. CASE m = "init_model"
  <2>1. InitPlace(i, op)
    BY <1>1 DEF PlaceOf
  <2> QED BY <1>1, <2>1 DEF InitPlace, Op, OpAt
<1>2. CASE m = "generate_sequences"
  <2>1. GenPlace(i, op)
    BY <1>2 DEF PlaceOf
  <2> QED BY <1>2, <2>1 DEF GenPlace, Op
<1>3. CASE IsUpdate(m)
  <2>1. UpdPlaceOf(m, i, op)
    BY <1>3 DEF PlaceOf, IsUpdate
  <2> HIDE DEF Blocks, Minibatches
  <2>2. PICK k \in 0..(Blocks - 1) :
          \/ op = OpAt("minibatch", (k % Minibatches) + 1) /\ i = 3 * k + 1
          \/ op = Op("pp_batch") /\ i = 3 * k + 2
          \/ op = OpOn("step", ModelOf(m)) /\ i = 3 * k + 3
    BY <2>1 DEF UpdPlaceOf
  <2>3. CASE op = OpAt("minibatch", (k % Minibatches) + 1) /\ i = 3 * k + 1
    <3>1. op.op = "minibatch" /\ op.at = (k % Minibatches) + 1
      BY <2>3 DEF OpAt
    <3> QED BY <1>3, <2>3, <3>1
  <2>4. CASE op = Op("pp_batch") /\ i = 3 * k + 2
    <3>1. op.op = "pp_batch"
      BY <2>4 DEF Op
    <3> QED BY <1>3, <2>4, <3>1
  <2>5. CASE op = OpOn("step", ModelOf(m)) /\ i = 3 * k + 3
    <3>1. op.op = "step" /\ op.model = ModelOf(m)
      BY <2>5 DEF OpOn
    <3> QED BY <1>3, <2>5, <3>1
  <2> QED BY <2>2, <2>3, <2>4, <2>5
<1>4. CASE m # "init_model" /\ m # "generate_sequences" /\ ~ IsUpdate(m)
  <2>1. FwdPlace(m, i, op)
    BY <1>4 DEF PlaceOf
  <2>2. IsForward(m)
    BY <1>4 DEF IsForward, IsUpdate, Methods
  <2> QED BY <2>1, <2>2 DEF FwdPlace, Op, OpOn
<1> QED BY <1>1, <1>2, <1>3, <1>4

-----------------------------------------------------------------------------
(* The inductive invariant: what rank r may hold at its place of a call. *)

Fields == {"todo", "held", "batch", "out", "draws", "critic", "buffer", "engine", "on"}

\* A rank has all its fields, a buffer for every stage, and its own on the GPU.
ShapedBuffer(b, s) ==
  /\ b = [f \in {"on", "weights", "version"} |-> b[f]]
  /\ b.weights = [n \in NamesOf(s) |-> b.weights[n]] /\ b.version \in Nat
ShapedRank(x, r) ==
  /\ x = [f \in Fields |-> x[f]]
  /\ x.draws \in Nat /\ x.critic \in Nat
  /\ x.on = [m \in {"ref", "rm"} |-> x.on[m]]
  /\ x.buffer = [s \in Stages |-> x.buffer[s]]
  /\ \A s \in Stages : ShapedBuffer(x.buffer[s], s)
  /\ x.buffer[Pp(r)].on = "cuda"
  /\ ~ config.offload => x.on.ref = "cuda" /\ x.on.rm = "cuda"

\* A rank has done the first operations of the script, and has the rest to do.
DoneBy(m, x) == ScriptLen(m) - Len(x.todo)
InScript(m, x, r) ==
  /\ DoneBy(m, x) \in Skipped(m, r)..ScriptLen(m)
  /\ x.todo = Rest(Script(m), DoneBy(m, x))

\* The parameters of stage s are the shards of tensor rank Tp(r).
Right(x, r, s) ==
  \A n \in NamesOf(s) : x.buffer[s].weights[n] = ShardOf(NormalName(n, s), config.tp, Tp(r))
Weighted(x, r) == \A s \in Stages : Right(x, r, s)

\* On the GPU is the stage that the rank trains.
AtHome(x, r) == \A s \in Stages : (x.buffer[s].on = "cuda") <=> (s = Pp(r))
Rolled(at) == \E i \in 1..(at - 1) : config.calls[i] = "generate_sequences"

\* The place of init_model that loads tensor n of stage s.
LoadedBy(n, s) ==
  IF n[1] = "embed" THEN 1 ELSE IF n[1] = "head" THEN config.layers + 2
  ELSE n[2] + s * LayersPerStage + 2

\* After d operations of init_model.
InitRank(x, r, d) ==
  /\ x.engine = <<>>
  /\ Dp(r) = 0 => \A n \in NamesOf(Pp(r)) : LoadedBy(n, Pp(r)) <= d =>
       x.buffer[Pp(r)].weights[n] = ShardOf(NormalName(n, Pp(r)), config.tp, Tp(r))
  /\ config.layers + 4 <= d => Right(x, r, Pp(r))
  /\ \A s \in Stages : config.layers + 6 + s <= d => Right(x, r, s)

\* The engine has its shards of the weights that the rank trains.
EngineRight(x, r) ==
  /\ x.engine # <<>>
  /\ \A name \in DOMAIN x.engine.weights :
       x.engine.weights[name] = ShardOf(name, config.infer, InferRank(r))
  /\ x.engine.versions = {x.buffer[Pp(r)].version}

\* The rows of an engine of the rank's micro group.
EngineRows(r) == SliceOf(PpAsDp(r), MicroDp, MicroRank(r))

\* After d operations of a rollout.
GenRank(x, r, d) ==
  /\ Weighted(x, r)
  /\ \A s \in Stages : s + 2 <= d => x.buffer[s].version = x.buffer[Pp(r)].version
  /\ IF config.pp + 2 <= d /\ d < GenLen THEN EngineRight(x, r) ELSE x.engine = <<>>
  /\ d < config.pp + 3 => x.batch = PpAsDp(r)
  /\ config.pp + 3 <= d => x.batch = EngineRows(r)
  /\ d = config.pp + 4 => x.out = Tagged(EngineRows(r), x.buffer[Pp(r)].version)
  /\ d = GenLen - 2 => x.out = Tagged(PpAsDp(r), x.buffer[Pp(r)].version)
  /\ GenLen - 1 <= d => x.out = Tagged(DpCompute(r), x.buffer[Pp(r)].version)
  /\ d = GenLen => AtHome(x, r)

\* Between rollouts.
TrainRank(x, r, at) == x.engine = <<>> /\ Weighted(x, r) /\ (Rolled(at) => AtHome(x, r))

VersionIn(model, x, r) ==
  IF model = "actor" THEN x.buffer[Pp(r)].version ELSE IF model = "critic" THEN x.critic ELSE 0

\* After d operations of a forward pass.
FwdRank(m, x, r, d) ==
  /\ x.batch = DpCompute(r)
  /\ Lead(m) = 1 /\ 1 <= d /\ d < FwdLen(m) => x.on[ModelOf(m)] = "cuda"
  /\ Lead(m) + 2 <= d /\ Pp(r) = LastStage => x.out = Tagged(DpCompute(r), VersionIn(ModelOf(m), x, r))

\* Epoch e of a rank that has drawn D orders before, and minibatch k of all its epochs.
Epoch(r, D, e) == Shuffled(DpCompute(r), SeedOf(r), D + e)
Minibatch(r, D, k) ==
  SubSeq(Epoch(r, D, (k \div Minibatches) + 1),
         (k % Minibatches) * config.mini + 1, ((k % Minibatches) + 1) * config.mini)

\* The row that is trained on j-th.
Row(r, D, j) == Epoch(r, D, ((j - 1) \div Share) + 1)[((j - 1) % Share) + 1]

\* After d operations of an update whose minibatch k all the ranks are at.
UpdRank(x, r, d, k, D) ==
  /\ d \in {3 * k, 3 * k + 1, 3 * k + 2}
  /\ x.held = DpCompute(r)
  /\ x.draws = D + (k \div Minibatches) + (IF d = 3 * k /\ k % Minibatches = 0 THEN 0 ELSE 1)
  /\ d # 3 * k => x.batch = Minibatch(r, D, k)
  /\ x.out \in Seq(Nat \X Nat) /\ Len(x.out) = config.mini * k
  /\ \A j \in 1..(config.mini * k) : x.out[j][1] = Row(r, D, j)

\* Whatever the method.
InPhase(m, x, r, at, k, D) ==
  /\ m = "init_model" => InitRank(x, r, DoneBy(m, x))
  /\ m = "generate_sequences" => GenRank(x, r, DoneBy(m, x))
  /\ IsForward(m) \/ IsUpdate(m) => TrainRank(x, r, at)
  /\ IsForward(m) => FwdRank(m, x, r, DoneBy(m, x))
  /\ IsUpdate(m) => UpdRank(x, r, DoneBy(m, x), k, D)

\* All ranks have one version of the actor and of the critic, and, but in an update, have
\* drawn as many orders.
Versioned(R) ==
  \A q, r \in Ranks : /\ R[q].buffer[Pp(q)].version = R[r].buffer[Pp(r)].version
                      /\ R[q].critic = R[r].critic
Drawn(R) == \A q, r \in Ranks : R[q].draws = R[r].draws
Shaped(R) == R = [r \in Ranks |-> R[r]] /\ \A r \in Ranks : ShapedRank(R[r], r)

Within(R, at) ==
  /\ at \in 1..Len(config.calls)
  /\ \A r \in Ranks : InScript(config.calls[at], R[r], r)
  /\ \E k \in Nat, D \in Nat : \A r \in Ranks : InPhase(config.calls[at], R[r], r, at, k, D)
  /\ ~ IsUpdate(config.calls[at]) => Drawn(R)
Between(R, at) ==
  /\ at \in 1..(Len(config.calls) + 1)
  /\ \A r \in Ranks : /\ R[r].todo = <<>> /\ R[r].engine = <<>>
                      /\ at > 1 => Weighted(R[r], r)
                      /\ Rolled(at) => AtHome(R[r], r)
  /\ Drawn(R)

Inv(R, D) ==
  /\ D = [at |-> D.at, waits |-> D.waits, got |-> D.got] /\ D.waits \in BOOLEAN
  /\ Shaped(R) /\ Versioned(R)
  /\ IF D.waits THEN Within(R, D.at) ELSE Between(R, D.at)

IInv == Fits /\ Inv(rank, driver)

\* The members of IInv for the rank at hand.
LEMMA InvRank ==
  ASSUME IInv, NEW r \in Ranks
  PROVE  ShapedRank(rank[r], r) /\ rank[r] = [f \in Fields |-> rank[r][f]]
BY DEF IInv, Inv, Shaped, ShapedRank

\* What an operation of the ranks in G does.
Moved(kind, G, new) ==
  /\ config' = config /\ driver' = driver /\ Waits /\ Method \in Methods
  /\ driver.at \in 1..Len(config.calls)
  /\ \A q \in G :
       /\ NextOp(q).op = kind
       /\ DoneBy(Method, rank[q]) \in Nat
       /\ DoneBy(Method, rank'[q]) = DoneBy(Method, rank[q]) + 1
       /\ PlaceOf(Method, DoneBy(Method, rank[q]) + 1, NextOp(q))
       /\ rank'[q] = [f \in Fields |-> rank'[q][f]]
       /\ rank'[q].held = new[q].held /\ rank'[q].batch = new[q].batch /\ rank'[q].out = new[q].out
       /\ rank'[q].draws = new[q].draws /\ rank'[q].critic = new[q].critic
       /\ rank'[q].buffer = new[q].buffer /\ rank'[q].engine = new[q].engine /\ rank'[q].on = new[q].on
  /\ \A p, q \in G : NextOp(p) = NextOp(q)
  /\ rank' = [q \in Ranks |-> rank'[q]]
  /\ \A q \in Ranks \ G : rank'[q] = rank[q]
  /\ \A q \in Ranks : InScript(Method, rank'[q], q)

\* The ranks of a group come to an operation together, at places of the call they are in.
LEMMA Moves ==
  ASSUME IInv, NEW kind, NEW G \in SUBSET Ranks, NEW new, G # {},
         \A q \in G : new[q] = [f \in Fields |-> new[q][f]] /\ new[q].todo = rank[q].todo,
         Together(kind, G, new)
  PROVE  Moved(kind, G, new)
<1> DEFINE m == Method
           d(q) == DoneBy(m, rank[q])
<1>0. Fits
  BY DEF IInv
<1>1. /\ \A q \in G : rank[q].todo # <<>> /\ NextOp(q).op = kind
      /\ \A p, q \in G : NextOp(p) = NextOp(q)
      /\ rank' = [q \in Ranks |-> IF q \in G THEN [new[q] EXCEPT !.todo = Tail(@)] ELSE rank[q]]
      /\ config' = config /\ driver' = driver
  BY DEF Together, IsAt
<1>2. Waits
  <2>1. PICK q \in G : q \in Ranks
    OBVIOUS
  <2>2. rank[q].todo # <<>>
    BY <1>1
  <2> QED BY <2>1, <2>2 DEF IInv, Inv, Between, Waits
<1>3. driver.at \in 1..Len(config.calls) /\ \A q \in Ranks : InScript(m, rank[q], q)
  BY <1>2 DEF IInv, Inv, Within, Waits, Method
<1>4. m \in Methods
  <2>1. config.calls \in Seq(Methods)
    BY <1>0, ConfigFields
  <2> QED BY <1>3, <2>1 DEF Method
<1> HIDE DEF m
<1>5. ASSUME NEW q \in G
      PROVE  /\ d(q) \in Nat /\ d(q) + 1 \in 1..ScriptLen(m)
             /\ NextOp(q) = Script(m)[d(q) + 1] /\ Tail(rank[q].todo) = Rest(Script(m), d(q) + 1)
             /\ d(q) \in Skipped(m, q)..ScriptLen(m) /\ Skipped(m, q) \in Nat
  <2> DEFINE X == {ScriptOp(m, i) : i \in 1..ScriptLen(m)}
  <2>1. ScriptLen(m) \in Nat /\ Script(m) \in Seq(X) /\ Len(Script(m)) = ScriptLen(m)
    BY <1>0, <1>4, ScriptIs
  <2>2. d(q) \in Skipped(m, q)..ScriptLen(m) /\ rank[q].todo = Rest(Script(m), d(q))
    BY <1>3 DEF InScript
  <2>3. Skipped(m, q) \in 0..ScriptLen(m)
    BY <1>0, <1>4, ProgramsAreScripts
  <2> DEFINE n == d(q)
  <2>4. n \in 0..Len(Script(m)) /\ rank[q].todo = Rest(Script(m), n) /\ Rest(Script(m), n) # <<>>
    BY <1>1, <2>1, <2>2, <2>3
  <2> HIDE DEF n, X
  <2>5. /\ n < Len(Script(m)) /\ Head(Rest(Script(m), n)) = Script(m)[n + 1]
        /\ Tail(Rest(Script(m), n)) = Rest(Script(m), n + 1)
    BY <2>1, <2>4, RestMoves
  <2>6. n \in Nat /\ n + 1 \in 1..ScriptLen(m)
    BY <2>1, <2>4, <2>5
  <2>7. NextOp(q) = Script(m)[n + 1] /\ Tail(rank[q].todo) = Rest(Script(m), n + 1)
    BY <2>4, <2>5 DEF NextOp
  <2> QED BY <2>2, <2>3, <2>6, <2>7 DEF n
<1>6. ASSUME NEW q \in G
      PROVE  /\ rank'[q] = [f \in Fields |-> rank'[q][f]]
             /\ rank'[q].todo = Tail(rank[q].todo)
             /\ rank'[q].held = new[q].held /\ rank'[q].batch = new[q].batch /\ rank'[q].out = new[q].out
             /\ rank'[q].draws = new[q].draws /\ rank'[q].critic = new[q].critic
             /\ rank'[q].buffer = new[q].buffer /\ rank'[q].engine = new[q].engine /\ rank'[q].on = new[q].on
  <2>1. rank'[q] = [new[q] EXCEPT !.todo = Tail(@)]
    BY <1>1
  <2>2. new[q] = [f \in Fields |-> new[q][f]] /\ new[q].todo = rank[q].todo
    OBVIOUS
  <2> QED BY <2>1, <2>2 DEF Fields
<1>7. ASSUME NEW q \in G PROVE DoneBy(m, rank'[q]) = d(q) + 1 /\ InScript(m, rank'[q], q)
  <2> DEFINE n == d(q) + 1
             X == {ScriptOp(m, i) : i \in 1..ScriptLen(m)}
  <2>1. ScriptLen(m) \in Nat /\ Script(m) \in Seq(X) /\ Len(Script(m)) = ScriptLen(m)
    BY <1>0, <1>4, ScriptIs
  <2>2. n \in 0..Len(Script(m)) /\ n \in Skipped(m, q)..ScriptLen(m)
    <3> HIDE DEF d
    <3> QED BY <1>5, <2>1
  <2>3. rank'[q].todo = Rest(Script(m), n)
    BY <1>5, <1>6
  <2> HIDE DEF n, X
  <2>4. Len(Rest(Script(m), n)) = ScriptLen(m) - n
    BY <2>1, <2>2, RestMoves
  <2>5. DoneBy(m, rank'[q]) = n
    BY <2>1, <2>2, <2>3, <2>4 DEF DoneBy
  <2> QED BY <2>2, <2>3, <2>5 DEF n, InScript
<1>8. ASSUME NEW q \in G PROVE PlaceOf(m, d(q) + 1, NextOp(q))
  BY <1>0, <1>4, <1>5, ScriptPlaces
<1>9. \A q \in Ranks \ G : rank'[q] = rank[q]
  BY <1>1
<1>10. rank' = [q \in Ranks |-> rank'[q]]
  BY <1>1
<1>11. \A q \in Ranks : InScript(m, rank'[q], q)
  BY <1>3, <1>7, <1>9
<1> QED BY <1>1, <1>2, <1>3, <1>4, <1>5, <1>6, <1>7, <1>8, <1>9, <1>10, <1>11 DEF Moved, m

(* While the configuration stays, so does what is said of it. *)

LEMMA SameGrid ==
  ASSUME config' = config
  PROVE  /\ Ranks' = Ranks /\ Stages' = Stages /\ (LastStage)' = LastStage /\ MicroDp' = MicroDp
         /\ LayersPerStage' = LayersPerStage /\ Minibatches' = Minibatches /\ Share' = Share
         /\ GenLen' = GenLen
         /\ \A r : Tp(r)' = Tp(r) /\ Dp(r)' = Dp(r) /\ Pp(r)' = Pp(r) /\ InferRank(r)' = InferRank(r)
                   /\ MicroRank(r)' = MicroRank(r)
         /\ \A s : NamesOf(s)' = NamesOf(s)
         /\ \A n, s : NormalName(n, s)' = NormalName(n, s)
         /\ \A n, k, i : ShardOf(n, k, i)' = ShardOf(n, k, i)
BY DEF Ranks, World, Stages, LastStage, MicroDp, LayersPerStage, Minibatches, Share, GenLen, Tp, Dp, Pp, InferRank,
       MicroRank, NamesOf, NormalName, ShardOf, QkvShard, GateUpShard, CutOut, SliceOf, Tensor

\* The rows, epochs and minibatches of a rank depend on the configuration only.
LEMMA SameRows ==
  ASSUME config' = config
  PROVE  /\ \A r : PpAsDp(r)' = PpAsDp(r) /\ DpCompute(r)' = DpCompute(r) /\ EngineRows(r)' = EngineRows(r)
         /\ \A r, D, k : Minibatch(r, D, k)' = Minibatch(r, D, k)
         /\ \A r, D, e : Epoch(r, D, e)' = Epoch(r, D, e)
<1>1. \A r : PpAsDp(r)' = PpAsDp(r) /\ DpCompute(r)' = DpCompute(r)
  BY DEF PpAsDp, DpCompute, AllRows, SliceOf, Dp, Pp
<1>2. \A r : EngineRows(r)' = EngineRows(r)
  BY DEF EngineRows, PpAsDp, AllRows, SliceOf, Dp, Pp, MicroDp, MicroRank
<1>3. \A r, D, e : Epoch(r, D, e)' = Epoch(r, D, e)
  BY DEF Epoch, Shuffled, DpCompute, AllRows, SliceOf, Dp, Pp, SeedOf
<1>4. \A r, D, k : Minibatch(r, D, k)' = Minibatch(r, D, k)
  BY DEF Minibatch, Minibatches, Share, Epoch, Shuffled, DpCompute, AllRows, SliceOf, Dp, Pp, SeedOf
<1> QED BY <1>1, <1>2, <1>3, <1>4

\* The scripts depend on the configuration only.
LEMMA SameScript ==
  ASSUME config' = config
  PROVE  /\ \A m : ScriptLen(m)' = ScriptLen(m) /\ Script(m)' = Script(m)
         /\ \A m, r : Skipped(m, r)' = Skipped(m, r)
         /\ \A m : Lead(m)' = Lead(m) /\ FwdLen(m)' = FwdLen(m)
<1>1. \A m : ScriptLen(m)' = ScriptLen(m)
  BY DEF ScriptLen, InitLen, GenLen, Blocks, Minibatches, Share, FwdLen, Lead, MicroDp
<1>2. \A m, i : ScriptOp(m, i)' = ScriptOp(m, i)
  BY DEF ScriptOp, InitOp, LastStage, GenOp, GenLen, MicroDp, UpdOp, Minibatches, Share, FwdOp, Lead
<1>3. \A m : Script(m)' = Script(m)
  BY <1>1, <1>2 DEF Script
<1>4. \A m, r : Skipped(m, r)' = Skipped(m, r)
  BY DEF Skipped, Dp
<1>5. \A m : Lead(m)' = Lead(m) /\ FwdLen(m)' = FwdLen(m)
  BY DEF Lead, FwdLen
<1> QED BY <1>1, <1>3, <1>4, <1>5

\* So does the shape of the ranks,
LEMMA SameShaped ==
  ASSUME config' = config
  PROVE  \A R : Shaped(R)' <=> Shaped(R)
<1>1. \A x, r : ShapedRank(x, r)' <=> ShapedRank(x, r)
  BY SameGrid DEF ShapedRank, ShapedBuffer
<1> QED BY <1>1, SameGrid DEF Shaped

\* their agreement on versions and draws,
LEMMA SameVersioned ==
  ASSUME config' = config
  PROVE  \A R : (Versioned(R)' <=> Versioned(R)) /\ (Drawn(R)' <=> Drawn(R))
BY SameGrid DEF Versioned, Drawn

\* how far a rank is in its script,
LEMMA SameInScript ==
  ASSUME config' = config
  PROVE  /\ \A m, x : DoneBy(m, x)' = DoneBy(m, x)
         /\ \A m, x, r : InScript(m, x, r)' <=> InScript(m, x, r)
BY SameScript DEF InScript, DoneBy, Rest

\* whether it has the right weights and is at home,
LEMMA SameWeighted ==
  ASSUME config' = config
  PROVE  /\ \A x, r : Weighted(x, r)' <=> Weighted(x, r)
         /\ \A x, r : AtHome(x, r)' <=> AtHome(x, r)
         /\ \A at : Rolled(at)' <=> Rolled(at)
         /\ \A x, r, at : TrainRank(x, r, at)' <=> TrainRank(x, r, at)
<1>1. \A x, r : Weighted(x, r)' <=> Weighted(x, r)
  BY SameGrid DEF Weighted, Right
<1>2. \A x, r : AtHome(x, r)' <=> AtHome(x, r)
  BY SameGrid DEF AtHome
<1>3. \A at : Rolled(at)' <=> Rolled(at)
  BY DEF Rolled
<1> QED BY <1>1, <1>2, <1>3 DEF TrainRank

\* and the phases of init_model,
LEMMA SameInit ==
  ASSUME config' = config
  PROVE  \A x, r, d : InitRank(x, r, d)' <=> InitRank(x, r, d)
BY SameGrid DEF InitRank, Right, LoadedBy

\* of a rollout,
LEMMA SameGen ==
  ASSUME config' = config
  PROVE  \A x, r, d : GenRank(x, r, d)' <=> GenRank(x, r, d)
<1>1. \A x, r : EngineRight(x, r)' <=> EngineRight(x, r)
  BY SameGrid DEF EngineRight
<1>2. \A r, v : /\ Tagged(EngineRows(r), v)' = Tagged(EngineRows(r), v)
                /\ Tagged(PpAsDp(r), v)' = Tagged(PpAsDp(r), v)
                /\ Tagged(DpCompute(r), v)' = Tagged(DpCompute(r), v)
  BY SameRows DEF Tagged
<1> QED BY <1>1, <1>2, SameWeighted, SameGrid, SameRows DEF GenRank

\* of a forward pass,
LEMMA SameFwd ==
  ASSUME config' = config
  PROVE  \A m, x, r, d : FwdRank(m, x, r, d)' <=> FwdRank(m, x, r, d)
<1>1. \A m, x, r : VersionIn(ModelOf(m), x, r)' = VersionIn(ModelOf(m), x, r)
  BY SameGrid DEF VersionIn, ModelOf
<1>2. \A r, v : Tagged(DpCompute(r), v)' = Tagged(DpCompute(r), v)
  BY SameRows DEF Tagged
<1>3. \A m : ModelOf(m)' = ModelOf(m)
  BY DEF ModelOf
<1> QED BY <1>1, <1>2, <1>3, SameGrid, SameRows, SameScript DEF FwdRank

\* and of an update.
LEMMA SameUpd ==
  ASSUME config' = config
  PROVE  \A x, r, d, k, D : UpdRank(x, r, d, k, D)' <=> UpdRank(x, r, d, k, D)
<1> SUFFICES ASSUME NEW x, NEW r, NEW d, NEW k, NEW D
             PROVE  UpdRank(x, r, d, k, D)' <=> UpdRank(x, r, d, k, D)
  OBVIOUS
<1>1. \A j : Row(r, D, j)' = Row(r, D, j)
  BY SameGrid, SameRows DEF Row
<1>2. (config.mini * k)' = config.mini * k
  OBVIOUS
<1>3. (d # 3 * k => x.batch = Minibatch(r, D, k))' <=> (d # 3 * k => x.batch = Minibatch(r, D, k))
  BY SameRows
<1>4. (x.draws = D + (k \div Minibatches) + (IF d = 3 * k /\ k % Minibatches = 0 THEN 0 ELSE 1))'
      <=> (x.draws = D + (k \div Minibatches) + (IF d = 3 * k /\ k % Minibatches = 0 THEN 0 ELSE 1))
  BY SameGrid
<1>5. (x.held = DpCompute(r))' <=> (x.held = DpCompute(r))
  BY SameRows
<1>6. (x.out \in Seq(Nat \X Nat) /\ Len(x.out) = config.mini * k)'
      <=> (x.out \in Seq(Nat \X Nat) /\ Len(x.out) = config.mini * k)
  BY <1>2
<1> QED BY <1>1, <1>3, <1>4, <1>5, <1>6 DEF UpdRank

\* So the invariant of the next state is that of the same configuration.
LEMMA SameInv ==
  ASSUME config' = config, Fits, Inv(rank', driver')
  PROVE  IInv'
<1>1. Fits'
  BY DEF Fits
<1>2. \A m, x, r, at, k, D : InPhase(m, x, r, at, k, D)' <=> InPhase(m, x, r, at, k, D)
  BY SameInit, SameGen, SameWeighted, SameFwd, SameUpd, SameInScript DEF InPhase, IsForward, IsUpdate
<1>3. \A R, at : Within(R, at)' <=> Within(R, at)
  BY <1>2, SameGrid, SameInScript, SameVersioned DEF Within, IsUpdate
<1>4. \A R, at : Between(R, at)' <=> Between(R, at)
  BY SameGrid, SameWeighted, SameVersioned DEF Between
<1>5. \A R, D : Inv(R, D)' <=> Inv(R, D)
  BY <1>3, <1>4, SameShaped, SameVersioned DEF Inv
<1>6. Inv(rank, driver)'
  BY <1>5
<1> QED BY <1>1, <1>6 DEF IInv

\* What is said of a rank in each kind of method.
LEMMA Phases ==
  ASSUME NEW m, NEW x, NEW r, NEW at, NEW k, NEW D
  PROVE  /\ m = "init_model" => (InPhase(m, x, r, at, k, D) <=> InitRank(x, r, DoneBy(m, x)))
         /\ m = "generate_sequences" => (InPhase(m, x, r, at, k, D) <=> GenRank(x, r, DoneBy(m, x)))
         /\ IsForward(m) =>
              (InPhase(m, x, r, at, k, D) <=> TrainRank(x, r, at) /\ FwdRank(m, x, r, DoneBy(m, x)))
         /\ IsUpdate(m) =>
              (InPhase(m, x, r, at, k, D) <=> TrainRank(x, r, at) /\ UpdRank(x, r, DoneBy(m, x), k, D))
         /\ m \in {"init_model", "generate_sequences"} => ~ IsUpdate(m) /\ ~ IsForward(m)
         /\ IsForward(m) => ~ IsUpdate(m)
BY DEF InPhase, IsForward, IsUpdate

\* An operation of a group that leaves the versions alone, and every rank of the group in its phase.
GroupKept(G) ==
  \A q \in G :
    /\ ShapedRank(rank'[q], q)
    /\ rank'[q].critic = rank[q].critic /\ rank'[q].buffer[Pp(q)].version = rank[q].buffer[Pp(q)].version
    /\ ~ IsUpdate(Method) => rank'[q].draws = rank[q].draws
PhaseKept(G) ==
  \A k \in Nat, D \in Nat :
    (\A r \in Ranks : InPhase(Method, rank[r], r, driver.at, k, D))
      => \A q \in G : InPhase(Method, rank'[q], q, driver.at, k, D)

\* It keeps the invariant.
LEMMA Keeps ==
  ASSUME IInv, NEW kind, NEW G \in SUBSET Ranks, NEW new, Moved(kind, G, new), GroupKept(G), PhaseKept(G)
  PROVE  IInv'
<1>1. /\ config' = config /\ driver' = driver /\ driver.waits
      /\ rank' = [q \in Ranks |-> rank'[q]] /\ \A q \in Ranks \ G : rank'[q] = rank[q]
      /\ \A q \in Ranks : InScript(Method, rank'[q], q)
  BY DEF Moved, Waits
<1>2. /\ driver = [at |-> driver.at, waits |-> driver.waits, got |-> driver.got] /\ driver.waits \in BOOLEAN
      /\ Shaped(rank) /\ Versioned(rank) /\ Within(rank, driver.at) /\ Fits
  BY <1>1 DEF IInv, Inv
<1>3. Shaped(rank')
  <2>1. ASSUME NEW q \in Ranks PROVE ShapedRank(rank'[q], q)
    BY <1>1, <1>2 DEF GroupKept, Shaped
  <2> QED BY <1>1, <2>1 DEF Shaped
<1>4. \A q \in Ranks : /\ rank'[q].critic = rank[q].critic
                       /\ rank'[q].buffer[Pp(q)].version = rank[q].buffer[Pp(q)].version
                       /\ ~ IsUpdate(Method) => rank'[q].draws = rank[q].draws
  BY <1>1 DEF GroupKept
<1>5. Versioned(rank')
  BY <1>2, <1>4 DEF Versioned
<1>6. Within(rank', driver.at)
  <2>1. driver.at \in 1..Len(config.calls) /\ (~ IsUpdate(Method) => Drawn(rank))
    BY <1>2 DEF Within, Method
  <2>2. PICK k \in Nat, D \in Nat : \A r \in Ranks : InPhase(Method, rank[r], r, driver.at, k, D)
    BY <1>2 DEF Within, Method
  <2>3. \A r \in Ranks : InPhase(Method, rank'[r], r, driver.at, k, D)
    BY <1>1, <2>2 DEF PhaseKept
  <2>4. ~ IsUpdate(Method) => Drawn(rank')
    BY <1>4, <2>1 DEF Drawn
  <2> QED BY <1>1, <2>1, <2>3, <2>4 DEF Within, Method
<1>7. Inv(rank', driver')
  BY <1>1, <1>2, <1>3, <1>5, <1>6 DEF Inv
<1> QED BY <1>1, <1>2, <1>7, SameInv

\* A rank keeps its shape where it keeps its fields.
LEMMA KeepsShape ==
  ASSUME NEW x, NEW y, NEW r, ShapedRank(x, r), y = [f \in Fields |-> y[f]],
         y.draws = x.draws, y.critic = x.critic, y.on = x.on, y.buffer = x.buffer
  PROVE  ShapedRank(y, r)
BY DEF ShapedRank

\* The places of init_model at which tensors are loaded.
LEMMA LoadPlaces ==
  ASSUME Fits, NEW s \in Stages, NEW n \in NamesOf(s)
  PROVE  /\ LoadedBy(n, s) \in 1..(config.layers + 2)
         /\ n[1] \in LayerKinds => LoadedBy(n, s) = n[2] + s * LayersPerStage + 2 /\ n[1] # "embed" /\ n[1] # "head"
<1>0. config.layers \in Nat
  BY ConfigFields
<1>1. CASE n[1] \in LayerKinds /\ n[2] \in 0..(LayersPerStage - 1)
  <2>1. n[1] # "embed" /\ n[1] # "head"
    BY <1>1 DEF LayerKinds
  <2>2. n[2] + s * LayersPerStage \in 0..(config.layers - 1)
    BY <1>1, PlaceOfLayer
  <2>3. LoadedBy(n, s) = n[2] + s * LayersPerStage + 2
    BY <2>1 DEF LoadedBy
  <2> DEFINE x == n[2] + s * LayersPerStage
  <2>4. x \in 0..(config.layers - 1) /\ LoadedBy(n, s) = x + 2
    BY <2>2, <2>3
  <2> HIDE DEF x
  <2>5. LoadedBy(n, s) \in 1..(config.layers + 2)
    BY <1>0, <2>4
  <2> QED BY <2>1, <2>3, <2>5
<1>2. CASE n = <<"embed", 0>>
  BY <1>0, <1>2 DEF LoadedBy, LayerKinds
<1>3. CASE n = <<"head", 0>>
  BY <1>0, <1>3 DEF LoadedBy, LayerKinds
<1> QED BY <1>1, <1>2, <1>3, NameKinds

\* The weights of a rank are those that it had.
SameWeights(x, y) == \A s \in Stages : y.buffer[s].weights = x.buffer[s].weights

\* Once the tensors are loaded, an operation that changes none of them says no more than before
\* where it is not the one that data parallel ranks get theirs in, or a stage's.
LEMMA InitStays ==
  ASSUME Fits, NEW r \in Ranks, NEW x, NEW y, NEW d \in Nat, InitRank(x, r, d), SameWeights(x, y),
         y.engine = x.engine, d = config.layers + 2 \/ d = config.layers + 4
  PROVE  InitRank(y, r, d + 1)
<1>1. config.layers \in Nat /\ Pp(r) \in Stages /\ Stages \subseteq Nat
  BY ConfigFields, Placing, StagesAre
<1>2. \A s \in Stages : Right(x, r, s) => Right(y, r, s)
  BY DEF Right, SameWeights
<1>3. ASSUME Dp(r) = 0, NEW n \in NamesOf(Pp(r))
      PROVE  y.buffer[Pp(r)].weights[n] = ShardOf(NormalName(n, Pp(r)), config.tp, Tp(r))
  <2>1. LoadedBy(n, Pp(r)) <= d
    <3>1. LoadedBy(n, Pp(r)) \in 1..(config.layers + 2)
      BY <1>1, LoadPlaces
    <3> QED BY <1>1, <3>1
  <2> QED BY <1>1, <1>3, <2>1 DEF InitRank, SameWeights
<1>4. ASSUME config.layers + 4 <= d + 1 PROVE Right(y, r, Pp(r))
  <2>1. config.layers + 4 <= d
    BY <1>1, <1>4
  <2> QED BY <1>1, <1>2, <2>1 DEF InitRank
<1>5. ASSUME NEW s \in Stages, config.layers + 6 + s <= d + 1 PROVE Right(y, r, s)
  <2>1. config.layers + 6 + s <= d
    BY <1>1, <1>5
  <2> QED BY <1>2, <2>1 DEF InitRank
<1> QED BY <1>3, <1>4, <1>5 DEF InitRank

\* The barrier.
LEMMA BarrierKeeps ==
  ASSUME IInv, NEW r \in Ranks, Barrier(r)
  PROVE  IInv'
<1> DEFINE new == [q \in Ranks |-> rank[q]]
<1>1. Moved("barrier", Ranks, new)
  <2>1. \A q \in Ranks : new[q] = [f \in Fields |-> new[q][f]] /\ new[q].todo = rank[q].todo
    BY InvRank
  <2>2. Together("barrier", Ranks, new)
    BY DEF Barrier
  <2>3. Ranks \in SUBSET Ranks /\ Ranks # {}
    OBVIOUS
  <2> HIDE DEF new
  <2> QED BY <2>1, <2>2, <2>3, Moves
<1>2. ASSUME NEW q \in Ranks
      PROVE  /\ rank'[q] = [f \in Fields |-> rank'[q][f]]
             /\ rank'[q].draws = rank[q].draws /\ rank'[q].critic = rank[q].critic
             /\ rank'[q].on = rank[q].on /\ rank'[q].buffer = rank[q].buffer
             /\ rank'[q].engine = rank[q].engine
             /\ DoneBy(Method, rank'[q]) = DoneBy(Method, rank[q]) + 1
             /\ Method = "init_model" /\ DoneBy(Method, rank[q]) + 1 = config.layers + 3
  <2>1. Method \in Methods /\ NextOp(q).op = "barrier" /\ PlaceOf(Method, DoneBy(Method, rank[q]) + 1, NextOp(q))
    BY <1>1 DEF Moved
  <2>2. Method = "init_model" /\ DoneBy(Method, rank[q]) + 1 = config.layers + 3
    BY <2>1, KindPlaces
  <2> QED BY <1>1, <2>2 DEF Moved
<1> HIDE DEF new
<1>3. GroupKept(Ranks)
  BY <1>2, InvRank, KeepsShape DEF GroupKept
<1>4. PhaseKept(Ranks)
  <2> SUFFICES ASSUME NEW k \in Nat, NEW D \in Nat, NEW q \in Ranks,
                      InPhase(Method, rank[q], q, driver.at, k, D)
               PROVE  InPhase(Method, rank'[q], q, driver.at, k, D)
    BY DEF PhaseKept
  <2> DEFINE d == DoneBy(Method, rank[q])
  <2>1. InitRank(rank[q], q, d)
    BY <1>2, Phases
  <2>2. d = config.layers + 2
    <3>1. config.layers \in Nat /\ d \in Nat /\ d + 1 = config.layers + 3
      BY <1>1, <1>2, ConfigFields DEF Moved, IInv
    <3> HIDE DEF d
    <3> QED BY <3>1
  <2>3. InitRank(rank'[q], q, d + 1)
    <3>1. SameWeights(rank[q], rank'[q])
      BY <1>2 DEF SameWeights
    <3>2. Fits /\ d \in Nat /\ rank'[q].engine = rank[q].engine
      BY <1>1, <1>2 DEF Moved, IInv
    <3> HIDE DEF d
    <3> QED BY <2>1, <2>2, <3>1, <3>2, InitStays
  <2> QED BY <1>2, <2>3, Phases
<1> QED BY <1>1, <1>3, <1>4, Keeps

\* The tensors that are loaded at place p are among the names of a stage.
LoadsAt(names, stage, p) ==
  /\ p \in 1..(config.layers + 2)
  /\ \A s \in Stages : \A n \in NamesOf(s) : LoadedBy(n, s) = p => s = stage /\ n \in names

\* What a rank has of its stage when they are loaded.
LoadedTo(x, y, r, names, stage) ==
  \A n \in NamesOf(Pp(r)) : y.buffer[Pp(r)].weights[n] =
     IF Pp(r) = stage /\ n \in names THEN ShardOf(NormalName(n, stage), config.tp, Tp(r))
     ELSE x.buffer[Pp(r)].weights[n]

\* Then a data parallel rank 0 has loaded one place more.
LEMMA InitLoads ==
  ASSUME Fits, NEW r \in Ranks, NEW x, NEW y, NEW d \in Nat, NEW names, NEW stage,
         InitRank(x, r, d), LoadsAt(names, stage, d + 1), LoadedTo(x, y, r, names, stage),
         y.engine = x.engine
  PROVE  InitRank(y, r, d + 1)
<1>1. /\ config.layers \in Nat /\ Pp(r) \in Stages /\ Stages \subseteq Nat /\ d + 1 <= config.layers + 2
  BY ConfigFields, Placing, StagesAre DEF LoadsAt
<1>2. ASSUME Dp(r) = 0, NEW n \in NamesOf(Pp(r)), LoadedBy(n, Pp(r)) <= d + 1
      PROVE  y.buffer[Pp(r)].weights[n] = ShardOf(NormalName(n, Pp(r)), config.tp, Tp(r))
  <2>1. LoadedBy(n, Pp(r)) \in 1..(config.layers + 2)
    BY <1>1, LoadPlaces
  <2>2. CASE LoadedBy(n, Pp(r)) <= d
    <3>1. x.buffer[Pp(r)].weights[n] = ShardOf(NormalName(n, Pp(r)), config.tp, Tp(r))
      BY <1>2, <2>2 DEF InitRank
    <3> QED BY <3>1 DEF LoadedTo
  <2>3. CASE LoadedBy(n, Pp(r)) = d + 1
    <3>1. Pp(r) = stage /\ n \in names
      BY <1>1, <2>3 DEF LoadsAt
    <3> QED BY <3>1 DEF LoadedTo
  <2> QED BY <1>2, <2>1, <2>2, <2>3
<1>3. ~ (config.layers + 4 <= d + 1)
  BY <1>1
<1>4. \A s \in Stages : ~ (config.layers + 6 + s <= d + 1)
  BY <1>1
<1> QED BY <1>2, <1>3, <1>4 DEF InitRank

\* The ranks of a group load tensors.
LEMMA LoadMoves ==
  ASSUME IInv, NEW r \in Ranks, NEW kind, NEW names, NEW stage,
         Together(kind, MpGroup(r), [q \in MpGroup(r) |-> Loaded(q, names, stage)])
  PROVE  /\ Moved(kind, MpGroup(r), [q \in MpGroup(r) |-> Loaded(q, names, stage)])
         /\ \A q \in MpGroup(r) :
              /\ ShapedRank(rank'[q], q)
              /\ rank'[q].engine = rank[q].engine /\ rank'[q].draws = rank[q].draws
              /\ rank'[q].critic = rank[q].critic
              /\ rank'[q].buffer[Pp(q)].version = rank[q].buffer[Pp(q)].version
              /\ LoadedTo(rank[q], rank'[q], q, names, stage)
<1> DEFINE G == MpGroup(r)
           new == [q \in G |-> Loaded(q, names, stage)]
           w(q) == [n \in NamesOf(Pp(q)) |-> IF n \in names THEN ShardOf(NormalName(n, stage), config.tp, Tp(q))
                                             ELSE rank[q].buffer[Pp(q)].weights[n]]
           b(q) == [rank[q].buffer[Pp(q)] EXCEPT !.weights = w(q)]
<1>0. Fits
  BY DEF IInv
<1>1. G \in SUBSET Ranks /\ G # {}
  BY Groups
<1>2. ASSUME NEW q \in G
      PROVE  /\ q \in Ranks /\ ShapedRank(rank[q], q) /\ Pp(q) \in Stages
             /\ rank[q] = [f \in Fields |-> rank[q][f]] /\ ShapedBuffer(rank[q].buffer[Pp(q)], Pp(q))
  BY <1>0, <1>1, InvRank, Placing DEF ShapedRank
<1>3. ASSUME NEW q \in G
      PROVE  new[q] = IF Pp(q) # stage THEN rank[q] ELSE [rank[q] EXCEPT !.buffer[Pp(q)] = b(q)]
  <2>1. new[q] = Loaded(q, names, stage)
    OBVIOUS
  <2>2. CASE Pp(q) = stage
    <3>1. DOMAIN rank[q].buffer[Pp(q)].weights = NamesOf(Pp(q))
      BY <1>2 DEF ShapedBuffer
    <3>2. Own(q) = rank[q].buffer[Pp(q)]
      BY DEF Own
    <3>3. Loaded(q, names, stage) = [rank[q] EXCEPT !.buffer[Pp(q)] =
             [Own(q) EXCEPT !.weights = [n \in DOMAIN Own(q).weights |->
               IF n \in names THEN ShardOf(NormalName(n, stage), config.tp, Tp(q)) ELSE Own(q).weights[n]]]]
      BY <2>2 DEF Loaded, WithOwn
    <3> HIDE DEF new
    <3> QED BY <2>1, <2>2, <3>1, <3>2, <3>3
  <2>3. CASE Pp(q) # stage
    BY <2>1, <2>3 DEF Loaded
  <2> QED BY <2>2, <2>3
<1> HIDE DEF new, G, w
<1>4. ASSUME NEW q \in G
      PROVE  /\ new[q] = [f \in Fields |-> new[q][f]] /\ new[q].todo = rank[q].todo
             /\ new[q].draws = rank[q].draws /\ new[q].critic = rank[q].critic /\ new[q].on = rank[q].on
             /\ new[q].engine = rank[q].engine
             /\ new[q].buffer = IF Pp(q) # stage THEN rank[q].buffer ELSE [rank[q].buffer EXCEPT ![Pp(q)] = b(q)]
  <2> HIDE DEF b
  <2>1. CASE Pp(q) # stage
    BY <1>2, <1>3, <2>1
  <2>2. CASE Pp(q) = stage
    <3>1. new[q] = [rank[q] EXCEPT !.buffer[Pp(q)] = b(q)] /\ rank[q] = [f \in Fields |-> rank[q][f]]
      BY <1>2, <1>3, <2>2
    <3> QED BY <2>2, <3>1 DEF Fields
  <2> QED BY <2>1, <2>2
<1>5. Moved(kind, G, new)
  BY <1>1, <1>4, Moves DEF G, new
<1>6. ASSUME NEW q \in G
      PROVE  /\ ShapedRank(rank'[q], q)
             /\ rank'[q].engine = rank[q].engine /\ rank'[q].draws = rank[q].draws
             /\ rank'[q].critic = rank[q].critic
             /\ rank'[q].buffer[Pp(q)].version = rank[q].buffer[Pp(q)].version
             /\ LoadedTo(rank[q], rank'[q], q, names, stage)
  <2> DEFINE y == rank'[q]
             x == rank[q]
  <2>1. /\ y = [f \in Fields |-> y[f]] /\ y.draws = x.draws /\ y.critic = x.critic /\ y.on = x.on
        /\ y.engine = x.engine
        /\ y.buffer = IF Pp(q) # stage THEN x.buffer ELSE [x.buffer EXCEPT ![Pp(q)] = b(q)]
    <3>1. /\ y = [f \in Fields |-> y[f]] /\ y.draws = new[q].draws /\ y.critic = new[q].critic
          /\ y.on = new[q].on /\ y.engine = new[q].engine /\ y.buffer = new[q].buffer
      BY <1>5 DEF Moved
    <3> DEFINE c == b(q)
    <3>2. /\ new[q].draws = rank[q].draws /\ new[q].critic = rank[q].critic /\ new[q].on = rank[q].on
          /\ new[q].engine = rank[q].engine
          /\ new[q].buffer = IF Pp(q) # stage THEN rank[q].buffer ELSE [rank[q].buffer EXCEPT ![Pp(q)] = c]
      BY <1>4
    <3> HIDE DEF b, c
    <3> QED BY <3>1, <3>2 DEF c
  <2>2. CASE Pp(q) # stage
    <3>1. y.buffer = x.buffer
      BY <2>1, <2>2
    <3>2. ShapedRank(y, q)
      BY <1>2, <2>1, <3>1, KeepsShape
    <3> QED BY <2>1, <2>2, <3>1, <3>2 DEF LoadedTo
  <2>3. CASE Pp(q) = stage
    <3>1. /\ b(q) = [f \in {"on", "weights", "version"} |-> b(q)[f]] /\ b(q).weights = w(q)
          /\ b(q).on = x.buffer[Pp(q)].on /\ b(q).version = x.buffer[Pp(q)].version
      BY <1>2 DEF ShapedBuffer
    <3> DEFINE c == b(q)
    <3> HIDE DEF b
    <3>2. y.buffer = [x.buffer EXCEPT ![Pp(q)] = c]
      BY <2>1, <2>3
    <3>3. ShapedBuffer(c, Pp(q))
      BY <1>2, <3>1 DEF ShapedBuffer, w
    <3> HIDE DEF c
    <3>4. x.buffer = [s \in Stages |-> x.buffer[s]] /\ Pp(q) \in Stages
      BY <1>2 DEF ShapedRank
    <3>5. /\ y.buffer = [s \in Stages |-> y.buffer[s]] /\ y.buffer[Pp(q)] = c
          /\ \A s \in Stages : s # Pp(q) => y.buffer[s] = x.buffer[s]
      BY <3>2, <3>4
    <3>6. c.on = "cuda"
      BY <1>2, <3>1 DEF ShapedRank, c
    <3> HIDE DEF x, y
    <3>7. ShapedRank(y, q)
      <4>1. ShapedRank(x, q)
        BY <1>2 DEF x
      <4>2. \A s \in Stages : ShapedBuffer(y.buffer[s], s)
        BY <3>3, <3>5, <4>1 DEF ShapedRank
      <4> QED BY <2>1, <3>5, <3>6, <4>1, <4>2 DEF ShapedRank
    <3>8. LoadedTo(x, y, q, names, stage)
      BY <2>3, <3>1, <3>5 DEF LoadedTo, c, w, x
    <3>9. y.buffer[Pp(q)].version = x.buffer[Pp(q)].version
      BY <3>1, <3>5 DEF c
    <3> QED BY <2>1, <3>7, <3>8, <3>9 DEF x, y
  <2> QED BY <2>2, <2>3
<1> QED BY <1>5, <1>6 DEF G, new

\* The tensors at a place of init_model.
LEMMA LoadKeeps ==
  ASSUME IInv, NEW r \in Ranks, NEW kind, NEW names, NEW stage, NEW p,
         Together(kind, MpGroup(r), [q \in MpGroup(r) |-> Loaded(q, names, stage)]),
         LoadsAt(names, stage, p),
         \A q \in MpGroup(r) : Method = "init_model" /\ DoneBy(Method, rank[q]) + 1 = p
  PROVE  IInv'
<1> DEFINE G == MpGroup(r)
           new == [q \in G |-> Loaded(q, names, stage)]
<1>1. /\ Moved(kind, G, new)
      /\ \A q \in G : /\ ShapedRank(rank'[q], q)
                      /\ rank'[q].engine = rank[q].engine /\ rank'[q].draws = rank[q].draws
                      /\ rank'[q].critic = rank[q].critic
                      /\ rank'[q].buffer[Pp(q)].version = rank[q].buffer[Pp(q)].version
                      /\ LoadedTo(rank[q], rank'[q], q, names, stage)
  BY LoadMoves
<1>2. G \in SUBSET Ranks /\ \A q \in G : Method = "init_model" /\ DoneBy(Method, rank[q]) + 1 = p
  BY Groups
<1> HIDE DEF G, new
<1>3. GroupKept(G)
  BY <1>1 DEF GroupKept
<1>4. PhaseKept(G)
  <2> SUFFICES ASSUME NEW k \in Nat, NEW D \in Nat, NEW q \in G,
                      InPhase(Method, rank[q], q, driver.at, k, D)
               PROVE  InPhase(Method, rank'[q], q, driver.at, k, D)
    BY <1>2 DEF PhaseKept
  <2> DEFINE d == DoneBy(Method, rank[q])
  <2>1. InitRank(rank[q], q, d) /\ d + 1 = p
    BY <1>2, Phases
  <2>2. Fits /\ d \in Nat /\ rank'[q].engine = rank[q].engine /\ DoneBy(Method, rank'[q]) = d + 1
        /\ LoadedTo(rank[q], rank'[q], q, names, stage) /\ q \in Ranks
    BY <1>1, <1>2 DEF Moved, IInv
  <2> HIDE DEF d
  <2>3. LoadsAt(names, stage, d + 1)
    BY <2>1
  <2>4. InitRank(rank'[q], q, d + 1)
    BY <2>1, <2>2, <2>3, InitLoads
  <2> QED BY <1>2, <2>2, <2>4, Phases
<1> QED BY <1>1, <1>2, <1>3, <1>4, Keeps

\* The tensors of layer l are loaded at place l + 2, the embedding first and the head last.
LEMMA LayerLoads ==
  ASSUME Fits, NEW l \in 0..(config.layers - 1)
  PROVE  LoadsAt(LayerKinds \X {LayerMap[l][2]}, LayerMap[l][1], l + 2)
<1>1. /\ config.layers \in Nat /\ l \in Nat /\ l + 2 \in 1..(config.layers + 2)
      /\ LayerMap[l] = <<LayerMap[l][1], LayerMap[l][2]>>
  BY ConfigFields DEF LayerMap
<1>2. ASSUME NEW s \in Stages, NEW n \in NamesOf(s), LoadedBy(n, s) = l + 2
      PROVE  s = LayerMap[l][1] /\ n \in LayerKinds \X {LayerMap[l][2]}
  <2>1. CASE n[1] \in LayerKinds /\ n[2] \in 0..(LayersPerStage - 1) /\ n = <<n[1], n[2]>>
    <3> DEFINE x == n[2] + s * LayersPerStage
    <3>1. x \in 0..(config.layers - 1) /\ LayerMap[x] = <<s, n[2]>>
      BY <2>1, PlaceOfLayer
    <3>2. LoadedBy(n, s) = x + 2
      BY <2>1, LoadPlaces
    <3> HIDE DEF x
    <3>3. x = l
      BY <1>1, <1>2, <3>1, <3>2
    <3> QED BY <2>1, <3>1, <3>3
  <2>2. CASE n = <<"embed", 0>>
    BY <1>1, <1>2, <2>2 DEF LoadedBy
  <2>3. CASE n = <<"head", 0>>
    BY <1>1, <1>2, <2>3 DEF LoadedBy
  <2> QED BY <2>1, <2>2, <2>3, NameKinds
<1> QED BY <1>1, <1>2 DEF LoadsAt

\* At the ends there is one tensor.
LEMMA EndsLoad ==
  ASSUME Fits
  PROVE  /\ LoadsAt({<<"embed", 0>>}, 0, 1)
         /\ LoadsAt({<<"head", 0>>}, LastStage, config.layers + 2)
<1>1. config.layers \in Nat /\ Stages \subseteq Nat
  BY ConfigFields, StagesAre
<1>2. ASSUME NEW s \in Stages, NEW n \in NamesOf(s)
      PROVE  /\ LoadedBy(n, s) = 1 => s = 0 /\ n = <<"embed", 0>>
             /\ LoadedBy(n, s) = config.layers + 2 => s = LastStage /\ n = <<"head", 0>>
  <2>1. CASE n[1] \in LayerKinds /\ n[2] \in 0..(LayersPerStage - 1) /\ n = <<n[1], n[2]>>
    <3> DEFINE x == n[2] + s * LayersPerStage
    <3>1. x \in 0..(config.layers - 1)
      BY <2>1, PlaceOfLayer
    <3>2. LoadedBy(n, s) = x + 2
      BY <2>1, LoadPlaces
    <3> HIDE DEF x
    <3> QED BY <1>1, <3>1, <3>2
  <2>2. CASE n = <<"embed", 0>> /\ s = 0
    BY <1>1, <2>2 DEF LoadedBy
  <2>3. CASE n = <<"head", 0>> /\ s = LastStage
    BY <1>1, <2>3 DEF LoadedBy
  <2> QED BY <2>1, <2>2, <2>3, NameKinds
<1> QED BY <1>1, <1>2 DEF LoadsAt

\* Data parallel rank 0 loads a layer.
LEMMA LoadLayerKeeps ==
  ASSUME IInv, NEW r \in Ranks, LoadLayer(r)
  PROVE  IInv'
<1> DEFINE G == MpGroup(r)
           l == NextOp(r).at
           names == LayerKinds \X {LayerMap[l][2]}
           stage == LayerMap[l][1]
<1>1. Together("load_layer", G, [q \in G |-> Loaded(q, names, stage)])
  BY DEF LoadLayer
<1>2. Moved("load_layer", G, [q \in G |-> Loaded(q, names, stage)])
  <2> HIDE DEF l, names, stage
  <2> QED BY <1>1, LoadMoves
<1>3. ASSUME NEW q \in G
      PROVE  /\ Method = "init_model" /\ DoneBy(Method, rank[q]) + 1 = l + 2
             /\ l \in 0..(config.layers - 1)
  <2>1. /\ Method \in Methods /\ NextOp(q).op = "load_layer" /\ NextOp(q) = NextOp(r)
        /\ PlaceOf(Method, DoneBy(Method, rank[q]) + 1, NextOp(q))
    BY <1>2, Groups DEF Moved
  <2>2. /\ Method = "init_model" /\ DoneBy(Method, rank[q]) + 1 = NextOp(q).at + 2
        /\ NextOp(q).at \in 0..(config.layers - 1)
    BY <2>1, KindPlaces
  <2> QED BY <2>1, <2>2
<1>4. Fits /\ r \in G /\ l \in 0..(config.layers - 1)
  BY <1>3, Groups DEF IInv
<1>5. LoadsAt(names, stage, l + 2)
  BY <1>4, LayerLoads
<1> HIDE DEF l, names, stage
<1> QED BY <1>1, <1>3, <1>5, LoadKeeps

\* It loads the embedding or the head.
LEMMA LoadEndsKeeps ==
  ASSUME IInv, NEW r \in Ranks, LoadEnds(r)
  PROVE  IInv'
<1> DEFINE G == MpGroup(r)
<1>0. Fits
  BY DEF IInv
<1>1. ASSUME NEW kind, NEW names, NEW stage, NEW p, kind \in {"load_embed", "load_head"},
             p = IF kind = "load_embed" THEN 1 ELSE config.layers + 2,
             LoadsAt(names, stage, p),
             Together(kind, G, [q \in G |-> Loaded(q, names, stage)])
      PROVE  IInv'
  <2>1. Moved(kind, G, [q \in G |-> Loaded(q, names, stage)])
    BY <1>1, LoadMoves
  <2>2. ASSUME NEW q \in G
        PROVE  Method = "init_model" /\ DoneBy(Method, rank[q]) + 1 = p
    <3>1. /\ Method \in Methods /\ NextOp(q).op = kind
          /\ PlaceOf(Method, DoneBy(Method, rank[q]) + 1, NextOp(q))
      BY <2>1 DEF Moved
    <3> QED BY <1>1, <3>1, KindPlaces
  <2> QED BY <1>1, <2>2, LoadKeeps
<1>2. CASE Together("load_embed", G, [q \in G |-> Loaded(q, {<<"embed", 0>>}, 0)])
  <2> DEFINE names == {<<"embed", 0>>}
             kind == "load_embed"
             stage == 0
             p == IF kind = "load_embed" THEN 1 ELSE config.layers + 2
  <2>1. /\ LoadsAt(names, stage, p) /\ kind \in {"load_embed", "load_head"}
        /\ Together(kind, G, [q \in G |-> Loaded(q, names, stage)])
        /\ p = IF kind = "load_embed" THEN 1 ELSE config.layers + 2
    BY <1>0, <1>2, EndsLoad
  <2> HIDE DEF names, kind, stage, p
  <2> QED BY <1>1, <2>1
<1>3. CASE Together("load_head", G, [q \in G |-> Loaded(q, {<<"head", 0>>}, LastStage)])
  <2> DEFINE names == {<<"head", 0>>}
             kind == "load_head"
             stage == LastStage
             p == IF kind = "load_embed" THEN 1 ELSE config.layers + 2
  <2>1. /\ LoadsAt(names, stage, p) /\ kind \in {"load_embed", "load_head"}
        /\ Together(kind, G, [q \in G |-> Loaded(q, names, stage)])
        /\ p = IF kind = "load_embed" THEN 1 ELSE config.layers + 2
    BY <1>0, <1>3, EndsLoad
  <2> HIDE DEF names, kind, stage, p
  <2> QED BY <1>1, <2>1
<1> QED BY <1>2, <1>3 DEF LoadEnds

\* A rank that puts a buffer for stage s in the place of what it had.
Put(x, y, r, s, c) ==
  /\ ShapedRank(x, r) /\ y = [f \in Fields |-> y[f]] /\ s \in Stages
  /\ y.draws = x.draws /\ y.critic = x.critic /\ y.on = x.on
  /\ y.buffer = [x.buffer EXCEPT ![s] = c]
  /\ ShapedBuffer(c, s) /\ (s = Pp(r) => c.on = "cuda")

\* It has this buffer, and all the others.
LEMMA PutKeeps ==
  ASSUME NEW x, NEW y, NEW r, NEW s, NEW c, Put(x, y, r, s, c)
  PROVE  /\ ShapedRank(y, r) /\ y.buffer[s] = c
         /\ \A t \in Stages : t # s => y.buffer[t] = x.buffer[t]
<1>1. x.buffer = [t \in Stages |-> x.buffer[t]] /\ s \in Stages /\ y.buffer = [x.buffer EXCEPT ![s] = c]
  BY DEF Put, ShapedRank
<1>2. /\ y.buffer = [t \in Stages |-> y.buffer[t]] /\ y.buffer[s] = c
      /\ \A t \in Stages : t # s => y.buffer[t] = x.buffer[t]
  BY <1>1
<1>3. \A t \in Stages : ShapedBuffer(y.buffer[t], t)
  BY <1>2 DEF Put, ShapedRank
<1>4. y.buffer[Pp(r)].on = "cuda"
  <2>1. CASE s = Pp(r)
    BY <1>2, <2>1 DEF Put
  <2>2. CASE s # Pp(r) /\ Pp(r) \in Stages
    BY <1>2, <2>2 DEF Put, ShapedRank
  <2>3. CASE Pp(r) \notin Stages
    <3>1. x.buffer[Pp(r)] = y.buffer[Pp(r)]
      <4> DEFINE b == x.buffer
                 e == y.buffer
      <4>1. e = [b EXCEPT ![s] = c] /\ Pp(r) # s
        BY <1>1, <2>3
      <4> QED BY <1>1, <1>2, <2>3, <4>1
    <3> QED BY <3>1 DEF Put, ShapedRank
  <2> QED BY <2>1, <2>2, <2>3
<1> QED BY <1>2, <1>3, <1>4 DEF ShapedRank, Put

\* The ranks of data parallel rank 0 have all the tensors of their stage when the others come for them.
LEMMA LoadedRight ==
  ASSUME Fits, NEW r \in Ranks, NEW x, NEW d \in Nat, InitRank(x, r, d), config.layers + 2 <= d, Dp(r) = 0
  PROVE  Right(x, r, Pp(r))
<1> SUFFICES ASSUME NEW n \in NamesOf(Pp(r))
             PROVE  x.buffer[Pp(r)].weights[n] = ShardOf(NormalName(n, Pp(r)), config.tp, Tp(r))
  BY DEF Right
<1>1. config.layers \in Nat /\ Pp(r) \in Stages
  BY ConfigFields, Placing
<1>2. LoadedBy(n, Pp(r)) \in 1..(config.layers + 2)
  BY <1>1, LoadPlaces
<1>3. LoadedBy(n, Pp(r)) <= d
  BY <1>1, <1>2
<1> QED BY <1>3 DEF InitRank

\* The parameters go from the least rank of a data parallel group to the others.
LEMMA DpParamsKeeps ==
  ASSUME IInv, NEW r \in Ranks, BroadcastDpParams(r)
  PROVE  IInv'
<1> DEFINE G == DpGroup(r)
           w == Min(G)
           new == [q \in G |-> WithOwn(q, Own(Min(DpGroup(q))))]
<1>0. Fits
  BY DEF IInv
<1>1. /\ G \in SUBSET Ranks /\ G # {} /\ w \in G /\ w \in Ranks /\ Dp(w) = 0 /\ Pp(w) = Pp(r) /\ Tp(w) = Tp(r)
      /\ \A q \in G : /\ DpGroup(q) = G /\ Pp(q) = Pp(w) /\ Tp(q) = Tp(w) /\ Pp(q) \in Stages /\ q \in Ranks
  <2>1. \A q \in G : DpGroup(q) = G /\ Pp(q) = Pp(r) /\ Tp(q) = Tp(r) /\ q \in Ranks
    BY Groups DEF DpGroup
  <2> QED BY <1>0, <2>1, Groups, LeastOfDp, Placing
<1>2. ASSUME NEW q \in G
      PROVE  new[q] = [rank[q] EXCEPT !.buffer[Pp(q)] = rank[w].buffer[Pp(q)]]
  BY <1>1 DEF WithOwn, Own
<1>3. Together("dp_params", G, new)
  BY DEF BroadcastDpParams
<1> HIDE DEF new, w, G
<1>4. ASSUME NEW q \in G
      PROVE  /\ new[q] = [f \in Fields |-> new[q][f]] /\ new[q].todo = rank[q].todo
             /\ new[q].draws = rank[q].draws /\ new[q].critic = rank[q].critic /\ new[q].on = rank[q].on
             /\ new[q].engine = rank[q].engine
             /\ new[q].buffer = [rank[q].buffer EXCEPT ![Pp(q)] = rank[w].buffer[Pp(q)]]
  <2>1. rank[q] = [f \in Fields |-> rank[q][f]]
    BY <1>1, InvRank
  <2> QED BY <1>2, <2>1 DEF Fields
<1>5. Moved("dp_params", G, new)
  BY <1>1, <1>3, <1>4, Moves
<1>6. ASSUME NEW q \in G
      PROVE  /\ Method = "init_model" /\ DoneBy(Method, rank[q]) = config.layers + 3
             /\ DoneBy(Method, rank'[q]) = config.layers + 4
  <2>1. /\ Method \in Methods /\ NextOp(q).op = "dp_params" /\ DoneBy(Method, rank[q]) \in Nat
        /\ PlaceOf(Method, DoneBy(Method, rank[q]) + 1, NextOp(q))
        /\ DoneBy(Method, rank'[q]) = DoneBy(Method, rank[q]) + 1
    BY <1>5 DEF Moved
  <2>2. Method = "init_model" /\ DoneBy(Method, rank[q]) + 1 = config.layers + 4
    BY <2>1, KindPlaces
  <2> DEFINE d == DoneBy(Method, rank[q])
             e == DoneBy(Method, rank'[q])
  <2>3. d \in Nat /\ d + 1 = config.layers + 4 /\ e = d + 1 /\ config.layers \in Nat
    BY <1>0, <2>1, <2>2, ConfigFields
  <2> HIDE DEF d, e
  <2>4. d = config.layers + 3 /\ e = config.layers + 4
    BY <2>3
  <2> QED BY <2>2, <2>4 DEF d, e
<1>7. ASSUME NEW q \in G
      PROVE  /\ ShapedRank(rank'[q], q) /\ rank'[q].buffer[Pp(q)] = rank[w].buffer[Pp(w)]
             /\ rank'[q].draws = rank[q].draws /\ rank'[q].critic = rank[q].critic
             /\ rank'[q].engine = rank[q].engine
  <2> DEFINE c == rank[w].buffer[Pp(q)]
             y == rank'[q]
             x == rank[q]
             s == Pp(q)
  <2>1. /\ y = [f \in Fields |-> y[f]] /\ y.draws = x.draws /\ y.critic = x.critic /\ y.on = x.on
        /\ y.engine = x.engine /\ y.buffer = [x.buffer EXCEPT ![Pp(q)] = c]
    BY <1>4, <1>5, ZenonT(60) DEF Moved
  <2>2. ShapedRank(x, q) /\ ShapedRank(rank[w], w) /\ s \in Stages /\ s = Pp(w)
    BY <1>1, InvRank
  <2>3. ShapedBuffer(c, s) /\ c.on = "cuda"
    BY <2>2 DEF ShapedRank
  <2>4. Put(x, y, q, s, c)
    BY <2>1, <2>2, <2>3 DEF Put
  <2>5. ShapedRank(y, q) /\ y.buffer[s] = c
    <3> HIDE DEF x, y, s, c
    <3> QED BY <2>4, PutKeeps
  <2> QED BY <2>1, <2>2, <2>5
<1>8. GroupKept(G)
  <2>1. \A q \in G : rank[q].buffer[Pp(q)].version = rank[w].buffer[Pp(w)].version
    BY <1>1 DEF IInv, Inv, Versioned
  <2> QED BY <1>7, <2>1 DEF GroupKept
<1>9. PhaseKept(G)
  <2> SUFFICES ASSUME NEW k \in Nat, NEW D \in Nat,
                      \A z \in Ranks : InPhase(Method, rank[z], z, driver.at, k, D),
                      NEW q \in G
               PROVE  InPhase(Method, rank'[q], q, driver.at, k, D)
    BY DEF PhaseKept
  <2>1. /\ InitRank(rank[q], q, config.layers + 3) /\ InitRank(rank[w], w, config.layers + 3)
        /\ config.layers \in Nat /\ Stages \subseteq Nat
    BY <1>0, <1>1, <1>6, Phases, ConfigFields, StagesAre
  <2>2. Right(rank[w], w, Pp(w))
    <3> DEFINE d == config.layers + 3
    <3>1. d \in Nat /\ config.layers + 2 <= d /\ InitRank(rank[w], w, d)
      BY <2>1
    <3> HIDE DEF d
    <3> QED BY <1>0, <1>1, <3>1, LoadedRight
  <2>3. Right(rank'[q], q, Pp(q))
    BY <1>1, <1>7, <2>2 DEF Right
  <2>4. InitRank(rank'[q], q, config.layers + 4)
    <3>1. \A s \in Stages : ~ (config.layers + 6 + s <= config.layers + 4)
      BY <2>1
    <3>2. rank'[q].engine = <<>>
      BY <1>7, <2>1 DEF InitRank
    <3> QED BY <2>3, <3>1, <3>2 DEF InitRank, Right
  <2> QED BY <1>6, <2>4, Phases
<1> QED BY <1>1, <1>5, <1>8, <1>9, Keeps

\* Early in a rollout.
LEMMA GenEarly ==
  ASSUME Fits, NEW r \in Ranks, NEW x, NEW y, NEW d \in Nat, d < config.pp + 1, GenRank(x, r, d),
         y.engine = x.engine, y.batch = x.batch, Weighted(y, r),
         \A s \in Stages : s + 2 <= d + 1 => y.buffer[s].version = y.buffer[Pp(r)].version
  PROVE  GenRank(y, r, d + 1)
<1> DEFINE p == config.pp
           e == IF MicroDp > 1 THEN 1 ELSE 0
<1>1. p \in Nat \ {0} /\ e \in {0, 1} /\ GenLen = p + 6 + e /\ GenLen \in Nat
  BY GenPlaces
<1> HIDE DEF e
<1>2. /\ ~ (config.pp + 2 <= d /\ d < GenLen) /\ ~ (config.pp + 2 <= d + 1 /\ d + 1 < GenLen)
      /\ d < config.pp + 3 /\ ~ (config.pp + 3 <= d + 1) /\ d + 1 # config.pp + 4
      /\ d + 1 # GenLen - 2 /\ ~ (GenLen - 1 <= d + 1) /\ d + 1 # GenLen
  BY <1>1
<1>3. y.engine = <<>> /\ y.batch = PpAsDp(r)
  BY <1>2 DEF GenRank
<1> QED BY <1>2, <1>3 DEF GenRank

\* The buffers come to the GPU.
LEMMA ToCudaKeeps ==
  ASSUME IInv, NEW r \in Ranks, LoadParamsToCuda(r)
  PROVE  IInv'
<1> DEFINE G == {r}
           new == [q \in {r} |->
                     [rank[q] EXCEPT !.buffer = [s \in Stages |-> [@[s] EXCEPT !.on = "cuda"]]]]
           b == [s \in Stages |-> [rank[r].buffer[s] EXCEPT !.on = "cuda"]]
           x == rank[r]
           y == rank'[r]
           d == DoneBy(Method, rank[r])
<1>0. Fits /\ G \in SUBSET Ranks /\ G # {} /\ ShapedRank(x, r) /\ Pp(r) \in Stages
  BY InvRank, Placing DEF IInv
<1>1. Together("to_cuda", G, new) /\ new[r] = [rank[r] EXCEPT !.buffer = b]
  BY DEF LoadParamsToCuda
<1> HIDE DEF new, b
<1>2. /\ new[r] = [f \in Fields |-> new[r][f]] /\ new[r].todo = rank[r].todo
      /\ new[r].held = x.held /\ new[r].batch = x.batch /\ new[r].out = x.out
      /\ new[r].draws = x.draws /\ new[r].critic = x.critic /\ new[r].on = x.on
      /\ new[r].engine = x.engine /\ new[r].buffer = b
  <2>1. rank[r] = [f \in Fields |-> rank[r][f]]
    BY InvRank
  <2> QED BY <1>1, <2>1 DEF Fields
<1>3. Moved("to_cuda", G, new)
  BY <1>0, <1>1, <1>2, Moves
<1>4. /\ y = [f \in Fields |-> y[f]] /\ y.draws = x.draws /\ y.critic = x.critic /\ y.on = x.on
      /\ y.engine = x.engine /\ y.batch = x.batch /\ y.buffer = b /\ r \in Ranks
      /\ d \in Nat /\ DoneBy(Method, y) = d + 1
      /\ Method \in Methods /\ NextOp(r).op = "to_cuda" /\ PlaceOf(Method, d + 1, NextOp(r))
  BY <1>2, <1>3 DEF Moved
<1>5. \A s \in Stages : /\ ShapedBuffer(b[s], s) /\ b[s].on = "cuda"
                        /\ b[s].weights = x.buffer[s].weights /\ b[s].version = x.buffer[s].version
  <2> SUFFICES ASSUME NEW s \in Stages
               PROVE  /\ ShapedBuffer(b[s], s) /\ b[s].on = "cuda"
                      /\ b[s].weights = x.buffer[s].weights /\ b[s].version = x.buffer[s].version
    OBVIOUS
  <2> DEFINE c == x.buffer[s]
             e == [c EXCEPT !.on = "cuda"]
  <2>1. ShapedBuffer(c, s) /\ b[s] = e
    BY <1>0 DEF ShapedRank, b
  <2> HIDE DEF c
  <2>2. /\ e = [f \in {"on", "weights", "version"} |-> e[f]] /\ e.on = "cuda"
        /\ e.weights = c.weights /\ e.version = c.version
    BY <2>1 DEF ShapedBuffer
  <2> HIDE DEF e
  <2>3. ShapedBuffer(e, s)
    BY <2>1, <2>2 DEF ShapedBuffer
  <2> QED BY <2>1, <2>2, <2>3 DEF c
<1>6. b = [s \in Stages |-> b[s]]
  BY DEF b
<1> HIDE DEF y
<1>7. ShapedRank(y, r)
  <2> HIDE DEF x
  <2> QED BY <1>0, <1>4, <1>5, <1>6 DEF ShapedRank
<1>8. SameWeights(x, y) /\ \A s \in Stages : y.buffer[s].version = x.buffer[s].version
  BY <1>4, <1>5 DEF SameWeights
<1>9. GroupKept(G)
  BY <1>0, <1>4, <1>7, <1>8 DEF GroupKept, y
<1>10. PhaseKept(G)
  <2> SUFFICES ASSUME NEW k \in Nat, NEW D \in Nat, InPhase(Method, x, r, driver.at, k, D)
               PROVE  InPhase(Method, y, r, driver.at, k, D)
    BY DEF PhaseKept, y
  <2>1. CASE Method = "init_model" /\ d + 1 = config.layers + 5
    <3>1. InitRank(x, r, d)
      BY <2>1, Phases
    <3>2. config.layers \in Nat
      BY <1>0, ConfigFields
    <3>3. SameWeights(x, y) /\ d \in Nat /\ y.engine = x.engine /\ Fits
      BY <1>0, <1>4, <1>8
    <3> HIDE DEF x, d
    <3>4. d = config.layers + 4
      BY <2>1, <3>2, <3>3
    <3>5. InitRank(y, r, d + 1)
      BY <3>1, <3>3, <3>4, InitStays
    <3> QED BY <1>4, <2>1, <3>5, Phases
  <2>2. CASE Method = "generate_sequences" /\ d + 1 = 1
    <3>1. GenRank(x, r, d)
      BY <2>2, Phases
    <3>2. Weighted(y, r)
      BY <1>8, <3>1 DEF GenRank, Weighted, Right, SameWeights
    <3>3. d \in Nat /\ y.engine = x.engine /\ y.batch = x.batch /\ config.pp \in Nat \ {0} /\ Fits /\ Stages \subseteq Nat
      BY <1>0, <1>4, ConfigFields, StagesAre
    <3> HIDE DEF x, d
    <3>4. d < config.pp + 1 /\ d = 0
      BY <2>2, <3>3
    <3>5. \A s \in Stages : s + 2 <= d + 1 => y.buffer[s].version = y.buffer[Pp(r)].version
      BY <3>3, <3>4
    <3>6. GenRank(y, r, d + 1)
      BY <3>1, <3>2, <3>3, <3>4, <3>5, GenEarly
    <3> QED BY <1>4, <2>2, <3>6, Phases
  <2> HIDE DEF d
  <2> QED BY <1>4, <2>1, <2>2, KindPlaces
<1> QED BY <1>0, <1>3, <1>9, <1>10, Keeps

\* A stage's parameters that came from a rank that had them.
LEMMA InitStage ==
  ASSUME Fits, NEW r \in Ranks, NEW x, NEW y, NEW d \in Nat, NEW s \in Stages, InitRank(x, r, d),
         d + 1 = config.layers + 6 + s, y.engine = x.engine, Right(y, r, s),
         \A t \in Stages : t # s => y.buffer[t] = x.buffer[t]
  PROVE  InitRank(y, r, d + 1)
<1>0. config.layers \in Nat /\ Pp(r) \in Stages /\ Stages \subseteq Nat
  BY ConfigFields, Placing, StagesAre
<1>1. config.layers \in Nat /\ Pp(r) \in Stages /\ Stages \subseteq Nat /\ config.layers + 4 <= d
  <2>1. s \in Nat
    BY <1>0
  <2> QED BY <1>0, <2>1
<1>2. \A t \in Stages : Right(x, r, t) => Right(y, r, t)
  BY DEF Right
<1>3. Right(y, r, Pp(r))
  BY <1>1, <1>2 DEF InitRank
<1>4. ASSUME NEW t \in Stages, config.layers + 6 + t <= d + 1 PROVE Right(y, r, t)
  <2>1. t = s \/ config.layers + 6 + t <= d
    BY <1>1, <1>4
  <2> QED BY <1>2, <2>1 DEF InitRank
<1> QED BY <1>3, <1>4 DEF InitRank, Right

\* The ranks of a pipeline take the parameters of a stage from the one that trains it.
StageTaken(r, s) ==
  \A q \in PpGroup(r) :
    /\ Put(rank[q], rank'[q], q, s, rank[Along(r, s)].buffer[s])
    /\ rank'[q].engine = rank[q].engine /\ rank'[q].batch = rank[q].batch

\* A broadcast does so.
LEMMA StageMoves ==
  ASSUME IInv, NEW r \in Ranks, BroadcastStage(r)
  PROVE  /\ NextOp(r).at \in Stages /\ StageTaken(r, NextOp(r).at)
         /\ \E new : Moved("stage", PpGroup(r), new)
<1> DEFINE G == PpGroup(r)
           s == NextOp(r).at
           src == CHOOSE q \in PpGroup(r) : Pp(q) = s
           c == rank[src].buffer[s]
           new == [q \in G |-> [rank[q] EXCEPT !.buffer[s] = rank[src].buffer[s]]]
<1>0. Fits /\ G \in SUBSET Ranks /\ G # {} /\ r \in G
  BY Groups DEF IInv
<1>1. Together("stage", G, new) /\ \A q \in G : new[q] = [rank[q] EXCEPT !.buffer[s] = c]
  BY DEF BroadcastStage
<1> HIDE DEF new, src, s, G
<1>2. ASSUME NEW q \in G
      PROVE  /\ new[q] = [f \in Fields |-> new[q][f]] /\ new[q].todo = rank[q].todo
             /\ new[q].draws = rank[q].draws /\ new[q].critic = rank[q].critic /\ new[q].on = rank[q].on
             /\ new[q].engine = rank[q].engine /\ new[q].batch = rank[q].batch
             /\ new[q].buffer = [rank[q].buffer EXCEPT ![s] = c]
  <2>1. rank[q] = [f \in Fields |-> rank[q][f]]
    BY <1>0, InvRank
  <2> HIDE DEF c
  <2> QED BY <1>1, <2>1 DEF Fields
<1>3. Moved("stage", G, new)
  BY <1>0, <1>1, <1>2, Moves
<1>4. s \in Stages
  <2>1. Method \in Methods /\ NextOp(r).op = "stage" /\ PlaceOf(Method, DoneBy(Method, rank[r]) + 1, NextOp(r))
    BY <1>0, <1>3 DEF Moved
  <2> QED BY <2>1, KindPlaces DEF s
<1>5. src = Along(r, s) /\ Along(r, s) \in Ranks /\ Pp(Along(r, s)) = s
  BY <1>0, <1>4, Pipeline DEF src
<1>6. ASSUME NEW q \in G
      PROVE  /\ Put(rank[q], rank'[q], q, s, c)
             /\ rank'[q].engine = rank[q].engine /\ rank'[q].batch = rank[q].batch
  <2> DEFINE y == rank'[q]
             x == rank[q]
             o == rank[src]
  <2>1. /\ y = [f \in Fields |-> y[f]] /\ y.draws = x.draws /\ y.critic = x.critic /\ y.on = x.on
        /\ y.engine = x.engine /\ y.batch = x.batch /\ y.buffer = [x.buffer EXCEPT ![s] = c]
    <3>1. /\ y = [f \in Fields |-> y[f]] /\ y.draws = new[q].draws /\ y.critic = new[q].critic
          /\ y.on = new[q].on /\ y.engine = new[q].engine /\ y.batch = new[q].batch
          /\ y.buffer = new[q].buffer
      BY <1>3 DEF Moved
    <3> HIDE DEF y, c
    <3> QED BY <1>2, <3>1
  <2>2. ShapedRank(x, q) /\ ShapedRank(o, src) /\ Pp(src) = s
    BY <1>0, <1>5, InvRank
  <2>3. ShapedBuffer(c, s) /\ c.on = "cuda"
    BY <1>4, <2>2 DEF ShapedRank
  <2> QED BY <1>4, <2>1, <2>2, <2>3 DEF Put
<1> QED BY <1>3, <1>4, <1>5, <1>6 DEF StageTaken, G, s

\* The parameters of one stage.
LEMMA StageKeeps ==
  ASSUME IInv, NEW r \in Ranks, BroadcastStage(r)
  PROVE  IInv'
<1> DEFINE G == PpGroup(r)
           s == NextOp(r).at
           o == Along(r, s)
<1>0. Fits /\ G \in SUBSET Ranks
  BY Groups DEF IInv
<1>1. PICK new : s \in Stages /\ Moved("stage", G, new) /\ StageTaken(r, s)
  BY StageMoves
<1>2. ASSUME NEW q \in G
      PROVE  /\ s \in Stages /\ q \in Ranks /\ NextOp(q) = NextOp(r)
             /\ DoneBy(Method, rank[q]) \in Nat /\ DoneBy(Method, rank'[q]) = DoneBy(Method, rank[q]) + 1
             /\ \/ Method = "init_model" /\ DoneBy(Method, rank[q]) + 1 = config.layers + 6 + s
                \/ Method = "generate_sequences" /\ DoneBy(Method, rank[q]) + 1 = s + 2
  <2>1. /\ Method \in Methods /\ NextOp(q).op = "stage" /\ NextOp(q) = NextOp(r)
        /\ PlaceOf(Method, DoneBy(Method, rank[q]) + 1, NextOp(q)) /\ q \in Ranks
        /\ DoneBy(Method, rank[q]) \in Nat /\ DoneBy(Method, rank'[q]) = DoneBy(Method, rank[q]) + 1
    BY <1>0, <1>1, Groups DEF Moved
  <2>2. /\ NextOp(q).at \in Stages
        /\ \/ Method = "init_model" /\ DoneBy(Method, rank[q]) + 1 = config.layers + 6 + NextOp(q).at
           \/ Method = "generate_sequences" /\ DoneBy(Method, rank[q]) + 1 = NextOp(q).at + 2
    BY <2>1, KindPlaces
  <2> QED BY <2>1, <2>2
<1> HIDE DEF s
<1>3. /\ o \in G /\ o \in Ranks /\ Pp(o) = s /\ Tp(o) = Tp(r)
      /\ \A q \in G : Tp(q) = Tp(r) /\ (Pp(q) = s => q = o) /\ Pp(q) \in Stages
  BY <1>0, <1>1, Pipeline, Placing DEF PpGroup
<1> HIDE DEF G, o
<1>4. ASSUME NEW q \in G
      PROVE  /\ ShapedRank(rank'[q], q) /\ rank'[q].buffer[s] = rank[o].buffer[s]
             /\ \A t \in Stages : t # s => rank'[q].buffer[t] = rank[q].buffer[t]
             /\ rank'[q].draws = rank[q].draws /\ rank'[q].critic = rank[q].critic
             /\ rank'[q].engine = rank[q].engine /\ rank'[q].batch = rank[q].batch
             /\ rank'[q].buffer[Pp(q)] = rank[q].buffer[Pp(q)]
  <2> DEFINE c == rank[o].buffer[s]
             y == rank'[q]
             x == rank[q]
  <2>1. Put(x, y, q, s, c) /\ y.engine = x.engine /\ y.batch = x.batch
    BY <1>1 DEF StageTaken, G, o
  <2>2. y.draws = x.draws /\ y.critic = x.critic
    BY <2>1 DEF Put
  <2> HIDE DEF c, x, y
  <2>3. ShapedRank(y, q) /\ y.buffer[s] = c /\ \A t \in Stages : t # s => y.buffer[t] = x.buffer[t]
    BY <2>1, PutKeeps
  <2>4. y.buffer[Pp(q)] = x.buffer[Pp(q)]
    <3>1. Pp(q) = s => q = o
      BY <1>3
    <3> QED BY <1>3, <2>3, <3>1 DEF c, x
  <2> QED BY <2>1, <2>2, <2>3, <2>4 DEF c, x, y
<1>5. GroupKept(G)
  BY <1>4 DEF GroupKept
<1>6. PhaseKept(G)
  <2> SUFFICES ASSUME NEW k \in Nat, NEW D \in Nat,
                      \A z \in Ranks : InPhase(Method, rank[z], z, driver.at, k, D),
                      NEW q \in G
               PROVE  InPhase(Method, rank'[q], q, driver.at, k, D)
    BY DEF PhaseKept
  <2> DEFINE d == DoneBy(Method, rank[q])
             e == DoneBy(Method, rank[o])
             x == rank[q]
             y == rank'[q]
  <2>0. /\ config.layers \in Nat /\ config.pp \in Nat \ {0} /\ Stages \subseteq Nat /\ q \in Ranks
        /\ s \in Stages /\ d \in Nat /\ e \in Nat /\ DoneBy(Method, y) = d + 1
    BY <1>0, <1>1, <1>2, <1>3, ConfigFields, StagesAre
  <2>1. CASE Method = "init_model" /\ d + 1 = config.layers + 6 + s
    <3>1. InitRank(x, q, d) /\ InitRank(rank[o], o, e)
      BY <1>3, <2>0, <2>1, Phases
    <3>2. e + 1 = config.layers + 6 + s
      BY <1>2, <1>3, <2>1
    <3> HIDE DEF d, e, x, y
    <3>3. config.layers + 4 <= e
      BY <2>0, <3>2
    <3>4. Right(rank[o], o, s)
      BY <1>3, <3>1, <3>3 DEF InitRank
    <3>5. Right(y, q, s)
      BY <1>3, <1>4, <3>4 DEF Right, y
    <3>6. y.engine = x.engine /\ \A t \in Stages : t # s => y.buffer[t] = x.buffer[t]
      BY <1>4 DEF x, y
    <3>7. InitRank(y, q, d + 1)
      BY <1>0, <2>0, <2>1, <3>1, <3>5, <3>6, InitStage
    <3> QED BY <2>0, <2>1, <3>7, Phases DEF y
  <2>2. CASE Method = "generate_sequences" /\ d + 1 = s + 2
    <3>1. GenRank(x, q, d) /\ GenRank(rank[o], o, e)
      BY <1>3, <2>0, <2>2, Phases
    <3>2. rank[o].buffer[s].version = y.buffer[Pp(q)].version
      <4>1. rank[o].buffer[Pp(o)].version = rank[q].buffer[Pp(q)].version
        BY <1>3, <2>0 DEF IInv, Inv, Versioned
      <4> QED BY <1>3, <1>4, <4>1
    <3> HIDE DEF d, e, x, y
    <3>3. y.engine = x.engine /\ y.batch = x.batch /\ \A t \in Stages : t # s => y.buffer[t] = x.buffer[t]
      BY <1>4 DEF x, y
    <3>4. y.buffer[s] = rank[o].buffer[s] /\ y.buffer[Pp(q)].version = x.buffer[Pp(q)].version
      BY <1>4 DEF x, y
    <3>5. Weighted(y, q)
      <4>1. Right(y, q, s)
        BY <1>3, <2>0, <3>1, <3>4 DEF GenRank, Weighted, Right
      <4>2. \A t \in Stages : t # s => Right(y, q, t)
        BY <3>1, <3>3 DEF GenRank, Weighted, Right
      <4> QED BY <4>1, <4>2 DEF Weighted
    <3>6. ASSUME NEW t \in Stages, t + 2 <= d + 1 PROVE y.buffer[t].version = y.buffer[Pp(q)].version
      <4>1. CASE t = s
        BY <3>2, <3>4, <4>1
      <4>2. CASE t # s
        <5>1. t + 2 <= d
          BY <2>0, <2>2, <3>6, <4>2
        <5>2. x.buffer[t].version = x.buffer[Pp(q)].version
          BY <3>1, <5>1 DEF GenRank
        <5> QED BY <3>3, <3>4, <4>2, <5>2
      <4> QED BY <4>1, <4>2
    <3>7. d < config.pp + 1
      BY <2>0, <2>2 DEF Stages
    <3>8. GenRank(y, q, d + 1)
      BY <1>0, <2>0, <3>1, <3>3, <3>5, <3>6, <3>7, GenEarly
    <3> QED BY <2>0, <2>2, <3>8, Phases DEF y
  <2> QED BY <1>2, <2>1, <2>2
<1> QED BY <1>0, <1>1, <1>5, <1>6, Keeps

\* An operation that changes only the batch, the output and the engine of its ranks.
Quiet(x, y) ==
  /\ y = [f \in Fields |-> y[f]]
  /\ y.draws = x.draws /\ y.critic = x.critic /\ y.on = x.on /\ y.buffer = x.buffer
QuietlyMoved(kind, G, new) ==
  /\ Moved(kind, G, new) /\ GroupKept(G)
  /\ \A q \in G : /\ Quiet(rank[q], rank'[q])
                  /\ rank'[q].held = new[q].held /\ rank'[q].batch = new[q].batch
                  /\ rank'[q].out = new[q].out /\ rank'[q].engine = new[q].engine
                  /\ q \in Ranks
QuietNew(G, new) ==
  \A q \in G : /\ new[q] = [f \in Fields |-> new[q][f]] /\ new[q].todo = rank[q].todo
               /\ new[q].draws = rank[q].draws /\ new[q].critic = rank[q].critic
               /\ new[q].on = rank[q].on /\ new[q].buffer = rank[q].buffer

\* It leaves what is said of all ranks.
LEMMA QuietMoves ==
  ASSUME IInv, NEW kind, NEW G \in SUBSET Ranks, NEW new, G # {}, QuietNew(G, new), Together(kind, G, new)
  PROVE  QuietlyMoved(kind, G, new)
<1>1. Moved(kind, G, new)
  BY Moves DEF QuietNew
<1>2. ASSUME NEW q \in G
      PROVE  /\ Quiet(rank[q], rank'[q]) /\ q \in Ranks
             /\ rank'[q].held = new[q].held /\ rank'[q].batch = new[q].batch
             /\ rank'[q].out = new[q].out /\ rank'[q].engine = new[q].engine
  BY <1>1, ZenonT(60) DEF Moved, QuietNew, Quiet
<1>3. GroupKept(G)
  <2>1. ASSUME NEW q \in G PROVE ShapedRank(rank'[q], q)
    BY <1>2, InvRank, KeepsShape DEF Quiet
  <2> QED BY <1>2, <2>1 DEF GroupKept, Quiet
<1> QED BY <1>1, <1>2, <1>3 DEF QuietlyMoved

\* Once the rollout has the parameters of all stages, these are all of one version.
LEMMA GenLate ==
  ASSUME Fits, NEW r \in Ranks, NEW x, NEW d \in Nat, config.pp + 1 <= d, GenRank(x, r, d)
  PROVE  /\ Weighted(x, r)
         /\ \A s \in Stages : x.buffer[s].version = x.buffer[Pp(r)].version
<1>1. config.pp \in Nat \ {0} /\ \A s \in Stages : s + 2 <= d
  BY ConfigFields, SMTT(30) DEF Stages
<1> QED BY <1>1 DEF GenRank

\* A rank's engine is bound.
LEMMA GenBinds ==
  ASSUME Fits, NEW r \in Ranks, NEW x, NEW y, NEW d \in Nat, d + 1 = config.pp + 2, GenRank(x, r, d),
         Quiet(x, y), y.batch = x.batch, EngineRight(y, r)
  PROVE  GenRank(y, r, d + 1)
<1> DEFINE p == config.pp
           e == IF MicroDp > 1 THEN 1 ELSE 0
<1>1. p \in Nat \ {0} /\ e \in {0, 1} /\ GenLen = p + 6 + e /\ GenLen \in Nat
  BY GenPlaces
<1> HIDE DEF e
<1>2. /\ config.pp + 2 <= d + 1 /\ d + 1 < GenLen
      /\ d < config.pp + 3 /\ ~ (config.pp + 3 <= d + 1) /\ d + 1 # config.pp + 4
      /\ d + 1 # GenLen - 2 /\ ~ (GenLen - 1 <= d + 1) /\ d + 1 # GenLen /\ config.pp + 1 <= d
  BY <1>1
<1>3. /\ Weighted(x, r) /\ y.buffer = x.buffer
      /\ \A s \in Stages : x.buffer[s].version = x.buffer[Pp(r)].version
  BY <1>2, GenLate DEF Quiet
<1>4. y.batch = PpAsDp(r)
  BY <1>2 DEF GenRank
<1>5. Weighted(y, r)
  BY <1>3 DEF Weighted, Right
<1> QED BY <1>2, <1>3, <1>4, <1>5 DEF GenRank

\* What an engine is bound to.
BoundTo(x, y, value) ==
  y.engine = [weights |-> Normalized(value), versions |-> {x.buffer[s].version : s \in Stages}]

\* It is right when every stage gives the engine's shards.
LEMMA EngineIsRight ==
  ASSUME Fits, NEW r \in Ranks, NEW x, NEW y, NEW value, BoundTo(x, y, value), y.buffer = x.buffer,
         \A s \in Stages : x.buffer[s].version = x.buffer[Pp(r)].version,
         \A s \in Stages : \A n \in NamesOf(s) :
           value[s][n] = ShardOf(NormalName(n, s), config.infer, InferRank(r))
  PROVE  EngineRight(y, r)
<1>1. Pp(r) \in Stages
  BY Placing
<1>2. y.engine.weights = Normalized(value) /\ y.engine.versions = {x.buffer[s].version : s \in Stages}
  BY DEF BoundTo
<1>3. y.engine # <<>>
  <2>1. DOMAIN y.engine = {"weights", "versions"}
    BY DEF BoundTo
  <2> DEFINE e == y.engine
  <2> HIDE DEF e
  <2>2. ASSUME e = <<>> PROVE DOMAIN e = {}
    <3>1. e \in Seq({}) /\ Len(e) = 0
      BY <2>2
    <3> QED BY <3>1
  <2> QED BY <2>1, <2>2 DEF e
<1>4. y.engine.versions = {y.buffer[Pp(r)].version}
  BY <1>1, <1>2
<1>5. ASSUME NEW name \in DOMAIN y.engine.weights
      PROVE  y.engine.weights[name] = ShardOf(name, config.infer, InferRank(r))
  <2>1. name \in ModelNames /\ y.engine.weights[name] = value[StageOf(name)][LocalName(name)]
    BY <1>2, <1>5 DEF Normalized
  <2>2. /\ StageOf(name) \in Stages /\ LocalName(name) \in NamesOf(StageOf(name))
        /\ NormalName(LocalName(name), StageOf(name)) = name
    BY <2>1, ModelNameIs
  <2> QED BY <2>1, <2>2
<1> QED BY <1>3, <1>4, <1>5 DEF EngineRight

\* Where the rollout is as wide as the training, a rank's own shards are the engine's.
LEMMA KeepParamsKeeps ==
  ASSUME IInv, NEW r \in Ranks, KeepParams(r)
  PROVE  IInv'
<1> DEFINE G == {r}
           value == [s \in Stages |-> rank[r].buffer[s].weights]
           new == [q \in {r} |-> Bound(q, Normalized([s \in Stages |-> rank[q].buffer[s].weights]))]
           x == rank[r]
           y == rank'[r]
           d == DoneBy(Method, rank[r])
<1>0. Fits /\ G \in SUBSET Ranks /\ G # {}
  BY DEF IInv
<1>1. Together("keep_params", G, new) /\ new[r] = Bound(r, Normalized(value))
  BY DEF KeepParams
<1> HIDE DEF new, value
<1>2. QuietNew(G, new) /\ new[r].batch = x.batch /\ BoundTo(x, new[r], value)
  <2>1. rank[r] = [f \in Fields |-> rank[r][f]]
    BY InvRank
  <2> QED BY <1>1, <2>1 DEF Fields, QuietNew, Bound, BoundTo, Versions
<1>3. QuietlyMoved("keep_params", G, new)
  BY <1>0, <1>1, <1>2, QuietMoves
<1>4. /\ Quiet(x, y) /\ y.batch = x.batch /\ BoundTo(x, y, value) /\ Moved("keep_params", G, new)
      /\ GroupKept(G)
  BY <1>2, <1>3 DEF QuietlyMoved, BoundTo
<1>5. /\ Method = "generate_sequences" /\ d + 1 = config.pp + 2 /\ ~ (MicroDp > 1)
      /\ d \in Nat /\ DoneBy(Method, y) = d + 1
  <2>1. /\ d \in Nat /\ DoneBy(Method, y) = d + 1
        /\ Method \in Methods /\ NextOp(r).op = "keep_params" /\ PlaceOf(Method, d + 1, NextOp(r))
    BY <1>4 DEF Moved
  <2> HIDE DEF d
  <2> QED BY <2>1, KindPlaces
<1>6. PhaseKept(G)
  <2> SUFFICES ASSUME NEW k \in Nat, NEW D \in Nat, InPhase(Method, x, r, driver.at, k, D)
               PROVE  InPhase(Method, y, r, driver.at, k, D)
    BY DEF PhaseKept
  <2>1. GenRank(x, r, d)
    BY <1>5, Phases
  <2>2. config.pp \in Nat \ {0} /\ MicroDp \in Nat \ {0} /\ config.tp = MicroDp * config.infer
        /\ config.infer \in Nat \ {0} /\ MicroRank(r) \in 0..(MicroDp - 1)
        /\ Tp(r) = MicroDp * InferRank(r) + MicroRank(r) /\ InferRank(r) \in Nat
    BY <1>0, ConfigFields, Sizes, MicroPlace
  <2> HIDE DEF d, x, y
  <2>3. config.pp + 1 <= d
    BY <1>5, <2>2
  <2>4. MicroDp = 1
    BY <1>5, <2>2
  <2>5. config.tp = config.infer /\ Tp(r) = InferRank(r)
    <3>1. MicroRank(r) = 0
      BY <2>2, <2>4
    <3>2. config.tp = 1 * config.infer /\ Tp(r) = 1 * InferRank(r) + 0
      BY <2>2, <2>4, <3>1
    <3> QED BY <2>2, <3>2
  <2>6. Weighted(x, r) /\ \A s \in Stages : x.buffer[s].version = x.buffer[Pp(r)].version
    BY <1>0, <1>5, <2>1, <2>3, GenLate
  <2>7. \A s \in Stages : \A n \in NamesOf(s) :
          value[s][n] = ShardOf(NormalName(n, s), config.infer, InferRank(r))
    BY <2>5, <2>6 DEF Weighted, Right, value, x
  <2>8. EngineRight(y, r)
    BY <1>0, <1>4, <2>6, <2>7, EngineIsRight DEF Quiet
  <2>9. GenRank(y, r, d + 1)
    BY <1>0, <1>4, <1>5, <2>1, <2>8, GenBinds
  <2> QED BY <1>5, <2>9, Phases
<1> QED BY <1>0, <1>4, <1>6, Keeps

\* The shards of a tensor that the ranks of a micro group have make the engine's.
LEMMA PeersConcat ==
  ASSUME Fits, NEW r \in Ranks, NEW s \in Stages, NEW n \in NamesOf(s), NEW sh,
         sh = [i \in 1..MicroDp |-> rank[(r \div MicroDp) * MicroDp + i - 1].buffer[s].weights[n]],
         \A q \in MicroGroup(r) : Right(rank[q], q, s)
  PROVE  /\ IsTensorParallel(n) =>
              DefaultTpConcat(n, sh) = ShardOf(NormalName(n, s), config.infer, InferRank(r))
         /\ ~ IsTensorParallel(n) =>
              rank[r].buffer[s].weights[n] = ShardOf(NormalName(n, s), config.infer, InferRank(r))
<1> DEFINE name == NormalName(n, s)
           b == InferRank(r)
<1>1. b \in 0..(config.infer - 1) /\ r \div MicroDp \in Nat /\ MicroDp \in Nat \ {0} /\ r \in Nat
  BY MicroPlace, Sizes, Placing
<1>2. name[1] = n[1]
  BY NameBack
<1>3. ASSUME NEW i \in 1..MicroDp
      PROVE  rank[(r \div MicroDp) * MicroDp + i - 1].buffer[s].weights[n]
               = ShardOf(name, config.tp, MicroDp * b + i - 1)
  <2> DEFINE j == i - 1
             q == Peer(r, j)
  <2>1. j \in 0..(MicroDp - 1)
    BY <1>1
  <2>2. q \in MicroGroup(r) /\ Tp(q) = MicroDp * b + j
    <3> HIDE DEF b, j
    <3> QED BY <2>1, Peers DEF b
  <2>3. (r \div MicroDp) * MicroDp + i - 1 = q
    <3> DEFINE a == r \div MicroDp
               m == MicroDp
    <3>1. a \in Nat /\ m \in Nat
      BY <1>1
    <3> HIDE DEF a, m
    <3>2. a * m + i - 1 = m * a + (i - 1)
      BY <3>1
    <3> QED BY <3>2 DEF a, m, Peer
  <2>4. MicroDp * b + i - 1 = MicroDp * b + j
    <3> DEFINE z == MicroDp * b
    <3>1. z \in Nat
      <4> DEFINE m == MicroDp
      <4>1. m \in Nat /\ b \in Nat
        BY <1>1
      <4> HIDE DEF m, b
      <4> QED BY <4>1 DEF m
    <3> HIDE DEF z
    <3> QED BY <3>1
  <2>5. rank[q].buffer[s].weights[n] = ShardOf(name, config.tp, Tp(q))
    BY <2>2 DEF Right
  <2> HIDE DEF q, j, b
  <2> QED BY <2>2, <2>3, <2>4, <2>5
<1>4. CASE IsTensorParallel(n)
  <2>1. EngineShards(sh, name, b)
    BY <1>1, <1>3 DEF EngineShards
  <2>2. name[1] # "norm" /\ n[1] = name[1]
    BY <1>2, <1>4, SMTT(30) DEF IsTensorParallel
  <2> HIDE DEF name, b
  <2>3. DefaultTpConcat(n, sh) = ShardOf(name, config.infer, b)
    BY <2>1, <2>2, EngineConcats
  <2> QED BY <1>4, <2>3 DEF name, b
<1>5. CASE ~ IsTensorParallel(n)
  <2>1. rank[r].buffer[s].weights[n] = ShardOf(name, config.tp, Tp(r))
    BY Groups DEF Right
  <2>2. name[1] = "norm"
    BY <1>2, <1>5 DEF IsTensorParallel
  <2> HIDE DEF name
  <2>3. ShardOf(name, config.tp, Tp(r)) = ShardOf(name, config.infer, b)
    BY <2>2 DEF ShardOf
  <2> QED BY <1>5, <2>1, <2>3 DEF name
<1> QED BY <1>4, <1>5

\* The engines' shards are gathered in the micro groups.
LEMMA GatherParamsKeeps ==
  ASSUME IInv, NEW r \in Ranks, PostProcessParams(r)
  PROVE  IInv'
<1> DEFINE G == MicroGroup(r)
           shards(q, s, n) == [i \in 1..MicroDp |->
             rank[(q \div MicroDp) * MicroDp + i - 1].buffer[s].weights[n]]
           val(q, s, n) == IF IsTensorParallel(n) THEN DefaultTpConcat(n, shards(q, s, n))
                           ELSE rank[q].buffer[s].weights[n]
           value(q) == [s \in Stages |-> [n \in NamesOf(s) |-> val(q, s, n)]]
           new == [q \in MicroGroup(r) |-> Bound(q, Normalized(value(q)))]
           d(q) == DoneBy(Method, rank[q])
<1>0. Fits /\ G \in SUBSET Ranks /\ G # {}
  BY Groups, SMTT(30) DEF IInv
<1>1. Together("gather_params", G, new) /\ \A q \in G : new[q] = Bound(q, Normalized(value(q)))
  BY DEF PostProcessParams
<1> HIDE DEF new, value
<1>2. QuietNew(G, new) /\ \A q \in G : new[q].batch = rank[q].batch /\ BoundTo(rank[q], new[q], value(q))
  <2>1. ASSUME NEW q \in G
        PROVE  /\ new[q] = [f \in Fields |-> new[q][f]] /\ new[q].todo = rank[q].todo
               /\ new[q].draws = rank[q].draws /\ new[q].critic = rank[q].critic
               /\ new[q].on = rank[q].on /\ new[q].buffer = rank[q].buffer /\ new[q].batch = rank[q].batch
               /\ BoundTo(rank[q], new[q], value(q))
    <3>1. rank[q] = [f \in Fields |-> rank[q][f]]
      BY <1>0, InvRank
    <3> HIDE DEF G
    <3> QED BY <1>1, <3>1 DEF Fields, Bound, BoundTo, Versions
  <2> HIDE DEF G
  <2> QED BY <2>1 DEF QuietNew
<1> HIDE DEF G
<1>3. QuietlyMoved("gather_params", G, new)
  BY <1>0, <1>1, <1>2, QuietMoves
<1>4. /\ Moved("gather_params", G, new) /\ GroupKept(G)
      /\ \A q \in G : /\ Quiet(rank[q], rank'[q]) /\ rank'[q].batch = rank[q].batch
                      /\ BoundTo(rank[q], rank'[q], value(q))
  BY <1>2, <1>3 DEF QuietlyMoved, BoundTo
<1>5. ASSUME NEW q \in G
      PROVE  /\ Method = "generate_sequences" /\ d(q) + 1 = config.pp + 2
             /\ d(q) \in Nat /\ DoneBy(Method, rank'[q]) = d(q) + 1
  <2> DEFINE e == d(q)
  <2>1. /\ e \in Nat /\ DoneBy(Method, rank'[q]) = e + 1
        /\ Method \in Methods /\ NextOp(q).op = "gather_params" /\ PlaceOf(Method, e + 1, NextOp(q))
    BY <1>4 DEF Moved
  <2> HIDE DEF e
  <2>2. Method = "generate_sequences" /\ e + 1 = config.pp + 2
    BY <2>1, KindPlaces
  <2> QED BY <2>1, <2>2 DEF e
<1>6. PhaseKept(G)
  <2> SUFFICES ASSUME NEW k \in Nat, NEW D \in Nat,
                      \A z \in Ranks : InPhase(Method, rank[z], z, driver.at, k, D),
                      NEW q \in G
               PROVE  InPhase(Method, rank'[q], q, driver.at, k, D)
    BY DEF PhaseKept
  <2>1. ASSUME NEW z \in G
        PROVE  /\ GenRank(rank[z], z, d(z)) /\ Weighted(rank[z], z)
               /\ \A s \in Stages : rank[z].buffer[s].version = rank[z].buffer[Pp(z)].version
    <3> DEFINE e == d(z)
    <3>1. GenRank(rank[z], z, e)
      BY <1>0, <1>5, <2>1, Phases
    <3>2. e \in Nat /\ e + 1 = config.pp + 2 /\ config.pp \in Nat /\ z \in Ranks
      BY <1>0, <1>5, <2>1, ConfigFields
    <3> HIDE DEF e
    <3>3. config.pp + 1 <= e
      BY <3>2
    <3> QED BY <1>0, <3>1, <3>2, <3>3, GenLate DEF e
  <2>2. q \in Ranks /\ MicroGroup(q) = G
    BY <1>0, Groups DEF G
  <2>3. ASSUME NEW s \in Stages, NEW n \in NamesOf(s)
        PROVE  value(q)[s][n] = ShardOf(NormalName(n, s), config.infer, InferRank(q))
    <3> DEFINE sh == shards(q, s, n)
    <3>1. \A z \in MicroGroup(q) : Right(rank[z], z, s)
      BY <2>1, <2>2 DEF Weighted
    <3>2. sh = [i \in 1..MicroDp |-> rank[(q \div MicroDp) * MicroDp + i - 1].buffer[s].weights[n]]
      OBVIOUS
    <3>3. value(q)[s][n] = IF IsTensorParallel(n) THEN DefaultTpConcat(n, sh) ELSE rank[q].buffer[s].weights[n]
      BY DEF value
    <3> HIDE DEF sh
    <3>4. /\ IsTensorParallel(n) =>
              DefaultTpConcat(n, sh) = ShardOf(NormalName(n, s), config.infer, InferRank(q))
          /\ ~ IsTensorParallel(n) =>
              rank[q].buffer[s].weights[n] = ShardOf(NormalName(n, s), config.infer, InferRank(q))
      BY <1>0, <2>2, <3>1, <3>2, PeersConcat
    <3> QED BY <3>3, <3>4
  <2> DEFINE x == rank[q]
             y == rank'[q]
             v == value(q)
             e == d(q)
  <2>4. /\ GenRank(x, q, e) /\ BoundTo(x, y, v) /\ Quiet(x, y) /\ y.batch = x.batch
        /\ e \in Nat /\ e + 1 = config.pp + 2 /\ DoneBy(Method, y) = e + 1
        /\ \A s \in Stages : x.buffer[s].version = x.buffer[Pp(q)].version
        /\ \A s \in Stages : \A n \in NamesOf(s) :
             v[s][n] = ShardOf(NormalName(n, s), config.infer, InferRank(q))
    BY <1>4, <1>5, <2>1, <2>3
  <2> HIDE DEF x, y, v, e
  <2>5. EngineRight(y, q)
    BY <1>0, <2>2, <2>4, EngineIsRight DEF Quiet
  <2>6. GenRank(y, q, e + 1)
    BY <1>0, <2>2, <2>4, <2>5, GenBinds
  <2> QED BY <1>5, <2>4, <2>6, Phases DEF y
<1> QED BY <1>0, <1>4, <1>6, Keeps

\* What a rank has put out after n operations of a rollout.
OutRight(y, r, n) ==
  /\ n = config.pp + 4 => y.out = Tagged(EngineRows(r), y.buffer[Pp(r)].version)
  /\ n = GenLen - 2 => y.out = Tagged(PpAsDp(r), y.buffer[Pp(r)].version)
  /\ GenLen - 1 <= n => y.out = Tagged(DpCompute(r), y.buffer[Pp(r)].version)

\* While the engine is bound.
LEMMA GenMoves ==
  ASSUME Fits, NEW r \in Ranks, NEW x, NEW y, NEW d \in Nat, config.pp + 2 <= d, d + 1 < GenLen,
         GenRank(x, r, d), Quiet(x, y), y.engine = x.engine, y.batch = EngineRows(r),
         OutRight(y, r, d + 1)
  PROVE  GenRank(y, r, d + 1)
<1> DEFINE p == config.pp
           e == IF MicroDp > 1 THEN 1 ELSE 0
<1>1. p \in Nat \ {0} /\ e \in {0, 1} /\ GenLen = p + 6 + e /\ GenLen \in Nat
  BY GenPlaces
<1> HIDE DEF e
<1>2. /\ config.pp + 2 <= d /\ d < GenLen /\ config.pp + 2 <= d + 1 /\ d + 1 < GenLen
      /\ ~ (d + 1 < config.pp + 3) /\ d + 1 # GenLen /\ config.pp + 1 <= d
  BY <1>1
<1>3. /\ Weighted(x, r) /\ y.buffer = x.buffer
      /\ \A s \in Stages : x.buffer[s].version = x.buffer[Pp(r)].version
  BY <1>2, GenLate DEF Quiet
<1>4. EngineRight(y, r)
  BY <1>2, <1>3 DEF GenRank, EngineRight
<1>5. Weighted(y, r)
  BY <1>3 DEF Weighted, Right
<1> QED BY <1>2, <1>3, <1>4, <1>5 DEF GenRank, OutRight

\* The prompts of an engine.
LEMMA EngineRowsAre ==
  ASSUME Fits, NEW r \in Ranks
  PROVE  LET a == Portion * (Dp(r) * config.pp + Pp(r)) IN
         /\ a \in Nat /\ PpAsDp(r) = Run(a, Portion)
         /\ EngineRows(r) = Run(a + Crumb * MicroRank(r), Crumb)
         /\ MicroDp = 1 => EngineRows(r) = PpAsDp(r)
<1> DEFINE a == Portion * (Dp(r) * config.pp + Pp(r))
           c == Crumb
           k == MicroDp
           i == MicroRank(r)
<1>1. PpAsDp(r) = Run(a, Portion)
  BY RowsDealt
<1>2. Portion = k * c /\ c \in Nat /\ k \in Nat \ {0} /\ i \in 0..(k - 1)
  BY Sizes, MicroPlace
<1>3. a \in Nat
  <2> DEFINE n == Dp(r) * config.pp
  <2>1. n \in Nat
    <3> DEFINE u == Dp(r)
               v == config.pp
    <3>1. u \in Nat /\ v \in Nat
      <4>1. config.dp \in Nat \ {0} /\ v \in Nat
        BY ConfigFields
      <4>2. u \in 0..(config.dp - 1)
        BY Placing
      <4> QED BY <4>1, <4>2
    <3> HIDE DEF u, v
    <3>2. u * v \in Nat
      BY <3>1
    <3> QED BY <3>2 DEF u, v
  <2> HIDE DEF n
  <2>2. n + Pp(r) \in Nat /\ Portion \in Nat
    BY <2>1, Placing, Sizes
  <2> DEFINE m == n + Pp(r)
             p == Portion
  <2> HIDE DEF m, p
  <2>3. p * m \in Nat
    BY <2>2 DEF m, p
  <2> QED BY <2>3 DEF m, n, p
<1> HIDE DEF a, c, k, i
<1>4. SliceOf(Run(a, k * c), k, i) = Run(a + c * i, c)
  BY <1>2, <1>3, RunSlice
<1>5. EngineRows(r) = Run(a + c * i, c)
  BY <1>1, <1>2, <1>4 DEF EngineRows, k, i
<1>6. ASSUME k = 1 PROVE EngineRows(r) = PpAsDp(r)
  <2>1. i = 0 /\ Portion = c
    BY <1>2, <1>6
  <2>2. a + c * i = a
    BY <1>2, <1>3, <2>1
  <2> QED BY <1>1, <1>5, <2>1, <2>2
<1> QED BY <1>1, <1>3, <1>5, <1>6 DEF a, c, k, i

\* The prompts are cut among the engines.
LEMMA TpBatchKeeps ==
  ASSUME IInv, NEW r \in Ranks, PreprocessData(r)
  PROVE  IInv'
<1> DEFINE G == TpGroup(r)
           w == Min(G)
           new == [q \in TpGroup(r) |->
             [rank[q] EXCEPT !.batch = SliceOf(rank[Min(TpGroup(q))].batch, MicroDp, MicroRank(q))]]
           b(q) == SliceOf(rank[w].batch, MicroDp, MicroRank(q))
           d(q) == DoneBy(Method, rank[q])
<1>0. Fits /\ G \in SUBSET Ranks /\ G # {} /\ Ranks \subseteq Nat
  BY Groups, Placing DEF IInv
<1>1. w \in G /\ \A q \in G : /\ TpGroup(q) = G /\ Dp(q) = Dp(r) /\ Pp(q) = Pp(r) /\ q \in Ranks
  <2>1. \A q \in G : TpGroup(q) = G /\ Dp(q) = Dp(r) /\ Pp(q) = Pp(r) /\ q \in Ranks
    BY Groups DEF TpGroup
  <2> HIDE DEF G
  <2>2. w \in G
    BY <1>0, MinIsLeast
  <2> QED BY <2>1, <2>2
<1>2. Together("tp_batch", G, new) /\ \A q \in G : new[q] = [rank[q] EXCEPT !.batch = b(q)]
  BY <1>1 DEF PreprocessData
<1> HIDE DEF new, w, G, b
<1>3. QuietNew(G, new) /\ \A q \in G : /\ new[q].batch = b(q) /\ new[q].engine = rank[q].engine
  <2>1. ASSUME NEW q \in G
        PROVE  /\ new[q] = [f \in Fields |-> new[q][f]] /\ new[q].todo = rank[q].todo
               /\ new[q].draws = rank[q].draws /\ new[q].critic = rank[q].critic
               /\ new[q].on = rank[q].on /\ new[q].buffer = rank[q].buffer
               /\ new[q].batch = b(q) /\ new[q].engine = rank[q].engine
    <3>1. rank[q] = [f \in Fields |-> rank[q][f]]
      BY <1>0, InvRank
    <3> QED BY <1>2, <3>1 DEF Fields
  <2> QED BY <2>1 DEF QuietNew
<1>4. QuietlyMoved("tp_batch", G, new)
  BY <1>0, <1>2, <1>3, QuietMoves
<1>5. /\ Moved("tp_batch", G, new) /\ GroupKept(G)
      /\ \A q \in G : /\ Quiet(rank[q], rank'[q]) /\ rank'[q].batch = b(q)
                      /\ rank'[q].engine = rank[q].engine
  BY <1>3, <1>4 DEF QuietlyMoved
<1>6. ASSUME NEW q \in G
      PROVE  /\ Method = "generate_sequences" /\ d(q) + 1 = config.pp + 3
             /\ d(q) \in Nat /\ DoneBy(Method, rank'[q]) = d(q) + 1
  <2> DEFINE e == d(q)
  <2>1. /\ e \in Nat /\ DoneBy(Method, rank'[q]) = e + 1
        /\ Method \in Methods /\ NextOp(q).op = "tp_batch" /\ PlaceOf(Method, e + 1, NextOp(q))
    BY <1>5 DEF Moved
  <2> HIDE DEF e
  <2>2. Method = "generate_sequences" /\ e + 1 = config.pp + 3
    BY <2>1, KindPlaces
  <2> QED BY <2>1, <2>2 DEF e
<1>7. PhaseKept(G)
  <2> SUFFICES ASSUME NEW k \in Nat, NEW D \in Nat,
                      \A z \in Ranks : InPhase(Method, rank[z], z, driver.at, k, D),
                      NEW q \in G
               PROVE  InPhase(Method, rank'[q], q, driver.at, k, D)
    BY DEF PhaseKept
  <2> DEFINE x == rank[q]
             y == rank'[q]
             e == d(q)
             h == IF MicroDp > 1 THEN 1 ELSE 0
             p == config.pp
  <2>0. p \in Nat \ {0} /\ h \in {0, 1} /\ GenLen = p + 6 + h /\ GenLen \in Nat
    BY <1>0, GenPlaces
  <2>1. ASSUME NEW z \in G
        PROVE  GenRank(rank[z], z, d(z)) /\ rank[z].batch = PpAsDp(z)
    <3> DEFINE i == d(z)
    <3>1. GenRank(rank[z], z, i) /\ i \in Nat /\ i + 1 = config.pp + 3
      BY <1>0, <1>6, <2>1, Phases
    <3> HIDE DEF i
    <3>2. i < config.pp + 3
      BY <2>0, <3>1
    <3> QED BY <3>1, <3>2 DEF GenRank, i
  <2>2. y.batch = EngineRows(q)
    <3>1. PpAsDp(w) = PpAsDp(q)
      BY <1>1 DEF PpAsDp
    <3> QED BY <1>1, <1>5, <2>1, <3>1 DEF b, EngineRows
  <2>3. /\ GenRank(x, q, e) /\ Quiet(x, y) /\ y.engine = x.engine /\ q \in Ranks
        /\ e \in Nat /\ e + 1 = config.pp + 3 /\ DoneBy(Method, y) = e + 1
    BY <1>1, <1>5, <1>6, <2>1
  <2> HIDE DEF x, y, e, h
  <2>4. /\ config.pp + 2 <= e /\ e + 1 < GenLen
        /\ e + 1 # config.pp + 4 /\ e + 1 # GenLen - 2 /\ ~ (GenLen - 1 <= e + 1)
    BY <2>0, <2>3
  <2>5. OutRight(y, q, e + 1)
    BY <2>4 DEF OutRight
  <2>6. GenRank(y, q, e + 1)
    BY <1>0, <2>2, <2>3, <2>4, <2>5, GenMoves
  <2> QED BY <1>6, <2>3, <2>6, Phases DEF y
<1> QED BY <1>0, <1>5, <1>7, Keeps

\* What a group computes when all agree.
LEMMA AllAgree ==
  ASSUME NEW group, NEW q \in group, NEW version, NEW ready, NEW b, NEW v,
         \A p \in group : rank[p].batch = b /\ version[p] = v /\ ready[p]
  PROVE  Computed(group, q, version, ready) = Tagged(b, v)
<1>1. rank[q].batch = b /\ version[q] = v
  OBVIOUS
<1>2. \A i \in DOMAIN b : \A p \in group : /\ i \in DOMAIN rank[p].batch
                                           /\ rank[p].batch[i] = rank[q].batch[i]
                                           /\ version[p] = version[q] /\ ready[p]
  BY <1>1
<1> QED BY <1>1, <1>2 DEF Computed, Tagged

\* The version and the readiness of a bound engine.
LEMMA BoundEngine ==
  ASSUME NEW q \in Ranks, EngineRight(rank[q], q), rank[q].buffer[Pp(q)].version \in Nat
  PROVE  EngineVersion(q) = rank[q].buffer[Pp(q)].version /\ EngineReady(q)
<1> DEFINE v == rank[q].buffer[Pp(q)].version
<1>1. rank[q].engine.versions = {v} /\ rank[q].engine # <<>> /\ v \in Nat
  BY DEF EngineRight
<1> HIDE DEF v
<1>2. Max({v}) = v
  <2>1. \E x \in {v} : \A y \in {v} : x >= y
    BY <1>1
  <2> QED BY <2>1 DEF Max
<1>3. Cardinality({v}) = 1
  BY FS_Singleton
<1> QED BY <1>1, <1>2, <1>3 DEF EngineVersion, EngineReady, v

\* The engines generate.
LEMMA GenerateKeeps ==
  ASSUME IInv, NEW r \in Ranks, Generate(r)
  PROVE  IInv'
<1> DEFINE G == InferGroup(r)
           version == [p \in G |-> EngineVersion(p)]
           ready == [p \in G |-> EngineReady(p)]
           new == [q \in G |-> [rank[q] EXCEPT !.out = Computed(G, q, version, ready)]]
           d(q) == DoneBy(Method, rank[q])
<1>0. /\ Fits /\ G \in SUBSET Ranks /\ G # {}
      /\ \A q \in G : Dp(q) = Dp(r) /\ Pp(q) = Pp(r) /\ MicroRank(q) = MicroRank(r) /\ q \in Ranks
  BY Groups DEF IInv, InferGroup, TpGroup
<1>1. Together("generate", G, new)
  BY DEF Generate
<1>2. \A q \in G : new[q] = [rank[q] EXCEPT !.out = Computed(G, q, version, ready)]
  OBVIOUS
<1> HIDE DEF new, version, ready, G
<1>3. QuietNew(G, new) /\ \A q \in G : /\ new[q].batch = rank[q].batch /\ new[q].engine = rank[q].engine
                                       /\ new[q].out = Computed(G, q, version, ready)
  <2>1. ASSUME NEW q \in G
        PROVE  /\ new[q] = [f \in Fields |-> new[q][f]] /\ new[q].todo = rank[q].todo
               /\ new[q].draws = rank[q].draws /\ new[q].critic = rank[q].critic
               /\ new[q].on = rank[q].on /\ new[q].buffer = rank[q].buffer
               /\ new[q].batch = rank[q].batch /\ new[q].engine = rank[q].engine
               /\ new[q].out = Computed(G, q, version, ready)
    <3>1. rank[q] = [f \in Fields |-> rank[q][f]]
      BY <1>0, InvRank
    <3> DEFINE c == Computed(G, q, version, ready)
    <3>2. new[q] = [rank[q] EXCEPT !.out = c]
      BY <1>2
    <3> HIDE DEF c
    <3> QED BY <3>1, <3>2 DEF Fields, c
  <2> QED BY <2>1 DEF QuietNew
<1>4. QuietlyMoved("generate", G, new)
  BY <1>0, <1>1, <1>3, QuietMoves
<1>5. /\ Moved("generate", G, new) /\ GroupKept(G)
      /\ \A q \in G : /\ Quiet(rank[q], rank'[q]) /\ rank'[q].batch = rank[q].batch
                      /\ rank'[q].engine = rank[q].engine
                      /\ rank'[q].out = Computed(G, q, version, ready)
  BY <1>3, <1>4 DEF QuietlyMoved
<1>6. ASSUME NEW q \in G
      PROVE  /\ Method = "generate_sequences" /\ d(q) + 1 = config.pp + 4
             /\ d(q) \in Nat /\ DoneBy(Method, rank'[q]) = d(q) + 1
  <2> DEFINE e == d(q)
  <2>1. /\ e \in Nat /\ DoneBy(Method, rank'[q]) = e + 1
        /\ Method \in Methods /\ NextOp(q).op = "generate" /\ PlaceOf(Method, e + 1, NextOp(q))
    BY <1>5 DEF Moved
  <2> HIDE DEF e
  <2>2. Method = "generate_sequences" /\ e + 1 = config.pp + 4
    BY <2>1, KindPlaces
  <2> QED BY <2>1, <2>2 DEF e
<1>7. PhaseKept(G)
  <2> SUFFICES ASSUME NEW k \in Nat, NEW D \in Nat,
                      \A z \in Ranks : InPhase(Method, rank[z], z, driver.at, k, D),
                      NEW q \in G
               PROVE  InPhase(Method, rank'[q], q, driver.at, k, D)
    BY DEF PhaseKept
  <2> DEFINE x == rank[q]
             y == rank'[q]
             e == d(q)
             h == IF MicroDp > 1 THEN 1 ELSE 0
             p == config.pp
             v == x.buffer[Pp(q)].version
  <2>0. /\ p \in Nat \ {0} /\ h \in {0, 1} /\ GenLen = p + 6 + h /\ GenLen \in Nat
        /\ MicroDp \in Nat \ {0} /\ v \in Nat /\ q \in Ranks
    <3>1. ShapedRank(x, q) /\ Pp(q) \in Stages /\ q \in Ranks
      BY <1>0, InvRank, Placing
    <3>2. v \in Nat
      BY <3>1 DEF ShapedRank, ShapedBuffer
    <3> QED BY <1>0, <3>1, <3>2, GenPlaces, Sizes
  <2>1. ASSUME NEW z \in G
        PROVE  GenRank(rank[z], z, d(z)) /\ rank[z].batch = EngineRows(z) /\ EngineRight(rank[z], z)
    <3> DEFINE i == d(z)
    <3>1. GenRank(rank[z], z, i) /\ i \in Nat /\ i + 1 = config.pp + 4
      BY <1>0, <1>6, <2>1, Phases
    <3> HIDE DEF i, h
    <3>2. config.pp + 3 <= i /\ config.pp + 2 <= i /\ i < GenLen
      BY <2>0, <3>1
    <3> QED BY <3>1, <3>2 DEF GenRank, i
  <2>2. ASSUME NEW z \in G
        PROVE  rank[z].batch = EngineRows(q) /\ version[z] = v /\ ready[z]
    <3>1. EngineRows(z) = EngineRows(q)
      BY <1>0 DEF EngineRows, PpAsDp
    <3>2. rank[z].buffer[Pp(z)].version = v
      BY <1>0, <2>0 DEF IInv, Inv, Versioned
    <3>3. EngineVersion(z) = v /\ EngineReady(z)
      BY <1>0, <2>0, <2>1, <3>2, BoundEngine
    <3> QED BY <2>1, <3>1, <3>3 DEF version, ready
  <2>3. /\ GenRank(x, q, e) /\ Quiet(x, y) /\ y.engine = x.engine /\ y.batch = EngineRows(q)
        /\ e \in Nat /\ e + 1 = config.pp + 4 /\ DoneBy(Method, y) = e + 1
        /\ y.buffer[Pp(q)].version = v
    BY <1>5, <1>6, <2>1, <2>2 DEF Quiet
  <2>4. y.out = Tagged(EngineRows(q), v)
    <3> DEFINE b == EngineRows(q)
    <3>1. \A z \in G : rank[z].batch = b /\ version[z] = v /\ ready[z]
      BY <2>2
    <3> HIDE DEF b, v
    <3>2. Computed(G, q, version, ready) = Tagged(b, v)
      BY <3>1, AllAgree
    <3> QED BY <1>5, <3>2 DEF b
  <2>5. MicroDp = 1 => EngineRows(q) = PpAsDp(q)
    BY <1>0, <2>0, EngineRowsAre
  <2>6. MicroDp # 1 => h = 1
    BY <2>0
  <2> HIDE DEF x, y, e, h, v
  <2>7. /\ config.pp + 2 <= e /\ e + 1 < GenLen
        /\ (e + 1 = GenLen - 2 => h = 0) /\ ~ (GenLen - 1 <= e + 1)
    BY <2>0, <2>3
  <2>8. OutRight(y, q, e + 1)
    BY <2>3, <2>4, <2>5, <2>6, <2>7 DEF OutRight
  <2>9. GenRank(y, q, e + 1)
    BY <1>0, <2>0, <2>3, <2>7, <2>8, GenMoves
  <2> QED BY <1>6, <2>3, <2>9, Phases DEF y
<1> QED BY <1>0, <1>5, <1>7, Keeps

\* Ranks that change only their output.
Out(G, out) == [q \in G |-> [rank[q] EXCEPT !.out = out[q]]]
OutMoved(kind, G, out) ==
  /\ Moved(kind, G, Out(G, out)) /\ GroupKept(G) /\ G \subseteq Ranks
  /\ \A q \in G : /\ Quiet(rank[q], rank'[q])
                  /\ rank'[q].held = rank[q].held /\ rank'[q].batch = rank[q].batch
                  /\ rank'[q].engine = rank[q].engine /\ rank'[q].out = out[q]

\* An operation that gives a group an output does so.
LEMMA OutMoves ==
  ASSUME IInv, NEW kind, NEW G \in SUBSET Ranks, NEW out, G # {}, Together(kind, G, Out(G, out))
  PROVE  OutMoved(kind, G, out)
<1> DEFINE new == Out(G, out)
<1>1. ASSUME NEW q \in G
      PROVE  /\ new[q] = [f \in Fields |-> new[q][f]] /\ new[q].todo = rank[q].todo
             /\ new[q].draws = rank[q].draws /\ new[q].critic = rank[q].critic
             /\ new[q].on = rank[q].on /\ new[q].buffer = rank[q].buffer
             /\ new[q].held = rank[q].held /\ new[q].batch = rank[q].batch
             /\ new[q].engine = rank[q].engine /\ new[q].out = out[q]
  <2>1. rank[q] = [f \in Fields |-> rank[q][f]]
    BY InvRank
  <2>2. new[q] = [rank[q] EXCEPT !.out = out[q]]
    BY DEF Out
  <2> HIDE DEF new
  <2> QED BY <2>1, <2>2 DEF Fields
<1>2. Together(kind, G, new)
  OBVIOUS
<1> HIDE DEF new
<1>3. QuietNew(G, new)
  BY <1>1 DEF QuietNew
<1>4. QuietlyMoved(kind, G, new)
  BY <1>2, <1>3, QuietMoves
<1> QED BY <1>1, <1>4, ZenonT(60) DEF QuietlyMoved, OutMoved, new

\* A rank of a rollout.
LEMMA InGen ==
  ASSUME IInv, Waits, Method = "generate_sequences", NEW q \in Ranks
  PROVE  GenRank(rank[q], q, DoneBy(Method, rank[q]))
<1>1. Within(rank, driver.at)
  BY DEF IInv, Inv, Waits
<1>2. PICK k \in Nat, D \in Nat : \A r \in Ranks : InPhase(Method, rank[r], r, driver.at, k, D)
  BY <1>1 DEF Within, Method
<1> QED BY <1>2, Phases

\* The output of a rollout grows.
OutGen(kind, G, out, e) ==
  /\ OutMoved(kind, G, out) /\ Method = "generate_sequences"
  /\ e \in Nat /\ config.pp + 3 <= e /\ e + 1 < GenLen
  /\ \A q \in G : DoneBy(Method, rank[q]) = e /\ OutRight(rank'[q], q, e + 1)

\* An operation of a rollout that gives the right output keeps the invariant.
LEMMA OutGenKeeps ==
  ASSUME IInv, NEW kind, NEW G \in SUBSET Ranks, NEW out, NEW e, OutGen(kind, G, out, e)
  PROVE  IInv'
<1>1. /\ Moved(kind, G, Out(G, out)) /\ GroupKept(G) /\ Method = "generate_sequences" /\ e \in Nat
      /\ config.pp + 2 <= e /\ config.pp + 3 <= e /\ e + 1 < GenLen /\ e < GenLen
      /\ config.pp \in Nat /\ GenLen \in Nat /\ Fits
  <2> DEFINE p == config.pp
             g == GenLen
             h == IF MicroDp > 1 THEN 1 ELSE 0
  <2>1. Fits /\ p \in Nat /\ g \in Nat /\ e \in Nat /\ p + 3 <= e /\ e + 1 < g
    BY ConfigFields, GenPlaces DEF IInv, OutGen
  <2> HIDE DEF p, g
  <2>2. p + 2 <= e /\ e < g
    BY <2>1
  <2> QED BY <2>1, <2>2 DEF OutGen, OutMoved, p, g
<1>2. PhaseKept(G)
  <2> SUFFICES ASSUME NEW k \in Nat, NEW D \in Nat, NEW q \in G,
                      InPhase(Method, rank[q], q, driver.at, k, D)
               PROVE  InPhase(Method, rank'[q], q, driver.at, k, D)
    BY DEF PhaseKept
  <2> DEFINE x == rank[q]
             y == rank'[q]
  <2>1. /\ GenRank(x, q, e) /\ DoneBy(Method, y) = e + 1 /\ q \in Ranks
        /\ Quiet(x, y) /\ y.engine = x.engine /\ y.batch = x.batch /\ OutRight(y, q, e + 1)
    <3>1. DoneBy(Method, x) = e /\ OutRight(y, q, e + 1) /\ OutMoved(kind, G, out) /\ q \in Ranks
      BY DEF OutGen
    <3>2. Quiet(x, y) /\ y.engine = x.engine /\ y.batch = x.batch
      BY <3>1 DEF OutMoved
    <3>3. DoneBy(Method, y) = e + 1
      BY <1>1, <3>1 DEF Moved
    <3>4. GenRank(x, q, e)
      <4> HIDE DEF y
      <4> QED BY <1>1, <3>1, Phases
    <3> QED BY <3>1, <3>2, <3>3, <3>4
  <2> HIDE DEF x, y
  <2>2. y.batch = EngineRows(q)
    BY <1>1, <2>1 DEF GenRank
  <2>3. GenRank(y, q, e + 1)
    BY <1>1, <2>1, <2>2, GenMoves
  <2> QED BY <1>1, <2>1, <2>3, Phases DEF y
<1> QED BY <1>1, <1>2, Keeps

\* The outputs of a micro group are those of the rank's prompts.
LEMMA GatherMicroKeeps ==
  ASSUME IInv, NEW r \in Ranks,
         Together("gather_micro", MicroGroup(r),
           [q \in MicroGroup(r) |-> [rank[q] EXCEPT !.out = Gathered(MicroGroup(q))]])
  PROVE  IInv'
<1> DEFINE G == MicroGroup(r)
           out == [q \in G |-> Gathered(MicroGroup(q))]
           e == config.pp + 4
           h == IF MicroDp > 1 THEN 1 ELSE 0
           p == config.pp
<1>0. Fits /\ G \in SUBSET Ranks /\ G # {}
  BY Groups DEF IInv
<1>1. OutMoved("gather_micro", G, out)
  <2>1. Together("gather_micro", G, Out(G, out))
    BY DEF Out
  <2> HIDE DEF G, out
  <2> QED BY <1>0, <2>1, OutMoves
<1>2. ASSUME NEW q \in G
      PROVE  /\ Method = "generate_sequences" /\ DoneBy(Method, rank[q]) = e /\ MicroDp > 1 /\ Waits
             /\ DoneBy(Method, rank'[q]) = DoneBy(Method, rank[q]) + 1
  <2> DEFINE i == DoneBy(Method, rank[q])
  <2> HIDE DEF G, out
  <2>1. /\ i \in Nat /\ Waits /\ DoneBy(Method, rank'[q]) = DoneBy(Method, rank[q]) + 1
        /\ Method \in Methods /\ NextOp(q).op = "gather_micro" /\ PlaceOf(Method, i + 1, NextOp(q))
    BY <1>1 DEF OutMoved, Moved
  <2> HIDE DEF i
  <2>2. Method = "generate_sequences" /\ i + 1 = config.pp + 5 /\ MicroDp > 1
    BY <2>1, KindPlaces
  <2>3. i = e
    <3>1. config.pp \in Nat
      BY <1>0, ConfigFields
    <3> QED BY <2>1, <2>2, <3>1, SMTT(30)
  <2> QED BY <2>1, <2>2, <2>3 DEF i
<1>3. /\ p \in Nat \ {0} /\ h = 1 /\ GenLen = p + 6 + h /\ GenLen \in Nat /\ MicroDp \in Nat \ {0}
      /\ Method = "generate_sequences" /\ Waits
  BY <1>0, <1>2, GenPlaces, Sizes
<1> HIDE DEF h, G, out
<1>4. e \in Nat /\ config.pp + 3 <= e /\ config.pp + 2 <= e /\ e + 1 < GenLen
      /\ e + 1 = GenLen - 2 /\ e + 1 # config.pp + 4 /\ ~ (GenLen - 1 <= e + 1)
  BY <1>3
<1> HIDE DEF e
<1>5. ASSUME NEW q \in G
      PROVE  OutRight(rank'[q], q, e + 1)
  <2> DEFINE v == rank[q].buffer[Pp(q)].version
             a == Portion * (Dp(q) * config.pp + Pp(q))
             o == [i \in 1..MicroDp |-> rank[Peer(q, i - 1)].out]
  <2>0. q \in Ranks /\ MicroGroup(q) = G
    BY <1>0, Groups DEF G
  <2>1. ASSUME NEW i \in 1..MicroDp
        PROVE  o[i] = Tagged(Run(a + Crumb * (i - 1), Crumb), v)
    <3> DEFINE z == Peer(q, i - 1)
    <3>1. i - 1 \in 0..(MicroDp - 1)
      BY <1>3
    <3>2. z \in G /\ z \in Ranks /\ MicroRank(z) = i - 1 /\ Dp(z) = Dp(q) /\ Pp(z) = Pp(q)
      BY <1>0, <2>0, <3>1, Peers
    <3> HIDE DEF z, a
    <3>3. GenRank(rank[z], z, e)
      <4>1. DoneBy(Method, rank[z]) = e
        BY <1>2, <3>2 DEF e
      <4> QED BY <1>3, <3>2, <4>1, InGen
    <3>4. rank[z].out = Tagged(EngineRows(z), rank[z].buffer[Pp(z)].version)
      BY <3>3 DEF GenRank, e
    <3>5. rank[z].buffer[Pp(z)].version = v
      BY <2>0, <3>2 DEF IInv, Inv, Versioned
    <3>6. EngineRows(z) = Run(a + Crumb * (i - 1), Crumb)
      BY <1>0, <3>2, EngineRowsAre DEF a
    <3>7. o[i] = rank[z].out
      BY DEF z
    <3> QED BY <3>4, <3>5, <3>6, <3>7
  <2>2. TaggedPieces(o, a, Crumb, MicroDp, Portion, v)
    <3> DEFINE c == Crumb
               m == MicroDp
    <3>1. a \in Nat
      BY <1>0, <2>0, EngineRowsAre
    <3>2. c \in Nat /\ m \in Nat /\ Portion = m * c
      BY <1>0, Sizes
    <3> HIDE DEF c, m, o, a, v
    <3>3. Portion = c * m
      BY <3>2
    <3> QED BY <2>1, <3>1, <3>2, <3>3 DEF TaggedPieces, c, m
  <2> HIDE DEF o, a, v
  <2>3. Joined(o, MicroDp) = Tagged(Run(a, Portion), v)
    BY <2>2, TaggedJoin
  <2>4. PpAsDp(q) = Run(a, Portion)
    BY <1>0, <2>0, EngineRowsAre DEF a
  <2>5. rank'[q].out = Gathered(MicroGroup(q))
    BY <1>1 DEF OutMoved, out
  <2>6. Gathered(MicroGroup(q)) = Joined(o, MicroDp)
    BY <1>0, <2>0, GatheredMicro DEF o
  <2>7. rank'[q].buffer[Pp(q)].version = v
    BY <1>1 DEF OutMoved, Quiet, v
  <2> QED BY <1>4, <2>3, <2>4, <2>5, <2>6, <2>7 DEF OutRight
<1>6. OutGen("gather_micro", G, out, e)
  BY <1>1, <1>2, <1>3, <1>4, <1>5 DEF OutGen, e
<1> QED BY <1>0, <1>6, OutGenKeeps

\* The outputs along a pipeline are those of a data parallel rank's rows.
LEMMA GatherPpKeeps ==
  ASSUME IInv, NEW r \in Ranks,
         Together("gather_pp", PpGroup(r),
           [q \in PpGroup(r) |-> [rank[q] EXCEPT !.out = Gathered(PpGroup(q))]])
  PROVE  IInv'
<1> DEFINE G == PpGroup(r)
           out == [q \in G |-> Gathered(PpGroup(q))]
           e == GenLen - 2
           h == IF MicroDp > 1 THEN 1 ELSE 0
           p == config.pp
<1>0. Fits /\ G \in SUBSET Ranks /\ G # {}
  BY Groups DEF IInv
<1>1. OutMoved("gather_pp", G, out)
  <2>1. Together("gather_pp", G, Out(G, out))
    BY DEF Out
  <2> HIDE DEF G, out
  <2> QED BY <1>0, <2>1, OutMoves
<1>2. ASSUME NEW q \in G
      PROVE  /\ Method = "generate_sequences" /\ DoneBy(Method, rank[q]) = e /\ Waits
             /\ DoneBy(Method, rank'[q]) = DoneBy(Method, rank[q]) + 1
  <2> DEFINE i == DoneBy(Method, rank[q])
             g == GenLen
  <2> HIDE DEF G, out
  <2>1. /\ i \in Nat /\ Waits /\ DoneBy(Method, rank'[q]) = DoneBy(Method, rank[q]) + 1
        /\ Method \in Methods /\ NextOp(q).op = "gather_pp" /\ PlaceOf(Method, i + 1, NextOp(q))
    BY <1>1 DEF OutMoved, Moved
  <2> HIDE DEF i
  <2>2. Method = "generate_sequences" /\ i + 1 = GenLen - 1
    BY <2>1, KindPlaces
  <2>3. i = e
    <3>1. g \in Nat
      BY <1>0, GenPlaces
    <3> HIDE DEF g
    <3>2. i + 1 = g - 1
      BY <2>2 DEF g
    <3>3. i = g - 2
      BY <2>1, <3>1, <3>2
    <3> QED BY <3>3 DEF g
  <2> QED BY <2>1, <2>2, <2>3 DEF i
<1>3. /\ p \in Nat \ {0} /\ h \in {0, 1} /\ GenLen = p + 6 + h /\ GenLen \in Nat
      /\ Method = "generate_sequences" /\ Waits
  BY <1>0, <1>2, GenPlaces, Groups
<1> HIDE DEF h, G, out
<1>4. e \in Nat /\ config.pp + 3 <= e /\ config.pp + 2 <= e /\ e + 1 < GenLen
      /\ e + 1 # GenLen - 2 /\ e + 1 # config.pp + 4 /\ GenLen - 1 <= e + 1
  BY <1>3
<1> HIDE DEF e
<1>5. ASSUME NEW q \in G
      PROVE  OutRight(rank'[q], q, e + 1)
  <2> DEFINE v == rank[q].buffer[Pp(q)].version
             a == Share * Dp(q)
             n == Dp(q) * config.pp
             o == [i \in 1..config.pp |-> rank[Along(q, i - 1)].out]
  <2>0. q \in Ranks /\ PpGroup(q) = G
    BY <1>0, Groups DEF G
  <2>1. n \in Nat /\ Share = config.pp * Portion /\ Portion \in Nat /\ a = Portion * n /\ a \in Nat
    <3> DEFINE u == Dp(q)
               w == config.pp
               m == Portion
    <3>1. w \in Nat /\ m \in Nat /\ Share = w * m
      BY <1>0, Sizes, ConfigFields
    <3>2. u \in Nat
      <4>1. config.dp \in Nat \ {0}
        BY <1>0, ConfigFields
      <4>2. u \in 0..(config.dp - 1)
        BY <1>0, <2>0, Placing
      <4> QED BY <4>1, <4>2
    <3> HIDE DEF u, w, m
    <3>3. u * w \in Nat /\ (w * m) * u = m * (u * w) /\ m * (u * w) \in Nat
      BY <3>1, <3>2
    <3> QED BY <3>1, <3>3 DEF u, w, m
  <2>2. ASSUME NEW i \in 1..config.pp
        PROVE  o[i] = Tagged(Run(a + Portion * (i - 1), Portion), v)
    <3> DEFINE j == i - 1
               z == Along(q, j)
    <3>1. j \in Stages /\ j \in Nat
      BY <1>3 DEF Stages
    <3>2. z \in G /\ z \in Ranks /\ Dp(z) = Dp(q) /\ Pp(z) = j
      <4> HIDE DEF j
      <4> QED BY <1>0, <2>0, <3>1, Pipeline
    <3> HIDE DEF z, a, j
    <3>3. GenRank(rank[z], z, e)
      <4>1. DoneBy(Method, rank[z]) = e
        BY <1>2, <3>2 DEF e
      <4> QED BY <1>3, <3>2, <4>1, InGen
    <3>4. rank[z].out = Tagged(PpAsDp(z), rank[z].buffer[Pp(z)].version)
      BY <3>3 DEF GenRank, e
    <3>5. rank[z].buffer[Pp(z)].version = v
      BY <2>0, <3>2 DEF IInv, Inv, Versioned
    <3>6. PpAsDp(z) = Run(a + Portion * j, Portion)
      <4>1. PpAsDp(z) = Run(Portion * (n + j), Portion)
        BY <1>0, <3>2, RowsDealt
      <4>2. Portion * (n + j) = a + Portion * j
        <5> DEFINE m == Portion
        <5> HIDE DEF n, m
        <5>1. m * (n + j) = m * n + m * j
          BY <2>1, <3>1 DEF m
        <5> QED BY <2>1, <5>1 DEF m
      <4> QED BY <4>1, <4>2
    <3>7. o[i] = rank[z].out
      BY DEF z, j
    <3> QED BY <3>4, <3>5, <3>6, <3>7 DEF j
  <2>3. TaggedPieces(o, a, Portion, config.pp, Share, v)
    <3> DEFINE c == Portion
               m == config.pp
    <3>1. c \in Nat /\ m \in Nat /\ Share = m * c
      BY <1>3, <2>1
    <3>2. a \in Nat
      BY <2>1
    <3> HIDE DEF c, m, o, a, v
    <3>3. Share = c * m
      BY <3>1
    <3> QED BY <2>2, <3>1, <3>2, <3>3 DEF TaggedPieces, c, m
  <2> HIDE DEF o, a, v
  <2>4. Joined(o, config.pp) = Tagged(Run(a, Share), v)
    BY <2>3, TaggedJoin
  <2>5. DpCompute(q) = Run(a, Share)
    BY <1>0, <2>0, RowsDealt DEF a
  <2>6. rank'[q].out = Gathered(PpGroup(q))
    BY <1>1 DEF OutMoved, out
  <2>7. Gathered(PpGroup(q)) = Joined(o, config.pp)
    BY <1>0, <2>0, GatheredPipeline DEF o
  <2>8. rank'[q].buffer[Pp(q)].version = v
    BY <1>1 DEF OutMoved, Quiet, v
  <2> QED BY <1>4, <2>4, <2>5, <2>6, <2>7, <2>8 DEF OutRight
<1>6. OutGen("gather_pp", G, out, e)
  BY <1>1, <1>2, <1>3, <1>4, <1>5 DEF OutGen, e
<1> QED BY <1>0, <1>6, OutGenKeeps

\* The outputs of a rollout are gathered.
LEMMA PostprocessKeeps ==
  ASSUME IInv, NEW r \in Ranks, PostprocessData(r)
  PROVE  IInv'
BY GatherMicroKeeps, GatherPpKeeps DEF PostprocessData

\* The rollout ends with the buffers of the other stages on the CPU.
LEMMA GenEnds ==
  ASSUME Fits, NEW r \in Ranks, NEW x, NEW y, NEW d \in Nat, d + 1 = GenLen, GenRank(x, r, d),
         y.batch = x.batch, y.out = x.out, y.engine = <<>>, SameWeights(x, y),
         \A s \in Stages : y.buffer[s].version = x.buffer[s].version, AtHome(y, r)
  PROVE  GenRank(y, r, d + 1)
<1> DEFINE p == config.pp
           e == IF MicroDp > 1 THEN 1 ELSE 0
<1>1. p \in Nat \ {0} /\ e \in {0, 1} /\ GenLen = p + 6 + e /\ GenLen \in Nat /\ Pp(r) \in Stages
  BY GenPlaces, Placing
<1> HIDE DEF e
<1>2. /\ ~ (d + 1 < GenLen) /\ config.pp + 3 <= d /\ GenLen - 1 <= d /\ config.pp + 1 <= d
      /\ ~ (d + 1 < config.pp + 3) /\ d + 1 # config.pp + 4 /\ d + 1 # GenLen - 2
  BY <1>1
<1>3. /\ Weighted(x, r) /\ \A s \in Stages : x.buffer[s].version = x.buffer[Pp(r)].version
  BY <1>2, GenLate
<1>4. Weighted(y, r)
  BY <1>3 DEF Weighted, Right, SameWeights
<1>5. y.out = Tagged(DpCompute(r), y.buffer[Pp(r)].version)
  BY <1>1, <1>2 DEF GenRank
<1>6. y.batch = EngineRows(r)
  BY <1>2 DEF GenRank
<1>7. \A s \in Stages : y.buffer[s].version = y.buffer[Pp(r)].version
  BY <1>1, <1>3
<1> QED BY <1>2, <1>4, <1>5, <1>6, <1>7 DEF GenRank

\* The rollout lets go of its engine.
LEMMA OffloadKeeps ==
  ASSUME IInv, NEW r \in Ranks, OffloadParams(r)
  PROVE  IInv'
<1> DEFINE G == {r}
           new == [q \in {r} |->
             [rank[q] EXCEPT !.buffer = [s \in Stages |-> IF s = Pp(q) THEN @[s] ELSE [@[s] EXCEPT !.on = "cpu"]],
                             !.engine = <<>>]]
           b == [s \in Stages |-> IF s = Pp(r) THEN rank[r].buffer[s] ELSE [rank[r].buffer[s] EXCEPT !.on = "cpu"]]
           x == rank[r]
           y == rank'[r]
           d == DoneBy(Method, rank[r])
<1>0. Fits /\ G \in SUBSET Ranks /\ G # {} /\ ShapedRank(x, r) /\ Pp(r) \in Stages
  BY InvRank, Placing DEF IInv
<1>1. Together("offload", G, new) /\ new[r] = [rank[r] EXCEPT !.buffer = b, !.engine = <<>>]
  BY DEF OffloadParams
<1> HIDE DEF new, b
<1>2. /\ new[r] = [f \in Fields |-> new[r][f]] /\ new[r].todo = rank[r].todo
      /\ new[r].held = x.held /\ new[r].batch = x.batch /\ new[r].out = x.out
      /\ new[r].draws = x.draws /\ new[r].critic = x.critic /\ new[r].on = x.on
      /\ new[r].engine = <<>> /\ new[r].buffer = b
  <2>1. rank[r] = [f \in Fields |-> rank[r][f]]
    BY InvRank
  <2> QED BY <1>1, <2>1 DEF Fields
<1>3. Moved("offload", G, new)
  BY <1>0, <1>1, <1>2, Moves
<1>4. /\ y = [f \in Fields |-> y[f]] /\ y.draws = x.draws /\ y.critic = x.critic /\ y.on = x.on
      /\ y.engine = <<>> /\ y.batch = x.batch /\ y.out = x.out /\ y.buffer = b /\ r \in Ranks
      /\ d \in Nat /\ DoneBy(Method, y) = d + 1
      /\ Method \in Methods /\ NextOp(r).op = "offload" /\ PlaceOf(Method, d + 1, NextOp(r))
  BY <1>2, <1>3 DEF Moved
<1>5. \A s \in Stages : /\ ShapedBuffer(b[s], s) /\ ((b[s].on = "cuda") <=> (s = Pp(r)))
                        /\ b[s].weights = x.buffer[s].weights /\ b[s].version = x.buffer[s].version
  <2> SUFFICES ASSUME NEW s \in Stages
               PROVE  /\ ShapedBuffer(b[s], s) /\ ((b[s].on = "cuda") <=> (s = Pp(r)))
                      /\ b[s].weights = x.buffer[s].weights /\ b[s].version = x.buffer[s].version
    OBVIOUS
  <2> DEFINE c == x.buffer[s]
             e == [c EXCEPT !.on = "cpu"]
  <2>1. ShapedBuffer(c, s) /\ b[s] = (IF s = Pp(r) THEN c ELSE e) /\ (s = Pp(r) => c.on = "cuda")
    BY <1>0 DEF ShapedRank, b
  <2> HIDE DEF c
  <2>2. /\ e = [f \in {"on", "weights", "version"} |-> e[f]] /\ e.on = "cpu"
        /\ e.weights = c.weights /\ e.version = c.version
    BY <2>1 DEF ShapedBuffer
  <2> HIDE DEF e
  <2>3. ShapedBuffer(e, s)
    BY <2>1, <2>2 DEF ShapedBuffer
  <2>4. CASE s = Pp(r)
    BY <2>1, <2>4 DEF c
  <2>5. CASE s # Pp(r)
    BY <2>1, <2>2, <2>3, <2>5 DEF c
  <2> QED BY <2>4, <2>5
<1>6. b = [s \in Stages |-> b[s]]
  BY DEF b
<1> HIDE DEF y
<1>7. ShapedRank(y, r)
  <2> HIDE DEF x
  <2> QED BY <1>0, <1>4, <1>5, <1>6 DEF ShapedRank
<1>8. SameWeights(x, y) /\ (\A s \in Stages : y.buffer[s].version = x.buffer[s].version) /\ AtHome(y, r)
  BY <1>4, <1>5 DEF SameWeights, AtHome
<1>9. GroupKept(G)
  BY <1>0, <1>4, <1>7, <1>8 DEF GroupKept, y
<1>10. PhaseKept(G)
  <2> SUFFICES ASSUME NEW k \in Nat, NEW D \in Nat, InPhase(Method, x, r, driver.at, k, D)
               PROVE  InPhase(Method, y, r, driver.at, k, D)
    BY DEF PhaseKept, y
  <2>1. Method = "generate_sequences" /\ d + 1 = GenLen
    <3> HIDE DEF d
    <3> QED BY <1>4, KindPlaces
  <2>2. GenRank(x, r, d)
    BY <2>1, Phases
  <2>3. d \in Nat /\ y.engine = <<>> /\ y.batch = x.batch /\ y.out = x.out
    BY <1>4
  <2> HIDE DEF x, d
  <2>4. GenRank(y, r, d + 1)
    BY <1>0, <1>8, <2>1, <2>2, <2>3, GenEnds
  <2> QED BY <1>4, <2>1, <2>4, Phases
<1> QED BY <1>0, <1>3, <1>9, <1>10, Keeps

\* Between rollouts an operation that leaves the buffers and the engine alone says as much.
LEMMA TrainStays ==
  ASSUME NEW r, NEW x, NEW y, NEW at, TrainRank(x, r, at), y.buffer = x.buffer, y.engine = x.engine
  PROVE  TrainRank(y, r, at)
BY DEF TrainRank, Weighted, Right, AtHome

\* The models that may live on the CPU.
LEMMA Offloadable ==
  ASSUME NEW m, IsForward(m)
  PROVE  /\ Lead(m) \in {0, 1} /\ (Lead(m) = 1 <=> FwdLen(m) = 5) /\ (Lead(m) = 0 <=> FwdLen(m) = 3)
         /\ Lead(m) = 1 => config.offload /\ ModelOf(m) \in {"ref", "rm"}
         /\ ModelOf(m) \in {"actor", "critic", "ref", "rm"}
         /\ ~ config.offload => Lead(m) = 0
         /\ config.offload /\ ModelOf(m) \in {"ref", "rm"} => Lead(m) = 1
BY DEF IsForward, Lead, FwdLen, ModelOf

\* A model comes to the GPU or leaves it.
LEMMA MoveParamsKeeps ==
  ASSUME IInv, NEW r \in Ranks, MoveParams(r)
  PROVE  IInv'
<1> DEFINE G == {r}
           x == rank[r]
           y == rank'[r]
           d == DoneBy(Method, rank[r])
           mo == NextOp(r).model
<1>0. Fits /\ G \in SUBSET Ranks /\ G # {} /\ ShapedRank(x, r) /\ Pp(r) \in Stages
  BY InvRank, Placing DEF IInv
<1>1. PICK kind \in {"fetch", "release"}, place \in {"cuda", "cpu"} :
        /\ Together(kind, G, [q \in {r} |-> [rank[q] EXCEPT !.on[NextOp(r).model] = place]])
        /\ kind = "fetch" <=> place = "cuda"
  BY DEF MoveParams
<1> DEFINE new == [q \in {r} |-> [rank[q] EXCEPT !.on[NextOp(r).model] = place]]
           o == [x.on EXCEPT ![mo] = place]
<1>2. Together(kind, G, new) /\ new[r] = [rank[r] EXCEPT !.on = o]
  BY <1>1
<1> HIDE DEF new, o
<1>3. /\ new[r] = [f \in Fields |-> new[r][f]] /\ new[r].todo = rank[r].todo
      /\ new[r].held = x.held /\ new[r].batch = x.batch /\ new[r].out = x.out
      /\ new[r].draws = x.draws /\ new[r].critic = x.critic /\ new[r].on = o
      /\ new[r].engine = x.engine /\ new[r].buffer = x.buffer
  <2>1. rank[r] = [f \in Fields |-> rank[r][f]]
    BY InvRank
  <2> QED BY <1>2, <2>1 DEF Fields
<1>4. Moved(kind, G, new)
  BY <1>0, <1>2, <1>3, Moves
<1>5. /\ y = [f \in Fields |-> y[f]] /\ y.draws = x.draws /\ y.critic = x.critic /\ y.on = o
      /\ y.engine = x.engine /\ y.batch = x.batch /\ y.out = x.out /\ y.buffer = x.buffer /\ r \in Ranks
      /\ d \in Nat /\ DoneBy(Method, y) = d + 1
      /\ Method \in Methods /\ NextOp(r).op = kind /\ PlaceOf(Method, d + 1, NextOp(r))
  BY <1>3, <1>4 DEF Moved
<1>6. /\ IsForward(Method) /\ mo = ModelOf(Method) /\ Lead(Method) = 1
      /\ d + 1 = IF kind = "fetch" THEN 1 ELSE FwdLen(Method)
  <2> HIDE DEF d
  <2> QED BY <1>5, KindPlaces
<1>7. /\ config.offload /\ mo \in {"ref", "rm"} /\ FwdLen(Method) = 5
      /\ x.on = [m \in {"ref", "rm"} |-> x.on[m]]
  BY <1>0, <1>6, Offloadable DEF ShapedRank
<1>8. o = [m \in {"ref", "rm"} |-> o[m]] /\ o[mo] = place
  BY <1>7 DEF o
<1>9. ShapedRank(y, r)
  <2> HIDE DEF x, y
  <2> QED BY <1>0, <1>5, <1>7, <1>8 DEF ShapedRank
<1>10. GroupKept(G)
  BY <1>5, <1>9 DEF GroupKept
<1>11. PhaseKept(G)
  <2> SUFFICES ASSUME NEW k \in Nat, NEW D \in Nat, InPhase(Method, x, r, driver.at, k, D)
               PROVE  InPhase(Method, y, r, driver.at, k, D)
    BY DEF PhaseKept
  <2> HIDE DEF mo
  <2>1. TrainRank(x, r, driver.at) /\ FwdRank(Method, x, r, d)
    BY <1>6, Phases
  <2> HIDE DEF x, y, d
  <2>2. TrainRank(y, r, driver.at)
    BY <1>5, <2>1, TrainStays
  <2>3. y.batch = DpCompute(r)
    BY <1>5, <2>1 DEF FwdRank
  <2>4. Lead(Method) = 1 /\ 1 <= d + 1 /\ d + 1 < FwdLen(Method) => y.on[ModelOf(Method)] = "cuda"
    <3>1. CASE kind = "fetch"
      BY <1>1, <1>5, <1>6, <1>8, <3>1
    <3>2. CASE kind = "release"
      <4>1. ~ (d + 1 < FwdLen(Method))
        BY <1>6, <1>7, <3>2
      <4> QED BY <4>1
    <3> QED BY <1>1, <3>1, <3>2
  <2>5. ASSUME Lead(Method) + 2 <= d + 1, Pp(r) = LastStage
        PROVE  y.out = Tagged(DpCompute(r), VersionIn(ModelOf(Method), y, r))
    <3>1. Lead(Method) + 2 <= d
      BY <1>5, <1>6, <1>7, <2>5
    <3>2. x.out = Tagged(DpCompute(r), VersionIn(ModelOf(Method), x, r))
      BY <2>1, <2>5, <3>1 DEF FwdRank
    <3>3. VersionIn(ModelOf(Method), y, r) = VersionIn(ModelOf(Method), x, r)
      BY <1>5 DEF VersionIn
    <3> QED BY <1>5, <3>2, <3>3
  <2>6. FwdRank(Method, y, r, d + 1)
    BY <2>3, <2>4, <2>5 DEF FwdRank
  <2> QED BY <1>5, <1>6, <2>2, <2>6, Phases
<1> QED BY <1>0, <1>4, <1>10, <1>11, Keeps

\* The minibatch that a rank is at is the one of its next operation.
LEMMA SameBlock ==
  ASSUME NEW k \in Nat, NEW n \in Nat, NEW d \in Nat, NEW c \in {1, 2, 3}, d + 1 = 3 * n + c,
         d \in {3 * k, 3 * k + 1, 3 * k + 2}
  PROVE  n = k /\ d + 1 = 3 * k + c
<1>1. d = 3 * k \/ d = 3 * k + 1 \/ d = 3 * k + 2
  OBVIOUS
<1>2. c = 1 \/ c = 2 \/ c = 3
  OBVIOUS
<1> QED BY <1>1, <1>2

\* The ranks of one data parallel rank have the same epochs and minibatches.
LEMMA SameEpochs ==
  ASSUME NEW q, NEW r, Dp(q) = Dp(r), NEW D
  PROVE  /\ DpCompute(q) = DpCompute(r)
         /\ \A e : Epoch(q, D, e) = Epoch(r, D, e)
         /\ \A k : Minibatch(q, D, k) = Minibatch(r, D, k)
BY DEF DpCompute, Epoch, Minibatch, SeedOf

\* A rank of an update has drawn its next minibatch.
UpdDraws(x, d, k, D) == x.draws = D + (k \div Minibatches) + (IF d = 3 * k /\ k % Minibatches = 0 THEN 0 ELSE 1)
UpdOut(x, r, k, D) ==
  /\ x.held = DpCompute(r)
  /\ x.out \in Seq(Nat \X Nat) /\ Len(x.out) = config.mini * k
  /\ \A j \in 1..(config.mini * k) : x.out[j][1] = Row(r, D, j)

\* This is all there is to the phase.
LEMMA UpdRankIs ==
  ASSUME NEW x, NEW r, NEW d, NEW k, NEW D
  PROVE  UpdRank(x, r, d, k, D) <=>
           /\ d \in {3 * k, 3 * k + 1, 3 * k + 2}
           /\ UpdDraws(x, d, k, D) /\ UpdOut(x, r, k, D)
           /\ d # 3 * k => x.batch = Minibatch(r, D, k)
<1> HIDE DEF Minibatches, Share
<1> QED BY DEF UpdRank, UpdDraws, UpdOut

\* The last stage's batch goes along the pipeline.
LEMMA PpBatchKeeps ==
  ASSUME IInv, NEW r \in Ranks, BroadcastBatch(r)
  PROVE  IInv'
<1> DEFINE G == PpGroup(r)
           last(q) == CHOOSE p \in PpGroup(q) : Pp(p) = LastStage
           new == [q \in G |-> [rank[q] EXCEPT !.batch = rank[last(q)].batch]]
           o == Along(r, LastStage)
           d(q) == DoneBy(Method, rank[q])
<1>0. /\ Fits /\ G \in SUBSET Ranks /\ G # {} /\ LastStage \in Stages
      /\ o \in G /\ o \in Ranks /\ Dp(o) = Dp(r)
  BY Groups, StagesAre, Pipeline DEF IInv
<1>1. \A q \in G : last(q) = o /\ Dp(q) = Dp(o) /\ q \in Ranks
  <2>1. \A q \in G : PpGroup(q) = G /\ Dp(q) = Dp(r)
    BY Groups DEF PpGroup
  <2>2. (CHOOSE p \in G : Pp(p) = LastStage) = o
    BY <1>0, Pipeline
  <2> QED BY <1>0, <2>1, <2>2
<1>2. Together("pp_batch", G, new) /\ \A q \in G : new[q] = [rank[q] EXCEPT !.batch = rank[o].batch]
  BY <1>1 DEF BroadcastBatch
<1> HIDE DEF new, last, G, o
<1>3. QuietNew(G, new) /\ \A q \in G : /\ new[q].batch = rank[o].batch /\ new[q].engine = rank[q].engine
                                       /\ new[q].out = rank[q].out /\ new[q].held = rank[q].held
  <2>1. ASSUME NEW q \in G
        PROVE  /\ new[q] = [f \in Fields |-> new[q][f]] /\ new[q].todo = rank[q].todo
               /\ new[q].draws = rank[q].draws /\ new[q].critic = rank[q].critic
               /\ new[q].on = rank[q].on /\ new[q].buffer = rank[q].buffer
               /\ new[q].batch = rank[o].batch /\ new[q].engine = rank[q].engine
               /\ new[q].out = rank[q].out /\ new[q].held = rank[q].held
    <3>1. rank[q] = [f \in Fields |-> rank[q][f]]
      BY <1>0, InvRank
    <3> QED BY <1>2, <3>1 DEF Fields
  <2> QED BY <2>1 DEF QuietNew
<1>4. QuietlyMoved("pp_batch", G, new)
  BY <1>0, <1>2, <1>3, QuietMoves
<1>5. /\ Moved("pp_batch", G, new) /\ GroupKept(G)
      /\ \A q \in G : /\ Quiet(rank[q], rank'[q]) /\ rank'[q].batch = rank[o].batch
                      /\ rank'[q].engine = rank[q].engine /\ rank'[q].out = rank[q].out
                      /\ rank'[q].held = rank[q].held
  BY <1>3, <1>4 DEF QuietlyMoved
<1>6. ASSUME NEW q \in G
      PROVE  /\ \/ IsForward(Method) /\ d(q) + 1 = Lead(Method) + 1
                \/ IsUpdate(Method) /\ \E n \in Nat : d(q) + 1 = 3 * n + 2
             /\ d(q) \in Nat /\ DoneBy(Method, rank'[q]) = d(q) + 1
  <2> DEFINE e == d(q)
  <2>1. /\ e \in Nat /\ DoneBy(Method, rank'[q]) = e + 1
        /\ Method \in Methods /\ NextOp(q).op = "pp_batch" /\ PlaceOf(Method, e + 1, NextOp(q))
    BY <1>5 DEF Moved
  <2> HIDE DEF e
  <2>2. \/ IsForward(Method) /\ e + 1 = Lead(Method) + 1
        \/ IsUpdate(Method) /\ \E n \in 0..(Blocks - 1) : e + 1 = 3 * n + 2
    BY <2>1, KindPlaces
  <2>3. \A n \in 0..(Blocks - 1) : n \in Nat
    <3> DEFINE b == Blocks - 1
    <3> HIDE DEF b
    <3> QED BY DEF b
  <2> QED BY <2>1, <2>2, <2>3 DEF e
<1>7. PhaseKept(G)
  <2> SUFFICES ASSUME NEW k \in Nat, NEW D \in Nat,
                      \A z \in Ranks : InPhase(Method, rank[z], z, driver.at, k, D),
                      NEW q \in G
               PROVE  InPhase(Method, rank'[q], q, driver.at, k, D)
    BY DEF PhaseKept
  <2> DEFINE x == rank[q]
             y == rank'[q]
             e == d(q)
  <2>1. /\ Quiet(x, y) /\ y.engine = x.engine /\ y.out = x.out /\ y.held = x.held
        /\ y.batch = rank[o].batch /\ q \in Ranks /\ e \in Nat /\ DoneBy(Method, y) = e + 1
    BY <1>1, <1>5, <1>6
  <2>2. CASE IsForward(Method) /\ e + 1 = Lead(Method) + 1
    <3>1. TrainRank(x, q, driver.at) /\ FwdRank(Method, x, q, e) /\ FwdRank(Method, rank[o], o, d(o))
      BY <1>0, <2>1, <2>2, Phases
    <3>2. Lead(Method) \in {0, 1}
      BY <2>2, Offloadable
    <3> HIDE DEF x, y, e
    <3>3. TrainRank(y, q, driver.at)
      BY <2>1, <3>1, TrainStays DEF Quiet
    <3>4. y.batch = DpCompute(q)
      BY <1>1, <2>1, <3>1, SameEpochs DEF FwdRank
    <3>5. ~ (Lead(Method) + 2 <= e + 1)
      BY <2>1, <2>2, <3>2
    <3>6. Lead(Method) = 1 /\ 1 <= e + 1 /\ e + 1 < FwdLen(Method) => y.on[ModelOf(Method)] = "cuda"
      <4> SUFFICES ASSUME Lead(Method) = 1 PROVE y.on[ModelOf(Method)] = "cuda"
        OBVIOUS
      <4>1. 1 <= e /\ e < FwdLen(Method)
        BY <2>1, <2>2, Offloadable
      <4> QED BY <2>1, <3>1, <4>1 DEF FwdRank, Quiet
    <3>7. FwdRank(Method, y, q, e + 1)
      BY <3>4, <3>5, <3>6 DEF FwdRank
    <3> QED BY <2>1, <2>2, <3>3, <3>7, Phases DEF y
  <2>3. CASE IsUpdate(Method) /\ \E n \in Nat : e + 1 = 3 * n + 2
    <3>1. TrainRank(x, q, driver.at) /\ UpdRank(x, q, e, k, D)
      BY <2>1, <2>3, Phases
    <3>2. UpdRank(rank[o], o, d(o), k, D)
      BY <1>0, <2>1, <2>3, Phases
    <3>3. ASSUME NEW i \in Nat, NEW z \in G, i = d(z), UpdRank(rank[z], z, i, k, D)
          PROVE  i = 3 * k + 1
      <4>1. PICK n \in Nat : i + 1 = 3 * n + 2
        <5>1. ~ IsForward(Method)
          BY <2>3 DEF IsForward, IsUpdate
        <5> QED BY <1>6, <3>3, <5>1
      <4>2. i \in {3 * k, 3 * k + 1, 3 * k + 2}
        BY <3>3 DEF UpdRank
      <4>3. i + 1 = 3 * k + 2
        <5> DEFINE c == 2
        <5>1. c \in {1, 2, 3} /\ i + 1 = 3 * n + c
          BY <4>1
        <5> HIDE DEF c
        <5>2. i + 1 = 3 * k + c
          BY <4>2, <5>1, SameBlock
        <5> QED BY <5>2 DEF c
      <4> QED BY <4>3
    <3>4. e = 3 * k + 1 /\ d(o) = 3 * k + 1
      BY <1>0, <1>6, <3>1, <3>2, <3>3
    <3> HIDE DEF x, y, e, d
    <3>5. TrainRank(y, q, driver.at)
      BY <2>1, <3>1, TrainStays DEF Quiet
    <3>6. UpdDraws(x, e, k, D) /\ UpdOut(x, q, k, D)
      BY <3>1, UpdRankIs
    <3>7. rank[o].batch = Minibatch(o, D, k)
      <4>1. d(o) # 3 * k
        BY <3>4
      <4> QED BY <3>2, <4>1, UpdRankIs
    <3>8. e # 3 * k /\ e + 1 # 3 * k /\ e + 1 \in {3 * k, 3 * k + 1, 3 * k + 2}
      BY <3>4
    <3>9. UpdDraws(y, e + 1, k, D)
      BY <2>1, <3>6, <3>8 DEF UpdDraws, Quiet
    <3>10. UpdOut(y, q, k, D)
      BY <2>1, <3>6 DEF UpdOut
    <3>11. y.batch = Minibatch(q, D, k)
      BY <1>1, <2>1, <3>7, SameEpochs
    <3>12. UpdRank(y, q, e + 1, k, D)
      BY <3>8, <3>9, <3>10, <3>11, UpdRankIs
    <3> QED BY <2>1, <2>3, <3>5, <3>12, Phases DEF y
  <2> QED BY <1>6, <2>2, <2>3
<1> QED BY <1>0, <1>5, <1>7, Keeps

\* A rank of a forward pass.
LEMMA InForward ==
  ASSUME IInv, Waits, IsForward(Method), NEW q \in Ranks
  PROVE  TrainRank(rank[q], q, driver.at) /\ FwdRank(Method, rank[q], q, DoneBy(Method, rank[q]))
<1>1. Within(rank, driver.at)
  BY DEF IInv, Inv, Waits
<1>2. PICK k \in Nat, D \in Nat : \A r \in Ranks : InPhase(Method, rank[r], r, driver.at, k, D)
  BY <1>1 DEF Within, Method
<1> QED BY <1>2, Phases

\* The output of a forward pass.
OutForward(kind, G, out, e) ==
  /\ OutMoved(kind, G, out) /\ IsForward(Method)
  /\ e \in Nat /\ Lead(Method) + 1 <= e /\ e + 1 <= Lead(Method) + 3
  /\ \A q \in G : /\ DoneBy(Method, rank[q]) = e
                  /\ Pp(q) = LastStage =>
                       out[q] = Tagged(DpCompute(q), VersionIn(ModelOf(Method), rank[q], q))

\* An operation of a forward pass that gives the right output keeps the invariant.
LEMMA OutForwardKeeps ==
  ASSUME IInv, NEW kind, NEW G \in SUBSET Ranks, NEW out, NEW e, OutForward(kind, G, out, e)
  PROVE  IInv'
<1>1. /\ Moved(kind, G, Out(G, out)) /\ GroupKept(G) /\ IsForward(Method) /\ e \in Nat
      /\ Lead(Method) \in {0, 1} /\ (Lead(Method) = 1 => 1 <= e /\ e < FwdLen(Method))
      /\ Lead(Method) + 1 <= e
  <2>1. /\ Lead(Method) \in {0, 1} /\ (Lead(Method) = 1 <=> FwdLen(Method) = 5)
    BY Offloadable DEF OutForward
  <2> QED BY <2>1 DEF OutForward, OutMoved
<1>2. PhaseKept(G)
  <2> SUFFICES ASSUME NEW k \in Nat, NEW D \in Nat, NEW q \in G,
                      InPhase(Method, rank[q], q, driver.at, k, D)
               PROVE  InPhase(Method, rank'[q], q, driver.at, k, D)
    BY DEF PhaseKept
  <2> DEFINE x == rank[q]
             y == rank'[q]
  <2>1. /\ TrainRank(x, q, driver.at) /\ FwdRank(Method, x, q, e) /\ DoneBy(Method, y) = e + 1
        /\ Quiet(x, y) /\ y.engine = x.engine /\ y.batch = x.batch
        /\ Pp(q) = LastStage => y.out = Tagged(DpCompute(q), VersionIn(ModelOf(Method), x, q))
    <3>1. /\ DoneBy(Method, x) = e /\ OutMoved(kind, G, out)
          /\ Pp(q) = LastStage => out[q] = Tagged(DpCompute(q), VersionIn(ModelOf(Method), x, q))
      BY DEF OutForward
    <3>2. Quiet(x, y) /\ y.engine = x.engine /\ y.batch = x.batch /\ y.out = out[q]
      BY <3>1 DEF OutMoved
    <3>3. DoneBy(Method, y) = e + 1
      BY <1>1, <3>1 DEF Moved
    <3>4. TrainRank(x, q, driver.at) /\ FwdRank(Method, x, q, e)
      <4> HIDE DEF y
      <4> QED BY <1>1, <3>1, Phases
    <3> QED BY <3>1, <3>2, <3>3, <3>4
  <2> HIDE DEF x, y
  <2>2. TrainRank(y, q, driver.at)
    BY <2>1, TrainStays DEF Quiet
  <2>3. VersionIn(ModelOf(Method), y, q) = VersionIn(ModelOf(Method), x, q)
    BY <2>1 DEF VersionIn, Quiet
  <2>4. FwdRank(Method, y, q, e + 1)
    BY <1>1, <2>1, <2>3 DEF FwdRank, Quiet
  <2> QED BY <1>1, <2>1, <2>2, <2>4, Phases DEF y
<1> QED BY <1>1, <1>2, Keeps

\* All the ranks have one version of every model.
LEMMA OneVersion ==
  ASSUME IInv, NEW q \in Ranks, NEW r \in Ranks, NEW model
  PROVE  /\ VersionIn(model, rank[q], q) = VersionIn(model, rank[r], r)
         /\ VersionOf(model, q) = VersionIn(model, rank[q], q)
         /\ VersionIn(model, rank[q], q) \in Nat
<1>1. VersionIn(model, rank[q], q) = VersionIn(model, rank[r], r)
  BY DEF IInv, Inv, Versioned, VersionIn
<1>2. VersionOf(model, q) = VersionIn(model, rank[q], q)
  BY DEF VersionOf, VersionIn, Own
<1>3. VersionIn(model, rank[q], q) \in Nat
  <2>1. ShapedRank(rank[q], q) /\ Pp(q) \in Stages
    BY InvRank, Placing DEF IInv
  <2> QED BY <2>1 DEF ShapedRank, ShapedBuffer, VersionIn
<1> QED BY <1>1, <1>2, <1>3

\* The rows go through a model.
LEMMA ForwardKeeps ==
  ASSUME IInv, NEW r \in Ranks, ForwardBatch(r)
  PROVE  IInv'
<1> DEFINE G == MpGroup(r)
           model == NextOp(r).model
           version == [p \in G |-> VersionOf(model, p)]
           ready == [p \in G |-> ReadyFor(model, p)]
           all(q) == Computed(G, q, version, ready)
           out == [q \in G |-> IF Pp(q) = LastStage THEN FlattenSeq(MicrosOf(all(q))) ELSE <<>>]
           e == Lead(Method) + 1
           rows == DpCompute(r)
           v == VersionIn(model, rank[r], r)
<1>0. /\ Fits /\ G \in SUBSET Ranks /\ G # {} /\ r \in G
      /\ \A q \in G : q \in Ranks /\ Dp(q) = Dp(r)
  BY Groups DEF IInv, MpGroup
<1>1. OutMoved("forward", G, out)
  <2>1. Together("forward", G, Out(G, out))
    BY DEF ForwardBatch, Out
  <2> HIDE DEF G, out
  <2> QED BY <1>0, <2>1, OutMoves
<1>2. ASSUME NEW q \in G
      PROVE  /\ IsForward(Method) /\ NextOp(q) = NextOp(r) /\ model = ModelOf(Method)
             /\ DoneBy(Method, rank[q]) = e /\ Waits /\ e \in Nat
  <2> DEFINE i == DoneBy(Method, rank[q])
  <2> HIDE DEF G, out
  <2>1. /\ i \in Nat /\ Waits /\ NextOp(q) = NextOp(r)
        /\ Method \in Methods /\ NextOp(q).op = "forward" /\ PlaceOf(Method, i + 1, NextOp(q))
    BY <1>0, <1>1 DEF OutMoved, Moved
  <2> HIDE DEF i
  <2>2. IsForward(Method) /\ NextOp(q).model = ModelOf(Method) /\ i + 1 = Lead(Method) + 2
    BY <2>1, KindPlaces
  <2>3. i = e /\ e \in Nat
    <3>1. Lead(Method) \in {0, 1}
      BY <2>2, Offloadable
    <3> QED BY <2>1, <2>2, <3>1
  <2> QED BY <2>1, <2>2, <2>3 DEF i
<1>3. /\ IsForward(Method) /\ model = ModelOf(Method) /\ Waits /\ e \in Nat
      /\ Lead(Method) \in {0, 1} /\ Lead(Method) + 1 <= e /\ e + 1 <= Lead(Method) + 3
      /\ (Lead(Method) = 1 => 1 <= e /\ e < FwdLen(Method))
  <2>1. IsForward(Method) /\ model = ModelOf(Method) /\ Waits /\ e \in Nat
    BY <1>0, <1>2
  <2>2. Lead(Method) \in {0, 1} /\ (Lead(Method) = 1 <=> FwdLen(Method) = 5)
    BY <2>1, Offloadable
  <2> QED BY <2>1, <2>2
<1> HIDE DEF e, model, G
<1>4. ASSUME NEW z \in G
      PROVE  rank[z].batch = rows /\ version[z] = v /\ ready[z]
  <2>1. FwdRank(Method, rank[z], z, e) /\ z \in Ranks
    BY <1>0, <1>2, <1>3, InForward
  <2>2. rank[z].batch = rows
    BY <1>0, <2>1, SameEpochs DEF FwdRank
  <2>3. version[z] = v
    BY <1>0, <2>1, OneVersion
  <2>4. ReadyFor(model, z)
    <3>1. CASE model \in {"actor", "critic"}
      BY <3>1 DEF ReadyFor
    <3>2. CASE model \in {"ref", "rm"} /\ config.offload
      <4>1. Lead(Method) = 1
        BY <1>3, <3>2, Offloadable
      <4>2. rank[z].on[model] = "cuda"
        BY <1>3, <2>1, <4>1 DEF FwdRank
      <4> QED BY <4>2 DEF ReadyFor
    <3>3. CASE model \in {"ref", "rm"} /\ ~ config.offload
      <4>1. rank[z].on.ref = "cuda" /\ rank[z].on.rm = "cuda"
        BY <2>1, <3>3, InvRank DEF ShapedRank
      <4> QED BY <3>3, <4>1 DEF ReadyFor
    <3> QED BY <1>3, <3>1, <3>2, <3>3, Offloadable
  <2> QED BY <2>2, <2>3, <2>4
<1> HIDE DEF version, ready, rows, v
<1>5. ASSUME NEW q \in G PROVE Computed(G, q, version, ready) = Tagged(rows, v)
  BY <1>4, <1>5, AllAgree
<1>6. FlattenSeq(MicrosOf(Tagged(rows, v))) = Tagged(rows, v)
  <2> DEFINE a == Share * Dp(r)
             s == Tagged(rows, v)
  <2>1. rows = Run(a, Share)
    BY <1>0, RowsDealt DEF rows
  <2>2. a \in Nat /\ Share \in Nat
    <3> DEFINE u == Dp(r)
               w == Share
    <3>1. w \in Nat
      BY <1>0, Sizes
    <3>2. u \in Nat
      <4>1. config.dp \in Nat \ {0}
        BY <1>0, ConfigFields
      <4>2. u \in 0..(config.dp - 1)
        BY <1>0, Placing
      <4> QED BY <4>1, <4>2
    <3> HIDE DEF u, w
    <3>3. w * u \in Nat
      BY <3>1, <3>2
    <3> QED BY <3>1, <3>3 DEF u, w
  <2> DEFINE n == Share
  <2> HIDE DEF a, n
  <2>3. Tagged(Run(a, n), v) \in Seq(Nat \X {v}) /\ Len(Tagged(Run(a, n), v)) = n /\ Len(Run(a, n)) = n
    BY <2>2, TaggedSeq, RunSeq, ZenonT(60) DEF n
  <2>4. s \in Seq(Nat \X {v}) /\ Len(s) = Len(rows)
    BY <2>1, <2>3 DEF n
  <2>5. Len(rank[r].batch) % config.micro = 0
    BY DEF ForwardBatch
  <2>6. Len(s) % config.micro = 0
    BY <1>0, <1>4, <2>4, <2>5
  <2> HIDE DEF s
  <2>7. FlattenSeq(MicrosOf(s)) = s
    BY <1>0, <2>4, <2>6, MicrosJoin
  <2> QED BY <2>7 DEF s
<1>7. ASSUME NEW q \in G, Pp(q) = LastStage
      PROVE  out[q] = Tagged(DpCompute(q), VersionIn(ModelOf(Method), rank[q], q))
  <2>1. out[q] = Tagged(rows, v)
    BY <1>5, <1>6, <1>7
  <2>2. rows = DpCompute(q)
    BY <1>0, SameEpochs DEF rows
  <2>3. v = VersionIn(ModelOf(Method), rank[q], q)
    BY <1>0, <1>3, OneVersion DEF v
  <2> QED BY <2>1, <2>2, <2>3
<1> HIDE DEF out
<1>8. OutForward("forward", G, out, e)
  BY <1>1, <1>2, <1>3, <1>7 DEF OutForward
<1> QED BY <1>0, <1>8, OutForwardKeeps

\* The last stage's output goes along the pipeline.
LEMMA PpOutputKeeps ==
  ASSUME IInv, NEW r \in Ranks, BroadcastOutput(r)
  PROVE  IInv'
<1> DEFINE G == PpGroup(r)
           last(q) == CHOOSE p \in PpGroup(q) : Pp(p) = LastStage
           out == [q \in G |-> rank[last(q)].out]
           e == Lead(Method) + 2
<1>0. /\ Fits /\ G \in SUBSET Ranks /\ G # {} /\ r \in G /\ LastStage \in Stages
  BY Groups, StagesAre DEF IInv
<1>1. ASSUME NEW q \in G, Pp(q) = LastStage PROVE last(q) = q
  <2>1. last(q) = Along(q, LastStage) /\ q \in Ranks
    BY <1>0, Pipeline
  <2>2. q = Along(q, LastStage)
    BY <1>0, <1>1, <2>1, Pipeline, Groups
  <2> QED BY <2>1, <2>2
<1>2. OutMoved("pp_output", G, out)
  <2>1. Together("pp_output", G, Out(G, out))
    BY SMTT(30) DEF BroadcastOutput, Out
  <2> HIDE DEF G, out
  <2> QED BY <1>0, <2>1, OutMoves
<1> HIDE DEF G, last
<1>3. ASSUME NEW q \in G
      PROVE  IsForward(Method) /\ DoneBy(Method, rank[q]) = e /\ Waits /\ e \in Nat
  <2> DEFINE i == DoneBy(Method, rank[q])
  <2> HIDE DEF out
  <2>1. /\ i \in Nat /\ Waits
        /\ Method \in Methods /\ NextOp(q).op = "pp_output" /\ PlaceOf(Method, i + 1, NextOp(q))
    BY <1>2 DEF OutMoved, Moved
  <2> HIDE DEF i
  <2>2. IsForward(Method) /\ i + 1 = Lead(Method) + 3
    BY <2>1, KindPlaces
  <2>3. i = e /\ e \in Nat
    <3>1. Lead(Method) \in {0, 1}
      BY <2>2, Offloadable
    <3> QED BY <2>1, <2>2, <3>1
  <2> QED BY <2>1, <2>2, <2>3 DEF i
<1>4. /\ IsForward(Method) /\ Waits /\ e \in Nat
      /\ Lead(Method) + 1 <= e /\ e + 1 <= Lead(Method) + 3 /\ Lead(Method) + 2 <= e
  <2>1. IsForward(Method) /\ Waits /\ e \in Nat
    BY <1>0, <1>3
  <2>2. Lead(Method) \in {0, 1}
    BY <2>1, Offloadable
  <2> QED BY <2>1, <2>2
<1> HIDE DEF e
<1>5. ASSUME NEW q \in G, Pp(q) = LastStage
      PROVE  out[q] = Tagged(DpCompute(q), VersionIn(ModelOf(Method), rank[q], q))
  <2>1. out[q] = rank[q].out
    BY <1>1, <1>5
  <2>2. FwdRank(Method, rank[q], q, e)
    BY <1>0, <1>3, <1>4, InForward
  <2> QED BY <1>4, <1>5, <2>1, <2>2 DEF FwdRank
<1> HIDE DEF out
<1>6. OutForward("pp_output", G, out, e)
  BY <1>2, <1>3, <1>4, <1>5 DEF OutForward
<1> QED BY <1>0, <1>6, OutForwardKeeps

\* A minibatch is drawn.
LEMMA MinibatchKeeps ==
  ASSUME IInv, NEW r \in Ranks, MakeMinibatch(r)
  PROVE  IInv'
<1> DEFINE G == {r}
           x == rank[r]
           y == rank'[r]
           d == DoneBy(Method, rank[r])
           at == NextOp(r).at
           draws == IF at = 1 THEN rank[r].draws + 1 ELSE rank[r].draws
           order == Shuffled(rank[r].held, SeedOf(r), draws)
           b == SubSeq(order, (at - 1) * config.mini + 1, at * config.mini)
           new == [q \in {r} |-> [rank[q] EXCEPT !.draws = draws, !.batch = b]]
           M == Minibatches
<1>0. Fits /\ G \in SUBSET Ranks /\ G # {} /\ ShapedRank(x, r) /\ M \in Nat \ {0}
  BY InvRank, Sizes DEF IInv
<1>1. Together("minibatch", G, new)
  BY DEF MakeMinibatch
<1> HIDE DEF b, draws, order
<1>2. new[r] = [rank[r] EXCEPT !.draws = draws, !.batch = b]
  OBVIOUS
<1> HIDE DEF new
<1>3. /\ new[r] = [f \in Fields |-> new[r][f]] /\ new[r].todo = rank[r].todo
      /\ new[r].held = x.held /\ new[r].batch = b /\ new[r].out = x.out
      /\ new[r].draws = draws /\ new[r].critic = x.critic /\ new[r].on = x.on
      /\ new[r].engine = x.engine /\ new[r].buffer = x.buffer
  <2>1. rank[r] = [f \in Fields |-> rank[r][f]]
    BY InvRank
  <2> QED BY <1>2, <2>1 DEF Fields
<1>4. Moved("minibatch", G, new)
  BY <1>0, <1>1, <1>3, Moves
<1>5. /\ y = [f \in Fields |-> y[f]] /\ y.draws = draws /\ y.critic = x.critic /\ y.on = x.on
      /\ y.engine = x.engine /\ y.batch = b /\ y.out = x.out /\ y.held = x.held /\ y.buffer = x.buffer
      /\ r \in Ranks /\ d \in Nat /\ DoneBy(Method, y) = d + 1
      /\ Method \in Methods /\ NextOp(r).op = "minibatch" /\ PlaceOf(Method, d + 1, NextOp(r))
  BY <1>3, <1>4 DEF Moved
<1> HIDE DEF M
<1>6. PICK n \in Nat : IsUpdate(Method) /\ d + 1 = 3 * n + 1 /\ at = (n % M) + 1
  <2> HIDE DEF d, at
  <2>1. IsUpdate(Method) /\ \E n \in 0..(Blocks - 1) : d + 1 = 3 * n + 1 /\ NextOp(r).at = (n % Minibatches) + 1
    BY <1>5, KindPlaces
  <2>2. \A n \in 0..(Blocks - 1) : n \in Nat
    <3> DEFINE c == Blocks - 1
    <3> HIDE DEF c
    <3> QED BY DEF c
  <2> QED BY <2>1, <2>2 DEF M, at
<1>7. ShapedRank(y, r)
  <2>1. draws \in Nat
    BY <1>0 DEF ShapedRank, draws
  <2> HIDE DEF x, y
  <2> QED BY <1>0, <1>5, <2>1 DEF ShapedRank
<1>8. GroupKept(G)
  BY <1>5, <1>6, <1>7 DEF GroupKept
<1>9. PhaseKept(G)
  <2> SUFFICES ASSUME NEW k \in Nat, NEW D \in Nat, InPhase(Method, x, r, driver.at, k, D)
               PROVE  InPhase(Method, y, r, driver.at, k, D)
    BY DEF PhaseKept
  <2> DEFINE f == k % M
             g == k \div M
  <2>1. TrainRank(x, r, driver.at) /\ UpdRank(x, r, d, k, D)
    BY <1>6, Phases
  <2>2. f \in 0..(M - 1) /\ g \in Nat /\ f \in Nat
    <3>1. f \in 0..(M - 1) /\ g \in Nat
      BY <1>0, Division
    <3> HIDE DEF f
    <3> QED BY <1>0, <3>1
  <2> HIDE DEF x, y, d, at, f, g
  <2>3. d \in {3 * k, 3 * k + 1, 3 * k + 2} /\ UpdDraws(x, d, k, D) /\ UpdOut(x, r, k, D)
    BY <2>1, UpdRankIs
  <2>4. n = k /\ d + 1 = 3 * k + 1
    <3> DEFINE c == 1
    <3>1. c \in {1, 2, 3} /\ d + 1 = 3 * n + c
      BY <1>6
    <3> HIDE DEF c
    <3>2. n = k /\ d + 1 = 3 * k + c
      BY <1>5, <2>3, <3>1, SameBlock
    <3> QED BY <3>2 DEF c
  <2>5. d = 3 * k /\ d + 1 # 3 * k /\ d + 1 \in {3 * k, 3 * k + 1, 3 * k + 2} /\ at = f + 1
    BY <1>5, <1>6, <2>4 DEF f
  <2>6. draws = D + g + 1
    <3>1. x.draws = D + g + (IF f = 0 THEN 0 ELSE 1)
      BY <2>3, <2>5 DEF UpdDraws, f, g, M
    <3>2. draws = IF f = 0 THEN x.draws + 1 ELSE x.draws
      BY <2>2, <2>5 DEF draws, x, at
    <3> QED BY <2>2, <3>1, <3>2
  <2>7. UpdDraws(y, d + 1, k, D)
    BY <1>5, <2>5, <2>6 DEF UpdDraws, g, M
  <2>8. UpdOut(y, r, k, D)
    BY <1>5, <2>3 DEF UpdOut
  <2>9. y.batch = Minibatch(r, D, k)
    <3>1. order = Epoch(r, D, g + 1)
      <4>1. D + g + 1 = D + (g + 1)
        BY <2>2
      <4>2. rank[r].held = DpCompute(r)
        BY <2>3 DEF UpdOut, x
      <4> QED BY <2>6, <4>1, <4>2 DEF order, Epoch
    <3>2. at - 1 = f
      BY <2>2, <2>5
    <3>3. b = SubSeq(Epoch(r, D, g + 1), f * config.mini + 1, (f + 1) * config.mini)
      BY <2>5, <3>1, <3>2 DEF b, at
    <3> QED BY <1>5, <3>3 DEF Minibatch, f, g, M
  <2>10. UpdRank(y, r, d + 1, k, D)
    BY <2>5, <2>7, <2>8, <2>9, UpdRankIs
  <2>11. TrainRank(y, r, driver.at)
    BY <1>5, <2>1, TrainStays
  <2> QED BY <1>5, <1>6, <2>10, <2>11, Phases
<1> QED BY <1>0, <1>4, <1>8, <1>9, Keeps

\* What an epoch has at each place.
LEMMA EpochShape ==
  ASSUME Fits, NEW r \in Ranks, NEW D \in Nat, NEW e \in Nat
  PROVE  /\ Share * Dp(r) \in Nat /\ Epoch(r, D, e) \in Seq(Nat) /\ Len(Epoch(r, D, e)) = Share
         /\ \A i \in 1..Share : Epoch(r, D, e)[i] =
              Share * Dp(r) + (IF config.shuffle THEN ((i + D + e) % Share) + 1 ELSE i)
<1> DEFINE a == Share * Dp(r)
           n == Share
           rows == DpCompute(r)
           E == Epoch(r, D, e)
<1>1. n \in Nat \ {0} /\ rows = Run(a, n) /\ Dp(r) \in 0..(config.dp - 1) /\ config.dp \in Nat \ {0}
      /\ config.shuffle \in BOOLEAN
  BY Sizes, RowsDealt, Placing, ConfigFields
<1>2. a \in Nat
  <2> DEFINE u == Dp(r)
             w == Share
  <2>1. w \in Nat /\ u \in Nat
    BY <1>1
  <2> HIDE DEF u, w
  <2>2. w * u \in Nat
    BY <2>1
  <2> QED BY <2>2 DEF u, w
<1> HIDE DEF n, a
<1>3. rows \in Seq(Nat) /\ Len(rows) = n /\ DOMAIN rows = 1..n /\ \A j \in 1..n : rows[j] = a + j
  <2>1. n \in Nat /\ rows = Run(a, n)
    BY <1>1 DEF n
  <2> HIDE DEF rows
  <2> QED BY <1>2, <2>1, RunSeq
<1>4. E = IF config.shuffle THEN [i \in DOMAIN rows |-> rows[((i + SeedOf(r) + (D + e)) % Len(rows)) + 1]]
          ELSE rows
  BY DEF Epoch, Shuffled
<1> HIDE DEF rows, E
<1>5. CASE ~ config.shuffle
  BY <1>2, <1>3, <1>4, <1>5 DEF a, n, E
<1>6. CASE config.shuffle
  <2>1. E = [i \in 1..n |-> rows[((i + D + e) % n) + 1]]
    <3>1. \A i \in 1..n : i + SeedOf(r) + (D + e) = i + D + e
      BY DEF SeedOf
    <3> QED BY <1>3, <1>4, <1>6, <3>1
  <2>2. ASSUME NEW i \in 1..n
        PROVE  E[i] = a + (((i + D + e) % n) + 1) /\ E[i] \in Nat
    <3> DEFINE x == i + D + e
               f == x % n
    <3>1. x \in Nat
      BY <1>1 DEF n
    <3> HIDE DEF x
    <3>2. f \in 0..(n - 1)
      BY <1>1, <3>1, Division DEF n
    <3>3. E[i] = rows[f + 1]
      BY <2>1 DEF x
    <3> HIDE DEF f
    <3>4. f + 1 \in 1..n
      BY <1>1, <3>2 DEF n
    <3>5. E[i] = a + (f + 1) /\ E[i] \in Nat
      BY <1>2, <1>3, <3>2, <3>3, <3>4
    <3> QED BY <3>5 DEF f, x
  <2>3. E = [i \in 1..n |-> E[i]]
    BY <2>1
  <2>4. E \in Seq(Nat) /\ Len(E) = n
    <3>1. n \in Nat
      BY <1>1 DEF n
    <3>2. \A i \in 1..n : E[i] \in Nat
      BY <2>2
    <3> QED BY <2>3, <3>1, <3>2
  <2> QED BY <1>2, <1>6, <2>2, <2>4 DEF a, n, E
<1> QED BY <1>1, <1>5, <1>6

\* Where a minibatch is in its epoch.
LEMMA BlockPlace ==
  ASSUME Fits, NEW k \in Nat, NEW i \in 1..config.mini
  PROVE  LET f == k % Minibatches
             j == config.mini * k + i IN
         /\ f \in Nat /\ k \div Minibatches \in Nat
         /\ f * config.mini \in Nat /\ (f + 1) * config.mini = f * config.mini + config.mini
         /\ f * config.mini + config.mini <= Share
         /\ (j - 1) \div Share = k \div Minibatches /\ ((j - 1) % Share) + 1 = f * config.mini + i
<1> DEFINE m == config.mini
           M == Minibatches
           f == k % M
           g == k \div M
           z == m * f
           t == z + (i - 1)
<1>1. m \in Nat \ {0} /\ M \in Nat \ {0} /\ Share = m * M /\ Share \in Nat \ {0}
  BY Sizes, ConfigFields
<1> HIDE DEF m, M
<1>2. f \in 0..(M - 1) /\ g \in Nat /\ k = M * g + f
  BY <1>1, Division
<1> HIDE DEF f, g
<1>3. f \in Nat /\ f < M
  BY <1>1, <1>2
<1>4. z \in Nat /\ m * f + m <= m * M
  BY <1>1, <1>3, ProductGrows
<1>5. m * k = (m * M) * g + z
  BY <1>1, <1>2, <1>3
<1>6. f * m = z /\ (f + 1) * m = z + m
  BY <1>1, <1>3
<1> DEFINE S == m * M
<1>7. S \in Nat \ {0} /\ z + m <= S
  BY <1>1, <1>4
<1> HIDE DEF z, S
<1>8. t \in 0..(S - 1) /\ i \in Nat /\ i \in 1..m
  BY <1>1, <1>4, <1>7 DEF m
<1> HIDE DEF t
<1>9. (S * g + t) \div S = g /\ (S * g + t) % S = t
  BY <1>2, <1>7, <1>8, DivisionIsUnique
<1>10. (m * k + i) - 1 = S * g + t
  <2> DEFINE A == S * g
             B == m * k
  <2>1. A \in Nat /\ B = A + z
    BY <1>2, <1>5, <1>7 DEF S
  <2> HIDE DEF A, B
  <2>2. (B + i) - 1 = A + t
    BY <1>4, <1>8, <2>1 DEF t
  <2> QED BY <2>2 DEF A, B
<1>11. t + 1 = z + i
  BY <1>4, <1>8 DEF t
<1> QED BY <1>1, <1>2, <1>3, <1>4, <1>6, <1>7, <1>9, <1>10, <1>11 DEF m, M, f, g, S

\* A minibatch is a piece of its epoch.
LEMMA MinibatchShape ==
  ASSUME Fits, NEW r \in Ranks, NEW D \in Nat, NEW k \in Nat
  PROVE  /\ Minibatch(r, D, k) \in Seq(Nat) /\ Len(Minibatch(r, D, k)) = config.mini
         /\ \A i \in 1..config.mini : Minibatch(r, D, k)[i] = Row(r, D, config.mini * k + i)
<1> DEFINE m == config.mini
           f == k % Minibatches
           g == k \div Minibatches
           z == f * m
           E == Epoch(r, D, g + 1)
           B == Minibatch(r, D, k)
<1>1. m \in Nat \ {0} /\ 1 \in 1..m
  BY ConfigFields
<1>2. /\ f \in Nat /\ g \in Nat /\ z \in Nat /\ (f + 1) * m = z + m /\ z + m <= Share
      /\ \A i \in 1..m : /\ ((m * k + i) - 1) \div Share = g
                         /\ (((m * k + i) - 1) % Share) + 1 = z + i
  BY <1>1, BlockPlace
<1> HIDE DEF f
<1>3. B = SubSeq(E, z + 1, z + m)
  BY <1>2 DEF Minibatch, f
<1> HIDE DEF g, z
<1>4. E \in Seq(Nat) /\ Len(E) = Share /\ Share \in Nat
  <2>1. g + 1 \in Nat
    BY <1>2
  <2> QED BY <2>1, EpochShape, Sizes
<1> DEFINE n == Share
<1> HIDE DEF E, n, m
<1>5. /\ SubSeq(E, z + 1, z + m) \in Seq(Nat) /\ Len(SubSeq(E, z + 1, z + m)) = m
      /\ \A i \in 1..m : SubSeq(E, z + 1, z + m)[i] = E[z + i]
  <2>1. z \in Nat /\ m \in Nat /\ z + m <= n /\ Len(E) = n /\ n \in Nat /\ E \in Seq(Nat)
    BY <1>1, <1>2, <1>4 DEF n
  <2> QED BY <2>1, SubSeqProperties
<1>6. \A i \in 1..m : B[i] = Row(r, D, m * k + i)
  BY <1>2, <1>3, <1>5 DEF E, Row
<1> QED BY <1>3, <1>5, <1>6 DEF m

\* A minibatch that has been trained on goes behind the others.
LEMMA UpdOutGrows ==
  ASSUME Fits, NEW r \in Ranks, NEW D \in Nat, NEW k \in Nat, NEW v \in Nat, NEW x, NEW y,
         UpdOut(x, r, k, D), y.held = x.held, y.out = x.out \o Tagged(Minibatch(r, D, k), v)
  PROVE  UpdOut(y, r, k + 1, D)
<1> DEFINE m == config.mini
           B == Minibatch(r, D, k)
           T == Tagged(B, v)
           z == m * k
           row(j) == Row(r, D, j)
<1>1. m \in Nat \ {0} /\ B \in Seq(Nat) /\ Len(B) = m /\ \A i \in 1..m : B[i] = row((m * k) + i)
  <2>1. m \in Nat \ {0}
    BY ConfigFields
  <2>2. B \in Seq(Nat) /\ Len(B) = config.mini /\ \A i \in 1..config.mini : B[i] = Row(r, D, config.mini * k + i)
    BY MinibatchShape
  <2> QED BY <2>1, <2>2
<1>2. x.held = DpCompute(r) /\ x.out \in Seq(Nat \X Nat) /\ Len(x.out) = m * k
      /\ \A j \in 1..(m * k) : x.out[j][1] = row(j)
  BY DEF UpdOut
<1> HIDE DEF m, row, B
<1>3. z \in Nat /\ m * (k + 1) = z + m
  BY <1>1
<1> HIDE DEF z
<1>4. \A i \in 1..m : B[i] = row(z + i)
  BY <1>1 DEF z
<1>5. T \in Seq(Nat \X Nat) /\ Len(T) = m /\ \A i \in 1..m : T[i][1] = B[i]
  <2>1. T = [i \in 1..m |-> <<B[i], v>>]
    BY <1>1 DEF Tagged
  <2>2. \A i \in 1..m : B[i] \in Nat
    BY <1>1
  <2>3. \A i \in 1..m : <<B[i], v>> \in Nat \X Nat
    BY <2>2
  <2> HIDE DEF T
  <2>4. \A i \in 1..m : T[i] \in Nat \X Nat /\ T[i][1] = B[i]
    BY <2>1, <2>3
  <2>5. T = [i \in 1..m |-> T[i]] /\ m \in Nat
    BY <1>1, <2>1
  <2>6. \A i \in 1..m : T[i] \in Nat \X Nat
    BY <2>4
  <2> DEFINE S == Nat \X Nat
  <2> HIDE DEF S
  <2>7. T \in Seq(S) /\ Len(T) = m
    BY <2>5, <2>6 DEF S
  <2> QED BY <2>4, <2>7 DEF S
<1> HIDE DEF T
<1>6. /\ y.out \in Seq(Nat \X Nat) /\ Len(y.out) = z + m
      /\ \A j \in 1..(z + m) : y.out[j] = IF j <= z THEN x.out[j] ELSE T[j - z]
  <2> DEFINE a == x.out
             c == y.out
             S == Nat \X Nat
  <2>1. a \in Seq(S) /\ Len(a) = z /\ T \in Seq(S) /\ Len(T) = m /\ c = a \o T
    BY <1>2, <1>5 DEF z, T, B
  <2> HIDE DEF a, c, S
  <2>2. c \in Seq(S) /\ Len(c) = z + m /\ \A j \in 1..(z + m) : c[j] = IF j <= z THEN a[j] ELSE T[j - z]
    <3>1. /\ a \o T \in Seq(S) /\ Len(a \o T) = Len(a) + Len(T)
          /\ \A j \in 1..(Len(a) + Len(T)) : (a \o T)[j] = IF j <= Len(a) THEN a[j] ELSE T[j - Len(a)]
      BY <2>1, ConcatProperties
    <3> QED BY <2>1, <3>1
  <2> QED BY <2>2 DEF a, c, S
<1>7. ASSUME NEW j \in 1..(z + m) PROVE y.out[j][1] = row(j)
  <2>1. CASE j <= z
    BY <1>2, <1>3, <1>6, <2>1 DEF z
  <2>2. CASE ~ (j <= z)
    <3> DEFINE i == j - z
    <3>1. i \in 1..m /\ z + i = j
      BY <1>1, <1>3, <2>2
    <3>2. y.out[j] = T[i]
      BY <1>6, <2>2
    <3> HIDE DEF i
    <3>3. T[i][1] = row(z + i)
      BY <1>4, <1>5, <3>1
    <3> QED BY <3>1, <3>2, <3>3
  <2> QED BY <2>1, <2>2
<1> QED BY <1>2, <1>3, <1>6, <1>7 DEF UpdOut, m, row

\* The orders that have been drawn are counted on.
LEMMA UpdDrawsNext ==
  ASSUME Fits, NEW D \in Nat, NEW k \in Nat, NEW d, d = 3 * k + 2, NEW x, NEW y,
         UpdDraws(x, d, k, D), y.draws = x.draws
  PROVE  UpdDraws(y, d + 1, k + 1, D)
<1> DEFINE M == Minibatches
           f == k % M
           g == k \div M
           f1 == (k + 1) % M
           g1 == (k + 1) \div M
<1>1. M \in Nat \ {0}
  BY Sizes
<1> HIDE DEF M
<1>2. f \in 0..(M - 1) /\ g \in Nat /\ k = M * g + f
  BY <1>1, Division
<1> HIDE DEF f, g
<1>3. \/ f + 1 = M /\ g1 = g + 1 /\ f1 = 0
      \/ f + 1 # M /\ g1 = g /\ f1 # 0
  <2>1. CASE f + 1 = M
    <3> DEFINE h == g + 1
    <3>1. h \in Nat /\ 0 \in 0..(M - 1) /\ k + 1 = M * h + 0
      BY <1>1, <1>2, <2>1
    <3> HIDE DEF h
    <3>2. (M * h + 0) \div M = h /\ (M * h + 0) % M = 0
      BY <1>1, <3>1, DivisionIsUnique
    <3> QED BY <2>1, <3>1, <3>2 DEF h
  <2>2. CASE f + 1 # M
    <3> DEFINE t == f + 1
    <3>1. t \in 0..(M - 1) /\ t # 0
      BY <1>1, <1>2, <2>2
    <3>2. k + 1 = M * g + t
      <4> DEFINE z == M * g
      <4>1. z \in Nat /\ k = z + f /\ f \in Nat
        BY <1>1, <1>2
      <4> HIDE DEF z
      <4>2. k + 1 = z + (f + 1)
        BY <4>1
      <4> QED BY <4>2 DEF z
    <3> HIDE DEF t
    <3>3. (M * g + t) \div M = g /\ (M * g + t) % M = t
      BY <1>1, <1>2, <3>1, DivisionIsUnique
    <3> QED BY <2>2, <3>1, <3>2, <3>3
  <2> QED BY <2>1, <2>2
<1>4. x.draws = D + g + 1
  <2>1. d # 3 * k
    OBVIOUS
  <2> QED BY <2>1 DEF UpdDraws, g, M
<1>5. d + 1 = 3 * (k + 1)
  OBVIOUS
<1> HIDE DEF f1, g1
<1>6. y.draws = D + g1 + (IF f1 = 0 THEN 0 ELSE 1)
  BY <1>2, <1>3, <1>4
<1> QED BY <1>5, <1>6 DEF UpdDraws, f1, g1, M

\* What the optimizer changes of a rank.
TrainedTo(model, q, y) ==
  /\ y = [f \in Fields |-> y[f]] /\ y.held = rank[q].held /\ y.batch = rank[q].batch
  /\ y.draws = rank[q].draws /\ y.engine = rank[q].engine /\ y.on = rank[q].on
  /\ y.critic = rank[q].critic + (IF model = "actor" THEN 0 ELSE 1)
  /\ y.buffer = [s \in Stages |-> y.buffer[s]]
  /\ \A s \in Stages : /\ ShapedBuffer(y.buffer[s], s)
                       /\ y.buffer[s].weights = rank[q].buffer[s].weights
                       /\ y.buffer[s].on = rank[q].buffer[s].on
                       /\ s = Pp(q) => y.buffer[s].version = rank[q].buffer[s].version
                                                             + (IF model = "actor" THEN 1 ELSE 0)

\* The version of the model that is trained, and no more.
LEMMA TrainedIs ==
  ASSUME IInv, NEW q \in Ranks, NEW model
  PROVE  /\ TrainedTo(model, q, Trained(model, q))
         /\ Trained(model, q).todo = rank[q].todo /\ Trained(model, q).out = rank[q].out
<1> DEFINE x == rank[q]
           p == Pp(q)
           y == Trained(model, q)
<1>1. /\ x = [f \in Fields |-> x[f]] /\ p \in Stages /\ x.critic \in Nat
      /\ x.buffer = [s \in Stages |-> x.buffer[s]] /\ \A s \in Stages : ShapedBuffer(x.buffer[s], s)
  BY InvRank, Placing DEF ShapedRank, IInv
<1>2. \A s \in Stages : x.buffer[s].version \in Nat /\ x.buffer[s].version = x.buffer[s].version + 0
  <2>1. \A s \in Stages : x.buffer[s].version \in Nat
    BY <1>1 DEF ShapedBuffer
  <2>2. ASSUME NEW n \in Nat PROVE n = n + 0
    OBVIOUS
  <2> HIDE DEF x
  <2> QED BY <2>1, <2>2
<1>3. CASE model = "actor"
  <2> DEFINE u == x.buffer[p]
             b == [u EXCEPT !.version = u.version + 1]
             c == [x.buffer EXCEPT ![p] = b]
  <2>1. y = [x EXCEPT !.buffer = c]
    BY <1>1, <1>3 DEF Trained, WithOwn, Own, Fields
  <2>2. ShapedBuffer(b, p) /\ b.weights = u.weights /\ b.on = u.on /\ b.version = u.version + 1
    <3>1. /\ u = [f \in {"on", "weights", "version"} |-> u[f]]
          /\ u.weights = [n \in NamesOf(p) |-> u.weights[n]] /\ u.version \in Nat
      BY <1>1 DEF ShapedBuffer
    <3> HIDE DEF u
    <3>2. /\ b = [f \in {"on", "weights", "version"} |-> b[f]]
          /\ b.weights = u.weights /\ b.on = u.on /\ b.version = u.version + 1
      BY <3>1
    <3> HIDE DEF b
    <3>3. u.version + 1 \in Nat
      BY <3>1
    <3> QED BY <3>1, <3>2, <3>3 DEF ShapedBuffer
  <2> HIDE DEF b, y
  <2>3. c = [s \in Stages |-> IF s = p THEN b ELSE x.buffer[s]]
    BY <1>1
  <2> HIDE DEF c
  <2>4. /\ c = [s \in Stages |-> c[s]]
        /\ \A s \in Stages : /\ ShapedBuffer(c[s], s) /\ c[s].weights = x.buffer[s].weights
                             /\ c[s].on = x.buffer[s].on
                             /\ s = p => c[s].version = x.buffer[s].version + 1
    BY <1>1, <2>2, <2>3
  <2>5. /\ y = [f \in Fields |-> y[f]] /\ y.todo = x.todo /\ y.held = x.held /\ y.batch = x.batch
        /\ y.out = x.out /\ y.draws = x.draws /\ y.engine = x.engine /\ y.on = x.on
        /\ y.critic = x.critic /\ y.buffer = c
    BY <1>1, <2>1 DEF Fields
  <2>6. y.critic = x.critic + 0
    <3> DEFINE n == x.critic
    <3>1. n \in Nat /\ y.critic = n
      BY <1>1, <2>5
    <3> HIDE DEF n
    <3> QED BY <3>1 DEF n
  <2>7. TrainedTo(model, q, y)
    BY <1>3, <2>4, <2>5, <2>6 DEF TrainedTo
  <2> QED BY <2>5, <2>7 DEF y
<1>4. CASE model # "actor"
  <2>1. y = [x EXCEPT !.critic = x.critic + 1]
    BY <1>4 DEF Trained
  <2> HIDE DEF y
  <2>2. /\ y = [f \in Fields |-> y[f]] /\ y.todo = x.todo /\ y.held = x.held /\ y.batch = x.batch
        /\ y.out = x.out /\ y.draws = x.draws /\ y.engine = x.engine /\ y.on = x.on
        /\ y.critic = x.critic + 1 /\ y.buffer = x.buffer
    BY <1>1, <2>1 DEF Fields
  <2>3. /\ y.buffer = [s \in Stages |-> y.buffer[s]]
        /\ \A s \in Stages : /\ ShapedBuffer(y.buffer[s], s)
                             /\ y.buffer[s].version = x.buffer[s].version + 0
                             /\ y.buffer[s].weights = x.buffer[s].weights
                             /\ y.buffer[s].on = x.buffer[s].on
    BY <1>1, <1>2, <2>2
  <2>4. TrainedTo(model, q, y)
    BY <1>4, <2>2, <2>3 DEF TrainedTo
  <2> QED BY <2>2, <2>4 DEF y
<1> QED BY <1>3, <1>4

\* A rank keeps its shape, and between rollouts it stays as it is.
LEMMA TrainedStays ==
  ASSUME IInv, NEW q \in Ranks, NEW model, NEW y,
         TrainedTo(model, q, y), TrainRank(rank[q], q, driver.at)
  PROVE  ShapedRank(y, q) /\ TrainRank(y, q, driver.at)
<1> DEFINE x == rank[q]
<1>1. ShapedRank(x, q) /\ Pp(q) \in Stages
  BY InvRank, Placing DEF IInv
<1>2. y.draws \in Nat /\ y.critic \in Nat /\ y.on = x.on
  BY <1>1 DEF ShapedRank, TrainedTo
<1>3. y.buffer[Pp(q)].on = "cuda"
  BY <1>1 DEF ShapedRank, TrainedTo
<1>4. ShapedRank(y, q)
  BY <1>1, <1>2, <1>3 DEF ShapedRank, TrainedTo
<1>5. Weighted(y, q)
  BY DEF TrainRank, TrainedTo, Weighted, Right
<1>6. Rolled(driver.at) => AtHome(y, q)
  BY DEF TrainRank, TrainedTo, AtHome
<1> QED BY <1>4, <1>5, <1>6 DEF TrainRank, TrainedTo

\* A minibatch is trained on: the one operation that all ranks come to with a minibatch, and
\* leave for the next.
LEMMA StepKeeps ==
  ASSUME IInv, NEW r \in Ranks, UpdatePolicy(r)
  PROVE  IInv'
<1> DEFINE model == NextOp(r).model
           version == [p \in Ranks |-> VersionOf(model, p)]
           ready == [p \in Ranks |-> TRUE]
           all(q) == Computed(MpGroup(q), q, version, ready)
           new == [q \in Ranks |-> [Trained(model, q) EXCEPT !.out = @ \o all(q)]]
           d(q) == DoneBy(Method, rank[q])
           v == VersionIn(model, rank[r], r)
<1>0. Fits /\ Ranks \in SUBSET Ranks /\ Ranks # {}
  BY DEF IInv
<1>1. Together("step", Ranks, new)
  BY DEF UpdatePolicy
<1>2. ASSUME NEW q \in Ranks
      PROVE  /\ new[q] = [f \in Fields |-> new[q][f]] /\ new[q].todo = rank[q].todo
             /\ new[q].out = rank[q].out \o all(q) /\ TrainedTo(model, q, new[q])
  <2> DEFINE t == Trained(model, q)
             a == all(q)
             z == new[q]
  <2>1. TrainedTo(model, q, t) /\ t.todo = rank[q].todo /\ t.out = rank[q].out
    BY TrainedIs
  <2>2. z = [t EXCEPT !.out = t.out \o a]
    OBVIOUS
  <2> HIDE DEF t, a, z, model
  <2>3. t = [f \in Fields |-> t[f]]
    BY <2>1 DEF TrainedTo
  <2>4. /\ z = [f \in Fields |-> z[f]] /\ z.todo = t.todo /\ z.out = t.out \o a
        /\ z.held = t.held /\ z.batch = t.batch /\ z.draws = t.draws /\ z.critic = t.critic
        /\ z.buffer = t.buffer /\ z.engine = t.engine /\ z.on = t.on
    BY <2>2, <2>3 DEF Fields
  <2>5. TrainedTo(model, q, z)
    BY <2>1, <2>4 DEF TrainedTo
  <2> QED BY <2>1, <2>4, <2>5 DEF z, a
<1> HIDE DEF new, model
<1>3. Moved("step", Ranks, new)
  <2> HIDE DEF all
  <2> QED BY <1>0, <1>1, <1>2, Moves
<1>4. ASSUME NEW q \in Ranks
      PROVE  TrainedTo(model, q, rank'[q]) /\ rank'[q].out = rank[q].out \o all(q)
  <2> DEFINE a == all(q)
             y == rank'[q]
             z == new[q]
  <2>1. /\ y = [f \in Fields |-> y[f]] /\ y.out = z.out
        /\ y.held = z.held /\ y.batch = z.batch /\ y.draws = z.draws /\ y.critic = z.critic
        /\ y.buffer = z.buffer /\ y.engine = z.engine /\ y.on = z.on
    BY <1>3 DEF Moved
  <2>2. TrainedTo(model, q, z) /\ z.out = rank[q].out \o a
    BY <1>2
  <2> HIDE DEF a, y, z
  <2>3. TrainedTo(model, q, y)
    BY <2>1, <2>2 DEF TrainedTo
  <2> QED BY <2>1, <2>2, <2>3 DEF a, y
<1>5. ASSUME NEW q \in Ranks
      PROVE  /\ d(q) \in Nat /\ DoneBy(Method, rank'[q]) = d(q) + 1
             /\ IsUpdate(Method) /\ model = ModelOf(Method) /\ \E n \in Nat : d(q) + 1 = 3 * n + 3
  <2> DEFINE e == d(q)
  <2>1. /\ e \in Nat /\ DoneBy(Method, rank'[q]) = e + 1 /\ NextOp(q) = NextOp(r)
        /\ Method \in Methods /\ NextOp(q).op = "step" /\ PlaceOf(Method, e + 1, NextOp(q))
    BY <1>3 DEF Moved
  <2> HIDE DEF e
  <2>2. /\ IsUpdate(Method) /\ NextOp(q).model = ModelOf(Method)
        /\ \E n \in 0..(Blocks - 1) : e + 1 = 3 * n + 3
    BY <2>1, KindPlaces
  <2>3. \A n \in 0..(Blocks - 1) : n \in Nat
    <3> DEFINE b == Blocks - 1
    <3> HIDE DEF b
    <3> QED BY DEF b
  <2> QED BY <2>1, <2>2, <2>3 DEF e, model
<1>6. IsUpdate(Method) /\ ModelOf(Method) \in {"actor", "critic"}
  BY <1>5 DEF ModelOf, IsUpdate
<1>7. /\ Waits /\ driver' = driver /\ config' = config /\ Within(rank, driver.at)
      /\ \A q \in Ranks : InScript(Method, rank'[q], q)
      /\ rank' = [q \in Ranks |-> rank'[q]]
  BY <1>3 DEF IInv, Inv, Moved, Waits
<1>8. PICK k \in Nat, D \in Nat : \A q \in Ranks : InPhase(Method, rank[q], q, driver.at, k, D)
  BY <1>7 DEF Within, Method
<1>9. ASSUME NEW q \in Ranks
      PROVE  /\ TrainRank(rank[q], q, driver.at) /\ UpdDraws(rank[q], d(q), k, D)
             /\ UpdOut(rank[q], q, k, D) /\ d(q) = 3 * k + 2 /\ rank[q].batch = Minibatch(q, D, k)
  <2> DEFINE x == rank[q]
             e == d(q)
  <2>1. TrainRank(x, q, driver.at) /\ UpdRank(x, q, e, k, D)
    BY <1>6, <1>8, Phases
  <2>2. PICK n \in Nat : e \in Nat /\ e + 1 = 3 * n + 3
    BY <1>5
  <2> HIDE DEF x, e
  <2>3. /\ e \in {3 * k, 3 * k + 1, 3 * k + 2} /\ UpdDraws(x, e, k, D) /\ UpdOut(x, q, k, D)
        /\ e # 3 * k => x.batch = Minibatch(q, D, k)
    BY <2>1, UpdRankIs
  <2>4. e + 1 = 3 * k + 3
    <3> DEFINE c == 3
    <3>1. c \in {1, 2, 3} /\ e + 1 = 3 * n + c
      BY <2>2
    <3> HIDE DEF c
    <3>2. e + 1 = 3 * k + c
      BY <2>2, <2>3, <3>1, SameBlock
    <3> QED BY <3>2 DEF c
  <2>5. e = 3 * k + 2 /\ e # 3 * k
    BY <2>2, <2>4
  <2> QED BY <2>1, <2>3, <2>5 DEF x, e
<1> HIDE DEF d
<1>10. ASSUME NEW q \in Ranks PROVE all(q) = Tagged(Minibatch(q, D, k), v)
  <2> DEFINE G == MpGroup(q)
             b == Minibatch(q, D, k)
  <2>1. ASSUME NEW p \in G PROVE rank[p].batch = b /\ version[p] = v /\ ready[p]
    <3>1. p \in Ranks /\ Dp(p) = Dp(q)
      BY DEF MpGroup
    <3>2. rank[p].batch = b
      BY <1>9, <3>1, SameEpochs
    <3>3. version[p] = v
      BY <3>1, OneVersion
    <3> QED BY <3>1, <3>2, <3>3
  <2>2. q \in G
    BY Groups
  <2> HIDE DEF G, b, version, ready, v
  <2>3. Computed(G, q, version, ready) = Tagged(b, v)
    BY <2>1, <2>2, AllAgree
  <2> QED BY <2>3 DEF G, b
<1>11. v \in Nat
  BY OneVersion
<1> HIDE DEF all, v
<1>12. ASSUME NEW q \in Ranks
       PROVE  InPhase(Method, rank'[q], q, driver.at, k + 1, D) /\ ShapedRank(rank'[q], q)
  <2> DEFINE x == rank[q]
             y == rank'[q]
             e == 3 * k + 2
  <2>1. /\ TrainRank(x, q, driver.at) /\ UpdDraws(x, e, k, D) /\ UpdOut(x, q, k, D)
        /\ TrainedTo(model, q, y) /\ y.out = x.out \o Tagged(Minibatch(q, D, k), v)
        /\ DoneBy(Method, y) = e + 1
    BY <1>4, <1>5, <1>9, <1>10
  <2>2. TrainRank(y, q, driver.at) /\ ShapedRank(y, q)
    <3> HIDE DEF y
    <3> QED BY <2>1, TrainedStays
  <2>3. y.held = x.held /\ y.draws = x.draws
    BY <2>1 DEF TrainedTo
  <2> HIDE DEF x, y
  <2>4. UpdOut(y, q, k + 1, D)
    BY <1>0, <1>11, <2>1, <2>3, UpdOutGrows
  <2>5. UpdDraws(y, e + 1, k + 1, D)
    BY <1>0, <2>1, <2>3, UpdDrawsNext
  <2>6. e + 1 = 3 * (k + 1)
    OBVIOUS
  <2> DEFINE k1 == k + 1
  <2>7. UpdRank(y, q, e + 1, k1, D)
    <3> DEFINE e1 == e + 1
    <3>1. e1 = 3 * k1 /\ UpdDraws(y, e1, k1, D) /\ UpdOut(y, q, k1, D)
      BY <2>4, <2>5, <2>6
    <3> HIDE DEF e1, k1
    <3>2. UpdRank(y, q, e1, k1, D)
      BY <3>1, UpdRankIs
    <3> QED BY <3>2 DEF e1
  <2> HIDE DEF k1, e
  <2>8. InPhase(Method, y, q, driver.at, k1, D)
    BY <1>6, <2>1, <2>2, <2>7, Phases
  <2> QED BY <2>2, <2>8 DEF y, k1
<1>13. Versioned(rank')
  <2>1. ASSUME NEW q \in Ranks
        PROVE  /\ rank'[q].critic = rank[q].critic + (IF model = "actor" THEN 0 ELSE 1)
               /\ rank'[q].buffer[Pp(q)].version = rank[q].buffer[Pp(q)].version
                                                    + (IF model = "actor" THEN 1 ELSE 0)
    BY <1>0, <1>4, Placing DEF TrainedTo
  <2>2. Versioned(rank)
    BY DEF IInv, Inv
  <2> QED BY <2>1, <2>2 DEF Versioned
<1>14. Shaped(rank')
  BY <1>7, <1>12 DEF Shaped
<1>15. Within(rank', driver.at)
  <2>1. k + 1 \in Nat
    OBVIOUS
  <2>2. driver.at \in 1..Len(config.calls)
    BY <1>7 DEF Within
  <2> QED BY <1>6, <1>7, <1>12, <2>1, <2>2 DEF Within, Method
<1>16. Inv(rank', driver')
  <2>1. driver = [at |-> driver.at, waits |-> driver.waits, got |-> driver.got] /\ driver.waits \in BOOLEAN
    BY DEF IInv, Inv
  <2> QED BY <1>7, <1>13, <1>14, <1>15, <2>1 DEF Inv, Waits
<1> QED BY <1>0, <1>7, <1>16, SameInv

\* The invariant when the driver alone has moved, or nothing has.
LEMMA StutterKeeps ==
  ASSUME IInv, UNCHANGED vars
  PROVE  IInv'
<1>1. config' = config /\ rank' = rank /\ driver' = driver /\ Fits /\ Inv(rank, driver)
  BY DEF IInv, vars
<1> QED BY <1>1, SameInv

\* A new rank.
LEMMA NewIsShaped ==
  ASSUME Fits, NEW r \in Ranks
  PROVE  /\ ShapedRank(NewRank(r), r) /\ NewRank(r).buffer[Pp(r)].version = 0 /\ NewRank(r).critic = 0
         /\ NewRank(r).draws = 0 /\ NewRank(r).todo = <<>> /\ NewRank(r).engine = <<>>
<1> DEFINE x == NewRank(r)
           b(s) == [on |-> IF s = Pp(r) THEN "cuda" ELSE "cpu", weights |-> RandomWeights(s), version |-> 0]
<1>1. Pp(r) \in Stages /\ config.offload \in BOOLEAN
  BY Placing, ConfigFields
<1>2. /\ x = [f \in Fields |-> x[f]] /\ x.draws = 0 /\ x.critic = 0 /\ x.todo = <<>> /\ x.engine = <<>>
      /\ x.buffer = [s \in Stages |-> b(s)]
      /\ x.on = [m \in {"ref", "rm"} |-> IF config.offload /\ m = "rm" THEN "cpu" ELSE "cuda"]
  BY DEF NewRank, Fields
<1> HIDE DEF x
<1>3. \A s \in Stages : ShapedBuffer(x.buffer[s], s)
  <2>1. ASSUME NEW s \in Stages PROVE ShapedBuffer(b(s), s)
    BY DEF ShapedBuffer, RandomWeights
  <2> HIDE DEF b
  <2> QED BY <1>2, <2>1
<1>4. x.buffer[Pp(r)].on = "cuda" /\ x.buffer[Pp(r)].version = 0 /\ x.buffer = [s \in Stages |-> x.buffer[s]]
  BY <1>1, <1>2, SMTT(30)
<1>5. /\ x.on = [m \in {"ref", "rm"} |-> x.on[m]]
      /\ ~ config.offload => x.on.ref = "cuda" /\ x.on.rm = "cuda"
  BY <1>2
<1>6. ShapedRank(x, r)
  <2>1. x = [f \in Fields |-> x[f]] /\ x.draws \in Nat /\ x.critic \in Nat
    BY <1>2
  <2> QED BY <1>3, <1>4, <1>5, <2>1 DEF ShapedRank
<1> QED BY <1>2, <1>4, <1>6 DEF x

\* The workers are there and have nothing to do.
LEMMA InitHolds ==
  ASSUME Init
  PROVE  IInv
<1>1. Fits /\ rank = [r \in Ranks |-> NewRank(r)] /\ driver = [at |-> 1, waits |-> FALSE, got |-> <<>>]
  BY DEF Init, Fits
<1>2. Shaped(rank) /\ Versioned(rank) /\ Drawn(rank)
      /\ \A r \in Ranks : rank[r].todo = <<>> /\ rank[r].engine = <<>>
  <2>1. \A r \in Ranks : rank[r] = NewRank(r)
    BY <1>1
  <2>2. ASSUME NEW r \in Ranks
        PROVE  /\ ShapedRank(rank[r], r) /\ rank[r].buffer[Pp(r)].version = 0 /\ rank[r].critic = 0
               /\ rank[r].draws = 0 /\ rank[r].todo = <<>> /\ rank[r].engine = <<>>
    BY <1>1, <2>1, NewIsShaped
  <2>3. rank = [r \in Ranks |-> rank[r]]
    BY <1>1
  <2> QED BY <2>2, <2>3 DEF Shaped, Versioned, Drawn
<1>3. Between(rank, 1)
  <2>1. ~ Rolled(1)
    BY DEF Rolled
  <2>2. 1 \in 1..(Len(config.calls) + 1)
    <3>1. Len(config.calls) \in Nat
      BY <1>1, ConfigFields
    <3> QED BY <3>1
  <2> QED BY <1>2, <2>1, <2>2 DEF Between
<1> QED BY <1>1, <1>2, <1>3 DEF IInv, Inv

\* Which calls are the first one.
LEMMA FirstCall ==
  ASSUME Fits, NEW at \in 1..Len(config.calls)
  PROVE  /\ config.calls[at] \in Methods /\ (config.calls[at] = "init_model" <=> at = 1)
         /\ config.calls[at] # "init_model" => at > 1
         /\ at \in Nat /\ at + 1 \in 1..(Len(config.calls) + 1)
         /\ Rolled(at + 1) <=> (Rolled(at) \/ config.calls[at] = "generate_sequences")
<1>1. config.calls \in Seq(Methods)
  BY ConfigFields
<1>2. at \in DOMAIN config.calls /\ at \in Nat /\ Len(config.calls) \in Nat
  BY <1>1
<1>3. config.calls[at] = "init_model" <=> at = 1
  BY <1>2, ConfigsFit DEF Fits
<1>4. 1..((at + 1) - 1) = (1..(at - 1)) \cup {at}
  BY <1>2
<1>5. Rolled(at + 1) <=> (Rolled(at) \/ config.calls[at] = "generate_sequences")
  BY <1>4 DEF Rolled
<1> QED BY <1>1, <1>2, <1>3, <1>5

\* What is said of a rank between two calls.
Idle(x, r, at) == /\ x.todo = <<>> /\ x.engine = <<>>
                  /\ at > 1 => Weighted(x, r)
                  /\ Rolled(at) => AtHome(x, r)

\* A rank that is given a call.
Given(m, x, r) ==
  /\ x.todo = ProgramOf(m, r)
  /\ x.batch = (IF m = "generate_sequences" THEN PpAsDp(r) ELSE DpCompute(r))
  /\ x.held = x.batch /\ x.out = <<>>

\* A call's method, and that it is the first one.
CallIs(m, at) == m \in Methods /\ (m = "init_model" <=> at = 1) /\ (m # "init_model" => at > 1)

\* It is where the method begins.
LEMMA BeginsIn ==
  ASSUME Fits, NEW m, NEW at, CallIs(m, at), NEW r \in Ranks, NEW x, NEW y, Idle(x, r, at), Given(m, y, r),
         y.engine = x.engine, y.buffer = x.buffer, y.on = x.on, y.draws = x.draws, x.draws \in Nat
  PROVE  InScript(m, y, r) /\ InPhase(m, y, r, at, 0, x.draws)
<1> DEFINE d == Skipped(m, r)
           D == x.draws
<1>0. m \in Methods
  BY DEF CallIs
<1>1. y.todo = Rest(Script(m), d) /\ d \in 0..ScriptLen(m) /\ ScriptLen(m) \in Nat /\ d \in Nat
  <2>1. y.todo = Rest(Script(m), d) /\ d \in 0..ScriptLen(m)
    BY <1>0, ProgramsAreScripts DEF Given
  <2>2. ScriptLen(m) \in Nat
    BY <1>0, ScriptIs
  <2> HIDE DEF d
  <2> QED BY <2>1, <2>2
<1>2. DoneBy(m, y) = d
  <2> DEFINE X == {ScriptOp(m, i) : i \in 1..ScriptLen(m)}
             S == Script(m)
  <2>1. S \in Seq(X) /\ Len(S) = ScriptLen(m)
    BY <1>0, ScriptIs
  <2> HIDE DEF d, X, S
  <2>2. Len(Rest(S, d)) = Len(S) - d
    BY <1>1, <2>1, RestMoves
  <2>3. Len(y.todo) = ScriptLen(m) - d
    BY <1>1, <2>1, <2>2 DEF S
  <2> QED BY <1>1, <2>3 DEF DoneBy
<1>3. InScript(m, y, r)
  <2>1. d \in d..ScriptLen(m)
    <3> HIDE DEF d
    <3> QED BY <1>1
  <2> QED BY <1>1, <1>2, <2>1 DEF InScript
<1>4. y.engine = <<>> /\ (m # "init_model" => Weighted(y, r)) /\ (Rolled(at) => AtHome(y, r))
      /\ (m # "init_model" => d = 0)
  BY DEF Idle, CallIs, Weighted, Right, AtHome, Skipped
<1>5. CASE m = "init_model"
  <2>1. config.layers \in Nat
    BY ConfigFields
  <2>2. d = 0 \/ (d = config.layers + 2 /\ Dp(r) # 0)
    BY <1>5 DEF Skipped
  <2> HIDE DEF d
  <2>3. ASSUME Dp(r) = 0, NEW n \in NamesOf(Pp(r)) PROVE ~ (LoadedBy(n, Pp(r)) <= d)
    <3>1. LoadedBy(n, Pp(r)) \in 1..(config.layers + 2)
      BY Placing, LoadPlaces
    <3> QED BY <2>1, <2>2, <2>3, <3>1
  <2>4. ~ (config.layers + 4 <= d)
    BY <2>1, <2>2
  <2>5. ASSUME NEW s \in Stages PROVE ~ (config.layers + 6 + s <= d)
    <3>1. s \in Nat
      BY StagesAre
    <3> QED BY <2>1, <2>2, <3>1
  <2>6. InitRank(y, r, d)
    BY <1>4, <2>3, <2>4, <2>5 DEF InitRank
  <2> HIDE DEF D
  <2>7. InPhase(m, y, r, at, 0, D)
    BY <1>2, <1>5, <2>6, Phases
  <2> QED BY <1>3, <2>7 DEF D
<1>6. CASE m = "generate_sequences"
  <2>1. d = 0 /\ Weighted(y, r)
    BY <1>4, <1>6
  <2>2. config.pp \in Nat /\ GenLen \in Nat /\ GenLen > config.pp + 5
    <3>1. config.pp \in Nat
      BY ConfigFields
    <3> QED BY <3>1 DEF GenLen
  <2>3. \A s \in Stages : s \in Nat
    BY StagesAre
  <2>4. y.batch = PpAsDp(r)
    BY <1>6 DEF Given
  <2> HIDE DEF d, GenLen
  <2>5. /\ \A s \in Stages : ~ (s + 2 <= d)
        /\ ~ (config.pp + 2 <= d) /\ ~ (config.pp + 3 <= d) /\ d # config.pp + 4
        /\ d # GenLen - 2 /\ ~ (GenLen - 1 <= d) /\ d # GenLen
    BY <2>1, <2>2, <2>3
  <2>6. GenRank(y, r, d)
    BY <1>4, <2>1, <2>4, <2>5 DEF GenRank
  <2> HIDE DEF D
  <2>7. InPhase(m, y, r, at, 0, D)
    BY <1>2, <1>6, <2>6, Phases
  <2> QED BY <1>3, <2>7 DEF D
<1>7. CASE IsForward(m)
  <2>1. d = 0 /\ TrainRank(y, r, at) /\ y.batch = DpCompute(r)
    BY <1>4, <1>7 DEF IsForward, TrainRank, Given
  <2>2. Lead(m) \in {0, 1}
    BY <1>7, Offloadable
  <2> HIDE DEF d
  <2>3. ~ (1 <= d) /\ ~ (Lead(m) + 2 <= d)
    BY <2>1, <2>2
  <2>4. FwdRank(m, y, r, d)
    BY <2>1, <2>3 DEF FwdRank
  <2> HIDE DEF D
  <2>5. InPhase(m, y, r, at, 0, D)
    BY <1>2, <1>7, <2>1, <2>4, Phases
  <2> QED BY <1>3, <2>5 DEF D
<1>8. CASE IsUpdate(m)
  <2>1. d = 0 /\ TrainRank(y, r, at) /\ y.batch = DpCompute(r)
    BY <1>4, <1>8 DEF IsUpdate, TrainRank, Given
  <2>2. Minibatches \in Nat \ {0} /\ config.mini \in Nat
    BY Sizes, ConfigFields
  <2> DEFINE M == Minibatches
             k == 0
  <2>3. 0 \div M = 0 /\ 0 % M = 0
    <3> HIDE DEF M
    <3>1. (M * 0) \div M = 0 /\ (M * 0) % M = 0 /\ M * 0 = 0
      BY <2>2, Multiple DEF M
    <3> QED BY <3>1
  <2>4. UpdDraws(y, d, k, D)
    <3>1. d = 3 * 0 /\ D + 0 = D
      BY <2>1
    <3> HIDE DEF d
    <3> QED BY <2>3, <3>1 DEF UpdDraws
  <2>5. UpdOut(y, r, k, D)
    <3>1. y.held = DpCompute(r) /\ y.out = <<>>
      BY <2>1 DEF Given
    <3>2. config.mini * 0 = 0
      BY <2>2
    <3>3. y.out \in Seq(Nat \X Nat) /\ Len(y.out) = 0
      BY <3>1
    <3> QED BY <3>1, <3>2, <3>3 DEF UpdOut
  <2>6. d = 3 * k
    BY <2>1
  <2> HIDE DEF d, k
  <2>7. UpdRank(y, r, d, k, D)
    BY <2>4, <2>5, <2>6, UpdRankIs
  <2>8. InPhase(m, y, r, at, k, D)
    BY <1>2, <1>8, <2>1, <2>7, Phases
  <2> QED BY <1>3, <2>8 DEF k
<1>9. m = "init_model" \/ m = "generate_sequences" \/ IsForward(m) \/ IsUpdate(m)
  BY <1>0 DEF Methods, IsForward, IsUpdate
<1> QED BY <1>3, <1>5, <1>6, <1>7, <1>8, <1>9

\* A call is dealt out.
LEMMA DispatchKeeps ==
  ASSUME IInv, Dispatch
  PROVE  IInv'
<1> DEFINE at == driver.at
           m == Method
           y(r) == rank'[r]
<1>1. /\ Fits /\ Shaped(rank) /\ Versioned(rank) /\ Between(rank, at) /\ Drawn(rank)
      /\ driver = [at |-> driver.at, waits |-> driver.waits, got |-> driver.got]
      /\ at <= Len(config.calls) /\ config' = config /\ driver' = [driver EXCEPT !.waits = TRUE]
  BY DEF IInv, Inv, Dispatch, Waits, Between
<1>2. at \in 1..Len(config.calls)
  <2>1. Len(config.calls) \in Nat
    BY <1>1, ConfigFields
  <2>2. at \in 1..(Len(config.calls) + 1)
    BY <1>1 DEF Between
  <2> QED BY <1>1, <2>1, <2>2
<1>3. CallIs(m, at)
  BY <1>1, <1>2, FirstCall DEF CallIs, Method
<1>4. ASSUME NEW r \in Ranks
      PROVE  /\ y(r) = [f \in Fields |-> y(r)[f]] /\ Given(m, y(r), r)
             /\ y(r).engine = rank[r].engine /\ y(r).buffer = rank[r].buffer /\ y(r).on = rank[r].on
             /\ y(r).draws = rank[r].draws /\ y(r).critic = rank[r].critic
  <2> DEFINE b == IF Method = "generate_sequences" THEN PpAsDp(r) ELSE DpCompute(r)
             p == ProgramOf(Method, r)
             z == rank'[r]
  <2>1. z = [rank[r] EXCEPT !.todo = p, !.held = b, !.batch = b, !.out = <<>>]
    BY DEF Dispatch
  <2>2. rank[r] = [f \in Fields |-> rank[r][f]]
    BY InvRank
  <2> HIDE DEF b, p, z
  <2>3. /\ z = [f \in Fields |-> z[f]] /\ z.todo = p /\ z.held = b /\ z.batch = b /\ z.out = <<>>
        /\ z.engine = rank[r].engine /\ z.buffer = rank[r].buffer /\ z.on = rank[r].on
        /\ z.draws = rank[r].draws /\ z.critic = rank[r].critic
    BY <2>1, <2>2 DEF Fields
  <2> QED BY <2>3 DEF Given, b, p, z
<1>5. \A r \in Ranks : Idle(rank[r], r, at) /\ ShapedRank(rank[r], r) /\ rank[r].draws \in Nat
  BY <1>1 DEF Between, Idle, Shaped, ShapedRank
<1>6. rank' = [r \in Ranks |-> rank'[r]]
  BY DEF Dispatch
<1> HIDE DEF m, at
<1>7. ASSUME NEW r \in Ranks
      PROVE  InScript(m, y(r), r) /\ InPhase(m, y(r), r, at, 0, rank[r].draws) /\ ShapedRank(y(r), r)
  <2> DEFINE x == rank[r]
             z == y(r)
  <2>1. /\ z.engine = x.engine /\ z.buffer = x.buffer /\ z.on = x.on
        /\ z.draws = x.draws /\ z.critic = x.critic /\ z = [f \in Fields |-> z[f]]
        /\ Given(m, z, r) /\ Idle(x, r, at) /\ x.draws \in Nat /\ ShapedRank(x, r)
    BY <1>4, <1>5
  <2> HIDE DEF x, z
  <2>2. InScript(m, z, r) /\ InPhase(m, z, r, at, 0, x.draws)
    BY <1>1, <1>3, <2>1, BeginsIn
  <2>3. ShapedRank(z, r)
    BY <2>1, KeepsShape
  <2> QED BY <2>2, <2>3 DEF x, z
<1>8. \E D \in Nat : \A r \in Ranks : rank[r].draws = D
  <2>1. 0 \in Ranks
    <3>1. World \in Nat \ {0}
      BY <1>1, WorldNat
    <3> QED BY <3>1 DEF Ranks
  <2>2. \A r \in Ranks : rank[r].draws = rank[0].draws
    BY <1>1, <2>1 DEF Drawn
  <2> QED BY <1>5, <2>1, <2>2
<1>9. Within(rank', at)
  <2>1. PICK D \in Nat : \A r \in Ranks : rank[r].draws = D
    BY <1>8
  <2>2. \A r \in Ranks : InPhase(m, rank'[r], r, at, 0, D)
    BY <1>7, <2>1
  <2>3. Drawn(rank')
    <3>1. \A r \in Ranks : rank'[r].draws = D
      BY <1>4, <2>1
    <3> QED BY <3>1 DEF Drawn
  <2>4. m = config.calls[at]
    BY DEF m, at, Method
  <2>5. 0 \in Nat /\ \A r \in Ranks : InScript(m, rank'[r], r)
    BY <1>7
  <2> HIDE DEF y
  <2> QED BY <1>2, <2>2, <2>3, <2>4, <2>5 DEF Within
<1>10. Shaped(rank') /\ Versioned(rank')
  BY <1>1, <1>4, <1>6, <1>7 DEF Shaped, Versioned
<1>11. driver' = [at |-> driver'.at, waits |-> driver'.waits, got |-> driver'.got]
       /\ driver'.at = at /\ driver'.waits
  BY <1>1 DEF at
<1>12. Inv(rank', driver')
  BY <1>9, <1>10, <1>11 DEF Inv
<1> QED BY <1>1, <1>12, SameInv

\* A rank that has done all of a call has the weights it should have, and, after a rollout,
\* nothing on the GPU but what it trains.
LEMMA EndsIdle ==
  ASSUME Fits, NEW m, NEW at, CallIs(m, at), NEW r \in Ranks, NEW x, NEW k, NEW D,
         x.todo = <<>>, InPhase(m, x, r, at, k, D)
  PROVE  /\ DoneBy(m, x) = ScriptLen(m)
         /\ x.engine = <<>> /\ Weighted(x, r)
         /\ m = "generate_sequences" => AtHome(x, r)
         /\ IsForward(m) \/ IsUpdate(m) => TrainRank(x, r, at)
<1>0. m \in Methods
  BY DEF CallIs
<1>1. DoneBy(m, x) = ScriptLen(m) /\ ScriptLen(m) \in Nat
  <2>1. ScriptLen(m) \in Nat
    BY <1>0, ScriptIs
  <2> DEFINE n == ScriptLen(m)
  <2> HIDE DEF n
  <2>2. Len(x.todo) = 0
    OBVIOUS
  <2>3. n - Len(x.todo) = n
    BY <2>1, <2>2 DEF n
  <2> QED BY <2>1, <2>3 DEF DoneBy, n
<1>2. CASE m = "init_model"
  <2>1. InitRank(x, r, DoneBy(m, x))
    BY <1>2, Phases
  <2>2. DoneBy(m, x) = config.layers + config.pp + 5
    BY <1>1, <1>2 DEF ScriptLen, InitLen
  <2>3. config.layers \in Nat /\ config.pp \in Nat
    BY ConfigFields
  <2>4. ASSUME NEW s \in Stages PROVE config.layers + 6 + s <= config.layers + config.pp + 5
    BY <2>3 DEF Stages
  <2>5. x.engine = <<>> /\ Weighted(x, r)
    BY <2>1, <2>2, <2>4 DEF InitRank, Weighted
  <2>6. ~ IsForward(m) /\ ~ IsUpdate(m)
    BY <1>2 DEF IsForward, IsUpdate
  <2> QED BY <1>1, <1>2, <2>5, <2>6
<1>3. CASE m = "generate_sequences"
  <2>1. GenRank(x, r, DoneBy(m, x))
    BY <1>3, Phases
  <2>2. DoneBy(m, x) = GenLen /\ GenLen \in Nat
    BY <1>1, <1>3 DEF ScriptLen
  <2> HIDE DEF GenLen
  <2>3. ~ (DoneBy(m, x) < GenLen)
    BY <2>2
  <2>4. x.engine = <<>> /\ Weighted(x, r) /\ AtHome(x, r)
    BY <2>1, <2>2, <2>3 DEF GenRank
  <2>5. ~ IsForward(m) /\ ~ IsUpdate(m)
    BY <1>3 DEF IsForward, IsUpdate
  <2> QED BY <1>1, <2>4, <2>5
<1>4. CASE IsForward(m) \/ IsUpdate(m)
  <2>1. TrainRank(x, r, at)
    BY <1>4, Phases
  <2>2. m # "generate_sequences"
    BY <1>4 DEF IsForward, IsUpdate
  <2> QED BY <1>1, <2>1, <2>2 DEF TrainRank
<1> QED BY <1>0, <1>2, <1>3, <1>4 DEF Methods, IsForward, IsUpdate

\* An answer comes back.
LEMMA CollectKeeps ==
  ASSUME IInv, Collect
  PROVE  IInv'
<1> DEFINE at == driver.at
           m == Method
           got == Collected(Method)
<1>1. /\ Fits /\ Shaped(rank) /\ Versioned(rank) /\ Within(rank, at)
      /\ driver = [at |-> driver.at, waits |-> driver.waits, got |-> driver.got]
      /\ \A r \in Ranks : rank[r].todo = <<>>
      /\ config' = config /\ rank' = rank
      /\ driver' = [driver EXCEPT !.waits = FALSE, !.at = at + 1, !.got = got]
  BY DEF IInv, Inv, Collect, Waits
<1> HIDE DEF got
<1>2. at \in 1..Len(config.calls) /\ m = config.calls[at]
  BY <1>1 DEF Within, Method
<1>3. CallIs(m, at) /\ at \in Nat /\ at + 1 \in 1..(Len(config.calls) + 1)
      /\ (Rolled(at + 1) <=> (Rolled(at) \/ m = "generate_sequences"))
  BY <1>1, <1>2, FirstCall DEF CallIs
<1>4. PICK k \in Nat, D \in Nat : \A r \in Ranks : InPhase(m, rank[r], r, at, k, D)
  BY <1>1, <1>2 DEF Within
<1> HIDE DEF m, at
<1>5. ASSUME NEW r \in Ranks
      PROVE  /\ DoneBy(m, rank[r]) = ScriptLen(m)
             /\ rank[r].engine = <<>> /\ Weighted(rank[r], r)
             /\ m = "generate_sequences" => AtHome(rank[r], r)
             /\ IsForward(m) \/ IsUpdate(m) => TrainRank(rank[r], r, at)
  BY <1>1, <1>3, <1>4, EndsIdle
<1>6. ASSUME NEW r \in Ranks, Rolled(at + 1) PROVE AtHome(rank[r], r)
  <2>1. CASE m = "generate_sequences"
    BY <1>5, <2>1
  <2>2. CASE m # "generate_sequences"
    <3>1. Rolled(at)
      BY <1>3, <1>6, <2>2
    <3>2. m # "init_model"
      <4> SUFFICES ASSUME at = 1 PROVE FALSE
        BY <1>3 DEF CallIs
      <4>1. ~ Rolled(at)
        BY DEF Rolled
      <4> QED BY <3>1, <4>1
    <3>3. IsForward(m) \/ IsUpdate(m)
      BY <1>3, <2>2, <3>2 DEF CallIs, Methods, IsForward, IsUpdate
    <3>4. TrainRank(rank[r], r, at)
      BY <1>5, <3>3
    <3> QED BY <3>1, <3>4 DEF TrainRank
  <2> QED BY <2>1, <2>2
<1>7. Drawn(rank)
  <2>1. CASE ~ IsUpdate(m)
    BY <1>1, <1>2, <2>1 DEF Within
  <2>2. CASE IsUpdate(m)
    <3> DEFINE d == ScriptLen(m)
               n == D + (k \div Minibatches) + (IF d = 3 * k /\ k % Minibatches = 0 THEN 0 ELSE 1)
    <3>1. ASSUME NEW r \in Ranks PROVE rank[r].draws = n
      <4>1. UpdRank(rank[r], r, DoneBy(m, rank[r]), k, D)
        BY <1>4, <2>2, Phases
      <4>2. UpdDraws(rank[r], DoneBy(m, rank[r]), k, D)
        BY <4>1, UpdRankIs
      <4>3. DoneBy(m, rank[r]) = d
        BY <1>5
      <4> HIDE DEF d
      <4>4. UpdDraws(rank[r], d, k, D)
        BY <4>2, <4>3
      <4> QED BY <4>4 DEF UpdDraws
    <3> HIDE DEF n
    <3> QED BY <3>1 DEF Drawn
  <2> QED BY <2>1, <2>2
<1>8. Between(rank, at + 1)
  BY <1>1, <1>3, <1>5, <1>6, <1>7 DEF Between
<1>9. driver' = [at |-> driver'.at, waits |-> driver'.waits, got |-> driver'.got]
      /\ driver'.at = at + 1 /\ driver'.waits = FALSE
  BY <1>1
<1>10. Inv(rank', driver')
  <2> DEFINE at1 == at + 1
  <2>1. Between(rank', at1) /\ driver'.at = at1
    BY <1>1, <1>8, <1>9
  <2> HIDE DEF at1
  <2> QED BY <1>1, <1>9, <2>1 DEF Inv
<1> QED BY <1>1, <1>10, SameInv

\* The operations that the ranks take.
LEMMA StepKeepsInv ==
  ASSUME IInv, NEW r \in Ranks, Step(r)
  PROVE  IInv'
<1>1. CASE Local(r)
  BY <1>1, ToCudaKeeps, KeepParamsKeeps, OffloadKeeps, MoveParamsKeeps, MinibatchKeeps DEF Local
<1>2. CASE Collective(r)
  BY <1>2, LoadLayerKeeps, LoadEndsKeeps, BarrierKeeps, DpParamsKeeps, StageKeeps, GatherParamsKeeps,
     TpBatchKeeps, GenerateKeeps, PostprocessKeeps, PpBatchKeeps, ForwardKeeps, PpOutputKeeps, StepKeeps
     DEF Collective
<1> QED BY <1>1, <1>2 DEF Step

\* Every step keeps the invariant.
LEMMA NextKeeps ==
  ASSUME IInv, [Next]_vars
  PROVE  IInv'
<1>1. CASE UNCHANGED vars
  BY <1>1, StutterKeeps
<1>2. CASE Dispatch
  BY <1>2, DispatchKeeps
<1>3. CASE Collect
  BY <1>3, CollectKeeps
<1>4. CASE \E r \in Ranks : Step(r)
  BY <1>4, StepKeepsInv
<1> QED BY <1>1, <1>2, <1>3, <1>4 DEF Next

\* So it always holds.
LEMMA Invariant == Spec => []IInv
<1>1. Init => IInv
  BY InitHolds
<1>2. IInv /\ [Next]_vars => IInv'
  BY NextKeeps
<1> QED BY <1>1, <1>2, PTL DEF Spec

\* Once the model is loaded, all ranks have its weights.
LEMMA AfterLoading ==
  ASSUME IInv, driver.at > 1, NEW r \in Ranks
  PROVE  Weighted(rank[r], r)
<1>1. CASE ~ Waits
  BY <1>1 DEF IInv, Inv, Waits, Between
<1>2. CASE Waits
  <2> DEFINE m == Method
  <2>1. Fits /\ Within(rank, driver.at)
    BY <1>2 DEF IInv, Inv, Waits
  <2>2. driver.at \in 1..Len(config.calls) /\ m = config.calls[driver.at]
    BY <2>1 DEF Within, Method
  <2>3. m \in Methods /\ m # "init_model"
    <3>1. m \in Methods /\ (m = "init_model" <=> driver.at = 1)
      BY <2>1, <2>2, FirstCall
    <3> QED BY <3>1
  <2>4. PICK k \in Nat, D \in Nat : InPhase(m, rank[r], r, driver.at, k, D)
    BY <2>1, <2>2 DEF Within
  <2> HIDE DEF m
  <2>5. CASE m = "generate_sequences"
    BY <2>4, <2>5, Phases DEF GenRank
  <2>6. CASE m # "generate_sequences"
    <3>1. IsForward(m) \/ IsUpdate(m)
      BY <2>3, <2>6 DEF Methods, IsForward, IsUpdate
    <3>2. TrainRank(rank[r], r, driver.at)
      BY <2>4, <3>1, Phases
    <3> QED BY <3>2 DEF TrainRank
  <2> QED BY <2>5, <2>6
<1> QED BY <1>1, <1>2

\* An engine has the whole model.
LEMMA BoundIsWhole ==
  ASSUME IInv
  PROVE  EngineIsWhole
<1> SUFFICES ASSUME NEW r \in Ranks, rank[r].engine # <<>>
             PROVE  /\ \A name \in DOMAIN rank[r].engine.weights :
                         rank[r].engine.weights[name] = ShardOf(name, config.infer, InferRank(r))
                    /\ rank[r].engine.versions = {Own(q).version : q \in Ranks}
  BY DEF EngineIsWhole
<1>1. EngineRight(rank[r], r)
  <2>1. Waits
    BY DEF IInv, Inv, Between, Waits
  <2> DEFINE m == Method
  <2>2. Fits /\ Within(rank, driver.at)
    BY <2>1 DEF IInv, Inv, Waits
  <2>3. driver.at \in 1..Len(config.calls) /\ m = config.calls[driver.at]
    BY <2>2 DEF Within, Method
  <2>4. m \in Methods
    BY <2>2, <2>3, FirstCall
  <2>5. PICK k \in Nat, D \in Nat : InPhase(m, rank[r], r, driver.at, k, D)
    BY <2>2, <2>3 DEF Within
  <2> HIDE DEF m
  <2>6. CASE m = "init_model"
    BY <2>5, <2>6, Phases DEF InitRank
  <2>7. CASE m = "generate_sequences"
    <3>1. GenRank(rank[r], r, DoneBy(m, rank[r]))
      BY <2>5, <2>7, Phases
    <3> QED BY <3>1 DEF GenRank
  <2>8. CASE m # "init_model" /\ m # "generate_sequences"
    <3>1. IsForward(m) \/ IsUpdate(m)
      BY <2>4, <2>8 DEF Methods, IsForward, IsUpdate
    <3>2. TrainRank(rank[r], r, driver.at)
      BY <2>5, <3>1, Phases
    <3> QED BY <3>2 DEF TrainRank
  <2> QED BY <2>6, <2>7, <2>8
<1>2. \A q \in Ranks : Own(q).version = rank[r].buffer[Pp(r)].version
  BY DEF IInv, Inv, Versioned, Own
<1>3. {Own(q).version : q \in Ranks} = {rank[r].buffer[Pp(r)].version}
  BY <1>2
<1> QED BY <1>1, <1>3 DEF EngineRight

\* The shards that the saver fetches are those of the model.
LEMMA SaverFetches ==
  ASSUME IInv, driver.at > 1, NEW name \in ModelNames
  PROVE  AllShards(ShardsOf(LocalName(name), StageOf(name)), name)
<1> DEFINE n == LocalName(name)
           s == StageOf(name)
<1>0. Fits
  BY DEF IInv
<1>1. s \in Stages /\ n \in NamesOf(s) /\ NormalName(n, s) = name
  BY <1>0, ModelNameIs
<1> HIDE DEF n, s
<1>2. ASSUME NEW i \in 1..config.tp
      PROVE  Own(GlobalRank(i - 1, 0, s)).weights[n] = ShardOf(name, config.tp, i - 1)
  <2> DEFINE t == i - 1
             g == GlobalRank(t, 0, s)
  <2>1. t \in 0..(config.tp - 1) /\ 0 \in 0..(config.dp - 1)
    <3>1. config.tp \in Nat \ {0} /\ config.dp \in Nat \ {0}
      BY <1>0, ConfigFields
    <3> QED BY <3>1
  <2> HIDE DEF t
  <2>2. g \in Ranks /\ Tp(g) = t /\ Pp(g) = s
    BY <1>0, <1>1, <2>1, PlaceHasRank
  <2> HIDE DEF g
  <2>3. Right(rank[g], g, s)
    BY <1>1, <2>2, AfterLoading DEF Weighted
  <2>4. rank[g].buffer[s].weights[n] = ShardOf(NormalName(n, s), config.tp, t)
    BY <1>1, <2>2, <2>3 DEF Right
  <2> QED BY <1>1, <2>2, <2>4 DEF Own, t, g
<1>3. ShardsOf(n, s) = [i \in 1..config.tp |-> ShardOf(name, config.tp, i - 1)]
  BY <1>2 DEF ShardsOf
<1> QED BY <1>3 DEF AllShards, n, s

\* The saver gives the checkpoint back.
LEMMA SavedIsLoaded ==
  ASSUME IInv
  PROVE  SaverInvertsLoader
<1> SUFFICES ASSUME driver.at > 1, NEW name \in ModelNames
             PROVE  Merged[name] =
                      CASE name[1] = "qkv" -> <<Tensor("q", name[2], config.heads),
                                                Tensor("k", name[2], config.kv),
                                                Tensor("v", name[2], config.kv)>>
                        [] name[1] = "gate_up" -> <<Tensor("gate", name[2], config.inner),
                                                    Tensor("up", name[2], config.inner)>>
                        [] name[1] = "norm" -> <<Tensor("norm", name[2], 1)>>
                        [] OTHER -> <<Tensor(name[1], name[2], config.inner)>>
  BY DEF SaverInvertsLoader, Merged
<1> DEFINE n == LocalName(name)
           sh == ShardsOf(n, StageOf(name))
<1>1. AllShards(sh, name) /\ n[1] = name[1] /\ Fits
  BY SaverFetches, ModelNameIs DEF IInv
<1>2. Merged[name] = CASE n[1] = "qkv" -> MergedQkv(sh)
                       [] n[1] = "gate_up" -> MergedGateUp(sh)
                       [] n[1] = "norm" -> <<sh[1]>>
                       [] OTHER -> <<FlattenSeq(sh)>>
  BY DEF Merged, MergedTensor
<1> HIDE DEF n, sh
<1>3. /\ name[1] = "qkv" => MergedQkv(sh) =
              <<Tensor("q", name[2], config.heads), Tensor("k", name[2], config.kv), Tensor("v", name[2], config.kv)>>
      /\ name[1] = "gate_up" => MergedGateUp(sh) =
              <<Tensor("gate", name[2], config.inner), Tensor("up", name[2], config.inner)>>
      /\ name[1] = "norm" => sh[1] = Tensor("norm", name[2], 1)
      /\ name[1] \notin {"qkv", "gate_up", "norm"} => FlattenSeq(sh) = Tensor(name[1], name[2], config.inner)
  BY <1>1, SaverMerges
<1>4. CASE name[1] = "qkv"
  BY <1>1, <1>2, <1>3, <1>4
<1>5. CASE name[1] = "gate_up"
  BY <1>1, <1>2, <1>3, <1>5
<1>6. CASE name[1] = "norm"
  BY <1>1, <1>2, <1>3, <1>6
<1>7. CASE name[1] \notin {"qkv", "gate_up", "norm"}
  BY <1>1, <1>2, <1>3, <1>7
<1> QED BY <1>4, <1>5, <1>6, <1>7

\* Cutting the weights for the grid loses nothing.
THEOREM WeightsReassemble == Spec => []ShardsReassemble
<1>1. IInv => ShardsReassemble
  BY BoundIsWhole, SavedIsLoaded DEF ShardsReassemble
<1> QED BY <1>1, Invariant, PTL

\* The ranks take a step only while the driver waits, and leave it alone.
LEMMA StepWaits ==
  ASSUME IInv, NEW r \in Ranks, Step(r)
  PROVE  driver.waits /\ driver' = driver
<1>1. \E kind, new, G : r \in G /\ Together(kind, G, new)
  <2>1. \A q \in {r} : q = r
    OBVIOUS
  <2>2. CASE Local(r)
    <3>1. CASE LoadParamsToCuda(r)
      BY <3>1, <2>1 DEF LoadParamsToCuda
    <3>2. CASE KeepParams(r)
      BY <3>2, <2>1 DEF KeepParams
    <3>3. CASE OffloadParams(r)
      BY <3>3, <2>1 DEF OffloadParams
    <3>4. CASE MoveParams(r)
      BY <3>4, <2>1 DEF MoveParams
    <3>5. CASE MakeMinibatch(r)
      BY <3>5, <2>1 DEF MakeMinibatch
    <3> QED BY <2>2, <3>1, <3>2, <3>3, <3>4, <3>5 DEF Local
  <2>3. CASE Collective(r)
    <3>1. CASE LoadLayer(r) \/ LoadEnds(r) \/ ForwardBatch(r)
      BY <3>1, Groups DEF LoadLayer, LoadEnds, ForwardBatch
    <3>2. CASE Barrier(r) \/ UpdatePolicy(r)
      BY <3>2 DEF Barrier, UpdatePolicy
    <3>3. CASE BroadcastDpParams(r)
      BY <3>3, Groups DEF BroadcastDpParams
    <3>4. CASE BroadcastStage(r) \/ BroadcastBatch(r) \/ BroadcastOutput(r)
      BY <3>4, Groups DEF BroadcastStage, BroadcastBatch, BroadcastOutput
    <3>5. CASE PostProcessParams(r)
      BY <3>5, Groups DEF PostProcessParams
    <3>6. CASE PreprocessData(r)
      BY <3>6, Groups DEF PreprocessData
    <3>7. CASE Generate(r)
      BY <3>7, Groups DEF Generate
    <3>8. CASE PostprocessData(r)
      BY <3>8, Groups DEF PostprocessData
    <3> QED BY <2>3, <3>1, <3>2, <3>3, <3>4, <3>5, <3>6, <3>7, <3>8 DEF Collective
  <2> QED BY <2>2, <2>3 DEF Step
<1>2. rank[r].todo # <<>> /\ driver' = driver
  BY <1>1 DEF Together, IsAt
<1>3. driver.waits
  BY <1>2 DEF IInv, Inv, Between
<1> QED BY <1>2, <1>3

-----------------------------------------------------------------------------
(* Where the reference and the reward model are: one is on the GPU only while its own call is  *)
(* under way, or, the reference, before its first.                            *)

Offloaded == {"ref", "rm"}
CallOf(model) == IF model = "ref" THEN "compute_ref_log_prob" ELSE "compute_rm_score"
Busy(model) == Waits /\ Method = CallOf(model)

\* A rank that is through with the model's call has it on the CPU.
Parked(r, model) ==
  config.offload /\ (IF Busy(model) THEN rank[r].todo = <<>> ELSE HasLeft(model))
    => rank[r].on[model] = "cpu"
HomeInv == \A r \in Ranks, model \in Offloaded : Parked(r, model)

\* What an operation does with the models that may be away.
TakesOn(kind, G, new) ==
  /\ G \in SUBSET Ranks /\ Together(kind, G, new)
  /\ \A q \in G : new[q] = [f \in Fields |-> new[q][f]] /\ new[q].todo = rank[q].todo
  /\ \/ kind \notin {"fetch", "release"} /\ \A q \in G : new[q].on = rank[q].on
     \/ /\ kind \in {"fetch", "release"}
        /\ \A q \in G : new[q].on = [rank[q].on EXCEPT ![NextOp(q).model] =
                                       IF kind = "fetch" THEN "cuda" ELSE "cpu"]
  /\ G # {}

\* An operation that changes some other field of the ranks in G.
LeavesOn(q, x) ==
  \E v : \/ x = rank[q]
         \/ x = [rank[q] EXCEPT !.buffer = v]
         \/ x = [rank[q] EXCEPT !.batch = v]
         \/ x = [rank[q] EXCEPT !.out = v]
         \/ x = [rank[q] EXCEPT !.engine = v]

LEMMA OtherField ==
  ASSUME IInv, NEW kind, kind \notin {"fetch", "release"}, NEW G \in SUBSET Ranks, G # {}, NEW new,
         Together(kind, G, new), \A q \in G : LeavesOn(q, new[q])
  PROVE  TakesOn(kind, G, new)
<1>1. ASSUME NEW q \in G
      PROVE  /\ new[q] = [f \in Fields |-> new[q][f]] /\ new[q].todo = rank[q].todo
             /\ new[q].on = rank[q].on
  <2>1. rank[q] = [f \in Fields |-> rank[q][f]]
    BY InvRank
  <2>2. LeavesOn(q, new[q])
    OBVIOUS
  <2> QED BY <2>1, <2>2 DEF Fields, LeavesOn
<1> QED BY <1>1 DEF TakesOn

\* What the ranks do by themselves.
LEMMA LocalTakes ==
  ASSUME IInv, NEW r \in Ranks, Local(r)
  PROVE  \E kind, G, new : TakesOn(kind, G, new)
<1>0. {r} \in SUBSET Ranks /\ rank[r] = [f \in Fields |-> rank[r][f]]
  BY InvRank
<1>1. CASE LoadParamsToCuda(r)
  <2> DEFINE v == [s \in Stages |-> [rank[r].buffer[s] EXCEPT !.on = "cuda"]]
             new == [q \in {r} |-> [rank[q] EXCEPT !.buffer = [s \in Stages |-> [@[s] EXCEPT !.on = "cuda"]]]]
  <2>1. Together("to_cuda", {r}, new)
    BY <1>1 DEF LoadParamsToCuda
  <2>2. LeavesOn(r, new[r])
    <3>1. new[r] = [rank[r] EXCEPT !.buffer = v]
      BY <1>0 DEF Fields
    <3> HIDE DEF new, v
    <3> QED BY <3>1 DEF LeavesOn
  <2> HIDE DEF new
  <2>3. TakesOn("to_cuda", {r}, new)
    BY <1>0, <2>1, <2>2, OtherField
  <2> QED BY <2>3
<1>2. CASE KeepParams(r)
  <2> DEFINE w == Normalized([s \in Stages |-> rank[r].buffer[s].weights])
             v == [weights |-> w, versions |-> Versions(r)]
             new == [q \in {r} |-> Bound(q, Normalized([s \in Stages |-> rank[q].buffer[s].weights]))]
  <2>1. Together("keep_params", {r}, new)
    BY <1>2 DEF KeepParams
  <2>2. LeavesOn(r, new[r])
    <3>1. new[r] = [rank[r] EXCEPT !.engine = v]
      BY DEF Bound
    <3> HIDE DEF new, v
    <3> QED BY <3>1 DEF LeavesOn
  <2> HIDE DEF new
  <2>3. TakesOn("keep_params", {r}, new)
    BY <1>0, <2>1, <2>2, OtherField
  <2> QED BY <2>3
<1>3. CASE OffloadParams(r)
  <2> DEFINE b == [s \in Stages |-> IF s = Pp(r) THEN rank[r].buffer[s] ELSE [rank[r].buffer[s] EXCEPT !.on = "cpu"]]
             new == [q \in {r} |-> [rank[q] EXCEPT
                      !.buffer = [s \in Stages |-> IF s = Pp(q) THEN @[s] ELSE [@[s] EXCEPT !.on = "cpu"]],
                      !.engine = <<>>]]
  <2>1. Together("offload", {r}, new)
    BY <1>3 DEF OffloadParams
  <2>2. new[r] = [rank[r] EXCEPT !.buffer = b, !.engine = <<>>]
    BY <1>0 DEF Fields
  <2> HIDE DEF new, b
  <2>3. new[r] = [f \in Fields |-> new[r][f]] /\ new[r].todo = rank[r].todo /\ new[r].on = rank[r].on
    BY <1>0, <2>2 DEF Fields
  <2>4. TakesOn("offload", {r}, new)
    BY <1>0, <2>1, <2>3 DEF TakesOn
  <2> QED BY <2>4
<1>4. CASE MoveParams(r)
  <2>1. PICK kind \in {"fetch", "release"}, place \in {"cuda", "cpu"} :
          /\ Together(kind, {r}, [q \in {r} |-> [rank[q] EXCEPT !.on[NextOp(r).model] = place]])
          /\ place = IF kind = "fetch" THEN "cuda" ELSE "cpu"
    BY <1>4 DEF MoveParams
  <2> DEFINE new == [q \in {r} |-> [rank[q] EXCEPT !.on[NextOp(r).model] = place]]
             o == [rank[r].on EXCEPT ![NextOp(r).model] = place]
  <2>2. Together(kind, {r}, new) /\ new[r] = [rank[r] EXCEPT !.on = o]
    BY <2>1
  <2> HIDE DEF new, o
  <2>3. new[r] = [f \in Fields |-> new[r][f]] /\ new[r].todo = rank[r].todo /\ new[r].on = o
    BY <1>0, <2>2 DEF Fields
  <2>4. TakesOn(kind, {r}, new)
    BY <1>0, <2>1, <2>2, <2>3 DEF TakesOn, o
  <2> QED BY <2>4
<1>5. CASE MakeMinibatch(r)
  <2> DEFINE k == NextOp(r).at
             draws == IF k = 1 THEN rank[r].draws + 1 ELSE rank[r].draws
             order == Shuffled(rank[r].held, SeedOf(r), draws)
             batch == SubSeq(order, (k - 1) * config.mini + 1, k * config.mini)
             new == [q \in {r} |-> [rank[q] EXCEPT !.draws = draws, !.batch = batch]]
  <2>1. Together("minibatch", {r}, new)
    BY <1>5 DEF MakeMinibatch
  <2> HIDE DEF draws, batch
  <2>2. new[r] = [f \in Fields |-> new[r][f]] /\ new[r].todo = rank[r].todo /\ new[r].on = rank[r].on
    BY <1>0 DEF Fields
  <2> HIDE DEF new
  <2>4. TakesOn("minibatch", {r}, new)
    BY <1>0, <2>1, <2>2 DEF TakesOn
  <2> QED BY <2>4
<1> QED BY <1>1, <1>2, <1>3, <1>4, <1>5 DEF Local

\* What the ranks of a group do together.
LEMMA CollectiveTakes ==
  ASSUME IInv, NEW r \in Ranks, Collective(r)
  PROVE  \E kind, G, new : TakesOn(kind, G, new)
<1>0. Fits /\ \A q \in Ranks : Own(q) = rank[q].buffer[Pp(q)]
  BY DEF IInv, Own
<1>00. Ranks # {}
  OBVIOUS
<1>1. ASSUME NEW q \in Ranks, NEW b PROVE LeavesOn(q, WithOwn(q, b))
  <2> DEFINE c == [rank[q].buffer EXCEPT ![Pp(q)] = b]
  <2>1. rank[q] = [f \in Fields |-> rank[q][f]]
    BY InvRank
  <2>2. WithOwn(q, b) = [rank[q] EXCEPT !.buffer = c]
    BY <2>1 DEF WithOwn, Fields
  <2> HIDE DEF c
  <2> QED BY <2>2 DEF LeavesOn
<1>2. ASSUME NEW q \in Ranks, NEW names, NEW stage PROVE LeavesOn(q, Loaded(q, names, stage))
  <2> DEFINE b == [Own(q) EXCEPT !.weights = [n \in DOMAIN @ |->
                     IF n \in names THEN ShardOf(NormalName(n, stage), config.tp, Tp(q)) ELSE @[n]]]
  <2>1. LeavesOn(q, WithOwn(q, b)) /\ LeavesOn(q, rank[q])
    BY <1>1 DEF LeavesOn
  <2>2. Loaded(q, names, stage) = rank[q] \/ Loaded(q, names, stage) = WithOwn(q, b)
    BY DEF Loaded
  <2> HIDE DEF b
  <2> QED BY <2>1, <2>2
<1>3. CASE LoadLayer(r)
  <2> DEFINE p == LayerMap[NextOp(r).at]
             new == [q \in MpGroup(r) |-> Loaded(q, LayerKinds \X {p[2]}, p[1])]
  <2>1. Together("load_layer", MpGroup(r), new) /\ MpGroup(r) \in SUBSET Ranks /\ MpGroup(r) # {}
    BY <1>3, Groups DEF LoadLayer
  <2>2. \A q \in MpGroup(r) : LeavesOn(q, new[q])
    BY <1>2, <2>1
  <2> HIDE DEF new
  <2>3. TakesOn("load_layer", MpGroup(r), new)
    BY <2>1, <2>2, OtherField
  <2> QED BY <2>3
<1>4. CASE LoadEnds(r)
  <2>0. PICK kind \in {"load_embed", "load_head"} : \E names, stage :
          Together(kind, MpGroup(r), [q \in MpGroup(r) |-> Loaded(q, names, stage)])
    BY <1>4 DEF LoadEnds
  <2>1. PICK names, stage :
          Together(kind, MpGroup(r), [q \in MpGroup(r) |-> Loaded(q, names, stage)])
    BY <2>0
  <2> DEFINE new == [q \in MpGroup(r) |-> Loaded(q, names, stage)]
  <2>2. Together(kind, MpGroup(r), new) /\ MpGroup(r) \in SUBSET Ranks /\ MpGroup(r) # {}
    BY <2>1, Groups
  <2>3. \A q \in MpGroup(r) : LeavesOn(q, new[q])
    BY <1>2, <2>2
  <2> HIDE DEF new
  <2>4. TakesOn(kind, MpGroup(r), new)
    BY <2>2, <2>3, OtherField
  <2> QED BY <2>4
<1>5. CASE Barrier(r)
  <2> DEFINE new == [q \in Ranks |-> rank[q]]
  <2>1. Together("barrier", Ranks, new)
    BY <1>5 DEF Barrier
  <2>2. \A q \in Ranks : LeavesOn(q, new[q])
    BY DEF LeavesOn
  <2> HIDE DEF new
  <2>3. TakesOn("barrier", Ranks, new)
    BY <2>1, <2>2, OtherField
  <2> QED BY <2>3
<1>6. CASE BroadcastDpParams(r)
  <2> DEFINE new == [q \in DpGroup(r) |-> WithOwn(q, Own(Min(DpGroup(q))))]
  <2>1. Together("dp_params", DpGroup(r), new) /\ DpGroup(r) \in SUBSET Ranks /\ DpGroup(r) # {}
    BY <1>6, Groups DEF BroadcastDpParams
  <2>2. \A q \in DpGroup(r) : LeavesOn(q, new[q])
    BY <1>1, <2>1
  <2> HIDE DEF new
  <2>3. TakesOn("dp_params", DpGroup(r), new)
    BY <2>1, <2>2, OtherField
  <2> QED BY <2>3
<1>7. CASE BroadcastStage(r)
  <2> DEFINE s == NextOp(r).at
             src == CHOOSE q \in PpGroup(r) : Pp(q) = s
             c == rank[src].buffer[s]
             new == [q \in PpGroup(r) |-> [rank[q] EXCEPT !.buffer[s] = rank[src].buffer[s]]]
  <2>1. Together("stage", PpGroup(r), new) /\ PpGroup(r) \in SUBSET Ranks /\ PpGroup(r) # {}
    BY <1>7, Groups DEF BroadcastStage
  <2>2. ASSUME NEW q \in PpGroup(r) PROVE LeavesOn(q, new[q])
    <3> DEFINE b == [rank[q].buffer EXCEPT ![s] = c]
    <3>1. rank[q] = [f \in Fields |-> rank[q][f]]
      BY <2>1, InvRank
    <3> HIDE DEF s, src
    <3>2. new[q] = [rank[q] EXCEPT !.buffer = b]
      BY <3>1 DEF Fields
    <3> HIDE DEF b, new
    <3> QED BY <3>2 DEF LeavesOn
  <2> HIDE DEF new
  <2>3. TakesOn("stage", PpGroup(r), new)
    BY <2>1, <2>2, OtherField
  <2> QED BY <2>3
<1>8. CASE PostProcessParams(r)
  <2> DEFINE shards(q, s, n) == [i \in 1..MicroDp |->
               rank[(q \div MicroDp) * MicroDp + i - 1].buffer[s].weights[n]]
             value(q, s, n) == IF IsTensorParallel(n) THEN DefaultTpConcat(n, shards(q, s, n))
                               ELSE rank[q].buffer[s].weights[n]
             w(q) == Normalized([s \in Stages |-> [n \in NamesOf(s) |-> value(q, s, n)]])
             new == [q \in MicroGroup(r) |-> Bound(q, w(q))]
  <2>1. Together("gather_params", MicroGroup(r), new) /\ MicroGroup(r) \in SUBSET Ranks /\ MicroGroup(r) # {}
    BY <1>8, Groups DEF PostProcessParams
  <2> HIDE DEF w
  <2>2. ASSUME NEW q \in MicroGroup(r) PROVE LeavesOn(q, new[q])
    <3> DEFINE v == [weights |-> w(q), versions |-> Versions(q)]
    <3>1. new[q] = [rank[q] EXCEPT !.engine = v]
      BY DEF Bound
    <3> HIDE DEF v, new
    <3> QED BY <3>1 DEF LeavesOn
  <2> HIDE DEF new
  <2>3. TakesOn("gather_params", MicroGroup(r), new)
    BY <2>1, <2>2, OtherField
  <2> QED BY <2>3
<1>9. CASE PreprocessData(r)
  <2> DEFINE v(q) == SliceOf(rank[Min(TpGroup(q))].batch, MicroDp, MicroRank(q))
             new == [q \in TpGroup(r) |-> [rank[q] EXCEPT !.batch = v(q)]]
  <2>1. Together("tp_batch", TpGroup(r), new) /\ TpGroup(r) \in SUBSET Ranks /\ TpGroup(r) # {}
    BY <1>9, Groups DEF PreprocessData
  <2> HIDE DEF v
  <2>2. \A q \in TpGroup(r) : LeavesOn(q, new[q])
    BY DEF LeavesOn
  <2> HIDE DEF new
  <2>3. TakesOn("tp_batch", TpGroup(r), new)
    BY <2>1, <2>2, OtherField
  <2> QED BY <2>3
<1>10. CASE Generate(r)
  <2> DEFINE G == InferGroup(r)
             version == [p \in G |-> EngineVersion(p)]
             ready == [p \in G |-> EngineReady(p)]
             v(q) == Computed(G, q, version, ready)
             new == [q \in G |-> [rank[q] EXCEPT !.out = v(q)]]
  <2>1. Together("generate", G, new) /\ G \in SUBSET Ranks /\ G # {}
    BY <1>10, Groups DEF Generate
  <2> HIDE DEF v
  <2>2. \A q \in G : LeavesOn(q, new[q])
    BY DEF LeavesOn
  <2> HIDE DEF new, G
  <2>3. TakesOn("generate", G, new)
    BY <2>1, <2>2, OtherField
  <2> QED BY <2>3
<1>11. CASE PostprocessData(r)
  <2>1. PICK kind \in {"gather_micro", "gather_pp"}, G \in {MicroGroup(r), PpGroup(r)} :
          \E v : Together(kind, G, [q \in G |-> [rank[q] EXCEPT !.out = v[q]]])
    <3>1. CASE Together("gather_micro", MicroGroup(r),
                        [q \in MicroGroup(r) |-> [rank[q] EXCEPT !.out = Gathered(MicroGroup(q))]])
      <4> DEFINE v == [q \in MicroGroup(r) |-> Gathered(MicroGroup(q))]
      <4>1. [q \in MicroGroup(r) |-> [rank[q] EXCEPT !.out = Gathered(MicroGroup(q))]]
              = [q \in MicroGroup(r) |-> [rank[q] EXCEPT !.out = v[q]]]
        OBVIOUS
      <4> HIDE DEF v
      <4> QED BY <3>1, <4>1
    <3>2. CASE Together("gather_pp", PpGroup(r),
                        [q \in PpGroup(r) |-> [rank[q] EXCEPT !.out = Gathered(PpGroup(q))]])
      <4> DEFINE v == [q \in PpGroup(r) |-> Gathered(PpGroup(q))]
      <4>1. [q \in PpGroup(r) |-> [rank[q] EXCEPT !.out = Gathered(PpGroup(q))]]
              = [q \in PpGroup(r) |-> [rank[q] EXCEPT !.out = v[q]]]
        OBVIOUS
      <4> HIDE DEF v
      <4> QED BY <3>2, <4>1
    <3> QED BY <1>11, <3>1, <3>2 DEF PostprocessData
  <2>2. PICK v : Together(kind, G, [q \in G |-> [rank[q] EXCEPT !.out = v[q]]])
    BY <2>1
  <2> DEFINE new == [q \in G |-> [rank[q] EXCEPT !.out = v[q]]]
  <2>3. \A q \in G : LeavesOn(q, new[q])
    BY DEF LeavesOn
  <2>4. Together(kind, G, new) /\ G \in SUBSET Ranks /\ G # {}
    BY <2>2, Groups
  <2> HIDE DEF new
  <2>5. TakesOn(kind, G, new)
    BY <2>3, <2>4, OtherField
  <2> QED BY <2>5
<1>12. CASE BroadcastBatch(r)
  <2> DEFINE last(q) == CHOOSE p \in PpGroup(q) : Pp(p) = LastStage
             v(q) == rank[last(q)].batch
             new == [q \in PpGroup(r) |-> [rank[q] EXCEPT !.batch = v(q)]]
  <2>1. Together("pp_batch", PpGroup(r), new) /\ PpGroup(r) \in SUBSET Ranks /\ PpGroup(r) # {}
    BY <1>12, Groups DEF BroadcastBatch
  <2> HIDE DEF v
  <2>2. \A q \in PpGroup(r) : LeavesOn(q, new[q])
    BY DEF LeavesOn
  <2> HIDE DEF new
  <2>3. TakesOn("pp_batch", PpGroup(r), new)
    BY <2>1, <2>2, OtherField
  <2> QED BY <2>3
<1>13. CASE ForwardBatch(r)
  <2> DEFINE G == MpGroup(r)
             model == NextOp(r).model
             version == [p \in G |-> VersionOf(model, p)]
             ready == [p \in G |-> ReadyFor(model, p)]
             v(q) == IF Pp(q) = LastStage THEN FlattenSeq(MicrosOf(Computed(G, q, version, ready))) ELSE <<>>
             new == [q \in G |-> [rank[q] EXCEPT !.out = v(q)]]
  <2>1. Together("forward", G, new) /\ G \in SUBSET Ranks /\ G # {}
    BY <1>13, Groups DEF ForwardBatch
  <2> HIDE DEF v
  <2>2. \A q \in G : LeavesOn(q, new[q])
    BY DEF LeavesOn
  <2> HIDE DEF new, G
  <2>3. TakesOn("forward", G, new)
    BY <2>1, <2>2, OtherField
  <2> QED BY <2>3
<1>14. CASE BroadcastOutput(r)
  <2> DEFINE last(q) == CHOOSE p \in PpGroup(q) : Pp(p) = LastStage
             v(q) == rank[last(q)].out
             new == [q \in PpGroup(r) |-> [rank[q] EXCEPT !.out = v(q)]]
  <2>1. Together("pp_output", PpGroup(r), new) /\ PpGroup(r) \in SUBSET Ranks /\ PpGroup(r) # {}
    BY <1>14, Groups DEF BroadcastOutput
  <2> HIDE DEF v
  <2>2. \A q \in PpGroup(r) : LeavesOn(q, new[q])
    BY DEF LeavesOn
  <2> HIDE DEF new
  <2>3. TakesOn("pp_output", PpGroup(r), new)
    BY <2>1, <2>2, OtherField
  <2> QED BY <2>3
<1>15. CASE UpdatePolicy(r)
  <2> DEFINE model == NextOp(r).model
             version == [p \in Ranks |-> VersionOf(model, p)]
             ready == [p \in Ranks |-> TRUE]
             all(q) == Computed(MpGroup(q), q, version, ready)
             new == [q \in Ranks |-> [Trained(model, q) EXCEPT !.out = @ \o all(q)]]
  <2>1. Together("step", Ranks, new)
    BY <1>15 DEF UpdatePolicy
  <2> HIDE DEF all, model
  <2>2. ASSUME NEW q \in Ranks
        PROVE  /\ new[q] = [f \in Fields |-> new[q][f]] /\ new[q].todo = rank[q].todo
               /\ new[q].on = rank[q].on
    <3> DEFINE t == Trained(model, q)
               z == new[q]
    <3>0. TrainedTo(model, q, t) /\ t.todo = rank[q].todo
      BY TrainedIs
    <3>1. /\ t = [f \in Fields |-> t[f]] /\ t.todo = rank[q].todo /\ t.on = rank[q].on
          /\ z = [t EXCEPT !.out = t.out \o all(q)]
      BY <3>0 DEF TrainedTo
    <3> HIDE DEF t, z
    <3>2. z = [f \in Fields |-> z[f]] /\ z.todo = t.todo /\ z.on = t.on
      BY <3>1 DEF Fields
    <3> QED BY <3>1, <3>2 DEF z
  <2> HIDE DEF new
  <2>3. TakesOn("step", Ranks, new)
    BY <2>1, <2>2 DEF TakesOn
  <2> QED BY <2>3
<1> QED BY <1>3, <1>4, <1>5, <1>6, <1>7, <1>8, <1>9, <1>10, <1>11, <1>12, <1>13, <1>14, <1>15 DEF Collective

\* Where a rank is that has an operation of its model's call before it or behind it.
LEMMA InTheCall ==
  ASSUME IInv, NEW r \in Ranks, NEW kind, NEW G, NEW new, TakesOn(kind, G, new), NEW q \in G
  PROVE  /\ Moved(kind, G, new) /\ q \in Ranks /\ rank'[q].on = new[q].on
         /\ kind \in {"fetch", "release"} =>
              IsForward(Method) /\ NextOp(q).model = ModelOf(Method) /\ Lead(Method) = 1
         /\ \A model \in Offloaded : Busy(model) /\ config.offload =>
              /\ rank'[q].todo = <<>> => kind = "release"
              /\ kind = "fetch" => rank'[q].todo # <<>>
<1>1. Moved(kind, G, new) /\ q \in Ranks
  <2>1. /\ G \in SUBSET Ranks /\ Together(kind, G, new) /\ G # {}
        /\ \A p \in G : new[p] = [f \in Fields |-> new[p][f]] /\ new[p].todo = rank[p].todo
    BY DEF TakesOn
  <2> QED BY <2>1, Moves
<1> DEFINE d == DoneBy(Method, rank[q])
           op == NextOp(q)
           y == rank'[q]
<1>2. /\ d \in Nat /\ DoneBy(Method, y) = d + 1 /\ op.op = kind /\ Method \in Methods
      /\ PlaceOf(Method, d + 1, op) /\ y.on = new[q].on
  BY <1>1 DEF Moved
<1>3. /\ kind = "fetch" => IsForward(Method) /\ op.model = ModelOf(Method) /\ d + 1 = 1 /\ Lead(Method) = 1
      /\ kind = "release" => IsForward(Method) /\ op.model = ModelOf(Method) /\ Lead(Method) = 1
  <2> HIDE DEF d, op
  <2> QED BY <1>2, KindPlaces
<1>4. ASSUME NEW model \in Offloaded, Busy(model), config.offload
      PROVE  /\ y.todo = <<>> => kind = "release"
             /\ kind = "fetch" => y.todo # <<>>
  <2>1. /\ Method = CallOf(model) /\ IsForward(Method) /\ ~ IsUpdate(Method) /\ Lead(Method) = 1
        /\ Method # "init_model" /\ Method # "generate_sequences"
        /\ FwdLen(Method) = 5 /\ ScriptLen(Method) = 5
    BY <1>4 DEF Busy, CallOf, IsForward, IsUpdate, Lead, FwdLen, ScriptLen
  <2>2. y.todo = <<>> => d + 1 = 5
    <3> SUFFICES ASSUME y.todo = <<>> PROVE d + 1 = 5
      OBVIOUS
    <3>1. Len(y.todo) = 0
      OBVIOUS
    <3>2. ScriptLen(Method) - Len(y.todo) = d + 1
      BY <1>2 DEF DoneBy
    <3> HIDE DEF y, d
    <3> QED BY <2>1, <3>1, <3>2
  <2>3. FwdPlace(Method, d + 1, op)
    BY <1>2, <2>1 DEF PlaceOf
  <2> HIDE DEF d, op, y
  <2>4. y.todo = <<>> => op = OpOn("release", ModelOf(Method))
    BY <2>1, <2>2, <2>3 DEF FwdPlace
  <2>5. y.todo = <<>> => kind = "release"
    BY <1>2, <2>4 DEF OpOn
  <2>6. kind = "fetch" => d + 1 # 5
    BY <1>2, <1>3
  <2> QED BY <2>2, <2>5, <2>6
<1> QED BY <1>1, <1>2, <1>3, <1>4

\* An operation of the ranks leaves each model where it may be.
LEMMA StepParks ==
  ASSUME IInv, HomeInv, NEW r \in Ranks, Step(r)
  PROVE  HomeInv'
<1>1. PICK kind, G, new : TakesOn(kind, G, new)
  BY LocalTakes, CollectiveTakes DEF Step
<1>2. driver' = driver /\ driver.waits
  BY StepWaits
<1>3. G \in SUBSET Ranks /\ config' = config /\ \A q \in Ranks \ G : rank'[q] = rank[q]
  BY <1>1 DEF TakesOn, Together
<1>4. Ranks' = Ranks
  BY <1>3 DEF Ranks, World
<1>5. \A model \in Offloaded : (Busy(model))' = Busy(model) /\ (HasLeft(model))' = HasLeft(model)
  BY <1>2, <1>3 DEF Busy, Waits, Method, HasLeft, Called
<1>6. ASSUME NEW q \in Ranks, NEW model \in Offloaded PROVE Parked(q, model)'
  <2>1. CASE q \notin G
    BY <1>3, <1>5, <1>6, <2>1 DEF Parked, HomeInv
  <2>2. CASE q \in G
    <3>1. SUFFICES ASSUME config.offload, IF Busy(model) THEN rank'[q].todo = <<>> ELSE HasLeft(model)
                   PROVE  rank'[q].on[model] = "cpu"
      BY <1>3, <1>5 DEF Parked
    <3>2. /\ rank'[q].on = new[q].on
          /\ kind \in {"fetch", "release"} =>
               IsForward(Method) /\ NextOp(q).model = ModelOf(Method) /\ Lead(Method) = 1
          /\ Busy(model) => kind = "release"
      BY <1>1, <2>2, <3>1, InTheCall
    <3>3. ~ Busy(model) => rank[q].on[model] = "cpu"
      BY <3>1 DEF HomeInv, Parked
    <3>4. CASE kind \notin {"fetch", "release"}
      <4>1. new[q].on = rank[q].on
        BY <1>1, <2>2, <3>4 DEF TakesOn
      <4> QED BY <3>2, <3>3, <3>4, <4>1
    <3>5. CASE kind \in {"fetch", "release"}
      <4> DEFINE mo == NextOp(q).model
                 o == rank[q].on
      <4>0. ShapedRank(rank[q], q)
        BY InvRank
      <4>1. /\ o = [m \in {"ref", "rm"} |-> o[m]]
            /\ new[q].on = [o EXCEPT ![mo] = IF kind = "fetch" THEN "cuda" ELSE "cpu"]
        BY <1>1, <2>2, <3>5, <4>0 DEF TakesOn, ShapedRank
      <4>2. mo = ModelOf(Method) /\ IsForward(Method) /\ Lead(Method) = 1
        BY <3>2, <3>5
      <4>3. mo \in Offloaded /\ (mo = model <=> Busy(model))
        BY <1>2, <4>2 DEF IsForward, Lead, ModelOf, Offloaded, Busy, CallOf, Waits
      <4> HIDE DEF mo, o
      <4>4. CASE Busy(model)
        BY <3>2, <4>1, <4>3, <4>4 DEF Offloaded
      <4>5. CASE ~ Busy(model)
        <5>1. o[model] = "cpu"
          BY <3>3, <4>5 DEF o
        <5> QED BY <3>2, <3>5, <4>1, <4>3, <4>5, <5>1 DEF Offloaded
      <4> QED BY <4>4, <4>5
    <3> QED BY <3>4, <3>5
  <2> QED BY <2>1, <2>2
<1> QED BY <1>4, <1>6 DEF HomeInv

\* A call begins with its script, and the models where they are.
LEMMA DispatchGives ==
  ASSUME IInv, Dispatch
  PROVE  /\ config' = config /\ ~ driver.waits /\ driver'.waits /\ driver'.at = driver.at
         /\ \A q \in Ranks : rank'[q].on = rank[q].on /\ rank'[q].todo = ProgramOf(Method, q)
<1>1. /\ driver = [at |-> driver.at, waits |-> driver.waits, got |-> driver.got]
      /\ ~ driver.waits /\ config' = config /\ driver' = [driver EXCEPT !.waits = TRUE]
  BY DEF IInv, Inv, Dispatch, Waits
<1>2. driver'.waits /\ driver'.at = driver.at
  BY <1>1
<1>3. ASSUME NEW q \in Ranks
      PROVE  rank'[q].on = rank[q].on /\ rank'[q].todo = ProgramOf(Method, q)
  <2> DEFINE b == IF Method = "generate_sequences" THEN PpAsDp(q) ELSE DpCompute(q)
             p == ProgramOf(Method, q)
             z == rank'[q]
  <2>1. z = [rank[q] EXCEPT !.todo = p, !.held = b, !.batch = b, !.out = <<>>]
    BY DEF Dispatch
  <2>2. rank[q] = [f \in Fields |-> rank[q][f]]
    BY InvRank
  <2> HIDE DEF b, p, z
  <2>3. z.todo = p /\ z.on = rank[q].on
    BY <2>1, <2>2 DEF Fields
  <2> QED BY <2>3 DEF p, z
<1> QED BY <1>1, <1>2, <1>3

\* So do the driver's own steps.
LEMMA DispatchParks ==
  ASSUME IInv, HomeInv, Dispatch
  PROVE  HomeInv'
<1>1. config' = config /\ ~ driver.waits /\ driver'.waits /\ driver'.at = driver.at
  BY DispatchGives
<1>2. Ranks' = Ranks /\ Method' = Method
  BY <1>1 DEF Ranks, World, Method
<1>3. ASSUME NEW q \in Ranks
      PROVE  rank'[q].on = rank[q].on /\ rank'[q].todo = ProgramOf(Method, q)
  BY DispatchGives
<1>4. ASSUME NEW q \in Ranks, NEW model \in Offloaded PROVE Parked(q, model)'
  <2>1. (HasLeft(model))' = HasLeft(model)
    BY <1>1 DEF HasLeft, Called
  <2>2. CASE Method # CallOf(model)
    BY <1>1, <1>2, <1>3, <2>1, <2>2 DEF Parked, HomeInv, Busy, Waits
  <2>3. CASE Method = CallOf(model)
    <3>1. (Busy(model))'
      BY <1>1, <1>2, <2>3 DEF Busy, Waits
    <3>2. config.offload => ProgramOf(Method, q) # <<>>
      <4>1. ASSUME config.offload PROVE ProgramOf(Method, q) # <<>>
        <5>1. ProgramOf(Method, q) = <<OpOn("fetch", model)>> \o Forward(model) \o <<OpOn("release", model)>>
          BY <2>3, <4>1 DEF Offloaded, CallOf, ProgramOf, ComputeRefLogProb, ComputeReward, ForwardOffloaded
        <5> QED BY <5>1 DEF Forward
      <4> QED BY <4>1
    <3> QED BY <1>1, <1>3, <3>1, <3>2 DEF Parked
  <2> QED BY <2>2, <2>3
<1> QED BY <1>2, <1>4 DEF HomeInv

LEMMA CollectParks ==
  ASSUME IInv, HomeInv, Collect
  PROVE  HomeInv'
<1>1. /\ config' = config /\ rank' = rank /\ driver.waits /\ ~ driver'.waits
      /\ driver'.at = driver.at + 1 /\ driver.at \in Nat \ {0}
      /\ \A r \in Ranks : rank[r].todo = <<>>
  <2>1. /\ driver = [at |-> driver.at, waits |-> driver.waits, got |-> driver.got]
        /\ driver.at \in 1..Len(config.calls)
    BY DEF IInv, Inv, Within, Collect, Waits
  <2> DEFINE got == Collected(Method)
  <2>2. /\ driver' = [driver EXCEPT !.waits = FALSE, !.at = driver.at + 1, !.got = got]
        /\ config' = config /\ rank' = rank /\ driver.waits
        /\ \A r \in Ranks : rank[r].todo = <<>>
    BY DEF Collect, Waits
  <2> HIDE DEF got
  <2> QED BY <2>1, <2>2
<1>2. Ranks' = Ranks
  BY <1>1 DEF Ranks, World
<1>3. ASSUME NEW q \in Ranks, NEW model \in Offloaded PROVE Parked(q, model)'
  <2>1. SUFFICES ASSUME config.offload, (HasLeft(model))' PROVE rank[q].on[model] = "cpu"
    BY <1>1 DEF Parked, Busy, Waits
  <2>2. CASE Busy(model)
    BY <1>1, <2>1, <2>2 DEF HomeInv, Parked
  <2>3. CASE ~ Busy(model)
    <3>1. HasLeft(model)
      <4> SUFFICES ASSUME model = "ref" PROVE Called("compute_ref_log_prob")
        BY <2>1 DEF HasLeft
      <4>1. PICK i \in 1..(driver'.at - 1) : config.calls[i] = "compute_ref_log_prob"
        BY <1>1, <2>1 DEF HasLeft, Called
      <4>2. i # driver.at
        BY <1>1, <2>3, <4>1 DEF Busy, Waits, CallOf, Method
      <4>3. i \in 1..(driver.at - 1)
        BY <1>1, <4>1, <4>2
      <4> QED BY <4>1, <4>3 DEF Called
    <3> QED BY <2>1, <2>3, <3>1 DEF HomeInv, Parked
  <2> QED BY <2>2, <2>3
<1> QED BY <1>2, <1>3 DEF HomeInv

\* The two models are always where they may be.
LEMMA AtHomeAlways == Spec => []HomeInv
<1>1. Init => HomeInv
  <2> SUFFICES ASSUME Init, NEW q \in Ranks, NEW model \in Offloaded PROVE Parked(q, model)
    BY DEF HomeInv
  <2>1. /\ driver.at = 1 /\ ~ Waits
        /\ rank[q].on = [m \in {"ref", "rm"} |-> IF config.offload /\ m = "rm" THEN "cpu" ELSE "cuda"]
    BY DEF Init, NewRank, Waits
  <2>2. ~ Called("compute_ref_log_prob")
    BY <2>1 DEF Called
  <2> QED BY <2>1, <2>2 DEF Parked, Busy, HasLeft, Offloaded
<1>2. IInv /\ HomeInv /\ [Next]_vars => HomeInv'
  <2> SUFFICES ASSUME IInv, HomeInv, [Next]_vars PROVE HomeInv'
    OBVIOUS
  <2>1. CASE UNCHANGED vars
    BY <2>1 DEF vars, HomeInv, Parked, Busy, Waits, Method, HasLeft, Called, Ranks, World
  <2>2. CASE Next
    BY <2>2, DispatchParks, CollectParks, StepParks DEF Next
  <2> QED BY <2>1, <2>2
<1> QED BY <1>1, <1>2, Invariant, PTL DEF Spec

\* Between two calls a rank has on its GPU, of the actor, nothing but the stage it trains once
\* there was a rollout, and what may live on the CPU is there: the reward model always, the
\* reference from its first call on.
THEOREM ReturnsToRest == Spec => []AtRest
<1>1. IInv /\ HomeInv => AtRest
  <2> SUFFICES ASSUME IInv, HomeInv, ~ Waits, NEW r \in Ranks
               PROVE  /\ \A model \in {"ref", "rm"} : HasLeft(model) => rank[r].on[model] = "cpu"
                      /\ Called("generate_sequences") => rank[r].engine = <<>> /\ AtHome(rank[r], r)
    BY DEF AtRest, AtHome
  <2>1. \A model \in {"ref", "rm"} : HasLeft(model) => rank[r].on[model] = "cpu"
    BY DEF HomeInv, Parked, Busy, HasLeft, Offloaded
  <2>2. Between(rank, driver.at)
    BY DEF IInv, Inv, Waits
  <2> QED BY <2>1, <2>2 DEF Between, Called, Rolled
<1> QED BY <1>1, Invariant, AtHomeAlways, PTL

\* The ranks that the driver takes its answer from.
From(m, d) == GlobalRank(0, d - 1, IF m = "generate_sequences" THEN 0 ELSE LastStage)
Answers(m) == [d \in 1..config.dp |-> rank[From(m, d)].out]

\* There is one for every data parallel rank.
LEMMA FromIs ==
  ASSUME Fits, NEW m, NEW d \in 1..config.dp
  PROVE  /\ From(m, d) \in Ranks /\ Tp(From(m, d)) = 0 /\ Dp(From(m, d)) = d - 1
         /\ Pp(From(m, d)) = IF m = "generate_sequences" THEN 0 ELSE LastStage
<1> DEFINE t == 0
           e == d - 1
           s == IF m = "generate_sequences" THEN 0 ELSE LastStage
<1>1. t \in 0..(config.tp - 1) /\ e \in 0..(config.dp - 1) /\ s \in Stages
  <2>1. config.tp \in Nat \ {0} /\ config.dp \in Nat \ {0}
    BY ConfigFields
  <2>2. s \in Stages
    BY StagesAre
  <2> QED BY <2>1, <2>2
<1> HIDE DEF t, e, s
<1>2. /\ GlobalRank(t, e, s) \in Ranks /\ Tp(GlobalRank(t, e, s)) = t
      /\ Dp(GlobalRank(t, e, s)) = e /\ Pp(GlobalRank(t, e, s)) = s
  BY <1>1, PlaceHasRank
<1> QED BY <1>2 DEF From, t, e, s

\* What the driver gets are their answers, one behind the other.
LEMMA CollectedIs ==
  ASSUME Fits, NEW m
  PROVE  Collected(m) = Joined(Answers(m), config.dp)
<1> DEFINE s == IF m = "generate_sequences" THEN 0 ELSE LastStage
           froms == {r \in Ranks : Tp(r) = 0 /\ Pp(r) = s}
           inOrder == [d \in 1..config.dp |-> CHOOSE r \in froms : Dp(r) = d - 1]
<1>1. ASSUME NEW d \in 1..config.dp PROVE inOrder[d] = From(m, d)
  <2> DEFINE o == From(m, d)
  <2>1. o \in froms /\ Dp(o) = d - 1
    BY FromIs
  <2>2. ASSUME NEW r \in froms, Dp(r) = d - 1 PROVE r = o
    <3>1. o \in Ranks /\ r \in Ranks /\ Tp(r) = Tp(o) /\ Dp(r) = Dp(o) /\ Pp(r) = Pp(o)
      BY <2>1, <2>2
    <3> HIDE DEF o
    <3> QED BY <3>1, OnePlace
  <2> HIDE DEF o, froms
  <2>3. (CHOOSE r \in froms : Dp(r) = d - 1) = o
    BY <2>1, <2>2
  <2> QED BY <2>3 DEF o
<1>2. [d \in 1..config.dp |-> rank[inOrder[d]].out] = [d \in 1..config.dp |-> Answers(m)[d]]
  <2> HIDE DEF inOrder
  <2>1. \A d \in 1..config.dp : rank[inOrder[d]].out = Answers(m)[d]
    BY <1>1 DEF Answers
  <2> QED BY <2>1
<1>3. Collected(m) = FlattenSeq([d \in 1..config.dp |-> rank[inOrder[d]].out])
  BY DEF Collected
<1> QED BY <1>2, <1>3 DEF Joined

\* The ranks at the end of a call, and at the same minibatch if it is an update.
Ended(m, k, D) ==
  /\ Fits /\ CallIs(m, driver.at)
  /\ \A r \in Ranks : rank[r].todo = <<>> /\ InPhase(m, rank[r], r, driver.at, k, D)
                      /\ DoneBy(m, rank[r]) = ScriptLen(m)

\* Where the driver collects, they are.
LEMMA CollectsEnded ==
  ASSUME IInv, Collect
  PROVE  \E k \in Nat, D \in Nat : Ended(Method, k, D)
<1>1. /\ Fits /\ Within(rank, driver.at) /\ \A r \in Ranks : rank[r].todo = <<>>
  BY DEF IInv, Inv, Collect, Waits
<1>2. driver.at \in 1..Len(config.calls) /\ Method = config.calls[driver.at]
  BY <1>1 DEF Within, Method
<1>3. CallIs(Method, driver.at)
  BY <1>1, <1>2, FirstCall DEF CallIs
<1>4. PICK k \in Nat, D \in Nat : \A r \in Ranks : InPhase(Method, rank[r], r, driver.at, k, D)
  BY <1>1, <1>2 DEF Within
<1> DEFINE m == Method
<1> HIDE DEF m
<1>5. \A r \in Ranks : InPhase(m, rank[r], r, driver.at, k, D) /\ CallIs(m, driver.at)
  BY <1>3, <1>4 DEF m
<1>6. ASSUME NEW r \in Ranks PROVE DoneBy(m, rank[r]) = ScriptLen(m)
  BY <1>1, <1>5, EndsIdle
<1>7. Ended(m, k, D)
  BY <1>1, <1>3, <1>5, <1>6 DEF Ended, m
<1> QED BY <1>7 DEF m

\* The model whose version a result has.
ResultModel(m) ==
  IF m \in {"generate_sequences", "compute_log_prob"} THEN "actor"
  ELSE IF m = "compute_values" THEN "critic" ELSE "rm"

\* What a rank of a rollout or a forward pass answers.
LEMMA PlainAnswer ==
  ASSUME IInv, NEW m, NEW k, NEW D, Ended(m, k, D), m # "init_model", ~ IsUpdate(m),
         NEW d \in 1..config.dp
  PROVE  rank[From(m, d)].out = Tagged(Run(Share * (d - 1), Share), VersionOf(ResultModel(m), 0))
<1> DEFINE o == From(m, d)
           x == rank[o]
           v == VersionOf(ResultModel(m), 0)
<1>0. Fits /\ m \in Methods /\ 0 \in Ranks
  <2>1. Fits /\ m \in Methods
    BY DEF Ended, CallIs
  <2>2. World \in Nat \ {0}
    BY <2>1, WorldNat
  <2> QED BY <2>1, <2>2 DEF Ranks
<1>1. /\ o \in Ranks /\ Dp(o) = d - 1 /\ DpCompute(o) = Run(Share * Dp(o), Share)
      /\ Pp(o) = IF m = "generate_sequences" THEN 0 ELSE LastStage
  BY <1>0, FromIs, RowsDealt
<1> HIDE DEF o
<1>2. InPhase(m, x, o, driver.at, k, D) /\ DoneBy(m, x) = ScriptLen(m)
  BY <1>1 DEF Ended
<1>3. \A model : VersionIn(model, x, o) = VersionOf(model, 0)
  BY <1>0, <1>1, OneVersion
<1> HIDE DEF x
<1>4. CASE m = "generate_sequences"
  <2>1. GenRank(x, o, ScriptLen(m)) /\ ScriptLen(m) = GenLen
    BY <1>2, <1>4, Phases DEF ScriptLen
  <2>2. GenLen \in Nat
    <3>1. config.pp \in Nat
      BY <1>0, ConfigFields
    <3> QED BY <3>1 DEF GenLen
  <2> HIDE DEF GenLen
  <2>3. GenLen - 1 <= GenLen
    BY <2>2
  <2>4. x.out = Tagged(DpCompute(o), x.buffer[Pp(o)].version)
    BY <2>1, <2>3 DEF GenRank
  <2>5. x.buffer[Pp(o)].version = VersionIn("actor", x, o) /\ ResultModel(m) = "actor"
    BY <1>4 DEF VersionIn, ResultModel
  <2>6. x.buffer[Pp(o)].version = v
    BY <1>3, <2>5
  <2> HIDE DEF v
  <2> QED BY <1>1, <2>4, <2>6 DEF x, o, v
<1>5. CASE IsForward(m)
  <2>1. FwdRank(m, x, o, ScriptLen(m)) /\ ScriptLen(m) = FwdLen(m)
    BY <1>2, <1>5, Phases DEF ScriptLen, IsForward, IsUpdate
  <2>2. Lead(m) + 2 <= FwdLen(m)
    BY <1>5, Offloadable
  <2>3. Pp(o) = LastStage
    BY <1>1, <1>5 DEF IsForward
  <2>4. x.out = Tagged(DpCompute(o), VersionIn(ModelOf(m), x, o))
    BY <2>1, <2>2, <2>3 DEF FwdRank
  <2>5. VersionIn(ModelOf(m), x, o) = VersionIn(ResultModel(m), x, o)
    BY <1>5 DEF VersionIn, ResultModel, ModelOf, IsForward
  <2>6. VersionIn(ModelOf(m), x, o) = v
    BY <1>3, <2>5
  <2> HIDE DEF v
  <2> QED BY <1>1, <2>4, <2>6 DEF x, o, v
<1> QED BY <1>0, <1>4, <1>5 DEF Methods, IsForward, IsUpdate

\* The rows in their places, with the version of the model.
LEMMA PlainAnswers ==
  ASSUME IInv, NEW m, NEW k, NEW D, Ended(m, k, D), m # "init_model", ~ IsUpdate(m)
  PROVE  Collected(m) = [i \in 1..config.rows |-> <<i, VersionOf(ResultModel(m), 0)>>]
<1> DEFINE v == VersionOf(ResultModel(m), 0)
           p == Answers(m)
           n == Share
           K == config.dp
           N == config.rows
<1>1. Fits
  BY DEF IInv
<1>2. n \in Nat /\ K \in Nat /\ N = n * K /\ N \in Nat
  <2>1. n \in Nat /\ K \in Nat /\ N = K * n /\ N \in Nat
    BY <1>1, Sizes, ConfigFields
  <2> HIDE DEF n, K, N
  <2> QED BY <2>1
<1>3. \A d \in 1..K : p[d] = Tagged(Run(n * (d - 1), n), v)
  <2>1. ASSUME NEW d \in 1..config.dp PROVE p[d] = rank[From(m, d)].out
    BY DEF Answers
  <2>2. ASSUME NEW d \in 1..config.dp PROVE rank[From(m, d)].out = Tagged(Run(n * (d - 1), n), v)
    BY PlainAnswer
  <2> HIDE DEF p, v
  <2> QED BY <2>1, <2>2
<1> HIDE DEF n, K, p, v
<1>4. \A d \in 1..K : 0 + n * (d - 1) = n * (d - 1)
  <2> SUFFICES ASSUME NEW d \in 1..K PROVE 0 + n * (d - 1) = n * (d - 1)
    OBVIOUS
  <2>1. n * (d - 1) \in Nat
    BY <1>2
  <2> DEFINE z == n * (d - 1)
  <2> HIDE DEF z
  <2>2. 0 + z = z
    BY <2>1 DEF z
  <2> QED BY <2>2 DEF z
<1>5. TaggedPieces(p, 0, n, K, N, v)
  BY <1>2, <1>3, <1>4 DEF TaggedPieces
<1>6. Joined(p, K) = Tagged(Run(0, N), v)
  BY <1>5, TaggedJoin
<1>7. Tagged(Run(0, N), v) = [i \in 1..N |-> <<i, v>>]
  <2>1. DOMAIN Run(0, N) = 1..N /\ \A j \in 1..N : Run(0, N)[j] = j
    BY <1>2 DEF Run
  <2> QED BY <2>1 DEF Tagged
<1>8. Collected(m) = Joined(p, K)
  BY <1>1, CollectedIs DEF p, K
<1> QED BY <1>6, <1>7, <1>8 DEF v

\* Where the p-th row of epoch e is among those of its rank.
OrderAt(D, e, p) == IF config.shuffle THEN ((p + D + e) % Share) + 1 ELSE p

\* An order has every row.
LEMMA OrderHasAll ==
  ASSUME Fits, NEW D \in Nat, NEW e \in Nat
  PROVE  /\ \A p \in 1..Share : OrderAt(D, e, p) \in 1..Share
         /\ \A c \in 1..Share : \E p \in 1..Share : OrderAt(D, e, p) = c
<1> DEFINE n == Share
           a == D + e
           w == a \div n
           b == a % n
<1>1. n \in Nat \ {0} /\ a \in Nat
  BY Sizes
<1>2. \A p \in 1..n : p + D + e = p + a /\ p + a \in Nat
  BY <1>1
<1> HIDE DEF n, a
<1>3. w \in Nat /\ b \in 0..(n - 1) /\ a = n * w + b
  BY <1>1, Division
<1> HIDE DEF w, b
<1>4. CASE ~ config.shuffle
  BY <1>4 DEF OrderAt, n
<1>5. CASE config.shuffle
  <2>1. \A p \in 1..n : OrderAt(D, e, p) = ((p + a) % n) + 1
    BY <1>2, <1>5 DEF OrderAt, n
  <2>2. ASSUME NEW p \in 1..n PROVE OrderAt(D, e, p) \in 1..n
    <3> DEFINE x == p + a
               f == x % n
    <3>1. x \in Nat
      BY <1>2
    <3> HIDE DEF x
    <3>2. f \in 0..(n - 1)
      BY <1>1, <3>1, Division
    <3> HIDE DEF f
    <3>3. f + 1 \in 1..n
      BY <1>1, <3>2
    <3> QED BY <2>1, <3>3 DEF f, x
  <2>3. ASSUME NEW c \in 1..n PROVE \E p \in 1..n : OrderAt(D, e, p) = c
    <3> DEFINE g == c - 1
               y == n * w
    <3>1. g \in 0..(n - 1) /\ y \in Nat /\ b \in Nat /\ g \in Nat /\ c = g + 1
      BY <1>1, <1>3
    <3> HIDE DEF g
    <3>2. CASE b < g
      <4> DEFINE p == g - b
      <4>1. p \in 1..n
        BY <1>1, <3>1, <3>2
      <4>2. p + a = n * w + g
        <5>1. a = y + b
          BY <1>3
        <5> HIDE DEF y
        <5>2. p + a = y + g
          BY <3>1, <5>1
        <5> QED BY <5>2 DEF y
      <4>3. (n * w + g) % n = g
        BY <1>1, <1>3, <3>1, DivisionIsUnique
      <4> HIDE DEF p
      <4>4. OrderAt(D, e, p) = g + 1
        BY <2>1, <4>1, <4>2, <4>3
      <4> QED BY <3>1, <4>1, <4>4
    <3>3. CASE ~ (b < g)
      <4> DEFINE p == (g + n) - b
                 u == w + 1
      <4>1. p \in 1..n
        BY <1>1, <1>3, <3>1, <3>3
      <4>2. u \in Nat /\ n * u = y + n
        BY <1>1, <1>3
      <4> HIDE DEF u
      <4>3. p + a = n * u + g
        <5> DEFINE z == n * u
        <5>1. a = y + b /\ z = y + n
          BY <1>3, <4>2
        <5> HIDE DEF y, z
        <5>2. p + a = z + g
          BY <1>1, <3>1, <5>1
        <5> QED BY <5>2 DEF z
      <4>4. (n * u + g) % n = g
        BY <1>1, <3>1, <4>2, DivisionIsUnique
      <4> HIDE DEF p
      <4>5. OrderAt(D, e, p) = g + 1
        BY <2>1, <4>1, <4>3, <4>4
      <4> QED BY <3>1, <4>1, <4>5
    <3> QED BY <3>2, <3>3
  <2> QED BY <2>2, <2>3 DEF n
<1> QED BY <1>4, <1>5

\* It does not have one twice, as it seems to be before the other.
LEMMA NotBefore ==
  ASSUME NEW n \in Nat \ {0}, NEW a \in Nat, NEW p \in 1..n, NEW q \in 1..n,
         (p + a) % n = (q + a) % n
  PROVE  (p + a) \div n = (q + a) \div n
<1> DEFINE x == p + a
           y == q + a
           u == x \div n
           w == y \div n
           f == x % n
           h == y % n
<1>1. x \in Nat /\ y \in Nat /\ x < y + n /\ y < x + n
  OBVIOUS
<1>2. f = h
  OBVIOUS
<1> HIDE DEF x, y
<1>3. /\ u \in Nat /\ f \in 0..(n - 1) /\ x = n * u + f
      /\ w \in Nat /\ h \in 0..(n - 1) /\ y = n * w + h
  BY <1>1, Division
<1> HIDE DEF u, w, f, h
<1>4. ASSUME u < w PROVE FALSE
  <2>1. n * u + n <= n * w
    BY <1>3, <1>4, ProductGrows
  <2> DEFINE k == n * u
             l == n * w
  <2>2. k \in Nat /\ l \in Nat /\ k + n <= l /\ x = k + f /\ y = l + f /\ f \in Nat
    BY <1>2, <1>3, <2>1
  <2> HIDE DEF k, l
  <2> QED BY <1>1, <2>2
<1>5. ASSUME w < u PROVE FALSE
  <2>1. n * w + n <= n * u
    BY <1>3, <1>5, ProductGrows
  <2> DEFINE k == n * u
             l == n * w
  <2>2. k \in Nat /\ l \in Nat /\ l + n <= k /\ x = k + f /\ y = l + f /\ f \in Nat
    BY <1>2, <1>3, <2>1
  <2> HIDE DEF k, l
  <2> QED BY <1>1, <2>2
<1>6. u = w
  BY <1>3, <1>4, <1>5
<1> QED BY <1>6 DEF u, w, x, y

\* So an order has no row twice.
LEMMA OrderHasOnce ==
  ASSUME Fits, NEW D \in Nat, NEW e \in Nat, NEW p \in 1..Share, NEW q \in 1..Share,
         OrderAt(D, e, p) = OrderAt(D, e, q)
  PROVE  p = q
<1> DEFINE n == Share
           a == D + e
<1>1. n \in Nat \ {0} /\ a \in Nat /\ p \in 1..n /\ q \in 1..n
  BY Sizes
<1>2. p + D + e = p + a /\ q + D + e = q + a
  BY <1>1
<1> HIDE DEF n, a
<1>3. CASE ~ config.shuffle
  BY <1>3 DEF OrderAt
<1>4. CASE config.shuffle
  <2> DEFINE x == p + a
             y == q + a
             f == x % n
             h == y % n
  <2>1. OrderAt(D, e, p) = f + 1 /\ OrderAt(D, e, q) = h + 1
    BY <1>2, <1>4 DEF OrderAt, n
  <2>2. x \in Nat /\ y \in Nat
    BY <1>1
  <2> HIDE DEF x, y
  <2>3. f \in 0..(n - 1) /\ h \in 0..(n - 1) /\ x = n * (x \div n) + f /\ y = n * (y \div n) + h
    BY <1>1, <2>2, Division
  <2> HIDE DEF f, h
  <2>4. f = h
    <3>1. f \in 0..(n - 1) /\ h \in 0..(n - 1)
      BY <2>3
    <3>2. f \in Nat /\ h \in Nat
      BY <1>1, <3>1
    <3>3. f + 1 = h + 1
      BY <2>1
    <3> QED BY <3>2, <3>3
  <2>5. x \div n = y \div n
    BY <1>1, <2>4, NotBefore DEF x, y, f, h
  <2>6. x = y
    BY <2>3, <2>4, <2>5
  <2> QED BY <1>1, <2>6 DEF x, y
<1> QED BY <1>3, <1>4

\* The p-th row of epoch e.
LEMMA RowAt ==
  ASSUME Fits, NEW r \in Ranks, NEW D \in Nat, NEW e \in Nat \ {0}, NEW p \in 1..Share
  PROVE  Row(r, D, Share * (e - 1) + p) = Share * Dp(r) + OrderAt(D, e, p)
<1> DEFINE n == Share
           g == e - 1
           t == p - 1
           j == n * g + p
<1>1. n \in Nat \ {0} /\ g \in Nat /\ t \in 0..(n - 1) /\ e \in Nat /\ p = t + 1 /\ g + 1 = e
  BY Sizes
<1> HIDE DEF n, g, t
<1>2. (n * g + t) \div n = g /\ (n * g + t) % n = t
  BY <1>1, DivisionIsUnique
<1>3. j - 1 = n * g + t
  <2> DEFINE z == n * g
  <2>1. z \in Nat
    BY <1>1
  <2> HIDE DEF z
  <2>2. (z + p) - 1 = z + t
    BY <1>1, <2>1
  <2> QED BY <2>2 DEF z
<1> HIDE DEF j
<1>4. Row(r, D, j) = Epoch(r, D, g + 1)[t + 1]
  BY <1>2, <1>3 DEF Row, n
<1>5. Epoch(r, D, e)[p] = Share * Dp(r) + OrderAt(D, e, p)
  <2> DEFINE a == Share * Dp(r)
             E == Epoch(r, D, e)
  <2>1. \A i \in 1..Share : E[i] = a + (IF config.shuffle THEN ((i + D + e) % Share) + 1 ELSE i)
    <3>1. e \in Nat
      OBVIOUS
    <3> QED BY <3>1, EpochShape
  <2> HIDE DEF a, E
  <2>2. E[p] = a + OrderAt(D, e, p)
    BY <2>1 DEF OrderAt
  <2> QED BY <2>2 DEF a, E
<1>6. Row(r, D, j) = Share * Dp(r) + OrderAt(D, e, p)
  BY <1>1, <1>4, <1>5
<1> QED BY <1>6 DEF j, g, n

\* Where the answers of K ranks have what the d-th of them trained on as p-th in epoch e, with
\* E epochs of n rows.
Spot(n, E, d, e, p) == (n * E) * (d - 1) + n * (e - 1) + p
Spots(n, E, K) == n \in Nat \ {0} /\ E \in Nat \ {0} /\ K \in Nat

\* A spot is one of its rank's, and one of all.
LEMMA SpotIn ==
  ASSUME NEW n, NEW E, NEW K, Spots(n, E, K), NEW d \in 1..K, NEW e \in 1..E, NEW p \in 1..n
  PROVE  /\ n * (e - 1) + p \in 1..(n * E)
         /\ Spot(n, E, d, e, p) = (n * E) * (d - 1) + (n * (e - 1) + p)
         /\ Spot(n, E, d, e, p) \in 1..((n * E) * K)
<1>1. n \in Nat \ {0} /\ E \in Nat \ {0} /\ K \in Nat
  BY DEF Spots
<1> DEFINE L == n * E
           y == n * (e - 1)
           z == L * (d - 1)
           j == y + p
<1>2. L \in Nat /\ y \in Nat /\ n * (e - 1) + p \in 1..(n * E)
  BY <1>1, Position
<1>3. Spot(n, E, d, e, p) = z + y + p
  BY DEF Spot
<1> HIDE DEF L, y
<1>4. j \in 1..L
  BY <1>2 DEF y, L
<1> HIDE DEF j
<1>5. L * (d - 1) \in Nat /\ L * (d - 1) + j \in 1..(L * K)
  BY <1>1, <1>2, <1>4, Position
<1>6. z \in Nat /\ z + j \in 1..(L * K)
  BY <1>5
<1> HIDE DEF z
<1>7. z + y + p = z + (y + p)
  BY <1>2, <1>6
<1>8. Spot(n, E, d, e, p) = z + j
  BY <1>3, <1>7 DEF j
<1> QED BY <1>2, <1>6, <1>8 DEF z, j, y, L

\* The epoch is found from the spot.
LEMMA SpotEpoch ==
  ASSUME NEW n, NEW E, NEW K, Spots(n, E, K), NEW d \in 1..K, NEW e \in 1..E, NEW p \in 1..n
  PROVE  ((Spot(n, E, d, e, p) - 1) \div n) % E = e - 1
<1> DEFINE s == d - 1
           g == e - 1
           t == p - 1
           r == Spot(n, E, d, e, p) - 1
           y == n * g
           z == (n * E) * s
<1>1. n \in Nat \ {0} /\ E \in Nat \ {0} /\ s \in Nat /\ g \in 0..(E - 1) /\ t \in 0..(n - 1) /\ g \in Nat
  BY DEF Spots
<1>2. y \in Nat /\ z \in Nat
  <2> HIDE DEF s, g
  <2> QED BY <1>1
<1>3. Spot(n, E, d, e, p) = z + y + p
  BY DEF Spot
<1> HIDE DEF y, z
<1>4. r = z + y + t
  BY <1>2, <1>3
<1> HIDE DEF s, g, t, r
<1>5. InGrid(n, E, s, g, t, r)
  BY <1>1, <1>4 DEF InGrid, y, z
<1>6. (r \div n) % E = g
  BY <1>5, GridPlace
<1> QED BY <1>6 DEF r, g

\* Every place among the answers is a spot.
LEMMA SpotFound ==
  ASSUME NEW n, NEW E, NEW K, Spots(n, E, K), NEW j \in 1..((n * E) * K)
  PROVE  \E d \in 1..K, e \in 1..E, p \in 1..n : j = Spot(n, E, d, e, p)
<1> DEFINE L == n * E
           r == j - 1
           s == r \div L
           g == (r \div n) % E
           t == r % n
<1>1. n \in Nat \ {0} /\ E \in Nat \ {0} /\ K \in Nat /\ L \in Nat \ {0}
  BY DEF Spots
<1>2. r \in Nat /\ r < L * K /\ j = r + 1
  <2>1. L * K \in Nat
    <3> HIDE DEF L
    <3> QED BY <1>1
  <2> DEFINE x == L * K
  <2>2. j \in 1..x /\ x \in Nat
    BY <2>1
  <2> HIDE DEF x, L
  <2>3. r \in Nat /\ r < x /\ j = r + 1
    BY <2>2
  <2> QED BY <2>3 DEF x
<1> HIDE DEF r
<1>3. s \in Nat /\ g \in 0..(E - 1) /\ t \in 0..(n - 1) /\ r = L * s + n * g + t
  BY <1>1, <1>2, GridHasPlace
<1> HIDE DEF s, g, t
<1>4. g \in Nat /\ t \in Nat /\ g + 1 \in 1..E /\ t + 1 \in 1..n
  BY <1>1, <1>3
<1>5. s < K
  <2> SUFFICES ASSUME K <= s PROVE FALSE
    BY <1>1, <1>3
  <2> DEFINE x == L * s
             y == n * g
             z == L * K
  <2>1. x \in Nat /\ y \in Nat /\ z \in Nat
    <3> HIDE DEF L
    <3> QED BY <1>1, <1>3, <1>4
  <2>2. z <= x
    <3> HIDE DEF L
    <3>1. K = s \/ K < s
      BY <1>1, <1>3
    <3>2. CASE K < s
      <4>1. L * K + L <= L * s
        BY <1>1, <1>3, <3>2, ProductGrows
      <4> DEFINE a == L * K
                 b == L * s
      <4>2. a \in Nat /\ b \in Nat /\ a + L <= b /\ L \in Nat
        BY <1>1, <2>1, <4>1
      <4> HIDE DEF a, b
      <4>3. a <= b
        BY <4>2
      <4> QED BY <4>3 DEF a, b
    <3>3. CASE K = s
      BY <2>1, <3>3
    <3> QED BY <3>1, <3>2, <3>3
  <2>3. r = x + y + t /\ r < z
    BY <1>2, <1>3
  <2> HIDE DEF x, y, z
  <2> QED BY <1>4, <2>1, <2>2, <2>3
<1>6. j = Spot(n, E, s + 1, g + 1, t + 1)
  <2> DEFINE d == s + 1
             e == g + 1
             x == L * s
             y == n * g
  <2>1. d - 1 = s /\ e - 1 = g
    BY <1>3, <1>4
  <2> HIDE DEF d, e
  <2>2. Spot(n, E, d, e, t + 1) = x + y + (t + 1)
    BY <2>1 DEF Spot
  <2>3. x \in Nat /\ y \in Nat
    <3> HIDE DEF L
    <3> QED BY <1>1, <1>3, <1>4
  <2>4. j = (x + y + t) + 1
    BY <1>2, <1>3
  <2> HIDE DEF x, y
  <2>5. x + y + (t + 1) = (x + y + t) + 1
    BY <1>4, <2>3
  <2> QED BY <2>2, <2>4, <2>5 DEF d, e
<1>7. s + 1 \in 1..K
  BY <1>1, <1>3, <1>5
<1> QED BY <1>4, <1>6, <1>7

\* What even pieces have when they are put together.
LEMMA EvenAt ==
  ASSUME NEW X, NEW p, NEW n, NEW L, EvenPieces(X, p, n, L)
  PROVE  \A q \in 1..n : \A j \in 1..L : Joined(p, n)[L * (q - 1) + j] = p[q][j]
<1> DEFINE t == Joined(p, n)
<1>1. /\ t \in Seq(X) /\ Len(t) = L * n
      /\ \A q \in 1..n : Part(t, L * (q - 1), L * q) = p[q]
  BY PiecesComeBack
<1>2. L \in Nat /\ n \in Nat
  BY DEF EvenPieces, Pieces
<1> HIDE DEF t
<1> SUFFICES ASSUME NEW q \in 1..n, NEW j \in 1..L PROVE t[L * (q - 1) + j] = p[q][j]
  BY DEF t
<1> DEFINE x == L * (q - 1)
           y == L * q
<1>3. x \in Nat /\ y = x + L
  BY <1>2
<1>4. p[q] = SubSeq(t, x + 1, y)
  BY <1>1 DEF Part
<1>5. y <= Len(t)
  <2>1. L * (q - 1) + L \in 1..(L * n)
    <3>1. L \in 1..L
      BY <1>2
    <3> QED BY <1>2, <3>1, Position
  <2>2. y \in 1..Len(t)
    BY <1>1, <1>3, <2>1
  <2> HIDE DEF x, y
  <2> QED BY <1>1, <2>2
<1> HIDE DEF x, y
<1>6. SubSeq(t, x + 1, y)[j] = t[x + j]
  BY <1>1, <1>2, <1>3, <1>5
<1> QED BY <1>4, <1>6 DEF x

\* What a rank has trained on after L rows.
TrainedOn(s, L, r, D) ==
  /\ s \in Seq(Nat \X Nat) /\ Len(s) = L
  /\ \A j \in 1..L : s[j][1] = Row(r, D, j)

\* The minibatches of all epochs are all the rows of all epochs.
LEMMA AllBlocks ==
  ASSUME Fits
  PROVE  config.mini * Blocks = Share * config.epochs /\ Blocks \in Nat /\ config.epochs \in Nat
<1>1. /\ config.mini \in Nat \ {0} /\ config.epochs \in Nat
      /\ Minibatches \in Nat \ {0} /\ Share = config.mini * Minibatches
  BY ConfigFields, Sizes
<1> DEFINE a == config.mini
           b == Minibatches
           c == config.epochs
<1>2. Blocks = b * c
  BY DEF Blocks
<1> HIDE DEF a, b, c
<1>3. a \in Nat /\ b \in Nat /\ c \in Nat
  BY <1>1 DEF a, b, c
<1>4. a * (b * c) = (a * b) * c /\ b * c \in Nat
  BY <1>3
<1> QED BY <1>1, <1>2, <1>4 DEF a, b, c

\* A rank of an update answers with all it has trained on.
LEMMA UpdateAnswer ==
  ASSUME IInv, NEW m, NEW k \in Nat, NEW D \in Nat, Ended(m, k, D), IsUpdate(m),
         NEW d \in 1..config.dp
  PROVE  TrainedOn(rank[From(m, d)].out, Share * config.epochs, From(m, d), D)
<1> DEFINE o == From(m, d)
           x == rank[o]
           b == Blocks
<1>1. Fits /\ o \in Ranks
  BY FromIs DEF IInv
<1> HIDE DEF o
<1>2. InPhase(m, x, o, driver.at, k, D) /\ DoneBy(m, x) = ScriptLen(m)
  BY <1>1 DEF Ended
<1> HIDE DEF x
<1>3. ScriptLen(m) = 3 * b
  BY DEF ScriptLen, IsUpdate
<1>4. UpdRank(x, o, 3 * b, k, D)
  BY <1>2, <1>3, Phases
<1>5. b \in Nat /\ config.mini * b = Share * config.epochs
  BY <1>1, AllBlocks
<1> HIDE DEF b
<1>6. 3 * b \in {3 * k, 3 * k + 1, 3 * k + 2} /\ UpdOut(x, o, k, D)
  BY <1>4, UpdRankIs
<1>7. b = k
  BY <1>5, <1>6
<1>8. TrainedOn(x.out, config.mini * k, o, D)
  BY <1>6 DEF UpdOut, TrainedOn
<1>9. TrainedOn(x.out, Share * config.epochs, o, D)
  BY <1>5, <1>7, <1>8
<1> QED BY <1>9 DEF x, o

\* What the driver gets of an update: every rank's rows, epoch by epoch.
AllTrainedOn(s, n, E, K, D) ==
  /\ s \in Seq(Nat \X Nat) /\ Len(s) = (n * E) * K
  /\ \A d \in 1..K : \A e \in 1..E : \A p \in 1..n :
       s[Spot(n, E, d, e, p)][1] = n * (d - 1) + OrderAt(D, e, p)

\* It gets this.
LEMMA UpdateAnswers ==
  ASSUME IInv, NEW m, NEW k \in Nat, NEW D \in Nat, Ended(m, k, D), IsUpdate(m)
  PROVE  AllTrainedOn(Collected(m), Share, config.epochs, config.dp, D)
<1> DEFINE n == Share
           E == config.epochs
           K == config.dp
           p == Answers(m)
           L == n * E
           X == Nat \X Nat
<1>1. Fits /\ Collected(m) = Joined(p, K) /\ n \in Nat \ {0} /\ E \in Nat /\ K \in Nat
  <2>1. Fits
    BY DEF IInv
  <2> QED BY <2>1, CollectedIs, Sizes, ConfigFields
<1>2. ASSUME NEW d \in 1..K PROVE TrainedOn(p[d], L, From(m, d), D)
  <2>1. p[d] = rank[From(m, d)].out
    BY DEF Answers
  <2>2. TrainedOn(rank[From(m, d)].out, L, From(m, d), D)
    BY UpdateAnswer
  <2> HIDE DEF p, L
  <2> QED BY <2>1, <2>2
<1>3. L \in Nat
  <2> HIDE DEF n, E
  <2> QED BY <1>1
<1> HIDE DEF p, L, K
<1>4. EvenPieces(X, p, K, L)
  BY <1>1, <1>2, <1>3 DEF EvenPieces, Pieces, TrainedOn
<1> HIDE DEF X
<1>5. Joined(p, K) \in Seq(X) /\ Len(Joined(p, K)) = L * K
  BY <1>4, PiecesComeBack
<1>6. \A d \in 1..K : \A j \in 1..L : Joined(p, K)[L * (d - 1) + j] = p[d][j]
  BY <1>4, EvenAt
<1>7. ASSUME NEW d \in 1..K, NEW e \in 1..E, NEW i \in 1..n
      PROVE  Joined(p, K)[Spot(n, E, d, e, i)][1] = n * (d - 1) + OrderAt(D, e, i)
  <2> DEFINE o == From(m, d)
             j == n * (e - 1) + i
  <2>0. E # 0 /\ e \in Nat \ {0}
    BY <1>1
  <2>1. Spots(n, E, K)
    BY <1>1, <2>0 DEF Spots
  <2>2. j \in 1..L /\ Spot(n, E, d, e, i) = L * (d - 1) + j
    <3> HIDE DEF n, E
    <3> QED BY <2>1, SpotIn DEF L
  <2>3. Joined(p, K)[Spot(n, E, d, e, i)] = p[d][j]
    <3> HIDE DEF n, E, j
    <3> QED BY <1>6, <2>2
  <2>4. p[d][j][1] = Row(o, D, j)
    <3> HIDE DEF n, E, j, o
    <3>1. TrainedOn(p[d], L, o, D)
      BY <1>2 DEF o
    <3> QED BY <2>2, <3>1 DEF TrainedOn
  <2>5. o \in Ranks /\ Dp(o) = d - 1
    BY <1>1, FromIs DEF K
  <2> HIDE DEF o
  <2>6. Row(o, D, j) = n * Dp(o) + OrderAt(D, e, i)
    BY <1>1, <2>0, <2>5, RowAt
  <2> QED BY <2>3, <2>4, <2>5, <2>6
<1> QED BY <1>1, <1>5, <1>7 DEF AllTrainedOn, L, K, X

\* N rows are dealt to K ranks, and row i is one of one of them.
Hands(n, K, N) == n \in Nat \ {0} /\ K \in Nat \ {0} /\ N = n * K
InHand(n, K, i) == \E d \in 1..K, c \in 1..n : i = n * (d - 1) + c

\* A row has its place among those of one data parallel rank.
LEMMA RowHasPlace ==
  ASSUME NEW n, NEW K, NEW N, Hands(n, K, N), NEW i \in 1..N
  PROVE  InHand(n, K, i)
<1>0. n \in Nat \ {0} /\ K \in Nat \ {0} /\ N = n * K
  BY DEF Hands
<1> DEFINE x == i - 1
           q == x \div n
           r == x % n
<1>1. N \in Nat /\ i \in 1..N
  <2>1. n * K \in Nat
    BY <1>0
  <2> QED BY <1>0, <2>1
<1>2. x \in Nat /\ x < N /\ i = x + 1
  BY <1>1
<1> HIDE DEF x
<1>3. q \in Nat /\ r \in 0..(n - 1) /\ x = n * q + r
  BY <1>0, <1>2, Division
<1> HIDE DEF q, r
<1>4. q < K
  <2> SUFFICES ASSUME K <= q PROVE FALSE
    BY <1>0, <1>3
  <2> DEFINE y == n * q
  <2>1. N <= y
    <3>1. CASE K = q
      BY <1>0, <1>1, <3>1
    <3>2. CASE K < q
      <4>1. n * K + n <= n * q
        BY <1>0, <1>3, <3>2, ProductGrows
      <4>2. N + n <= y /\ y \in Nat
        BY <1>0, <1>3, <4>1
      <4> HIDE DEF y
      <4> QED BY <1>0, <1>1, <4>2
    <3> QED BY <1>0, <1>3, <3>1, <3>2
  <2>2. y \in Nat /\ x = y + r
    BY <1>0, <1>3
  <2> HIDE DEF y
  <2> QED BY <1>0, <1>1, <1>2, <1>3, <2>1, <2>2
<1>5. q + 1 \in 1..K /\ r + 1 \in 1..n
  BY <1>0, <1>3, <1>4
<1>6. (q + 1) - 1 = q /\ i = n * q + (r + 1)
  <2> DEFINE y == n * q
  <2>1. y \in Nat /\ x = y + r /\ i = x + 1
    BY <1>0, <1>2, <1>3
  <2> HIDE DEF y
  <2>2. i = y + (r + 1) /\ (q + 1) - 1 = q
    BY <1>3, <2>1
  <2> QED BY <2>2 DEF y
<1> DEFINE d == q + 1
<1>7. d \in 1..K /\ d - 1 = q
  BY <1>5, <1>6
<1> HIDE DEF d
<1> QED BY <1>5, <1>6, <1>7 DEF InHand

\* It has only one.
LEMMA OneRowPlace ==
  ASSUME NEW n \in Nat \ {0}, NEW K \in Nat \ {0}, NEW d \in 1..K, NEW g \in 1..K,
         NEW b \in 1..n, NEW c \in 1..n, n * (d - 1) + b = n * (g - 1) + c
  PROVE  d = g /\ b = c
<1> DEFINE q == d - 1
           w == g - 1
           s == b - 1
           t == c - 1
           x == n * q
           y == n * w
<1>1. q \in Nat /\ w \in Nat /\ s \in 0..(n - 1) /\ t \in 0..(n - 1) /\ s \in Nat /\ t \in Nat
      /\ d = q + 1 /\ g = w + 1 /\ b = s + 1 /\ c = t + 1
  OBVIOUS
<1>2. x + b = y + c
  OBVIOUS
<1> HIDE DEF q, w, s, t
<1>3. x \in Nat /\ y \in Nat
  BY <1>1
<1> HIDE DEF x, y
<1>4. x + s = y + t
  BY <1>1, <1>2, <1>3
<1>5. (n * q + s) \div n = q /\ (n * q + s) % n = s
  BY <1>1, DivisionIsUnique
<1>6. (n * w + t) \div n = w /\ (n * w + t) % n = t
  BY <1>1, DivisionIsUnique
<1>7. n * q + s = n * w + t
  BY <1>4 DEF x, y
<1>8. q = w /\ s = t
  BY <1>5, <1>6, <1>7
<1> QED BY <1>1, <1>8

\* Where row i is among the answers.
SpotsOf(got, i) == {j \in DOMAIN got : got[j][1] = i}

\* Row i is at one spot of every epoch, and nowhere else.
LEMMA EveryEpochOnce ==
  ASSUME Fits, NEW D \in Nat, NEW got, AllTrainedOn(got, Share, config.epochs, config.dp, D),
         NEW i \in 1..config.rows
  PROVE  Cardinality(SpotsOf(got, i)) = config.epochs
<1> DEFINE n == Share
           E == config.epochs
           K == config.dp
           S == {j \in DOMAIN got : got[j][1] = i}
<1>1. n \in Nat \ {0} /\ E \in Nat /\ K \in Nat \ {0} /\ config.rows = K * n
  BY Sizes, ConfigFields
<1>2. /\ got \in Seq(Nat \X Nat) /\ Len(got) = (n * E) * K
      /\ \A d \in 1..K : \A e \in 1..E : \A p \in 1..n :
           got[Spot(n, E, d, e, p)][1] = n * (d - 1) + OrderAt(D, e, p)
  BY DEF AllTrainedOn
<1>3. DOMAIN got = 1..((n * E) * K)
  BY <1>2
<1>4. \A e \in 1..E : /\ \A p \in 1..n : OrderAt(D, e, p) \in 1..n
                      /\ \A c \in 1..n : \E p \in 1..n : OrderAt(D, e, p) = c
  <2>1. \A e \in 1..E : e \in Nat
    BY <1>1
  <2> QED BY <2>1, OrderHasAll
<1>5. \A e \in 1..E : \A p, q \in 1..n : OrderAt(D, e, p) = OrderAt(D, e, q) => p = q
  <2>1. \A e \in 1..E : e \in Nat
    BY <1>1
  <2> QED BY <2>1, OrderHasOnce
<1>6. \E d \in 1..K, c \in 1..n : i = n * (d - 1) + c
  <2> DEFINE N == config.rows
  <2>1. N = n * K /\ i \in 1..N
    BY <1>1
  <2> HIDE DEF n, K, N
  <2>2. Hands(n, K, N)
    BY <1>1, <2>1 DEF Hands
  <2>3. InHand(n, K, i)
    BY <2>1, <2>2, RowHasPlace
  <2> QED BY <2>3 DEF InHand
<1> HIDE DEF n, E, K
<1>7. PICK d \in 1..K, c \in 1..n : i = n * (d - 1) + c
  BY <1>6
<1> DEFINE P(e) == CHOOSE p \in 1..n : OrderAt(D, e, p) = c
           f == [e \in 1..E |-> Spot(n, E, d, e, P(e))]
<1>8. \A e \in 1..E : P(e) \in 1..n /\ OrderAt(D, e, P(e)) = c
  BY <1>4
<1>9. ASSUME NEW e \in 1..E PROVE Spots(n, E, K)
  BY <1>1 DEF Spots
<1>10. \A e \in 1..E : f[e] = Spot(n, E, d, e, P(e))
  OBVIOUS
<1> HIDE DEF P, f
<1>11. ASSUME NEW e \in 1..E PROVE f[e] \in S
  <2>1. Spot(n, E, d, e, P(e)) \in 1..((n * E) * K)
    BY <1>8, <1>9, SpotIn
  <2>2. got[Spot(n, E, d, e, P(e))][1] = i
    BY <1>2, <1>7, <1>8
  <2> QED BY <1>3, <1>10, <2>1, <2>2
<1>12. ASSUME NEW j \in S PROVE \E e \in 1..E : f[e] = j
  <2>1. j \in 1..((n * E) * K) /\ got[j][1] = i
    BY <1>3
  <2>2. Spots(n, E, K)
    <3>1. E # 0
      <4> SUFFICES ASSUME E = 0 PROVE FALSE
        OBVIOUS
      <4>1. (n * E) * K = 0
        BY <1>1
      <4> DEFINE z == (n * E) * K
      <4>2. j \in 1..z /\ z = 0
        BY <2>1, <4>1
      <4> HIDE DEF z
      <4> QED BY <4>2
    <3> QED BY <1>1, <3>1 DEF Spots
  <2>3. PICK g \in 1..K, e \in 1..E, p \in 1..n : j = Spot(n, E, g, e, p)
    BY <2>1, <2>2, SpotFound
  <2> DEFINE b == OrderAt(D, e, p)
  <2>4. b \in 1..n /\ got[j][1] = n * (g - 1) + b
    BY <1>2, <1>4, <2>3
  <2> HIDE DEF b
  <2>5. n * (g - 1) + b = n * (d - 1) + c
    BY <1>7, <2>1, <2>4
  <2>6. g = d /\ b = c
    BY <1>1, <2>4, <2>5, OneRowPlace
  <2>7. p = P(e)
    BY <1>5, <1>8, <2>6 DEF b
  <2> QED BY <1>10, <2>3, <2>6, <2>7
<1>13. ASSUME NEW e \in 1..E, NEW g \in 1..E, f[e] = f[g] PROVE e = g
  <2> DEFINE F(h) == ((Spot(n, E, d, h, P(h)) - 1) \div n) % E
  <2>1. F(e) = e - 1 /\ F(g) = g - 1
    <3>1. P(e) \in 1..n /\ P(g) \in 1..n /\ Spots(n, E, K)
      BY <1>8, <1>9
    <3> QED BY <3>1, SpotEpoch
  <2>2. F(e) = F(g)
    BY <1>10, <1>13
  <2> HIDE DEF F
  <2> QED BY <2>1, <2>2
<1> HIDE DEF S
<1>14. Cardinality(S) = E
  <2>1. \A e \in 1..E : f[e] \in S
    BY <1>11
  <2>2. \A j \in S : \E e \in 1..E : f[e] = j
    BY <1>12
  <2>3. \A e, g \in 1..E : f[e] = f[g] => e = g
    BY <1>13
  <2>4. E \in Nat
    BY <1>1
  <2> QED BY <2>1, <2>2, <2>3, <2>4, CountedBy, Zenon
<1> QED BY <1>14 DEF S, E, SpotsOf

\* An update trains on every row once an epoch.
LEMMA UpdateCounts ==
  ASSUME Fits, NEW D \in Nat, NEW got, AllTrainedOn(got, Share, config.epochs, config.dp, D)
  PROVE  LET rows == [i \in DOMAIN got |-> got[i][1]]
             times(i) == Cardinality({j \in DOMAIN rows : rows[j] = i})
         IN  /\ \A i \in 1..config.rows : times(i) = config.epochs
             /\ Len(rows) = config.rows * config.epochs
<1> DEFINE rows == [i \in DOMAIN got |-> got[i][1]]
           L == (Share * config.epochs) * config.dp
<1>1. DOMAIN got = 1..L /\ L \in Nat
  <2>1. got \in Seq(Nat \X Nat) /\ Len(got) = L
    BY DEF AllTrainedOn
  <2> HIDE DEF L
  <2> QED BY <2>1
<1>2. ASSUME NEW i \in 1..config.rows
      PROVE  Cardinality({j \in DOMAIN rows : rows[j] = i}) = config.epochs
  <2>1. {j \in DOMAIN rows : rows[j] = i} = SpotsOf(got, i)
    BY DEF SpotsOf
  <2> HIDE DEF rows
  <2> QED BY <2>1, EveryEpochOnce
<1>3. Len(rows) = L
  <2> HIDE DEF L
  <2> QED BY <1>1
<1>4. L = config.rows * config.epochs
  <2> DEFINE a == Share
             b == config.epochs
             c == config.dp
  <2>1. a \in Nat /\ b \in Nat /\ c \in Nat /\ config.rows = c * a
    BY Sizes, ConfigFields
  <2>2. L = (a * b) * c
    OBVIOUS
  <2> HIDE DEF a, b, c, L
  <2>3. (a * b) * c = (c * a) * b
    BY <2>1
  <2> QED BY <2>1, <2>2, <2>3 DEF b
<1> QED BY <1>2, <1>3, <1>4

\* What is right for the driver to get from a call.
RightFor(m, got, sizes, version) ==
  LET rows == [i \in DOMAIN got |-> got[i][1]]
      times(i) == Cardinality({j \in DOMAIN rows : rows[j] = i})
  IN  IF IsUpdate(m)
      THEN /\ \A i \in 1..sizes.rows : times(i) = sizes.epochs
           /\ Len(rows) = sizes.rows * sizes.epochs
      ELSE got = [i \in 1..sizes.rows |-> <<i, version>>]

\* The call that the driver has behind it, and the version its model has.
LastMethod == config.calls[driver.at - 1]
LastVersion == VersionOf(ResultModel(LastMethod), 0)

\* The property of the next state is about this call.
LEMMA RightNext ==
  ASSUME driver'.at > 2 => RightFor(LastMethod', driver'.got, config', LastVersion')
  PROVE  ResultsAreRight'
<1>1. ~ driver'.waits /\ driver'.at > 2 => RightFor(LastMethod', driver'.got, config', LastVersion')
  OBVIOUS
<1> QED BY <1>1 DEF ResultsAreRight, RightFor, LastMethod, LastVersion, ResultModel, Waits, IsUpdate

\* What is collected is right.
LEMMA CollectedIsRight ==
  ASSUME IInv, NEW m, NEW k \in Nat, NEW D \in Nat, Ended(m, k, D), m # "init_model"
  PROVE  RightFor(m, Collected(m), config, VersionOf(ResultModel(m), 0))
<1> DEFINE got == Collected(m)
           v == VersionOf(ResultModel(m), 0)
<1>1. CASE IsUpdate(m)
  <2>1. Fits /\ AllTrainedOn(got, Share, config.epochs, config.dp, D)
    BY <1>1, UpdateAnswers DEF IInv
  <2> HIDE DEF got, v
  <2>2. LET rows == [i \in DOMAIN got |-> got[i][1]]
            times(i) == Cardinality({j \in DOMAIN rows : rows[j] = i})
        IN  /\ \A i \in 1..config.rows : times(i) = config.epochs
            /\ Len(rows) = config.rows * config.epochs
    BY <2>1, UpdateCounts
  <2>3. RightFor(m, got, config, v)
    BY <1>1, <2>2 DEF RightFor
  <2> QED BY <2>3 DEF got, v
<1>2. CASE ~ IsUpdate(m)
  <2>1. got = [i \in 1..config.rows |-> <<i, v>>]
    BY <1>2, PlainAnswers
  <2> HIDE DEF got, v
  <2>2. RightFor(m, got, config, v)
    BY <1>2, <2>1 DEF RightFor
  <2> QED BY <2>2 DEF got, v
<1> QED BY <1>1, <1>2

\* The driver has the right result when it goes on.
LEMMA CollectGives ==
  ASSUME IInv, Collect
  PROVE  ResultsAreRight'
<1> DEFINE m == Method
           got == Collected(m)
           v == VersionOf(ResultModel(m), 0)
<1>1. /\ config' = config /\ rank' = rank /\ Fits
      /\ driver'.at = driver.at + 1 /\ driver'.got = got
      /\ driver.at \in 1..Len(config.calls)
  <2>1. driver = [at |-> driver.at, waits |-> driver.waits, got |-> driver.got]
    BY DEF IInv, Inv
  <2>2. Fits /\ driver.at \in 1..Len(config.calls)
    BY DEF IInv, Inv, Within, Collect, Waits
  <2>3. driver' = [driver EXCEPT !.waits = FALSE, !.at = driver.at + 1, !.got = got]
    BY DEF Collect
  <2> HIDE DEF m, got
  <2>4. driver'.at = driver.at + 1 /\ driver'.got = got
    BY <2>1, <2>3
  <2> QED BY <2>2, <2>4 DEF Collect
<1>2. driver.at \in Nat /\ (driver.at > 1 => m # "init_model")
  BY <1>1, FirstCall DEF Method
<1>3. driver'.at - 1 = driver.at
  BY <1>1, <1>2
<1>4. LastMethod' = m
  BY <1>1, <1>3 DEF LastMethod, Method
<1>5. LastVersion' = v
  BY <1>1, <1>4 DEF LastVersion, VersionOf, Own, Pp, ResultModel
<1> SUFFICES ASSUME driver'.at > 2 PROVE RightFor(LastMethod', driver'.got, config', LastVersion')
  BY RightNext
<1>6. m # "init_model"
  BY <1>1, <1>2
<1>7. PICK k \in Nat, D \in Nat : Ended(m, k, D)
  BY CollectsEnded
<1> HIDE DEF m
<1>8. RightFor(m, got, config, v)
  BY <1>6, <1>7, CollectedIsRight
<1> HIDE DEF got, v
<1> QED BY <1>1, <1>4, <1>5, <1>8

\* A step in which the driver waits afterwards has nothing to show.
LEMMA WaitingIsRight ==
  ASSUME driver'.waits
  PROVE  ResultsAreRight'
BY DEF ResultsAreRight, Waits

\* Every call gives the driver every row in its place and with the right version, and an
\* update has trained on every row once an epoch.
THEOREM CallsGiveRightRows == Spec => []ResultsAreRight
<1>1. Init => ResultsAreRight
  <2> SUFFICES ASSUME Init PROVE ~(driver.at > 2)
    BY DEF ResultsAreRight
  <2>1. driver.at = 1
    BY DEF Init
  <2> QED BY <2>1
<1>2. IInv /\ ResultsAreRight /\ [Next]_vars => ResultsAreRight'
  <2> SUFFICES ASSUME IInv, ResultsAreRight, [Next]_vars PROVE ResultsAreRight'
    OBVIOUS
  <2>1. CASE UNCHANGED vars
    BY <2>1 DEF vars, ResultsAreRight, Waits, VersionOf, Own, Pp, IsUpdate
  <2>2. CASE Dispatch
    <3>1. driver = [at |-> driver.at, waits |-> driver.waits, got |-> driver.got]
      BY DEF IInv, Inv
    <3>2. driver'.waits
      BY <2>2, <3>1 DEF Dispatch
    <3> QED BY <3>2, WaitingIsRight
  <2>3. CASE Collect
    BY <2>3, CollectGives
  <2>4. ASSUME NEW r \in Ranks, Step(r) PROVE ResultsAreRight'
    <3>1. driver'.waits
      BY <2>4, StepWaits
    <3> QED BY <3>1, WaitingIsRight
  <2> QED BY <2>1, <2>2, <2>3, <2>4 DEF Next
<1> QED BY <1>1, <1>2, Invariant, PTL DEF Spec
=============================================================================
