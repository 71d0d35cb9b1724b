------------------------------ MODULE Balance -------------------------------
(***************************************************************************)
(* seqlen_balancing.py: the largest differencing method of Karmarkar and    *)
(* Karp, by which rows are shared among ranks and among micro-batches so    *)
(* that each gets about the same number of tokens.                          *)
(*                                                                         *)
(* Rows are the positions of a sequence of lengths; a bin is a set of rows   *)
(* with its sum; a state is a decreasing sequence of k bins.                *)
(***************************************************************************)
EXTENDS Integers, Sequences, FiniteSets, SequencesExt, FiniteSetsExt

Empty == [sum |-> 0, rows |-> <<>>]
Single(lens, i) == [sum |-> lens[i], rows |-> <<i>>]

\* Set.__lt__: by the sum, the number of rows, the rows; two bins share no row, so
\* that their first rows tell them apart.
Below(a, b) ==
  \/ a.sum < b.sum
  \/ a.sum = b.sum /\ Len(a.rows) < Len(b.rows)
  \/ /\ a.sum = b.sum /\ Len(a.rows) = Len(b.rows)
     /\ a.rows # <<>> /\ a.rows[1] < b.rows[1]

\* sorted: stable, so that positions which `before` does not tell apart stay in order (SubSeq
\* has TLC compute the sequence once).
Ahead(s, before, i) ==
  {j \in DOMAIN s : <<j, i>> \in before \/ (<<i, j>> \notin before /\ j < i)}
Arranged(s, before) ==
  SubSeq([n \in DOMAIN s |-> s[CHOOSE i \in DOMAIN s : Cardinality(Ahead(s, before, i)) = n - 1]],
         1, Len(s))

Pairs(s) == (DOMAIN s) \X (DOMAIN s)
Decreasing(bins) == Arranged(bins, {p \in Pairs(bins) : Below(bins[p[2]], bins[p[1]])})
Increasing(s) == Arranged(s, {p \in Pairs(s) : s[p[1]] < s[p[2]]})

Spread(s) == s[1].sum - s[Len(s)].sum

\* The heap's order: the largest spread first, then the largest bin.
First(states) ==
  CHOOSE s \in states : \A t \in states \ {s} :
    \/ Spread(s) > Spread(t)
    \/ Spread(s) = Spread(t) /\ Below(t[1], s[1])

\* The largest bins meet the largest: a merge the wrong way round.
MergeAlike(s, t) ==
  Decreasing([i \in DOMAIN s |->
    [sum |-> s[i].sum + t[i].sum, rows |-> s[i].rows \o t[i].rows]])

\* State.merge: the largest bin of one meets the smallest of the other.
Merge(s, t) ==
  Decreasing([i \in DOMAIN s |->
    LET j == Len(s) + 1 - i
    IN  [sum |-> s[i].sum + t[j].sum, rows |-> s[i].rows \o t[j].rows]])

\* The rows from the shortest to the longest, ties in their order.
ByLength(lens) ==
  Arranged([i \in DOMAIN lens |-> i], {p \in Pairs(lens) : lens[p[1]] < lens[p[2]]})

\* The states at first: k rows of neighbouring length each when the bins are to be
\* of equal size, and one row each otherwise.
StartStates(lens, k, equalSize) ==
  IF equalSize
  THEN {Decreasing([i \in 1..k |-> Single(lens, ByLength(lens)[o * k + i])]) :
          o \in 0..(Len(lens) \div k - 1)}
  ELSE {[i \in 1..k |-> IF i = 1 THEN Single(lens, r) ELSE Empty] : r \in DOMAIN lens}

\* Two states become one.
Round(states) ==
  LET s == First(states)
      t == First(states \ {s})
  IN  (states \ {s, t}) \cup {Merge(s, t)}

\* One after the other, until one is left.
Differenced(lens, k, equalSize) ==
  LET start == StartStates(lens, k, equalSize)
      after[n \in 0..(Cardinality(start) - 1)] ==
        IF n = 0 THEN start ELSE Round(after[n - 1])
  IN  CHOOSE s \in after[Cardinality(start) - 1] : TRUE

\* get_seqlen_balanced_partitions: the rows of each bin in increasing order.
Partitions(lens, k, equalSize) ==
  LET bins == Differenced(lens, k, equalSize)
  IN  [i \in 1..k |-> Increasing(bins[i].rows)]

Total(lens) ==
  LET upto[n \in 0..Len(lens)] == IF n = 0 THEN 0 ELSE upto[n - 1] + lens[n]
  IN  upto[Len(lens)]

CeilDiv(a, b) == (a + b - 1) \div b

\* get_reverse_idx: where each row is found after the rows were taken in that order.
ReverseIdx(order) == [i \in DOMAIN order |-> CHOOSE j \in DOMAIN order : order[j] = i]

=============================================================================
