------------------------------- MODULE Advantage -------------------------------
(***************************************************************************)
(* The algorithms of core_algos.py over padded rows: what the trainer makes of *)
(* token level scores, values and log-probabilities.  A matrix is a sequence of *)
(* rows, a mask a matrix of 0 and 1.  Numbers are integers; a quotient is kept  *)
(* as its numerator beside its denominator.                                  *)
(***************************************************************************)
EXTENDS Integers, Sequences, SequencesExt, FiniteSetsExt, Functions

\* A sequence, made of its elements one by one.
Each(s) == s \o <<>>
SumSeq(s) == FoldLeft(+, 0, s)
RowSum(x) == [i \in DOMAIN x |-> SumSeq(x[i])]
MatrixSum(x) == SumSeq(RowSum(x))
Entries(x, Op(_, _)) == Each([i \in DOMAIN x |-> Each([j \in DOMAIN x[i] |-> Op(i, j)])])
Times(x, mask) == Entries(x, LAMBDA i, j: x[i][j] * mask[i][j])

\* A mean over the entries that the mask keeps: their sum and their number.
MaskedMean(x, mask) == <<MatrixSum(Times(x, mask)), MatrixSum(mask)>>

\* masked_var refuses a mask that keeps no entry or just one.
CanWhiten(mask) == MatrixSum(mask) > 1

\* Whitened entries, times the number of entries the mask keeps and the deviation.
MaskedWhiten(x, mask) ==
  LET mean == MaskedMean(x, mask) IN Entries(x, LAMBDA i, j: x[i][j] * mean[2] - mean[1])

\* The penalty of padding is taken off as well.
PenaltyEverywhere(scores, kl, mask, beta) ==
  Entries(scores, LAMBDA i, j: scores[i][j] - beta * kl[i][j])

\* The reward of a token: its score less the KL penalty, which padding does not pay.
TokenRewards(scores, kl, mask, beta) ==
  Entries(scores, LAMBDA i, j: scores[i][j] - beta * kl[i][j] * mask[i][j])

\* kl_penalty; half of the square is kept as the square.
KlPenalty(kind, logprob, ref) ==
  LET d == logprob - ref
  IN IF kind = "kl" THEN d ELSE IF kind = "abs" THEN (IF d < 0 THEN -d ELSE d) ELSE d * d

-----------------------------------------------------------------------------
(* The estimators: advantages and returns. *)

\* One row of generalised advantage estimation, from the last column to the first.
GaeRow(rewards, values, gamma, lam) ==
  LET n == Len(rewards)
      Next(t) == IF t < n THEN values[t + 1] ELSE 0
      gae[t \in 1..(n + 1)] ==
        IF t > n THEN 0
        ELSE rewards[t] + gamma * Next(t) - values[t] + gamma * lam * gae[t + 1]
  IN [t \in 1..n |-> gae[t]]

Gae(rewards, values, mask, gamma, lam) ==
  LET raw == [i \in DOMAIN rewards |-> GaeRow(rewards[i], values[i], gamma, lam)]
  IN [advantages |-> MaskedWhiten(raw, mask),
      returns    |-> Entries(raw, LAMBDA i, j: raw[i][j] + values[i][j])]

\* A response against the others of its prompt; a prompt with one response keeps its score.
GroupOf(uid, i) == {k \in DOMAIN uid : uid[k] = uid[i]}
Grpo(rewards, mask, uid) ==
  LET scores == RowSum(rewards)
      Of(i) == LET group == GroupOf(uid, i)
               IN IF Cardinality(group) = 1 THEN scores[i]
                  ELSE Cardinality(group) * scores[i] - SumFunctionOnSet(scores, group)
      adv == Entries(rewards, LAMBDA i, j: Of(i) * mask[i][j])
  IN [advantages |-> adv, returns |-> adv]

\* The return is set to nothing at every padding column it passes.
ReinforceRow(rewards, mask, gamma) ==
  LET n == Len(rewards)
      running[t \in 1..(n + 1)] ==
        IF t > n THEN 0
        ELSE rewards[t] + gamma * (IF t = n THEN 0 ELSE running[t + 1] * mask[t + 1])
  IN [t \in 1..n |-> running[t]]

ReinforcePlusPlus(rewards, mask, gamma) ==
  LET returns == [i \in DOMAIN rewards |-> ReinforceRow(rewards[i], mask[i], gamma)]
  IN [advantages |-> Times(MaskedWhiten(returns, mask), mask), returns |-> returns]

\* What is still to come, less what greedy decoding got for the prompt.
Remax(rewards, baselines, mask) ==
  LET ToGo(i, j) == SumSeq(SubSeq(Times(rewards, mask)[i], j, Len(rewards[i])))
      returns == Entries(rewards, LAMBDA i, j: ToGo(i, j))
  IN [advantages |-> Entries(returns, LAMBDA i, j: returns[i][j] - baselines[i] * mask[i][j]),
      returns |-> returns]

-----------------------------------------------------------------------------
(* The losses.  A ratio and its bounds are given in eighths. *)

Clamp(x, low, high) == IF x < low THEN low ELSE IF x > high THEN high ELSE x
Larger(x, y) == IF x > y THEN x ELSE y

PolicyLoss(ratio, advantages, mask, cliprange) ==
  MaskedMean(Entries(ratio, LAMBDA i, j:
               Larger(-advantages[i][j] * ratio[i][j],
                      -advantages[i][j] * Clamp(ratio[i][j], 8 - cliprange, 8 + cliprange))),
             mask)

ValueLoss(vpreds, returns, values, mask, cliprange) ==
  LET Square(x) == x * x
      Clipped(i, j) == Clamp(vpreds[i][j], values[i][j] - cliprange, values[i][j] + cliprange)
  IN MaskedMean(Entries(vpreds, LAMBDA i, j:
                  Larger(Square(vpreds[i][j] - returns[i][j]), Square(Clipped(i, j) - returns[i][j]))),
                mask)
=============================================================================
