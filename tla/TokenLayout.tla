----------------------------- MODULE TokenLayout -----------------------------
(***************************************************************************)
(* One batch of rows on its way from the data files to the losses: prompts     *)
(* padded on the left, responses on the right, padding removed and put back     *)
(* around every forward pass, tokens and heads spread over the ranks of a        *)
(* sequence parallel group.  A wrong offset anywhere gives numbers that train.   *)
(*                                                                         *)
(* A token is <<document, sample, place>>.                                    *)
(***************************************************************************)
EXTENDS Layout, FiniteSets, TLC

CONSTANTS
  Setups,     \* backend, sizes, padding token, estimator, and what the reward model reads
  PromptWidth,   \* max_prompt_length
  ResponseWidth, \* response_length
  MaxPrompt,   \* longest prompt in the files
  Docs         \* prompts in the files

Setup ==
  [backend : {"padded", "rmpad", "megatron"}, sp : Nat \ {0}, heads : Nat \ {0}, sequence_parallel : BOOLEAN,
   pad_is_eos : BOOLEAN, n : Nat \ {0}, rm_width : Nat \ {1}, cliprange : Nat, gamma : Nat, lam : {0, 1},
   estimator : {"gae", "grpo", "reinforce_plus_plus", "remax"}, kl : {"kl", "abs", "mse"}]

\* The ranks share the heads (ulysses.py, and Megatron's column parallel layers).  A reward model
\* with a tokenizer of its own reads at least two tokens (the positions of packed rows of one token
\* never fall, and they would be taken for one row), one without (0) the rows themselves.
ASSUME SetupsValid ==
  /\ PromptWidth \in Nat \ {0} /\ ResponseWidth \in Nat \ {0} /\ MaxPrompt \in Nat /\ Docs \in Nat
  /\ Setups \subseteq Setup /\ \A s \in Setups : s.heads % s.sp = 0

VARIABLES
  setup,  \* the configuration of this run
  phase,   \* what the driver does next, "done" or "error"
  docs,    \* the lengths of the prompts in the files, then of those that are kept
  said,    \* the text of every row: its prompt and what the engine answered
  batch,   \* the columns of the batch
  loss     \* of the actor and of the critic

batchVars == <<setup, phase, docs, said, batch, loss>>

RowWidth == PromptWidth + ResponseWidth
EOS == <<0, 0, 1>>
Pad == IF setup.pad_is_eos THEN EOS ELSE <<0, 0, 0>>

PromptOf(d, n) == [k \in 1..n |-> <<d, 0, k>>]
Ones(s) == Repeat(1, Len(s))

Tokenized(s, n, left) ==
  LET kept == Truncated(s, n, IF left THEN "left" ELSE "right")
      ids == IF left THEN PadLeft(kept, n, Pad) ELSE PadRight(kept, n, Pad)
      mask == IF left THEN PadLeft(Ones(kept), n, 0) ELSE PadRight(Ones(kept), n, 0)
  IN [input_ids |-> ids, attention_mask |-> mask, position_ids |-> PositionIds(mask)]

\* 1 up to the first EOS, itself included.
EosMask(response) ==
  [k \in DOMAIN response |-> IF \E j \in 1..(k - 1) : response[j] = EOS THEN 0 ELSE 1]

\* A batch with more columns.
With(columns, more) ==
  [f \in DOMAIN columns \cup DOMAIN more |-> IF f \in DOMAIN columns THEN columns[f] ELSE more[f]]

Rows == DOMAIN batch.input_ids
Responses(x) == [i \in DOMAIN x |-> SubSeq(x[i], Len(x[i]) - ResponseWidth + 1, Len(x[i]))]
ShiftedResponses(x) == [i \in DOMAIN x |-> SubSeq(x[i], Len(x[i]) - ResponseWidth, Len(x[i]) - 1)]
ResponseMask == Responses(batch.attention_mask)

-----------------------------------------------------------------------------
(* Forward passes of the configured backend. *)

Forward(b) ==
  CASE setup.backend = "padded"   -> PaddedAttention(b, setup.heads)
    [] setup.backend = "rmpad"    -> RmpadForward(b, setup.sp, setup.heads, FALSE)
    [] setup.backend = "megatron" -> MegatronForward(b, setup.sp, setup.heads, setup.sequence_parallel)

\* Rows of hidden states, padding put back, beside the responses.
Paired(hidden) ==
  LET responses == Responses(batch.input_ids)
      before == ShiftedResponses(hidden)
  IN Entries(responses, LAMBDA i, j: <<responses[i][j], before[i][j]>>)

\* The log-probability of each response token: packed rows on the FSDP side carry their labels.
LogProbs ==
  CASE setup.backend = "padded"   -> Paired(PaddedAttention(batch, setup.heads))
    [] setup.backend = "rmpad"    -> ShiftedResponses(RmpadForward(batch, setup.sp, setup.heads, TRUE))
    [] setup.backend = "megatron" -> 
         Paired(MegatronForward(batch, setup.sp, setup.heads, setup.sequence_parallel))

-----------------------------------------------------------------------------
(* The data set, and the rollout's answers. *)

BatchInit ==
  /\ setup \in Setups
  /\ phase = "read"
  /\ docs \in [1..Docs -> 1..MaxPrompt]
  /\ said = <<>>
  /\ batch = <<>>
  /\ loss = <<>>

\* Prompts that are too long are dropped, and a trainer without a batch gives up.
ReadFiles ==
  /\ phase = "read"
  /\ docs' = LET kept == InOrder({d \in DOMAIN docs : docs[d] <= PromptWidth}, Len(docs))
             IN [d \in DOMAIN kept |-> docs[kept[d]]]
  /\ phase' = IF docs' = <<>> THEN "error" ELSE "prompts"
  /\ UNCHANGED <<setup, said, batch, loss>>

\* The columns of the rows are stacked.
Collate(rows) == [field \in DOMAIN rows[1] |-> [i \in DOMAIN rows |-> rows[i][field]]]
GetItem(d) ==
  LET row == Tokenized(PromptOf(d, docs[d]), PromptWidth, TRUE)
  IN With(row, [raw_prompt |-> PromptOf(d, docs[d])])
GetBatch ==
  /\ phase = "prompts"
  /\ batch' = Collate([d \in DOMAIN docs |-> GetItem(d)])
  /\ phase' = "rollout"
  /\ UNCHANGED <<setup, docs, said, loss>>

\* The engine is given the prompts without the padding in front.
PreProcess(ids) == SubSeq(ids, Min({k \in DOMAIN ids : ids[k] # Pad}), Len(ids))

\* The rows of the batch are taken over and over.
Tiled(x, n) == [i \in 1..(n * Len(x)) |-> x[((i - 1) % Len(x)) + 1]]
Interleaved(x, n) == [i \in 1..(n * Len(x)) |-> x[((i - 1) \div n) + 1]]

\* An answer ends with EOS or at the limit.
Answers == {a \in [len : 1..ResponseWidth, ends : BOOLEAN] : a.len < ResponseWidth => a.ends}
AnswerTokens(prompt, sample, a) ==
  [k \in 1..a.len |-> IF a.ends /\ k = a.len THEN EOS ELSE <<prompt[1][1], sample, k>>]

Extended(b, answers) ==
  LET ids == Interleaved(b.input_ids, setup.n)
      mask == Interleaved(b.attention_mask, setup.n)
      pos == Interleaved(b.position_ids, setup.n)
      padded == [i \in DOMAIN answers |-> PadRight(answers[i], ResponseWidth, Pad)]
  IN [input_ids      |-> [i \in DOMAIN ids |-> ids[i] \o padded[i]],
      attention_mask |-> [i \in DOMAIN ids |-> mask[i] \o EosMask(padded[i])],
      position_ids   |-> [i \in DOMAIN ids |-> pos[i] \o [k \in 1..ResponseWidth |-> Last(pos[i]) + k]],
      raw_prompt     |-> Interleaved(b.raw_prompt, setup.n),
      uid            |-> Interleaved([d \in DOMAIN docs |-> d], setup.n)]

Generate ==
  /\ phase = "rollout"
  /\ \E choice \in [1..(setup.n * Len(docs)) -> Answers] :
       LET asked == [d \in DOMAIN docs |-> PreProcess(batch.input_ids[d])]
           Prompt(i) == asked[((i - 1) \div setup.n) + 1]
           answers == [i \in DOMAIN choice |->
                         AnswerTokens(Prompt(i), ((i - 1) % setup.n) + 1, choice[i])]
       IN /\ said' = [i \in DOMAIN choice |-> [prompt |-> Prompt(i), answer |-> answers[i]]]
          /\ batch' = Extended(batch, answers)
  /\ phase' = "log_probs"
  /\ UNCHANGED <<setup, docs, loss>>

-----------------------------------------------------------------------------
(* The columns that the models add. *)

\* Stand-ins for what the heads of the models make of a hidden state.
Number(hidden) == IF hidden = Zero THEN 0 ELSE Len(hidden[1])
ValueOf(hidden) == Number(hidden) % 3
Judge(hidden) == IF hidden = Zero THEN 0 ELSE 3 * Number(hidden) - 4
LogProbOf(lp) == IF lp = Zero THEN 0 ELSE Number(lp[2]) % 4
RatioOf(lp) == 6 + 2 * LogProbOf(lp)
KlOf(lp) == KlPenalty(setup.kl, LogProbOf(lp), 1)

ComputeLogProb ==
  /\ phase = "log_probs"
  /\ batch' = With(batch, [old_log_probs |-> LogProbs])
  /\ phase' = "values"
  /\ UNCHANGED <<setup, docs, said, loss>>

\* The critic's predictions, one for the state before each token of the response.
Predictions == LET v == ShiftedResponses(Forward(batch)) IN Entries(v, LAMBDA i, j: ValueOf(v[i][j]))
\* The mask of the tokens themselves.
MasksTokens == Responses(batch.attention_mask)
CriticMask == ShiftedResponses(batch.attention_mask)

ComputeValues ==
  /\ phase = "values"
  /\ batch' = With(batch, [values |-> Times(Predictions, CriticMask)])
  /\ phase' = "scores"
  /\ UNCHANGED <<setup, docs, said, loss>>

\* The place of the largest number, the first of them.
ArgMax(s) == Min({k \in DOMAIN s : s[k] = Max(Range(s))})
LastValid(b, i) == ArgMax([k \in DOMAIN b.attention_mask[i] |-> b.position_ids[i][k] * b.attention_mask[i][k]])
LastCounted(b, i) == ArgMax([k \in DOMAIN b.attention_mask[i] |-> SumSeq(SubSeq(b.attention_mask[i], 1, k))])

\* What the reward model reads, in its own tokens and padded on the right: the raw prompt and the
\* decoded answer without its EOS (FSDP), or the decoded row and one more end (Megatron).
End == <<0, 0, 2>>
Picked(s, places) == LET kept == InOrder(places, Len(s)) IN [k \in DOMAIN kept |-> s[kept[k]]]
TokensOf(ids, mask) == Picked(ids, {k \in DOMAIN ids : mask[k] = 1})
WithoutEos(s) == Picked(s, {k \in DOMAIN s : s[k] # EOS})
SwitchChatTemplate(i) ==
  LET valid == SumSeq(ResponseMask[i])
      response == SubSeq(Responses(batch.input_ids)[i], 1, valid)
  IN batch.raw_prompt[i] \o WithoutEos(response) \o <<End>>
ReEncode(i) == TokensOf(batch.input_ids[i], batch.attention_mask[i]) \o <<End>>
RmData ==
  LET Reads(i) == IF setup.backend = "megatron" THEN ReEncode(i) ELSE SwitchChatTemplate(i)
  IN IF setup.rm_width = 0 THEN batch
     ELSE Collate([i \in Rows |-> Tokenized(Reads(i), setup.rm_width, FALSE)])

\* On the FSDP side rm_data is assigned only where the template is switched.
HasRmData == setup.backend = "megatron" \/ setup.rm_width # 0

\* The score is put at the end of the row that the reward model has read.
ExpandsWhereItRead(scores) ==
  Responses([i \in Rows |-> [k \in 1..RowWidth |-> IF k = LastValid(RmData, i) THEN scores[i] ELSE Zero]])
ExpandToTokenLevel(scores) ==
  Responses([i \in Rows |-> [k \in 1..RowWidth |-> IF k = LastValid(batch, i) THEN scores[i] ELSE Zero]])

ComputeScore ==
  /\ phase = "scores"
  /\ IF HasRmData
     THEN /\ LET rm == RmData
                 hidden == Forward(rm)
                 EndOf(i) == IF setup.backend = "megatron" THEN LastCounted(rm, i) ELSE LastValid(rm, i)
             IN batch' = With(batch, [scores |-> ExpandToTokenLevel([i \in Rows |-> hidden[i][EndOf(i)]])])
          /\ phase' = "advantages"
     ELSE /\ phase' = "error"
          /\ UNCHANGED batch
  /\ UNCHANGED <<setup, docs, said, loss>>

-----------------------------------------------------------------------------
(* Advantages and losses. *)

Estimated(rewards) ==
  CASE setup.estimator = "gae"   -> Gae(rewards, batch.values, ResponseMask, setup.gamma, setup.lam)
    [] setup.estimator = "grpo"  -> Grpo(rewards, ResponseMask, batch.uid)
    [] setup.estimator = "reinforce_plus_plus" -> ReinforcePlusPlus(rewards, ResponseMask, setup.gamma)
    [] setup.estimator = "remax" -> Remax(rewards, batch.uid, ResponseMask)

\* Whitening needs two tokens.
ComputeAdvantage ==
  /\ phase = "advantages"
  /\ LET s == batch.scores
         lp == batch.old_log_probs
         rewards == TokenRewards(Entries(s, LAMBDA i, j: Judge(s[i][j])),
                                 Entries(lp, LAMBDA i, j: KlOf(lp[i][j])), ResponseMask, 1)
     IN IF setup.estimator \in {"gae", "reinforce_plus_plus"} /\ ~CanWhiten(ResponseMask)
        THEN /\ phase' = "error"
             /\ UNCHANGED batch
        ELSE /\ batch' = With(batch, Estimated(rewards))
             /\ phase' = "losses"
  /\ UNCHANGED <<setup, docs, said, loss>>

\* After a step of the optimizer the predictions have moved.
Drift == 2
Update ==
  /\ phase = "losses"
  /\ LET lp == batch.old_log_probs
         v == Predictions
         ratio == Entries(lp, LAMBDA i, j: RatioOf(lp[i][j]))
         vpreds == Entries(v, LAMBDA i, j: v[i][j] + Drift)
     IN loss' = [actor  |-> PolicyLoss(ratio, batch.advantages, ResponseMask, setup.cliprange),
                 critic |-> IF setup.estimator # "gae" THEN <<>>
                            ELSE ValueLoss(vpreds, batch.returns, batch.values, CriticMask, 1)]
  /\ phase' = "done"
  /\ UNCHANGED <<setup, docs, said, batch>>

BatchNext == ReadFiles \/ GetBatch \/ Generate \/ ComputeLogProb \/ ComputeValues \/ ComputeScore
        \/ ComputeAdvantage \/ Update
BatchSpec == BatchInit /\ [][BatchNext]_batchVars

-----------------------------------------------------------------------------
(* What the columns should be, from the texts alone: no padding, one device.    *)

RowText(i) == said[i].prompt \o said[i].answer
Size(i) == Len(said[i].answer)
SeenIn(text, k) == [h \in 1..setup.heads |-> [j \in 1..k |-> <<<<text[j], h>>, j - 1>>]]
Before(i, j) == SeenIn(RowText(i), Len(said[i].prompt) + j - 1)

\* Every valid token of a response has its own log-probability, in the context of all the tokens
\* before it in its row and of no other, whatever the backend: the packed and rolled labels, the
\* padding for the ranks, the slices of places and of heads are all undone.
LogProbsMatch ==
  phase = "values" =>
    /\ Rows = DOMAIN said
    /\ \A i \in Rows : \A j \in 1..Size(i) : batch.old_log_probs[i][j] = <<said[i].answer[j], Before(i, j)>>

\* Where scores come out, the reward model's score of a row's text stands at the last valid token
\* of its response, and nothing stands anywhere else, also when the reward model reads the text in
\* its own tokens, cut at its own length.  None come out on the FSDP side without a tokenizer.
Judged(i) ==
  LET words == IF setup.backend = "megatron" THEN RowText(i) ELSE said[i].prompt \o WithoutEos(said[i].answer)
      text == IF setup.rm_width = 0 THEN RowText(i) ELSE Truncated(words \o <<End>>, setup.rm_width, "right")
  IN SeenIn(text, Len(text))
ScoreAtLastToken ==
  phase = "advantages" =>
    \A i \in Rows : \A j \in 1..ResponseWidth : batch.scores[i][j] = IF j = Size(i) THEN Judged(i) ELSE Zero

RewardAt(i, j) == (IF j = Size(i) THEN Judge(Judged(i)) ELSE 0) - KlOf(<<said[i].answer[j], Before(i, j)>>)
ToGo(i, j) == SumSeq([t \in 1..(Size(i) - j + 1) |-> setup.gamma ^ (t - 1) * RewardAt(i, j + t - 1)])
StateValue(i, j) == ValueOf(Before(i, j))
Power(x, k) == IF k = 0 THEN 1 ELSE x ^ k

\* The estimate from the row's own tokens, as if nothing came behind the last.
OwnGae(i, j) ==
  LET After(t) == IF t < Size(i) THEN setup.gamma * StateValue(i, t + 1) ELSE 0
  IN SumSeq([k \in 1..(Size(i) - j + 1) |-> LET t == j + k - 1
        IN Power(setup.gamma * setup.lam, k - 1) * (RewardAt(i, t) + After(t) - StateValue(i, t))])
\* The critic also values the state behind an early end; what this adds is gone only when lam is 1.
BehindEnd(i, j) ==
  IF Size(i) = ResponseWidth THEN 0
  ELSE setup.gamma * (1 - setup.lam) * Power(setup.gamma * setup.lam, Size(i) - j) * StateValue(i, Size(i) + 1)
DueGae(i, j) == OwnGae(i, j) + BehindEnd(i, j)

Whitened(Op(_, _), i, j) ==
  LET all == [k \in DOMAIN said |-> [t \in 1..Size(k) |-> Op(k, t)]]
  IN SumSeq([k \in DOMAIN said |-> Size(k)]) * Op(i, j) - MatrixSum(all)
DueAdvantage(i, j) ==
  LET Outcome(k) == SumSeq([t \in 1..Size(k) |-> RewardAt(k, t)])
  IN CASE setup.estimator = "gae"   -> Whitened(DueGae, i, j)
       [] setup.estimator = "reinforce_plus_plus" -> Whitened(ToGo, i, j)
       [] setup.estimator = "remax" -> ToGo(i, j) - said[i].prompt[1][1]
       [] setup.estimator = "grpo"  -> (IF setup.n = 1 THEN 1 ELSE setup.n) * Outcome(i)
            - (IF setup.n = 1 THEN 0
               ELSE SumSeq([k \in DOMAIN said |-> IF said[k].prompt = said[i].prompt THEN Outcome(k) ELSE 0]))

\* The advantage of a valid token is what its row's own tokens give and, with GAE and lam below 1,
\* the critic's value of the one state behind an early end; for the estimators that promise it
\* padding has none.  Nothing else of the padding reaches it, no log-probability, score or value of
\* a later column, and of other rows only what the whitening and the groups are defined by.
AdvantagesIgnorePadding ==
  phase = "losses" =>
    \A i \in Rows : \A j \in 1..ResponseWidth :
      IF j <= Size(i) THEN batch.advantages[i][j] = DueAdvantage(i, j)
      ELSE setup.estimator # "gae" => batch.advantages[i][j] = 0

\* The losses are means over the valid tokens; the critic also learns, after an answer that ended
\* early, that nothing is to come.
LossesIgnorePadding ==
  phase = "done" =>
    LET valid == [i \in DOMAIN said |-> Size(i)]
        Surrogate(i, j) ==
          LET ratio == RatioOf(<<said[i].answer[j], Before(i, j)>>)
          IN Larger(-DueAdvantage(i, j) * ratio,
                    -DueAdvantage(i, j) * Clamp(ratio, 8 - setup.cliprange, 8 + setup.cliprange))
        states == [i \in DOMAIN said |-> IF Size(i) < ResponseWidth THEN Size(i) + 1 ELSE ResponseWidth]
        Error(i, j) ==
          LET v == StateValue(i, j)
              target == IF j <= Size(i) THEN DueGae(i, j) + v ELSE 0
          IN Larger((v + 2 - target) ^ 2, (v + 1 - target) ^ 2)
    IN /\ loss.actor = <<MatrixSum([i \in DOMAIN said |-> [j \in 1..valid[i] |-> Surrogate(i, j)]]), SumSeq(valid)>>
       /\ setup.estimator = "gae" =>
            loss.critic = <<MatrixSum([i \in DOMAIN said |-> [j \in 1..states[i] |-> Error(i, j)]]), SumSeq(states)>>

\* What is learned does not depend on what stands in the padding, the state right behind an early
\* end excepted, and on that one exactly as the estimator says.
PaddingIsIgnored == AdvantagesIgnorePadding /\ LossesIgnorePadding
=============================================================================
