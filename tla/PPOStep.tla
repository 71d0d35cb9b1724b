------------------------------ MODULE PPOStep -------------------------------
(***************************************************************************)
(* One iteration of RayPPOTrainer.fit: the batch on its way through the      *)
(* driver and the ranks of the worker groups, and the validation after it.   *)
(*                                                                         *)
(* A batch is a sequence of rows, a row maps a column to its value, and a    *)
(* value is what it was computed from: a response is its prompt and its       *)
(* number, a log-probability the response it is of.  The columns input_ids,  *)
(* responses, prompts, attention_mask and position_ids always go together    *)
(* and are the one column input_ids, which is <<p, 0>> for the prompt alone. *)
(*                                                                         *)
(* A remote call is chunked over the ranks, the ranks run their collectives  *)
(* at their own pace, and the outputs are concatenated.                      *)
(***************************************************************************)
EXTENDS Balance

CONSTANT Configs   \* the configurations, see Config

Config ==
  [world : Nat \ {0},         \* n_gpus, one rank each
   tp : Nat \ {0},            \* rollout.tensor_model_parallel_size
   sp : Nat \ {0},            \* ulysses_sequence_parallel_size
   prompts : Nat \ {0},       \* data.train_batch_size
   n : Nat \ {0},             \* rollout.n
   mini : Nat \ {0},          \* ppo_mini_batch_size
   micro : Nat \ {0},         \* the micro batch sizes per gpu
   dynamic : BOOLEAN,         \* use_dynamic_bsz
   maxTokens : Nat \ {0},     \* max_token_len per gpu
   width : Nat \ {0},         \* prompt and response, padded
   lengths : SUBSET Nat,      \* what the lengths of the sequences may be
   adv : {"gae", "grpo", "reinforce_plus_plus", "remax"},
   useRef : BOOLEAN, useRm : BOOLEAN, useKlLoss : BOOLEAN,
   updateActor : BOOLEAN,     \* critic_warmup <= global_steps
   validation : Nat]          \* rows of the validation batch, 0 for not due

\* What _validate_config asserts, and what the meshes of the workers need.
ValidConfig(c) ==
  /\ (c.prompts * c.n) % c.world = 0
  /\ c.world % c.tp = 0 /\ c.world % c.sp = 0

ASSUME ConfigsValid ==
  \A c \in Configs : c \in Config /\ ValidConfig(c) /\ c.lengths \subseteq 1..c.width

VARIABLES
  config,  \* self.config
  lens,    \* the valid tokens of each response, known once it is generated
  stage,   \* the statement the driver is at
  batch,   \* the driver's batch
  gen,     \* gen_batch, gen_batch_output
  chunks,  \* what each rank was sent, <<>> between calls
  joined,  \* the collectives each rank has entered in this call
  trained, \* for each update the mini-batches of each rank: its micro-batches
  scores   \* what the validation scored, in its order

vars == <<config, lens, stage, batch, gen, chunks, joined, trained, scores>>

Ranks == 0..(config.world - 1)
Responses == (1..config.prompts) \X (1..config.n)
Greedy(p) == <<p, config.n + 1>>
UseCritic == config.adv = "gae"

Order == <<"generate", "baseline", "assemble", "old_log_prob", "ref", "values", "rm",
           "advantage", "update_critic", "update_actor", "validate", "done">>
Stages == ToSet(Order) \cup {"failed"}
Remote == Stages \ {"assemble", "advantage", "done", "failed"}
Updates == {"update_critic", "update_actor"}

Due(s) ==
  CASE s = "baseline" -> config.adv = "remax"
    [] s = "ref" -> config.useRef
    [] s \in {"values", "update_critic"} -> UseCritic
    [] s = "rm" -> config.useRm
    [] s = "update_actor" -> config.updateActor
    [] s = "validate" -> config.validation > 0
    [] OTHER -> TRUE

Following ==
  LET at == CHOOSE i \in DOMAIN Order : Order[i] = stage
  IN  Order[Min({i \in DOMAIN Order : i > at /\ Due(Order[i])})]

-----------------------------------------------------------------------------
(* protocol.py. *)

Columns(rows) == IF rows = <<>> THEN {} ELSE DOMAIN rows[1]

Select(rows, cols) == [i \in DOMAIN rows |-> [c \in cols |-> rows[i][c]]]
Without(rows, cols) == Select(rows, Columns(rows) \ cols)

CanUnion(a, b) ==
  /\ Len(a) = Len(b)
  /\ \A i \in DOMAIN a : \A c \in DOMAIN a[i] \cap DOMAIN b[i] : a[i][c] = b[i][c]
\* A row with more columns, of which it keeps its own.
With(row, more) ==
  [c \in DOMAIN row \cup DOMAIN more |-> IF c \in DOMAIN row THEN row[c] ELSE more[c]]
Union(a, b) == [i \in DOMAIN a |-> With(a[i], b[i])]

CanChunk(rows, k) == Len(rows) % k = 0
Chunk(rows, k) ==
  LET size == Len(rows) \div k
  IN  [i \in 1..k |-> SubSeq(rows, (i - 1) * size + 1, i * size)]

Concat(parts) == FlattenSeq(parts)

\* repeat(interleave=True) and repeat_interleave.
Repeat(rows, n) == [i \in 1..(Len(rows) * n) |-> rows[(i - 1) \div n + 1]]

\* The tensors move, the columns that are no tensors stay.
ReorderTensors(rows, order) ==
  [i \in DOMAIN order |->
    [c \in Columns(rows) |-> rows[IF c \in {"uid", "data"} THEN i ELSE order[i]][c]]]

Reorder(rows, order) == [i \in DOMAIN order |-> rows[order[i]]]

\* The batch once more and again, as far as the divisor needs.
Pad(rows, k) ==
  [i \in 1..(CeilDiv(Len(rows), k) * k) |-> rows[((i - 1) % Len(rows)) + 1]]

\* All rows that the padding added are cut off from the front.
UnpadFront(rows, padding) == SubSeq(rows, padding + 1, Len(rows))

Unpad(rows, padding) == SubSeq(rows, 1, Len(rows) - padding)

\* A last piece that is not full is left out.
SplitFull(rows, size) ==
  [i \in 1..(Len(rows) \div size) |-> SubSeq(rows, (i - 1) * size + 1, i * size)]

\* torch's split: pieces of a size, the last one shorter.
Split(rows, size) ==
  [i \in 1..CeilDiv(Len(rows), size) |->
    SubSeq(rows, (i - 1) * size + 1, Min({i * size, Len(rows)}))]

-----------------------------------------------------------------------------
(* The ranks: what a rank makes of its chunk and those of its group. *)

Base(r, size) == (r \div size) * size

\* The all-gather in the tensor or sequence parallel group.
Gathered(r, size) == Concat([i \in 1..size |-> chunks[Base(r, size) + i]])

\* Each rank keeps its own part of what its group has computed.
OwnPart(rows, r, size) == Chunk(rows, size)[(r % size) + 1]

LensOf(rows) == [i \in DOMAIN rows |-> lens[rows[i].input_ids]]

MiniSize ==
  IF stage = "update_actor"
  THEN (config.mini * config.n) \div (config.world \div config.sp)
  ELSE config.mini \div (config.world \div config.sp)

\* What the rank runs one after the other: all its rows for a forward pass, its
\* mini-batches for an update.
Minis(r) ==
  LET rows == Gathered(r, config.sp)
  IN  IF stage \in Updates THEN Split(rows, MiniSize) ELSE <<rows>>

MaxTokens == config.maxTokens * config.sp

TokensOf(r, m) == Total(LensOf(Minis(r)[m]))

\* Each rank counts for itself, without the all-reduce.
OwnMicros(r, m) ==
  IF config.dynamic THEN CeilDiv(TokensOf(r, m), MaxTokens)
  ELSE CeilDiv(Len(Minis(r)[m]), config.micro)

\* rearrange_micro_batches takes as many as the rank with the most tokens needs.
NumMicros(r, m) ==
  IF config.dynamic THEN Max({CeilDiv(TokensOf(q, m), MaxTokens) : q \in Ranks})
  ELSE CeilDiv(Len(Minis(r)[m]), config.micro)

\* The rows of each micro-batch, as positions in the mini-batch.
Micros(r, m) ==
  IF config.dynamic THEN Partitions(LensOf(Minis(r)[m]), NumMicros(r, m), FALSE)
  ELSE Split([i \in DOMAIN Minis(r)[m] |-> i], config.micro)

\* What the ranks do together: the gathering and the broadcast around a generation,
\* one pass per micro-batch, the all-reduce before them and, in an update, the one
\* of the gradient's norm.
Collectives(r) ==
  IF stage \in {"generate", "baseline", "validate"} THEN 2
  ELSE Total([m \in DOMAIN Minis(r) |->
         NumMicros(r, m) + (IF config.dynamic THEN 1 ELSE 0)
                         + (IF stage \in Updates THEN 1 ELSE 0)])

ColumnsNeeded ==
  CASE stage = "update_critic" -> {"input_ids", "values", "returns"}
    [] stage = "update_actor" ->
         {"input_ids", "old_log_probs", "advantages"} \cup
         (IF config.useKlLoss THEN {"ref_log_prob"} ELSE {})
    [] OTHER -> {"input_ids"}

\* Otherwise a rank raises: select finds every column, no split is into nothing, and
\* the assertions of rearrange_micro_batches hold.
CanRun ==
  /\ \A r \in Ranks : ColumnsNeeded \subseteq Columns(chunks[r + 1])
  /\ stage \in Updates => MiniSize > 0
  /\ config.dynamic /\ stage \notin {"generate", "baseline", "validate"} =>
       /\ MaxTokens >= config.width
       /\ \A r \in Ranks : \A m \in DOMAIN Minis(r) : NumMicros(r, m) <= Len(Minis(r)[m])

\* vLLMRollout.generate_sequences: n responses of each prompt, or a greedy one.
Generated(r) ==
  LET prompts == Gathered(r, config.tp)
      n == IF stage = "generate" THEN config.n ELSE 1
      rows == Repeat(prompts, n)
      number(i) == IF stage = "generate" THEN ((i - 1) % n) + 1 ELSE config.n + 1
  IN  OwnPart([i \in DOMAIN rows |-> [input_ids |-> <<rows[i].input_ids[1], number(i)>>]],
              r, config.tp)

\* The outputs stay in the order of the micro-batches.
InMicroOrder(outputs, order) == outputs

\* With dynamic micro-batches the outputs come back to the order of the rows.
Reverted(outputs, order) ==
  IF config.dynamic
  THEN LET back == ReverseIdx(order) IN [i \in DOMAIN outputs |-> outputs[back[i]]]
  ELSE outputs

\* The forward passes: compute_log_prob of actor and reference, compute_rm_score, and
\* compute_values, which masks its outputs before they are back in their order.
Computed(r) ==
  LET rows == Minis(r)[1]
      order == FlattenSeq(Micros(r, 1))
      output(i) ==
        CASE stage = "old_log_prob" -> [old_log_probs |-> rows[order[i]].input_ids]
          [] stage = "ref" -> [ref_log_prob |-> rows[order[i]].input_ids]
          [] stage = "rm" -> [rm_scores |-> rows[order[i]].input_ids]
          [] stage = "values" ->
               [values |-> [of |-> rows[order[i]].input_ids, mask |-> rows[i].input_ids]]
  IN  OwnPart(Reverted([i \in DOMAIN rows |-> output(i)], order), r, config.sp)

\* update_policy and update_critic: the rows of each micro-batch of each mini-batch.
Update(r) ==
  [m \in DOMAIN Minis(r) |->
    [k \in DOMAIN Micros(r, m) |->
      [i \in DOMAIN Micros(r, m)[k] |-> Minis(r)[m][Micros(r, m)[k][i]].input_ids]]]

-----------------------------------------------------------------------------
(* The driver. *)

Init ==
  /\ config \in Configs
  /\ lens \in [Responses -> config.lengths]
  /\ stage = "generate"
  /\ batch = [i \in 1..config.prompts |-> [data |-> i]]
  /\ gen = [batch |-> [i \in 1..config.prompts |-> [input_ids |-> <<i, 0>>]], output |-> <<>>]
  /\ chunks = <<>> /\ joined = [r \in Ranks |-> 0]
  /\ trained = [u \in Updates |-> [r \in Ranks |-> <<>>]]
  /\ scores = <<>>

Validated == [i \in 1..config.validation |-> [data |-> i]]
Padding == CeilDiv(config.validation, config.world) * config.world - config.validation

Sent ==
  CASE stage \in {"generate", "baseline"} -> gen.batch
    [] stage = "validate" ->
         Pad([i \in 1..config.validation |-> [input_ids |-> <<i, 0>>]], config.world)
    [] OTHER -> batch

\* dispatch_dp_compute_data_proto: one chunk for each rank, all of one size.
Dispatch ==
  /\ stage \in Remote /\ chunks = <<>>
  /\ IF CanChunk(Sent, config.world)
     THEN /\ chunks' = Chunk(Sent, config.world)
          /\ joined' = [r \in Ranks |-> 0]
          /\ UNCHANGED stage
     ELSE stage' = "failed" /\ UNCHANGED <<chunks, joined>>
  /\ UNCHANGED <<config, lens, batch, gen, trained, scores>>

\* A rank enters its next collective when all have entered the last one.
CanJoin(r) ==
  /\ chunks # <<>> /\ CanRun
  /\ joined[r] < Collectives(r)
  /\ \A q \in Ranks : joined[q] >= joined[r]

Join(r) ==
  /\ CanJoin(r)
  /\ joined' = [joined EXCEPT ![r] = @ + 1]
  /\ UNCHANGED <<config, lens, stage, batch, gen, chunks, trained, scores>>

\* The error of a worker is raised again by ray.get in the driver.
Raise ==
  /\ chunks # <<>> /\ ~ CanRun
  /\ stage' = "failed" /\ chunks' = <<>>
  /\ UNCHANGED <<config, lens, batch, gen, joined, trained, scores>>

Returned(r) ==
  /\ joined[r] = Collectives(r)
  /\ \A q \in Ranks : joined[q] >= joined[r]

\* The driver goes on with new rows, unless an assertion of union fails.
Continue(possible, rows) ==
  IF possible THEN batch' = rows /\ stage' = Following
  ELSE stage' = "failed" /\ UNCHANGED batch

\* collect_dp_compute_data_proto: all ranks have answered, in their order.
Answer(outputs) == Concat([i \in 1..config.world |-> outputs[i - 1]])

Collect ==
  /\ chunks # <<>> /\ CanRun
  /\ \A r \in Ranks : Returned(r)
  /\ chunks' = <<>>
  /\ UNCHANGED <<config, lens, joined>>

CollectResponses ==
  /\ stage = "generate" /\ Collect
  /\ gen' = [gen EXCEPT !.output = Answer([r \in Ranks |-> Generated(r)])]
  /\ stage' = Following
  /\ UNCHANGED <<batch, trained, scores>>

\* The greedy responses stay in the batch behind their scoring.
CollectBaselineOnly ==
  /\ stage = "baseline" /\ Collect
  /\ LET greedy == Answer([r \in Ranks |-> Generated(r)])
     IN  Continue(CanUnion(batch, greedy), Union(batch, greedy))
  /\ UNCHANGED <<gen, trained, scores>>

\* The greedy responses are scored in the batch and leave it again.
CollectBaseline ==
  /\ stage = "baseline" /\ Collect
  /\ LET greedy == Answer([r \in Ranks |-> Generated(r)])
         scored == [i \in DOMAIN batch |->
                     With(Union(batch, greedy)[i],
                          [reward_baselines |-> <<batch[i].data, greedy[i].input_ids>>])]
     IN  Continue(CanUnion(batch, greedy), Without(scored, Columns(greedy)))
  /\ UNCHANGED <<gen, trained, scores>>

\* Log-probabilities, values or the reward model's scores become columns.
CollectColumn ==
  /\ stage \in {"old_log_prob", "ref", "values", "rm"} /\ Collect
  /\ LET column == Answer([r \in Ranks |-> Computed(r)])
     IN  Continue(CanUnion(batch, column), Union(batch, column))
  /\ UNCHANGED <<gen, trained, scores>>

CollectUpdate ==
  /\ stage \in Updates /\ Collect
  /\ trained' = [trained EXCEPT ![stage] = [r \in Ranks |-> Update(r)]]
  /\ stage' = Following
  /\ UNCHANGED <<batch, gen, scores>>

\* _validate: the padding is cut off, the rest joins its rows and is scored.
CollectValidation ==
  /\ stage = "validate" /\ Collect
  /\ LET rows == Unpad(Answer([r \in Ranks |-> Generated(r)]), Padding)
     IN  IF CanUnion(Validated, rows)
         THEN /\ scores' = [i \in DOMAIN rows |-> <<Validated[i].data, rows[i].input_ids>>]
              /\ stage' = Following
         ELSE stage' = "failed" /\ UNCHANGED scores
  /\ UNCHANGED <<batch, gen, trained>>

\* An identifier for each prompt, the rows repeated for their responses, the union
\* with them, and _balance_batch.
Assemble ==
  /\ stage = "assemble"
  /\ LET identified == [i \in DOMAIN batch |-> With(batch[i], [uid |-> i])]
         repeated == Repeat(identified, config.n)
         rows == Union(repeated, gen.output)
         order == FlattenSeq(Partitions(LensOf(rows), config.world, TRUE))
     IN  Continue(CanUnion(repeated, gen.output), Reorder(rows, order))
  /\ UNCHANGED <<config, lens, gen, chunks, joined, trained, scores>>

\* reward_fn, which takes the reward model's scores where there are some, and
\* apply_kl_penalty unless the loss has its own.
Rewarded(row) ==
  LET score == <<row.data, IF config.useRm THEN row.rm_scores ELSE row.input_ids>>
      kl == IF ~ config.useKlLoss /\ config.useRef
            THEN {row.old_log_probs, row.ref_log_prob} ELSE {}
  IN  With(row, [token_level_scores |-> score, token_level_rewards |-> {score[2]} \cup kl])

\* compute_advantage: an advantage is what it was computed from.
Advantages(rows, row) ==
  LET group == UNION {r.token_level_rewards : r \in {q \in ToSet(rows) : q.uid = row.uid}}
      all == UNION {r.token_level_rewards : r \in ToSet(rows)}
  IN  CASE config.adv = "grpo" -> [advantages |-> group, returns |-> group]
        [] config.adv = "remax" ->
             [advantages |-> row.token_level_rewards \cup {row.reward_baselines[2]},
              returns |-> row.token_level_rewards]
        [] config.adv = "gae" ->
             [advantages |-> all, returns |-> row.token_level_rewards \cup {row.values.of}]
        [] OTHER -> [advantages |-> all, returns |-> row.token_level_rewards]

ComputeAdvantage ==
  /\ stage = "advantage"
  /\ LET rows == [i \in DOMAIN batch |-> Rewarded(batch[i])]
     IN  batch' = [i \in DOMAIN rows |-> With(rows[i], Advantages(rows, rows[i]))]
  /\ stage' = Following
  /\ UNCHANGED <<config, lens, gen, chunks, joined, trained, scores>>

Driver ==
  \/ Dispatch \/ Raise \/ CollectResponses \/ CollectBaseline \/ CollectColumn
  \/ CollectUpdate \/ CollectValidation \/ Assemble \/ ComputeAdvantage

Next == Driver \/ \E r \in Ranks : Join(r)

Spec == Init /\ [][Next]_vars

-----------------------------------------------------------------------------
(* Properties. *)

\* The values of the response x, under its own mask; with use_dynamic_bsz the critic masks
\* before it restores the order of the rows, and the mask is another row's.
OwnValues(v, x) == v.of = x /\ (config.dynamic \/ v.mask = x)

Owned(row, x) ==
  /\ row.data = x[1] /\ row.uid = x[1]
  /\ \A c \in {"old_log_probs", "ref_log_prob", "rm_scores"} \cap DOMAIN row : row[c] = x
  /\ "values" \in DOMAIN row => OwnValues(row.values, x)
  /\ "token_level_rewards" \in DOMAIN row =>
       row.token_level_scores = <<x[1], x>> /\ row.token_level_rewards = {x}
  /\ "reward_baselines" \in DOMAIN row => row.reward_baselines = <<x[1], Greedy(x[1])>>

\* From the union on the batch has a row for every response and one only, and every
\* column of the row is of that response or its prompt: through the balancing, the
\* chunks of the ranks, the groups' gathering and the micro-batches.  The critic's values
\* are masked by the row's own mask too, except with use_dynamic_bsz (compute_values), where
\* ValuesMaskedByOwnRow fails.
RowsAligned ==
  "input_ids" \in Columns(batch) =>
    /\ {row.input_ids : row \in ToSet(batch)} = Responses
    /\ Len(batch) = Cardinality(Responses)
    /\ \A i \in DOMAIN batch : Owned(batch[i], batch[i].input_ids)

\* A group of GRPO is the n responses of one prompt, although the rows were balanced
\* over the ranks, and a baseline of ReMax the greedy response of the same prompt
\* (compute_advantage by uid, _balance_batch).
GroupsAreWhole ==
  \A row \in ToSet(batch) : "advantages" \in DOMAIN row =>
    /\ config.adv = "grpo" => row.advantages = {row.input_ids[1]} \X (1..config.n)
    /\ config.adv = "remax" => row.advantages = {row.input_ids, Greedy(row.input_ids[1])}

\* The rows that one rank was trained on, over all micro-batches of all mini-batches.
TrainedRows(u, r) == FlattenSeq([m \in DOMAIN trained[u][r] |-> FlattenSeq(trained[u][r][m])])

\* An update trains each response exactly once: in one sequence parallel group, one
\* mini-batch and one micro-batch; all ranks take the same optimizer steps of the
\* same number of micro-batches, and the ranks of a group have the same rows.
TrainedOnce ==
  \A u \in Updates : trained[u][0] # <<>> =>
    LET rows == FlattenSeq([g \in 1..(config.world \div config.sp) |->
                             TrainedRows(u, (g - 1) * config.sp)])
    IN  /\ ToSet(rows) = Responses /\ Len(rows) = Cardinality(Responses)
        /\ \A r \in Ranks :
             /\ trained[u][r] = trained[u][Base(r, config.sp)]
             /\ [m \in DOMAIN trained[u][r] |-> Len(trained[u][r][m])] =
                [m \in DOMAIN trained[u][0] |-> Len(trained[u][0][m])]

\* The ranks' shares of the batch have as many rows each and their tokens differ by
\* no more than the longest and the shortest response do; the micro-batches of one
\* mini-batch differ by no more than its longest response, and none is empty
\* (get_seqlen_balanced_partitions).
SharesAreBalanced ==
  LET values == {lens[x] : x \in Responses}
      heavy(part) == Total([i \in DOMAIN part |-> lens[part[i]]])
  IN  /\ "input_ids" \in Columns(batch) =>
           \A a, b \in ToSet(Chunk(batch, config.world)) :
             Total(LensOf(a)) - Total(LensOf(b)) <= Max(values) - Min(values)
      /\ config.dynamic =>
           \A u \in Updates, r \in Ranks : \A mini \in ToSet(trained[u][r]) :
             \A a, b \in ToSet(mini) :
               b # <<>> /\ heavy(a) - heavy(b) <= Max({lens[x] : x \in ToSet(Concat(mini))})

\* Every row of the validation batch is scored once, in its place and with a response
\* of its own, whatever padding its size needed (pad_dataproto_to_divisor).
ValidationCovers ==
  stage = "done" => scores = [i \in 1..config.validation |-> <<i, Greedy(i)>>]

\* No response is lost or counted twice, in the updates as in the validation.
EveryRowCounts == TrainedOnce /\ ValidationCovers

\* What _validate_config does not ask for and an iteration needs besides: prompts,
\* not only responses, that the ranks can share, and mini-batches that do not vanish.
RunsWhenDivisible ==
  stage = "failed" =>
    \/ config.prompts % config.world # 0
    \/ config.mini < config.world \div config.sp
    \/ config.useKlLoss /\ ~ config.useRef
    \/ config.dynamic /\ MaxTokens < config.width

\* A call comes to its end: no rank waits in a collective that another one never
\* enters (the all-reduce in rearrange_micro_batches makes the ranks of a call, whose
\* rows differ, run the same number of micro-batches).
NobodyLeftWaiting ==
  chunks # <<>> /\ CanRun =>
    (\A r \in Ranks : Returned(r)) \/ (\E r \in Ranks : CanJoin(r))

\* An iteration comes to its end, unless its sizes do not divide: it neither hangs nor
\* fails otherwise.
StepCompletes == NobodyLeftWaiting /\ RunsWhenDivisible

\* The values of a response are masked by its own mask: what is reordered for the
\* micro-batches is put back as it was.
ValuesMaskedByOwnRow ==
  \A row \in ToSet(batch) : "values" \in DOMAIN row => row.values.mask = row.input_ids
=============================================================================
