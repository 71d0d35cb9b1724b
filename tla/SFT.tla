---------------------------------- MODULE SFT ----------------------------------
(***************************************************************************)
(* Supervised fine-tuning: SFTDataset and FSDPSFTTrainer.  The rows are dealt to  *)
(* the data parallel groups, the ranks of a group share the places of the same    *)
(* rows, the mask picks the tokens of the responses, and every rank's loss is      *)
(* scaled so that FSDP's mean over all ranks is a mean over tokens or groups.      *)
(*                                                                         *)
(* A token is <<row, 0, place>>.  All ranks train in step, as the collectives of   *)
(* every backward pass force them to; around the barriers they go one by one.     *)
(***************************************************************************)
EXTENDS Layout, FiniteSets

CONSTANTS
  Configs,    \* [dp, sp, batch, micro, balance, truncation, epochs, total, val];
              \* total = 0 is null, val is the number of validation rows
  Files,      \* what the training files may hold: sequences of [prompt, response] lengths
  MaxLength,  \* data.max_length
  Heads       \* attention heads

Config ==
  [dp : Nat \ {0}, sp : Nat \ {0}, batch : Nat \ {0}, micro : Nat \ {0}, balance : BOOLEAN,
   truncation : {"left", "right", "error"}, epochs : Nat, total : Nat, val : Nat]

\* A prompt is in the chat template and a response has its end token (sft_dataset.py); the sequence
\* parallel ranks share the heads (ulysses.py).
ASSUME ConfigsValid ==
  /\ MaxLength \in Nat \ {0} /\ Heads \in Nat \ {0}
  /\ Configs \subseteq Config /\ \A c \in Configs : Heads % c.sp = 0
  /\ Files \subseteq Seq([prompt : Nat \ {0}, response : Nat \ {0}])

VARIABLES
  config,    \* the configuration of this run
  files,     \* the rows of the training files
  epoch,     \* epochs begun
  step,      \* global_step
  order,     \* the sampler's order of the rows in this epoch
  seen,      \* the rows each rank has trained in this epoch
  pull,      \* the micro-batches of each rank in the last training step
  at,        \* where each rank is
  saved      \* the steps whose checkpoint is on disk

vars == <<config, files, epoch, step, order, seen, pull, at, saved>>

World == config.dp * config.sp
Ranks == 0..(World - 1)

-----------------------------------------------------------------------------
(* The data set. *)

PromptLength(i) == files[i].prompt
ResponseLength(i) == files[i].response
Text(i) == [k \in 1..(PromptLength(i) + ResponseLength(i)) |-> <<i, 0, k>>]
TooLong(i) == Len(Text(i)) > MaxLength

\* Padding follows the text; the mask leaves out the prompt but its last place, and the last place.
Ids(i) == PadRight(Truncated(Text(i), MaxLength, config.truncation), MaxLength, <<0, 0, 0>>)
AttentionMask(i) == [c \in 1..MaxLength |-> IF c <= Len(Text(i)) THEN 1 ELSE 0]
AtMost(n) == IF n < MaxLength THEN n ELSE MaxLength
\* The whole prompt is left out.
MasksPrompt(i) ==
  [c \in 1..MaxLength |->
    IF c <= AtMost(PromptLength(i)) \/ c = AtMost(Len(Text(i))) THEN 0 ELSE AttentionMask(i)[c]]
LossMask(i) ==
  [c \in 1..MaxLength |->
    IF c < AtMost(PromptLength(i)) \/ c = AtMost(Len(Text(i))) THEN 0 ELSE AttentionMask(i)[c]]

Stacked(rows) ==
  [input_ids      |-> Each([k \in DOMAIN rows |-> Ids(rows[k])]),
   attention_mask |-> Each([k \in DOMAIN rows |-> Each(AttentionMask(rows[k]))]),
   position_ids   |-> Each([k \in DOMAIN rows |-> Each(PositionIds(AttentionMask(rows[k])))]),
   loss_mask      |-> Each([k \in DOMAIN rows |-> Each(LossMask(rows[k]))])]

-----------------------------------------------------------------------------
(* Dealing the rows. *)

BatchSize == config.batch \div config.dp
StepsPerEpoch == (Len(files) \div config.dp) \div BatchSize
Total == IF config.total = 0 THEN StepsPerEpoch * config.epochs ELSE config.total

\* Neighbouring ranks are dealt different rows.
DealtByRank(r) == r % config.dp
DataRank(r) == r \div config.sp

\* DistributedSampler: every dp-th row, as many for each as there are for all.
Share(d) == [k \in 1..(Len(files) \div config.dp) |-> order[(k - 1) * config.dp + d + 1]]

BatchOf(r) == LET k == Len(seen[r]) IN SubSeq(Share(DataRank(r)), k + 1, k + BatchSize)
MicroBatches(rows) ==
  Each([m \in 1..(Len(rows) \div config.micro) |-> SubSeq(rows, (m - 1) * config.micro + 1, m * config.micro)])

-----------------------------------------------------------------------------
(* One forward and backward pass. *)

\* Each place but the last of a row, with the token after it: by shifting the row, or by
\* rolling the packed rows and putting the padding back.
Losses(b) ==
  IF config.sp = 1
  THEN LET hidden == PaddedAttention(b, Heads)
       IN Each([i \in DOMAIN hidden |->
            Each([c \in 1..(MaxLength - 1) |-> <<b.input_ids[i][c + 1], hidden[i][c]>>])])
  ELSE LET full == RmpadForward(b, config.sp, Heads, TRUE)
       IN Each([i \in DOMAIN full |-> SubSeq(full[i], 1, MaxLength - 1)])

Terms(b) ==
  LET losses == Losses(b)
      kept == {k \in (DOMAIN losses) \X (1..(MaxLength - 1)) : b.loss_mask[k[1]][k[2]] = 1}
  IN {losses[k[1]][k[2]] : k \in kept}
ValidTokens(rows) == MatrixSum([k \in DOMAIN rows |-> SubSeq(LossMask(rows[k]), 1, MaxLength - 1)])

\* The divisor: a rank's own valid tokens, or all_reduced over the world; each rank of a sequence
\* parallel group adds the tokens of the whole group.
OwnTokens(r, m) == ValidTokens(pull[r][m])
Divisor(r, m) ==
  IF config.balance THEN SumSeq([k \in 1..World |-> ValidTokens(pull[k - 1][m])])
  ELSE ValidTokens(pull[r][m])
DpSize == IF ~config.balance THEN 1 ELSE IF config.sp > 1 THEN config.dp ELSE World

\* The backward pass of the gathered losses reaches a rank's own slice, sp times as strong.
GatherScale == config.sp

\* A term's factor in the gradient is Num / Den, FSDP's mean over the ranks included.
Num == DpSize * GatherScale
Den(r, m) == Divisor(r, m) * World

-----------------------------------------------------------------------------
(* The run. *)

Init ==
  /\ config \in Configs
  /\ files \in Files
  /\ epoch = 0
  /\ step = 0
  /\ order = <<>>
  /\ seen = [r \in Ranks |-> <<>>]
  /\ pull = <<>>
  /\ at = [r \in Ranks |-> "start"]
  /\ saved = {}

All(here) == \A r \in Ranks : at[r] = here
AllGo(there) == at' = [r \in Ranks |-> there]

\* The batch sizes must divide.
Start ==
  /\ All("start")
  /\ AllGo(IF config.batch % config.dp = 0 /\ BatchSize % config.micro = 0 THEN "epoch" ELSE "raised")
  /\ UNCHANGED <<config, files, epoch, step, order, seen, pull, saved>>

BeginEpoch ==
  /\ All("epoch")
  /\ epoch < config.epochs
  /\ epoch' = epoch + 1
  /\ order' \in {o \in [DOMAIN files -> DOMAIN files] : IsInjective(o)}
  /\ seen' = [r \in Ranks |-> <<>>]
  /\ AllGo(IF StepsPerEpoch = 0 THEN "validate" ELSE "train")
  /\ UNCHANGED <<config, files, step, pull, saved>>

\* All ranks take a step, and validate when it was the last or the loader has run out.
TrainingStep ==
  /\ All("train")
  /\ \A r \in Ranks : \A i \in Range(BatchOf(r)) : TooLong(i) => config.truncation # "error"
  /\ pull' = [r \in Ranks |-> MicroBatches(BatchOf(r))]
  /\ seen' = [r \in Ranks |-> seen[r] \o BatchOf(r)]
  /\ step' = step + 1
  /\ AllGo(IF step' >= Total \/ Len(seen'[0]) = StepsPerEpoch * BatchSize THEN "validate" ELSE "train")
  /\ UNCHANGED <<config, files, epoch, order, saved>>

\* A row that does not fit is refused by the ranks that were dealt it.
RowTooLong(r) ==
  /\ All("train")
  /\ config.truncation = "error"
  /\ \E i \in Range(BatchOf(r)) : TooLong(i)
  /\ at' = [at EXCEPT ![r] = "raised"]
  /\ UNCHANGED <<config, files, epoch, step, order, seen, pull, saved>>

\* All ranks validate together; then rank 0 takes the mean of the losses, of which there must be
\* one, and the others go to the barrier.
ValBatches == (config.val \div config.dp) \div config.micro
Validate ==
  /\ All("validate")
  /\ at' = [r \in Ranks |-> IF r = 0 /\ ValBatches = 0 THEN "raised" ELSE "validated"]
  /\ UNCHANGED <<config, files, epoch, step, order, seen, pull, saved>>

\* The first barrier; the whole state is gathered, which takes all ranks; all but rank 0 wait.
GatherState ==
  /\ All("validated")
  /\ at' = [r \in Ranks |-> IF r = 0 THEN "save" ELSE "saved"]
  /\ UNCHANGED <<config, files, epoch, step, order, seen, pull, saved>>

\* Rank 0 writes and goes no further.
WritesOnly ==
  /\ at[0] = "save"
  /\ step \notin saved
  /\ saved' = saved \cup {step}
  /\ UNCHANGED <<config, files, epoch, step, order, seen, pull, at>>
Save ==
  /\ at[0] = "save"
  /\ saved' = saved \cup {step}
  /\ at' = [at EXCEPT ![0] = "saved"]
  /\ UNCHANGED <<config, files, epoch, step, order, seen, pull>>

\* The second barrier: the run returns after its last step, else it goes to the next epoch.
PassBarrier ==
  /\ All("saved")
  /\ AllGo(IF step > 0 /\ step >= Total THEN "returned" ELSE "epoch")
  /\ UNCHANGED <<config, files, epoch, step, order, seen, pull, saved>>

\* Fewer steps than the total: the run is over with the epochs.
EpochsOver ==
  /\ All("epoch")
  /\ epoch = config.epochs
  /\ AllGo("returned")
  /\ UNCHANGED <<config, files, epoch, step, order, seen, pull, saved>>

\* torchrun ends all ranks when one has failed.
Abort ==
  /\ \E r \in Ranks : at[r] = "raised"
  /\ ~All("raised")
  /\ AllGo("raised")
  /\ UNCHANGED <<config, files, epoch, step, order, seen, pull, saved>>

Next == \/ Start \/ BeginEpoch \/ TrainingStep \/ Validate \/ GatherState \/ Save
        \/ PassBarrier \/ EpochsOver \/ Abort \/ \E r \in Ranks : RowTooLong(r)

\* Each rank's program goes on until it has to wait.
Spec == Init /\ [][Next]_vars /\ WF_vars(Next)

-----------------------------------------------------------------------------
(* Properties. *)

\* What remains of row i, and its response tokens, from the lengths alone.
Kept(i) == IF config.truncation = "left" /\ TooLong(i) THEN Len(Text(i)) - MaxLength ELSE 0
Context(i, k) ==
  [h \in 1..Heads |-> [j \in 1..(k - Kept(i)) |-> <<<<<<i, 0, j + Kept(i)>>, h>>, j - 1>>]]
Response(i) ==
  {k \in (PromptLength(i) + 1)..Len(Text(i)) : config.truncation = "right" => k <= MaxLength}
Expected(i) == {<<<<i, 0, k>>, Context(i, k - 1)>> : k \in {k \in Response(i) : k - 1 > Kept(i)}}

\* The loss of a row is over its response tokens, each predicted from all that precedes it in
\* its own row: all of them, the end token included, unless the row was cut on the left; never a
\* token of the prompt, of padding or of the next packed row.
LossCoversResponse ==
  \A r \in DOMAIN pull : \A m \in DOMAIN pull[r] :
    LET rows == pull[r][m]
        wanted == UNION {Expected(i) : i \in Range(rows)}
        terms == Terms(Stacked(rows))
    IN /\ terms \subseteq wanted
       /\ (\A i \in Range(rows) : Kept(i) = 0) => terms = wanted

\* In an epoch the ranks of a sequence parallel group, neighbours that slice the same packed rows,
\* train the same rows, other groups other rows, and no row twice.
Neighbours(r, q) == r \div config.sp = q \div config.sp
EpochIsShared ==
  \A r, q \in DOMAIN seen :
    /\ IsInjective(seen[r])
    /\ IF Neighbours(r, q) THEN seen[r] = seen[q] ELSE Range(seen[r]) \cap Range(seen[q]) = {}

\* The loss of a micro-batch is a mean.  Without balance_dp_token it is one over the response tokens
\* of each group, and the groups weigh the same, so that a token of a group with few of them weighs
\* more.  With it every token of all groups weighs the same, and when the groups have one rank that
\* weight makes a mean; with more it does not (SpLossMatches).  It is not a number only where a prompt
\* alone fills the window.  Rows cut on the left are left out: their mask is not of their response.
Learned(r, m) == SumSeq([k \in DOMAIN pull[r][m] |-> Cardinality(Expected(pull[r][m][k]))])
LearnedByGroups(m) == SumSeq([d \in 1..config.dp |-> Learned((d - 1) * config.sp, m)])
LossIsAMean ==
  config.truncation # "left" =>
    \A r \in DOMAIN pull : \A m \in DOMAIN pull[r] :
      IF Den(r, m) = 0 THEN \E i \in Range(pull[r][m]) : PromptLength(i) >= MaxLength
      ELSE IF config.balance
           THEN /\ \A q \in DOMAIN pull : Den(q, m) = Den(r, m)
                /\ config.sp = 1 => Den(r, m) = Num * LearnedByGroups(m)
           ELSE Den(r, m) = Num * config.dp * Learned(r, m)

\* An epoch is learned as it is dealt: no row twice, and every micro-batch by a mean over the tokens
\* of its groups, weighed as balance_dp_token says.
EpochIsLearned == EpochIsShared /\ LossIsAMean

\* With sequence parallelism the loss is the one without it over the same rows, as the test of the
\* two paths asserts.  There, too, every rank of a group has the group's rows; both divide by the
\* same tokens, and each rank without sequence parallelism has the whole world as its dp_size.
ReferenceSize == IF config.balance THEN World ELSE 1
SpLossMatches == pull # <<>> => DpSize = ReferenceSize

\* Every run ends, with an error or with the checkpoint of its last step.
RunEnds == <>(All("raised") \/ (All("returned") /\ step \in saved))
=============================================================================
