----------------------------- MODULE MCPPOStep ------------------------------
(* Model values for PPOStep. *)
EXTENDS PPOStep

\* GRPO with a reference and a loss of its own, two responses of each prompt, the
\* rollout over two tensor parallel ranks, dynamic micro-batches.
Base0 ==
  [world |-> 2, tp |-> 2, sp |-> 1, prompts |-> 2, n |-> 2, mini |-> 2, micro |-> 1,
   dynamic |-> TRUE, maxTokens |-> 4, width |-> 4, lengths |-> 1..4, adv |-> "grpo",
   useRef |-> TRUE, useRm |-> FALSE, useKlLoss |-> TRUE, updateActor |-> TRUE,
   validation |-> 3]

\* A critic and a reward model, with three rows for each rank: mini-batches of two
\* rows and of one, once with micro-batches of one row and once with dynamic ones.
Critic ==
  [Base0 EXCEPT !.prompts = 6, !.n = 1, !.tp = 1, !.mini = 4, !.adv = "gae",
                !.useRm = TRUE, !.useKlLoss = FALSE, !.validation = 1]

\* Dynamic micro-batches of a critic: the values miss ValuesMaskedByOwnRow.
MCCritic == {[Critic EXCEPT !.lengths = {1, 4}]}

MCConfigs ==
  {Base0,
   [Critic EXCEPT !.dynamic = FALSE, !.lengths = {1, 3}],
   [Critic EXCEPT !.lengths = {1, 4}, !.updateActor = FALSE],
   \* Four ranks in two sequence parallel and two tensor parallel groups.
   [Base0 EXCEPT !.world = 4, !.sp = 2, !.prompts = 4, !.n = 1, !.adv = "remax",
                 !.lengths = {1, 3}, !.maxTokens = 2, !.useKlLoss = FALSE, !.validation = 5],
   [Base0 EXCEPT !.adv = "remax", !.prompts = 4, !.lengths = {2}, !.useRef = FALSE,
                 !.useKlLoss = FALSE, !.validation = 0],
   [Base0 EXCEPT !.adv = "reinforce_plus_plus", !.dynamic = FALSE, !.micro = 2,
                 !.lengths = {1, 2}, !.useKlLoss = FALSE],
   \* Those that fail: too few prompts for the ranks, no mini-batch, no reference, too
   \* few tokens for a row.
   [Base0 EXCEPT !.prompts = 3, !.lengths = {1}],
   [Critic EXCEPT !.mini = 1, !.lengths = {1}],
   [Base0 EXCEPT !.useRef = FALSE, !.lengths = {1}],
   [Base0 EXCEPT !.maxTokens = 3, !.lengths = {1}]}
=============================================================================
