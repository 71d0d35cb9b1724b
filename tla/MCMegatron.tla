------------------------------ MODULE MCMegatron ------------------------------
EXTENDS Megatron

Iteration == <<"generate_sequences", "compute_log_prob", "compute_ref_log_prob", "compute_values",
               "compute_rm_score", "update_critic", "update_actor">>
Twice == <<"init_model">> \o Iteration \o Iteration

\* heads and inner are multiples of the tensor parallel size, with two queries to a key.
Grid(tp, dp, pp, infer, rows, micro, mini, epochs) ==
  [tp |-> tp, dp |-> dp, pp |-> pp, infer |-> infer, layers |-> 2 * pp, heads |-> 4 * tp,
   kv |-> 2 * tp, inner |-> 2 * tp, rows |-> rows, micro |-> micro, mini |-> mini,
   epochs |-> epochs, shuffle |-> TRUE, offload |-> pp = 2, calls |-> Twice]

MCConfigs == {
  Grid(2, 1, 2, 1, 4, 2, 2, 1),  \* two engines in a tensor parallel group, two stages
  Grid(2, 1, 2, 2, 4, 1, 2, 2),  \* one engine, two epochs
  Grid(4, 1, 1, 2, 4, 2, 4, 1),  \* two engines of two ranks each
  Grid(1, 2, 2, 1, 4, 1, 1, 1),  \* data and pipeline parallel
  Grid(2, 2, 1, 2, 4, 1, 2, 1)}  \* data and tensor parallel
=============================================================================
