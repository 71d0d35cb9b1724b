---------------------------- MODULE MCTokenLayout ----------------------------
EXTENDS TokenLayout

Base == [backend |-> "rmpad", sp |-> 2, heads |-> 2, sequence_parallel |-> FALSE, pad_is_eos |-> FALSE,
         n |-> 1, rm_width |-> 6, estimator |-> "gae", gamma |-> 1, lam |-> 1, kl |-> "abs",
         cliprange |-> 2]
On(backend, sp, parallel) ==
  [Base EXCEPT !.backend = backend, !.sp = sp, !.heads = IF sp = 3 THEN 3 ELSE 4, !.sequence_parallel = parallel]

\* Every way to lay out a forward pass, then every estimator.
Layouts == {On("padded", 1, FALSE), On("rmpad", 1, FALSE), On("rmpad", 2, FALSE), On("rmpad", 3, FALSE),
            On("rmpad", 4, FALSE), On("megatron", 2, FALSE), On("megatron", 2, TRUE), On("megatron", 4, TRUE)}
MCSetups ==
  {[c EXCEPT !.pad_is_eos = e, !.rm_width = w] : c \in Layouts, e \in BOOLEAN, w \in {0, 3, 6}}
  \cup {[Base EXCEPT !.gamma = g, !.lam = l, !.kl = k] : g \in {1, 2}, l \in {0, 1}, k \in {"kl", "mse"}}
  \cup {[Base EXCEPT !.estimator = e, !.gamma = IF e = "remax" THEN 1 ELSE g, !.kl = k]
          : e \in {"reinforce_plus_plus", "remax"}, g \in {1, 2}, k \in {"kl", "mse"}}
  \cup {[Base EXCEPT !.estimator = "grpo", !.n = m] : m \in {1, 2}}

\* An advantage comes from the row's own tokens alone.  It does not with lam below 1, where the
\* value of the state behind an early end stays in it.
AdvantagesFromOwnTokens ==
  phase = "losses" /\ setup.estimator = "gae" =>
    \A i \in Rows : \A j \in 1..Size(i) : batch.advantages[i][j] = Whitened(OwnGae, i, j)

\* A reward model needs no tokenizer of its own: nothing fails before the scores are there, unless
\* no prompt fits.  On the FSDP side something does.
NullTokenizerScores == phase = "error" => docs = <<>> \/ "scores" \in DOMAIN batch
=============================================================================
