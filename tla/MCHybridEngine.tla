--------------------------- MODULE MCHybridEngine ----------------------------
(* Model values for HybridEngine. *)
EXTENDS HybridEngine

Plain ==
  [roles |-> Roles, param |-> {}, grad |-> {}, optimizer |-> {}, freeCache |-> TRUE,
   template |-> TRUE, warmup |-> 0]

\* Everything offloaded, and each part alone; a critic that is warmed up.
MCConfigs ==
  {[Plain EXCEPT !.param = Trained, !.grad = Trained, !.optimizer = Trained],
   [Plain EXCEPT !.optimizer = Trained, !.freeCache = FALSE, !.roles = {"actor", "ref"}],
   [Plain EXCEPT !.param = {"actor"}, !.roles = {"actor", "critic", "rm"}, !.warmup = 2],
   [Plain EXCEPT !.grad = Trained, !.param = {"critic"}, !.roles = Trained]}

\* A reward model with the chat template of the policy: it misses ScoresWithoutTemplate.
MCNoTemplate == {[Plain EXCEPT !.template = FALSE]}

\* Generation goes on in a new process where it was.  It does not: it draws the same numbers again.
GenerationGoesOn ==
  module["actor"].weights # None /\ call # "init_actor" /\ ~Generating =>
    \A r \in Ranks : LET g == DpRank(r) IN rng.gen[r] = <<1000 + g, drawn.earlier[g] + drawn.gen[g]>>
=============================================================================
