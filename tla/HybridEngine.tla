---------------------------- MODULE HybridEngine -----------------------------
(***************************************************************************)
(* The FSDP workers of one resource pool (workers/fsdp_workers.py): actor     *)
(* with rollout, critic, reference and reward model, colocated in one process *)
(* for each rank and called one after the other by the driver.                *)
(*                                                                         *)
(* The ranks run every call in step.  A call is a list of operations; what    *)
(* is followed of each role is where its parameters, gradients and optimizer  *)
(* state are, the version of its weights, and whether the root of its FSDP    *)
(* module is left unsharded.  A version counts the steps of the optimizer.    *)
(***************************************************************************)
EXTENDS Naturals, Sequences, SequencesExt

CONSTANTS
  WorldSize,  \* the ranks of the pool
  InferTP,    \* rollout.tensor_model_parallel_size
  Configs,    \* the configurations, see Config
  Minis,      \* the mini-batches of a rank in one update
  Micros,     \* the micro-batches of a mini-batch
  MaxSteps,   \* bounds the iterations of the driver
  MaxDraws,   \* bounds the random numbers drawn from each stream
  MaxLives,   \* bounds the processes one after the other
  None        \* no version

Trained == {"critic", "actor"}
Frozen == {"ref", "rm"}
Roles == Trained \cup Frozen
Ranks == 0..(WorldSize - 1)
DpRank(r) == r \div InferTP
Groups == {DpRank(r) : r \in Ranks}

Config ==
  [roles : SUBSET Roles,        \* the roles in use
   param : SUBSET Trained,      \* those with param_offload
   grad : SUBSET Trained,       \* those with grad_offload
   optimizer : SUBSET Trained,  \* those with optimizer_offload
   freeCache : BOOLEAN,         \* rollout.free_cache_engine
   template : BOOLEAN,          \* reward_model.model.input_tokenizer is not null
   warmup : Nat]                \* trainer.critic_warmup

\* The mesh of the rollout needs whole groups; a root that is not sharded (one rank)
\* cannot be resharded by the reward model.
ASSUME MeshDivides ==
  WorldSize \in Nat /\ WorldSize > 1 /\ InferTP \in Nat \ {0} /\ WorldSize % InferTP = 0
ASSUME ConfigsValid == \A c \in Configs : c \in Config /\ "actor" \in c.roles
ASSUME BatchesSplit == Minis \in Nat /\ Micros \in Nat \ {0}

\* What a role writes: its weights, whether AdamW has a state, and the generator of each rank;
\* beside it how many numbers training had drawn, to compare with when it is loaded.
SavedState ==
  [weights : Nat, state : BOOLEAN, cuda : [Ranks -> Nat \X Nat], drawn : [Ranks -> Nat], step : Nat]

ASSUME NoneIsNoVersion == None \notin Nat
ASSUME NoneIsNoCheckpoint == None \notin SavedState /\ None \notin [Trained -> SavedState \cup {None}]

VARIABLES
  config,   \* self.config of the workers
  module,   \* the FSDP module of each role
  engine,   \* the inference engine: its weights, and whether its cache is allocated
  rng,      \* the generator of each rank, and the states the sharding manager keeps
  drawn,    \* the numbers that training has drawn up to these weights, and that generation has
            \* drawn in this process and in the earlier ones
  batch,    \* the versions that sampled and scored the driver's batch
  plan,     \* the calls the driver makes next
  call,     \* the call that runs or ran last
  todo,     \* what is left of it
  step,     \* global_steps
  saved,    \* what each role has written into the directory of this step
  tracked,  \* the checkpoint the tracker names
  lives     \* the processes so far

vars == <<config, module, engine, rng, drawn, batch, plan, call, todo, step, saved, tracked,
          lives>>

Op(name, role) == [op |-> name, on |-> role]
When(condition, ops) == IF condition THEN ops ELSE <<>>
Times(n, ops) == FlattenSeq([i \in 1..n |-> ops])

-----------------------------------------------------------------------------
(* What the handlers of the workers do, in their order. *)

LoadParams(r) == When(r \in config.param, <<Op("load_params", r)>>)
OffloadParams(r) == When(r \in config.param, <<Op("offload_params", r)>>)
LoadOptimizer(r) == When(r \in config.optimizer, <<Op("load_optimizer", r)>>)
OffloadOptimizer(r) == When(r \in config.optimizer, <<Op("offload_optimizer", r)>>)

\* The engine first, and then the manager that hands the weights over to it.
RolloutOps == <<Op("build_engine", "actor"), Op("build_manager", "actor")>>

\* The parameters stay where the sharding manager needs them.
InitActor ==
  <<Op("build", "actor")>>
  \o When("actor" \in config.param, <<Op("offload_grad", "actor")>>)
  \o OffloadOptimizer("actor") \o RolloutOps

InitCritic ==
  <<Op("build_critic", "critic")>> \o OffloadParams("critic") \o OffloadOptimizer("critic")

InitRef == <<Op("build", "ref")>>

InitRewardModel == <<Op("build_model", "rm")>>

\* The cache is never freed.
KeepsCache(sampling) ==
  LoadParams("actor") \o <<Op("enter", "actor")>>
  \o When(config.freeCache, <<Op("init_cache", "actor")>>)
  \o <<Op(sampling, "actor"), Op("exit", "actor")>> \o OffloadParams("actor")

GenerateSequences(sampling) ==
  LoadParams("actor") \o <<Op("enter", "actor")>>
  \o When(config.freeCache, <<Op("init_cache", "actor")>>)
  \o <<Op(sampling, "actor")>>
  \o When(config.freeCache, <<Op("free_cache", "actor")>>)
  \o <<Op("exit", "actor")>> \o OffloadParams("actor")

ComputeLogProb ==
  LoadParams("actor") \o <<Op("forward", "actor"), Op("reshard", "actor")>>
  \o OffloadParams("actor")

ComputeRefLogProb == <<Op("forward", "ref"), Op("reshard", "ref")>>

ComputeValues == LoadParams("critic") \o <<Op("forward", "critic")>> \o OffloadParams("critic")

\* Without a template to switch there is no batch for the model.
ComputeRmScore ==
  When(config.template, <<Op("switch_template", "rm")>>)
  \o <<Op("forward", "rm"), Op("reshard", "rm")>>

MiniBatch(r) ==
  <<Op("zero_grad", r)>> \o Times(Micros, <<Op("forward", r), Op("backward", r)>>)
  \o <<Op("optimizer_step", r)>>

\* The optimizer's state is not brought back before the update.
UpdateAsItIs(r) ==
  LoadParams(r) \o Times(Minis, MiniBatch(r)) \o <<Op("zero_grad", r)>>
  \o OffloadParams(r) \o OffloadOptimizer(r)

Update(r) ==
  LoadParams(r) \o LoadOptimizer(r)
  \o Times(Minis, MiniBatch(r)) \o <<Op("zero_grad", r)>>
  \o OffloadParams(r) \o OffloadOptimizer(r)

UpdateActor == Update("actor")
UpdateCritic == Update("critic")

SaveCheckpoint(r) == LoadParams(r) \o <<Op("save", r)>> \o OffloadParams(r)

LoadCheckpoint(r) == LoadParams(r) \o <<Op("restore", r)>> \o OffloadParams(r)

Operations(c) ==
  CASE c = "init_actor" -> InitActor
    [] c = "init_critic" -> InitCritic
    [] c = "init_ref" -> InitRef
    [] c = "init_rm" -> InitRewardModel
    [] c = "validate" -> GenerateSequences("decode")
    [] c = "generate" -> GenerateSequences("sample")
    [] c = "old_log_prob" -> ComputeLogProb
    [] c = "ref" -> ComputeRefLogProb
    [] c = "values" -> ComputeValues
    [] c = "rm" -> ComputeRmScore
    [] c = "update_critic" -> UpdateCritic
    [] c = "update_actor" -> UpdateActor
    [] c = "save_actor" -> SaveCheckpoint("actor")
    [] c = "save_critic" -> SaveCheckpoint("critic")
    [] c = "load_actor" -> LoadCheckpoint("actor")
    [] c = "load_critic" -> LoadCheckpoint("critic")

-----------------------------------------------------------------------------
(* The driver (trainer/ppo/ray_trainer.py). *)

Uses(r, calls) == When(r \in config.roles, calls)

\* init_workers, and then _load_checkpoint.
Opening(checkpoint) ==
  Uses("critic", <<"init_critic">>) \o Uses("ref", <<"init_ref">>)
  \o Uses("rm", <<"init_rm">>) \o <<"init_actor">>
  \o When(checkpoint # None, <<"load_actor">> \o Uses("critic", <<"load_critic">>))

\* The log-probabilities are taken once the actor is updated.
ScoresLast(s) ==
  <<"generate">> \o Uses("ref", <<"ref">>) \o Uses("critic", <<"values">>)
  \o Uses("rm", <<"rm">>) \o Uses("critic", <<"update_critic">>)
  \o When(config.warmup <= s, <<"update_actor">>) \o <<"old_log_prob">>

Iteration(s) ==
  <<"generate", "old_log_prob">> \o Uses("ref", <<"ref">>) \o Uses("critic", <<"values">>)
  \o Uses("rm", <<"rm">>) \o Uses("critic", <<"update_critic">>)
  \o When(config.warmup <= s, <<"update_actor">>)

Saving == <<"save_actor">> \o Uses("critic", <<"save_critic">>) \o <<"track">>

Unbuilt == [at |-> "none", full |-> None, grad |-> "none", state |-> "none", weights |-> None]
Fresh(seed) == [r \in Ranks |-> <<seed, 0>>]
Undrawn(earlier) == [train |-> [r \in Ranks |-> 0], gen |-> [g \in Groups |-> 0], earlier |-> earlier]
NoBatch == [sampled |-> None, scored |-> None]

\* A new process of the driver and the workers, and the checkpoint it finds.
Boot(checkpoint) ==
  /\ module' = [r \in Roles |-> Unbuilt]
  /\ engine' = [weights |-> None, cache |-> FALSE]
  /\ rng' = [cuda |-> Fresh(0), train |-> Fresh(0), gen |-> Fresh(0)]
  /\ drawn' = Undrawn([g \in Groups |-> drawn.earlier[g] + drawn.gen[g]])
  /\ batch' = NoBatch
  /\ plan' = Opening(checkpoint)
  /\ call' = "none" /\ todo' = <<>>
  /\ saved' = [r \in Trained |-> None]

Init ==
  /\ config \in Configs
  /\ module = [r \in Roles |-> Unbuilt]
  /\ engine = [weights |-> None, cache |-> FALSE]
  /\ rng = [cuda |-> Fresh(0), train |-> Fresh(0), gen |-> Fresh(0)]
  /\ drawn = Undrawn([g \in Groups |-> 0])
  /\ batch = NoBatch
  /\ plan = Opening(None)
  /\ call = "none" /\ todo = <<>>
  /\ step = 0
  /\ saved = [r \in Trained |-> None] /\ tracked = None
  /\ lives = 1

\* The driver calls the workers.
Call ==
  /\ todo = <<>> /\ plan # <<>> /\ Head(plan) # "track"
  /\ call' = Head(plan) /\ todo' = Operations(call') /\ plan' = Tail(plan)
  /\ UNCHANGED <<config, module, engine, rng, drawn, batch, step, saved, tracked, lives>>

\* The tracker file is written when every role has saved.
Track ==
  /\ todo = <<>> /\ plan # <<>> /\ Head(plan) = "track"
  /\ tracked' = [saved EXCEPT !["actor"].step = step]
  /\ plan' = Tail(plan)
  /\ UNCHANGED <<config, module, engine, rng, drawn, batch, call, todo, step, saved, lives>>

\* The next iteration, with or without a validation and a checkpoint at its end.
Iterate ==
  /\ todo = <<>> /\ plan = <<>> /\ step < MaxSteps
  /\ step' = step + 1
  /\ \E validates, saves \in BOOLEAN :
       plan' = Iteration(step') \o When(validates, <<"validate">>) \o When(saves, Saving)
  /\ UNCHANGED <<config, module, engine, rng, drawn, batch, call, todo, saved, tracked, lives>>

\* The job dies and is started again.
Restart ==
  /\ lives < MaxLives
  /\ lives' = lives + 1
  /\ Boot(tracked)
  /\ step' = IF tracked = None THEN 0 ELSE tracked["actor"].step
  /\ UNCHANGED <<config, tracked>>

-----------------------------------------------------------------------------
(* The operations. *)

Doing(name) == todo # <<>> /\ Head(todo).op = name
On == Head(todo).on
Done == todo' = Tail(todo) /\ UNCHANGED <<config, plan, call, step, tracked, lives>>

\* FSDP has the parameters on the device, or manages them itself on the CPU (CPUOffload);
\* AdamW has no state yet.
Built(at) ==
  /\ module' = [module EXCEPT ![On].at = at, ![On].weights = 0]
  /\ Done /\ UNCHANGED <<engine, rng, drawn, batch, saved>>

BuildModelOptimizer == Doing("build") /\ Built(IF On = "actor" THEN "gpu" ELSE "fsdp")

BuildCriticModelOptimizer == Doing("build_critic") /\ Built("gpu")

BuildModel == Doing("build_model") /\ Built("fsdp")

\* The engine allocates its cache and drops its own weights; it seeds the generator.
BuildEngine ==
  /\ Doing("build_engine")
  /\ engine' = [weights |-> None, cache |-> TRUE]
  /\ rng' = [rng EXCEPT !.cuda = Fresh(0)]
  /\ Done /\ UNCHANGED <<module, drawn, batch, saved>>

\* A state is kept for the generation of each data parallel group.
BuildShardingManager ==
  /\ Doing("build_manager")
  /\ rng' = [cuda |-> rng.cuda, train |-> rng.cuda,
             gen |-> [r \in Ranks |-> <<1000 + DpRank(r), 0>>]]
  /\ Done /\ UNCHANGED <<module, engine, drawn, batch, saved>>

MoveGrad(m, r, to) == IF r \in config.grad /\ m.grad # "none" THEN to ELSE m.grad

MoveParams(to) ==
  module' = [module EXCEPT ![On].at = to, ![On].grad = MoveGrad(module[On], On, to)]

LoadFsdpParamAndGrad ==
  /\ Doing("load_params") /\ MoveParams("gpu")
  /\ Done /\ UNCHANGED <<engine, rng, drawn, batch, saved>>

OffloadFsdpParamAndGrad ==
  /\ Doing("offload_params") /\ MoveParams("cpu")
  /\ Done /\ UNCHANGED <<engine, rng, drawn, batch, saved>>

OffloadFsdpGrad ==
  /\ Doing("offload_grad")
  /\ module' = [module EXCEPT ![On].grad = IF @ = "none" THEN @ ELSE "cpu"]
  /\ Done /\ UNCHANGED <<engine, rng, drawn, batch, saved>>

MoveOptimizer(to) == module' = [module EXCEPT ![On].state = IF @ = "none" THEN @ ELSE to]

LoadFsdpOptimizer ==
  /\ Doing("load_optimizer") /\ MoveOptimizer("gpu")
  /\ Done /\ UNCHANGED <<engine, rng, drawn, batch, saved>>

OffloadFsdpOptimizer ==
  /\ Doing("offload_optimizer") /\ MoveOptimizer("cpu")
  /\ Done /\ UNCHANGED <<engine, rng, drawn, batch, saved>>

ZeroGrad ==
  /\ Doing("zero_grad")
  /\ module' = [module EXCEPT ![On].grad = "none"]
  /\ Done /\ UNCHANGED <<engine, rng, drawn, batch, saved>>

Training == call \in {"update_critic", "update_actor"}

\* What FSDP runs on: the root that is still unsharded, or else the shards.
Used(r) == IF module[r].full = None THEN module[r].weights ELSE module[r].full

\* The root stays unsharded after it.  In training a rank may draw random numbers.
Forward ==
  /\ Doing("forward")
  /\ module' = [module EXCEPT ![On].full = Used(On)]
  /\ batch' = IF call = "old_log_prob" THEN [batch EXCEPT !.scored = Used("actor")] ELSE batch
  /\ \E d \in [Ranks -> 0..(IF Training THEN 1 ELSE 0)] :
       /\ \A r \in Ranks : drawn.train[r] + d[r] <= MaxDraws
       /\ drawn' = [drawn EXCEPT !.train = [r \in Ranks |-> @[r] + d[r]]]
       /\ rng' = [rng EXCEPT !.cuda = [r \in Ranks |-> <<@[r][1], @[r][2] + d[r]>>]]
  /\ Done /\ UNCHANGED <<engine, saved>>

\* FSDP reshards after it.
Backward ==
  /\ Doing("backward")
  /\ module' = [module EXCEPT ![On].full = None, ![On].grad = "gpu"]
  /\ Done /\ UNCHANGED <<engine, rng, drawn, batch, saved>>

OptimizerStep ==
  /\ Doing("optimizer_step")
  /\ module' = [module EXCEPT ![On].weights = @ + 1, ![On].state = "gpu"]
  /\ Done /\ UNCHANGED <<engine, rng, drawn, batch, saved>>

Reshard ==
  /\ Doing("reshard")
  /\ module' = [module EXCEPT ![On].full = None]
  /\ Done /\ UNCHANGED <<engine, rng, drawn, batch, saved>>

\* The decoded responses are tokenized for the reward model.
SwitchChatTemplate ==
  /\ Doing("switch_template")
  /\ Done /\ UNCHANGED <<module, engine, rng, drawn, batch, saved>>

\* The generation goes on from the state that was kept when the manager was built.
KeepsFirstState ==
  /\ Doing("exit")
  /\ engine' = [engine EXCEPT !.weights = None]
  /\ rng' = [rng EXCEPT !.cuda = rng.train]
  /\ Done /\ UNCHANGED <<module, drawn, batch, saved>>

Enter ==
  /\ Doing("enter")
  /\ engine' = [engine EXCEPT !.weights = module["actor"].weights]
  /\ rng' = [rng EXCEPT !.train = rng.cuda, !.cuda = rng.gen]
  /\ Done /\ UNCHANGED <<module, drawn, batch, saved>>

InitCacheEngine ==
  /\ Doing("init_cache") /\ engine' = [engine EXCEPT !.cache = TRUE]
  /\ Done /\ UNCHANGED <<module, rng, drawn, batch, saved>>

FreeCacheEngine ==
  /\ Doing("free_cache") /\ engine' = [engine EXCEPT !.cache = FALSE]
  /\ Done /\ UNCHANGED <<module, rng, drawn, batch, saved>>

\* The ranks of a tensor parallel group draw the same numbers.
Generate ==
  /\ Doing("sample")
  /\ batch' = [sampled |-> engine.weights, scored |-> None]
  /\ \E d \in [Groups -> 0..1] :
       /\ \A g \in Groups : drawn.gen[g] + d[g] <= MaxDraws
       /\ drawn' = [drawn EXCEPT !.gen = [g \in Groups |-> @[g] + d[g]]]
       /\ rng' = [rng EXCEPT !.cuda = [r \in Ranks |-> <<@[r][1], @[r][2] + d[DpRank(r)]>>]]
  /\ Done /\ UNCHANGED <<module, engine, saved>>

\* Greedy decoding draws nothing, and its batch is the validation's.
Decode ==
  /\ Doing("decode")
  /\ Done /\ UNCHANGED <<module, engine, rng, drawn, batch, saved>>

Exit ==
  /\ Doing("exit")
  /\ engine' = [engine EXCEPT !.weights = None]
  /\ rng' = [rng EXCEPT !.gen = rng.cuda, !.cuda = rng.train]
  /\ Done /\ UNCHANGED <<module, drawn, batch, saved>>

SaveState ==
  /\ Doing("save")
  /\ saved' = [saved EXCEPT ![On] =
                 [weights |-> module[On].weights, state |-> module[On].state # "none",
                  cuda |-> rng.cuda, drawn |-> drawn.train, step |-> 0]]
  /\ Done /\ UNCHANGED <<module, engine, rng, drawn, batch>>

\* The optimizer's state comes to where the parameters are.
Loaded == [module EXCEPT ![On].weights = tracked[On].weights,
                         ![On].state = IF tracked[On].state THEN module[On].at ELSE "none"]

\* The generator is left as it is.
LoadsNoGenerator ==
  /\ Doing("restore") /\ module' = Loaded
  /\ drawn' = [drawn EXCEPT !.train = tracked[On].drawn]
  /\ Done /\ UNCHANGED <<engine, rng, batch, saved>>

LoadState ==
  /\ Doing("restore") /\ module' = Loaded
  /\ rng' = [rng EXCEPT !.cuda = tracked[On].cuda]
  /\ drawn' = [drawn EXCEPT !.train = tracked[On].drawn]
  /\ Done /\ UNCHANGED <<engine, batch, saved>>

Stop == todo = <<>> /\ plan = <<>> /\ step = MaxSteps /\ UNCHANGED vars

Operate ==
  \/ BuildModelOptimizer \/ BuildCriticModelOptimizer \/ BuildModel \/ BuildEngine
  \/ BuildShardingManager \/ LoadFsdpParamAndGrad \/ OffloadFsdpParamAndGrad
  \/ OffloadFsdpGrad \/ LoadFsdpOptimizer \/ OffloadFsdpOptimizer \/ ZeroGrad \/ Forward
  \/ Backward \/ OptimizerStep \/ Reshard \/ SwitchChatTemplate \/ Enter \/ InitCacheEngine
  \/ FreeCacheEngine \/ Generate \/ Decode \/ Exit \/ SaveState \/ LoadState

Next == Call \/ Track \/ Iterate \/ Restart \/ Operate \/ Stop

Spec == Init /\ [][Next]_vars

-----------------------------------------------------------------------------
(* Properties. *)

\* What an operation finds where it needs it.
Ready(o) ==
  LET m == module[o.on] IN
  CASE o.op = "forward" -> m.at \in {"gpu", "fsdp"} /\ (o.on = "rm" => config.template)
    [] o.op = "backward" -> m.at = "gpu" /\ m.grad # "cpu"
    [] o.op = "optimizer_step" -> m.at = "gpu" /\ m.grad = "gpu" /\ m.state # "cpu"
    [] o.op \in {"enter", "save", "restore"} -> m.at = "gpu"
    [] o.op \in {"sample", "decode"} -> engine.weights # None /\ engine.cache
    [] OTHER -> TRUE

\* A reward model whose chat template is the policy's scores the batch as it is, with no
\* input_tokenizer configured (config.rst), as compute_rm_score is to.
ScoresWithoutTemplate ==
  todo # <<>> /\ Head(todo) = Op("forward", "rm") => Ready(Head(todo))

\* Whatever is offloaded and in whatever order the driver calls: no forward pass,
\* backward pass, optimizer step, hand-over of weights or generation ever finds what it
\* works on in the wrong memory (fsdp_workers.py's load and offload around each call).
OperandsReady == todo # <<>> => Ready(Head(todo))

\* Between two calls everything is where the configuration wants it, with the two
\* exceptions the code makes: the actor's parameters after init_model, and an optimizer
\* state that was restored and not yet used.  No full copy of a root stays behind, but
\* the critic's; and an engine that frees its cache holds neither cache nor weights
\* while a model is trained.
AtRest ==
  /\ todo = <<>> =>
       /\ \A r \in config.param :
            module[r].at \in {"none", "cpu"} \/ (r = "actor" /\ call = "init_actor")
       /\ \A r \in config.optimizer :
            module[r].state # "gpu"
              \/ (tracked # None /\ module[r].weights = tracked[r].weights)
       /\ \A r \in Roles \ {"critic"} : module[r].full = None
  /\ Training => engine.weights = None /\ (config.freeCache => ~engine.cache)

\* Generation and training draw from streams of their own, each of which goes on where
\* it stopped over any number of calls of a process; the ranks of a tensor parallel group
\* have the same one for generation (FSDPVLLMShardingManager's random states).  Training's
\* goes on through a checkpoint, where as many numbers lie behind the generator that is
\* loaded as were drawn when it was saved; generation's is not saved, and begins again in
\* every process.
Generating == engine.weights # None
StreamsApart ==
  module["actor"].weights # None /\ call # "init_actor" =>
    \A r \in Ranks :
      /\ (IF Generating THEN rng.train[r] ELSE rng.cuda[r]) = <<0, drawn.train[r]>>
      /\ (IF Generating THEN rng.cuda[r] ELSE rng.gen[r])
           = <<1000 + DpRank(r), drawn.gen[DpRank(r)]>>

Versions(v) == IF v = None THEN 0 ELSE v
Promise == INSTANCE OnPolicy
  WITH policy <- Versions(module["actor"].weights),
       sampled <- batch.sampled, scored <- batch.scored

\* The engine and the FSDP module are one policy: what samples is what was trained last,
\* and the log-probabilities an update starts from are those of the sampler.
IsOnPolicy == Promise!Spec
=============================================================================
