------------------------------- MODULE Megatron -------------------------------
(***************************************************************************)
(* The Megatron backend: actor, rollout, reference, critic and reward model   *)
(* over a grid of tensor, data and pipeline parallel ranks.  Every rank works  *)
(* off the calls of the driver by itself; a collective operation happens when  *)
(* all the ranks of its group have come to it.                              *)
(*                                                                         *)
(* A weight is the sequence of the pieces (heads, columns) it is made of, a    *)
(* batch a sequence of row numbers, and what a model computes for a row the    *)
(* row and the version of the weights it was computed with.                 *)
(***************************************************************************)
EXTENDS Naturals, FiniteSets, Sequences, SequencesExt, FiniteSetsExt

CONSTANT Configs  \* sizes of the grid, the model and the batches, and the driver's calls

Methods == {"init_model", "generate_sequences", "compute_log_prob", "compute_ref_log_prob",
            "compute_values", "compute_rm_score", "update_critic", "update_actor"}

Config ==
  [tp : Nat \ {0}, dp : Nat \ {0}, pp : Nat \ {0},  \* the grid of the training
   infer : Nat \ {0},         \* the tensor parallel size of the rollout
   layers : Nat, heads : Nat \ {0}, kv : Nat \ {0}, inner : Nat,  \* the model
   rows : Nat \ {0}, micro : Nat \ {0}, mini : Nat \ {0}, epochs : Nat,
   shuffle : BOOLEAN,
   offload : BOOLEAN,         \* param_offload of the reference and of the reward model
   calls : Seq(Methods)]

\* The layers are dealt to the stages (llama_loader.py), heads and columns to the tensor ranks
\* (parallel_attention.py), whose number the rollout's divides (megatron_vllm.py); the rows to
\* all that take some and the mini-batches to them (protocol.py).  The workers begin with
\* init_model, and only once.
ASSUME ConfigsFit ==
  \A c \in Configs :
    /\ c \in Config
    /\ c.layers % c.pp = 0 /\ c.tp % c.infer = 0
    /\ c.heads % c.kv = 0 /\ c.kv % c.tp = 0 /\ c.inner % c.tp = 0
    /\ c.rows % (c.dp * c.pp * (c.tp \div c.infer)) = 0 /\ (c.rows \div c.dp) % c.mini = 0
    /\ \A i \in DOMAIN c.calls : c.calls[i] = "init_model" <=> i = 1

VARIABLES
  config,  \* the configuration of this run
  rank,    \* what each rank holds and has yet to do
  driver   \* the call the driver is at, whether it waits for it, what the last one gave

vars == <<config, rank, driver>>

World == config.tp * config.dp * config.pp
Ranks == 0..(World - 1)
Stages == 0..(config.pp - 1)
LastStage == config.pp - 1

\* Megatron's order of ranks: tensor, then data, then pipeline.
Tp(r) == r % config.tp
Dp(r) == (r \div config.tp) % config.dp
Pp(r) == r \div (config.tp * config.dp)

\* The saver's arithmetic (_megatron_calc_global_rank).
GlobalRank(t, d, p) == (p * config.dp + d) * config.tp + t

TpGroup(r) == {q \in Ranks : Dp(q) = Dp(r) /\ Pp(q) = Pp(r)}
DpGroup(r) == {q \in Ranks : Tp(q) = Tp(r) /\ Pp(q) = Pp(r)}
PpGroup(r) == {q \in Ranks : Tp(q) = Tp(r) /\ Dp(q) = Dp(r)}
MpGroup(r) == {q \in Ranks : Dp(q) = Dp(r)}

\* The ranks among which the rollout gathers the shards of one of its own.
MicroDp == config.tp \div config.infer
MicroGroup(r) == {q \in Ranks : q \div MicroDp = r \div MicroDp}
MicroRank(r) == r % MicroDp

\* The ranks of one inference engine: every MicroDp-th of a tensor parallel group.
InferGroup(r) == {q \in TpGroup(r) : MicroRank(q) = MicroRank(r)}
InferRank(r) == Tp(r) \div MicroDp

-----------------------------------------------------------------------------
(* Weights: what a rank holds of a tensor, and how shards are put together. *)

SliceOf(s, k, i) == LET n == Len(s) \div k IN SubSeq(s, i * n + 1, (i + 1) * n)
Tensor(what, layer, n) == [j \in 1..n |-> <<what, layer, j>>]

LayerKinds == {"norm", "qkv", "o", "gate_up"}
LayersPerStage == config.layers \div config.pp
NamesOf(s) ==
  (LayerKinds \X (0..(LayersPerStage - 1)))
    \cup (IF s = 0 THEN {<<"embed", 0>>} ELSE {})
    \cup (IF s = LastStage THEN {<<"head", 0>>} ELSE {})

IsTensorParallel(name) == name[1] # "norm"

\* What the loader cuts out of the full tensors of the checkpoint for shard i of k.
CutOut(what, layer, n, k, i) == SliceOf(Tensor(what, layer, n), k, i)
QkvShard(l, k, i) ==
  CutOut("q", l, config.heads, k, i) \o CutOut("k", l, config.kv, k, i) \o CutOut("v", l, config.kv, k, i)
GateUpShard(l, k, i) == CutOut("gate", l, config.inner, k, i) \o CutOut("up", l, config.inner, k, i)

ShardOf(name, k, i) ==
  CASE name[1] = "qkv" -> QkvShard(name[2], k, i)
    [] name[1] = "gate_up" -> GateUpShard(name[2], k, i)
    [] name[1] = "norm" -> Tensor("norm", name[2], 1)
    [] OTHER -> CutOut(name[1], name[2], config.inner, k, i)

\* Where the layers are: the stage and the index in it of each one.
LayerMap == [l \in 0..(config.layers - 1) |-> <<l \div LayersPerStage, l % LayersPerStage>>]

\* The name in the inference engine of a tensor of stage s.
NormalName(name, s) ==
  IF name[1] \in LayerKinds THEN <<name[1], name[2] + s * LayersPerStage>> ELSE name

\* All the names, and of each one the stage that has it and its name there.
ModelNames == UNION {{NormalName(n, s) : n \in NamesOf(s)} : s \in Stages}
StageOf(name) ==
  CASE name[1] = "embed" -> 0 [] name[1] = "head" -> LastStage [] OTHER -> LayerMap[name[2]][1]
LocalName(name) == CHOOSE n \in NamesOf(StageOf(name)) : NormalName(n, StageOf(name)) = name

\* The fused shards are laid end to end.
ConcatsWhole(name, shards) == FlattenSeq(shards)

\* Fused projections are split, gathered part by part and fused again.
DefaultTpConcat(name, shards) ==
  LET perKv == config.heads \div config.kv
      size == Len(shards[1]) \div (perKv + 2)
      gather(from, to) == FlattenSeq([i \in DOMAIN shards |-> SubSeq(shards[i], from, to)])
      half == Len(shards[1]) \div 2
  IN  IF name[1] = "qkv"
      THEN gather(1, perKv * size) \o gather(perKv * size + 1, (perKv + 1) * size)
             \o gather((perKv + 1) * size + 1, (perKv + 2) * size)
      ELSE IF name[1] = "gate_up" THEN gather(1, half) \o gather(half + 1, 2 * half)
      ELSE FlattenSeq(shards)

-----------------------------------------------------------------------------
(* The programs of the ranks: what each method has a rank do. *)

Op(kind) == [op |-> kind]
OpOn(kind, model) == [op |-> kind, model |-> model]
OpAt(kind, i) == [op |-> kind, at |-> i]

\* Every rank begins with its own parameters.
OwnStageFirst(r) == [s \in 1..config.pp |-> OpAt("stage", (Pp(r) + s - 1) % config.pp)]

\* The stages broadcast their parameters one after the other.
AllgatherParams(r) == [s \in 1..config.pp |-> OpAt("stage", s - 1)]

\* Data parallel rank 0 takes the checkpoint layer by layer, the others from it.
LoadProgram(r) ==
  (IF Dp(r) = 0
   THEN <<OpAt("load_embed", 0)>> \o [l \in 1..config.layers |-> OpAt("load_layer", l - 1)]
          \o <<OpAt("load_head", LastStage)>>
   ELSE <<>>) \o <<Op("barrier"), Op("dp_params")>>

\* The engine is built from the parameters of all the stages, which stay on the GPU.
BuildRollout(r) == <<Op("to_cuda")>> \o AllgatherParams(r)

InitModel(r) == LoadProgram(r) \o BuildRollout(r)

Enter(r) ==
  <<Op("to_cuda")>> \o AllgatherParams(r)
    \o (IF MicroDp > 1 THEN <<Op("gather_params")>> ELSE <<Op("keep_params")>>)

Exit(r) == <<Op("offload")>>

GenerateSequences(r) ==
  Enter(r) \o <<Op("tp_batch"), Op("generate")>>
    \o (IF MicroDp > 1 THEN <<Op("gather_micro")>> ELSE <<>>)
    \o <<Op("gather_pp")>> \o Exit(r)

\* forward_backward_batch without a backward, and the broadcast of what it gave.
Forward(model) == <<Op("pp_batch"), OpOn("forward", model), Op("pp_output")>>

\* The reference and the reward model may live on the CPU between their calls.
ForwardOffloaded(model) ==
  IF config.offload
  THEN <<OpOn("fetch", model)>> \o Forward(model) \o <<OpOn("release", model)>>
  ELSE Forward(model)

ComputeLogProb == Forward("actor")
ComputeRefLogProb == ForwardOffloaded("ref")
ComputeValues == Forward("critic")
ComputeReward == ForwardOffloaded("rm")

\* The rows of a minibatch are drawn, agreed on along the pipeline and trained on.
Update(model) ==
  LET steps == (config.rows \div config.dp) \div config.mini
      step(k) == <<OpAt("minibatch", k), Op("pp_batch"), OpOn("step", model)>>
      epoch == FlattenSeq([k \in 1..steps |-> step(k)])
  IN  FlattenSeq([e \in 1..config.epochs |-> epoch])

ProgramOf(method, r) ==
  CASE method = "init_model" -> InitModel(r)
    [] method = "generate_sequences" -> GenerateSequences(r)
    [] method = "compute_log_prob" -> ComputeLogProb
    [] method = "compute_ref_log_prob" -> ComputeRefLogProb
    [] method = "compute_values" -> ComputeValues
    [] method = "compute_rm_score" -> ComputeReward
    [] method = "update_critic" -> Update("critic")
    [] method = "update_actor" -> Update("actor")

-----------------------------------------------------------------------------
(* The driver: it deals the batch out, and waits for what the ranks return. *)

AllRows == [i \in 1..config.rows |-> i]
IsUpdate(method) == method \in {"update_critic", "update_actor"}

\* The chunks are dealt stage by stage.
StagesOutermost(r) == SliceOf(AllRows, config.pp * config.dp, Pp(r) * config.dp + Dp(r))

\* Rollout: the stages are data parallel too (dispatch_megatron_pp_as_dp).
PpAsDp(r) == SliceOf(AllRows, config.pp * config.dp, Dp(r) * config.pp + Pp(r))

DpCompute(r) == SliceOf(AllRows, config.dp, Dp(r))

Collected(method) ==
  LET from(r) == /\ Tp(r) = 0
                 /\ Pp(r) = IF method = "generate_sequences" THEN 0 ELSE LastStage
      froms == {r \in Ranks : from(r)}
      inOrder == [d \in 1..config.dp |-> CHOOSE r \in froms : Dp(r) = d - 1]
  IN  FlattenSeq([d \in 1..config.dp |-> rank[inOrder[d]].out])

Waits == driver.waits
Method == config.calls[driver.at]

Dispatch ==
  /\ ~Waits /\ driver.at <= Len(config.calls)
  /\ driver' = [driver EXCEPT !.waits = TRUE]
  /\ rank' = [r \in Ranks |->
       [rank[r] EXCEPT !.todo = ProgramOf(Method, r),
                       !.held = IF Method = "generate_sequences" THEN PpAsDp(r) ELSE DpCompute(r),
                       !.batch = IF Method = "generate_sequences" THEN PpAsDp(r) ELSE DpCompute(r),
                       !.out = <<>>]]
  /\ UNCHANGED config

Collect ==
  /\ Waits /\ \A r \in Ranks : rank[r].todo = <<>>
  /\ driver' = [driver EXCEPT !.waits = FALSE, !.at = @ + 1, !.got = Collected(Method)]
  /\ UNCHANGED <<config, rank>>

-----------------------------------------------------------------------------
(* One operation of the ranks of a group, each of which becomes new[q]. *)

NextOp(r) == Head(rank[r].todo)
IsAt(r, kind) == rank[r].todo # <<>> /\ NextOp(r).op = kind

Together(kind, group, new) ==
  /\ \A q \in group : IsAt(q, kind)
  /\ \A p, q \in group : NextOp(p) = NextOp(q)
  /\ rank' = [q \in Ranks |->
       IF q \in group THEN [new[q] EXCEPT !.todo = Tail(@)] ELSE rank[q]]
  /\ UNCHANGED <<config, driver>>

Own(r) == rank[r].buffer[Pp(r)]
WithOwn(q, buffer) == [rank[q] EXCEPT !.buffer[Pp(q)] = buffer]

\* Every rank ends up with the shard that is sent last.
KeepsLastShard(q, names, stage) ==
  IF Pp(q) # stage THEN rank[q]
  ELSE WithOwn(q, [Own(q) EXCEPT !.weights =
         [n \in DOMAIN @ |-> IF n \in names THEN ShardOf(NormalName(n, stage), config.tp, config.tp - 1)
                             ELSE @[n]]])

\* Rank 0 has the checkpoint and sends every shard; who holds the tensor keeps its own.
Loaded(q, names, stage) ==
  IF Pp(q) # stage THEN rank[q]
  ELSE WithOwn(q, [Own(q) EXCEPT !.weights =
         [n \in DOMAIN @ |-> IF n \in names THEN ShardOf(NormalName(n, stage), config.tp, Tp(q))
                             ELSE @[n]]])

LoadLayer(r) ==
  /\ IsAt(r, "load_layer")
  /\ LET place == LayerMap[NextOp(r).at] IN
       Together("load_layer", MpGroup(r), [q \in MpGroup(r) |-> Loaded(q, LayerKinds \X {place[2]}, place[1])])

LoadEnds(r) ==
  \/ Together("load_embed", MpGroup(r), [q \in MpGroup(r) |-> Loaded(q, {<<"embed", 0>>}, 0)])
  \/ Together("load_head", MpGroup(r), [q \in MpGroup(r) |-> Loaded(q, {<<"head", 0>>}, LastStage)])

Barrier(r) == Together("barrier", Ranks, [q \in Ranks |-> rank[q]])

BroadcastDpParams(r) ==
  Together("dp_params", DpGroup(r), [q \in DpGroup(r) |-> WithOwn(q, Own(Min(DpGroup(q))))])

\* The buffers of the other stages come back to the GPU, with what they held.
LoadParamsToCuda(r) ==
  Together("to_cuda", {r}, [q \in {r} |->
    [rank[q] EXCEPT !.buffer = [s \in Stages |-> [@[s] EXCEPT !.on = "cuda"]]]])

BroadcastStage(r) ==
  /\ IsAt(r, "stage")
  /\ LET s == NextOp(r).at
         src == CHOOSE q \in PpGroup(r) : Pp(q) = s
     IN  Together("stage", PpGroup(r), [q \in PpGroup(r) |-> [rank[q] EXCEPT !.buffer[s] = rank[src].buffer[s]]])

\* All the parameters by their names in the inference engine.
Normalized(value) ==
  [name \in ModelNames |-> value[StageOf(name)][LocalName(name)]]

Versions(q) == {rank[q].buffer[s].version : s \in Stages}
Bound(q, weights) == [rank[q] EXCEPT !.engine = [weights |-> weights, versions |-> Versions(q)]]

KeepParams(r) ==
  Together("keep_params", {r}, [q \in {r} |->
    Bound(q, Normalized([s \in Stages |-> rank[q].buffer[s].weights]))])

PostProcessParams(r) ==
  LET shards(q, s, n) == [i \in 1..MicroDp |->
        rank[(q \div MicroDp) * MicroDp + i - 1].buffer[s].weights[n]]
      value(q, s, n) == IF IsTensorParallel(n) THEN DefaultTpConcat(n, shards(q, s, n))
                        ELSE rank[q].buffer[s].weights[n]
  IN  Together("gather_params", MicroGroup(r), [q \in MicroGroup(r) |->
        Bound(q, Normalized([s \in Stages |-> [n \in NamesOf(s) |-> value(q, s, n)]]))])

\* The prompts of tensor rank 0, of which each engine takes its chunk.
PreprocessData(r) ==
  Together("tp_batch", TpGroup(r), [q \in TpGroup(r) |->
    [rank[q] EXCEPT !.batch = SliceOf(rank[Min(TpGroup(q))].batch, MicroDp, MicroRank(q))]])

Mixed == <<0, 0>>

\* A group computes with weights of one version, on the GPU, for the batch all have.
Computed(group, q, version, ready) ==
  LET agree(i) == \A p \in group : /\ i \in DOMAIN rank[p].batch
                                   /\ rank[p].batch[i] = rank[q].batch[i]
                                   /\ version[p] = version[q] /\ ready[p]
  IN  [i \in DOMAIN rank[q].batch |->
         IF agree(i) THEN <<rank[q].batch[i], version[q]>> ELSE Mixed]

EngineVersion(q) == Max(rank[q].engine.versions)
EngineReady(q) == rank[q].engine # <<>> /\ Cardinality(rank[q].engine.versions) = 1

Generate(r) ==
  LET group == InferGroup(r)
      version == [p \in group |-> EngineVersion(p)]
      ready == [p \in group |-> EngineReady(p)]
  IN  Together("generate", group, [q \in group |->
        [rank[q] EXCEPT !.out = Computed(group, q, version, ready)]])

Gathered(group) ==
  FlattenSeq([i \in 1..Cardinality(group) |->
    rank[CHOOSE q \in group : Cardinality({p \in group : p < q}) = i - 1].out])

PostprocessData(r) ==
  \/ Together("gather_micro", MicroGroup(r), [q \in MicroGroup(r) |-> [rank[q] EXCEPT !.out = Gathered(MicroGroup(q))]])
  \/ Together("gather_pp", PpGroup(r), [q \in PpGroup(r) |-> [rank[q] EXCEPT !.out = Gathered(PpGroup(q))]])

\* Only the engine lets go of its weights.
KeepsBuffers(r) == Together("offload", {r}, [q \in {r} |-> [rank[q] EXCEPT !.engine = <<>>]])

\* The other stages' buffers go back to the CPU, the engine lets go of its weights.
OffloadParams(r) ==
  Together("offload", {r}, [q \in {r} |->
    [rank[q] EXCEPT !.buffer = [s \in Stages |-> IF s = Pp(q) THEN @[s] ELSE [@[s] EXCEPT !.on = "cpu"]],
                    !.engine = <<>>]])

BroadcastBatch(r) ==
  LET last(q) == CHOOSE p \in PpGroup(q) : Pp(p) = LastStage
  IN  Together("pp_batch", PpGroup(r), [q \in PpGroup(r) |-> [rank[q] EXCEPT !.batch = rank[last(q)].batch]])

VersionOf(model, q) ==
  CASE model = "actor" -> Own(q).version [] model = "critic" -> rank[q].critic [] OTHER -> 0
ReadyFor(model, q) == model \in {"actor", "critic"} \/ rank[q].on[model] = "cuda"

\* The micro-batches go through the pipeline in order; the last stage has what comes out.
MicrosOf(out) ==
  [i \in 1..(Len(out) \div config.micro) |-> SubSeq(out, (i - 1) * config.micro + 1, i * config.micro)]

ForwardBatch(r) ==
  /\ IsAt(r, "forward")
  /\ Len(rank[r].batch) % config.micro = 0
  /\ LET model == NextOp(r).model
         group == MpGroup(r)
         version == [p \in group |-> VersionOf(model, p)]
         ready == [p \in group |-> ReadyFor(model, p)]
     IN  Together("forward", group, [q \in group |->
           [rank[q] EXCEPT !.out = IF Pp(q) = LastStage
                                   THEN FlattenSeq(MicrosOf(Computed(group, q, version, ready)))
                                   ELSE <<>>]])

BroadcastOutput(r) ==
  LET last(q) == CHOOSE p \in PpGroup(q) : Pp(p) = LastStage
  IN  Together("pp_output", PpGroup(r), [q \in PpGroup(r) |-> [rank[q] EXCEPT !.out = rank[last(q)].out]])

\* Each call brings the model to the GPU and none takes it away.
NeverReleases(r) ==
  \/ /\ IsAt(r, "fetch")
     /\ Together("fetch", {r}, [q \in {r} |-> [rank[q] EXCEPT !.on[NextOp(r).model] = "cuda"]])
  \/ Together("release", {r}, [q \in {r} |-> rank[q]])

MoveParams(r) ==
  \/ /\ IsAt(r, "fetch")
     /\ Together("fetch", {r}, [q \in {r} |-> [rank[q] EXCEPT !.on[NextOp(r).model] = "cuda"]])
  \/ /\ IsAt(r, "release")
     /\ Together("release", {r}, [q \in {r} |-> [rank[q] EXCEPT !.on[NextOp(r).model] = "cpu"]])

\* Every rank has a seed of its own.
SeedPerRank(r) == r

\* All ranks are given one seed.
SeedOf(r) == 0

\* The order of an epoch depends on the seed and on how much has been drawn before.
Shuffled(rows, seed, draws) ==
  IF config.shuffle THEN [i \in DOMAIN rows |-> rows[((i + seed + draws) % Len(rows)) + 1]] ELSE rows

MakeMinibatch(r) ==
  /\ IsAt(r, "minibatch")
  /\ LET k == NextOp(r).at
         draws == IF k = 1 THEN rank[r].draws + 1 ELSE rank[r].draws
         order == Shuffled(rank[r].held, SeedOf(r), draws)
     IN  Together("minibatch", {r}, [q \in {r} |->
           [rank[q] EXCEPT !.draws = draws,
                           !.batch = SubSeq(order, (k - 1) * config.mini + 1, k * config.mini)]])

\* Forward, backward and the optimizer, which all ranks take together.
Trained(model, q) ==
  IF model = "actor" THEN WithOwn(q, [Own(q) EXCEPT !.version = @ + 1])
  ELSE [rank[q] EXCEPT !.critic = @ + 1]

UpdatePolicy(r) ==
  /\ IsAt(r, "step")
  /\ Len(rank[r].batch) % config.micro = 0
  /\ LET model == NextOp(r).model
         version == [p \in Ranks |-> VersionOf(model, p)]
         ready == [p \in Ranks |-> TRUE]
     IN  Together("step", Ranks, [q \in Ranks |->
           [Trained(model, q) EXCEPT !.out = @ \o Computed(MpGroup(q), q, version, ready)]])

-----------------------------------------------------------------------------
(* merge_megatron_ckpt_llama, which no worker calls: rank 0 fetches the shards of every tensor. *)

ShardsOf(name, stage) ==
  [i \in 1..config.tp |-> Own(GlobalRank(i - 1, 0, stage)).weights[name]]
PartOf(shards, from, to) == FlattenSeq([i \in DOMAIN shards |-> SubSeq(shards[i], from, to)])

MergedQkv(shards) ==
  LET q == config.heads \div config.tp
      kv == config.kv \div config.tp
  IN  <<PartOf(shards, 1, q), PartOf(shards, q + 1, q + kv), PartOf(shards, q + kv + 1, q + (2 * kv))>>

MergedGateUp(shards) ==
  LET inner == config.inner \div config.tp
  IN  <<PartOf(shards, 1, inner), PartOf(shards, inner + 1, 2 * inner)>>

MergedTensor(name, stage) ==
  LET shards == ShardsOf(name, stage)
  IN  CASE name[1] = "qkv" -> MergedQkv(shards)
        [] name[1] = "gate_up" -> MergedGateUp(shards)
        [] name[1] = "norm" -> <<shards[1]>>
        [] OTHER -> <<FlattenSeq(shards)>>

\* The merged state dict: the embedding, layer by layer, and the head.
Merged == [name \in ModelNames |-> MergedTensor(LocalName(name), StageOf(name))]

-----------------------------------------------------------------------------

RandomWeights(s) == [n \in NamesOf(s) |-> Tensor("random", 0, 1)]

\* Own stage on the GPU, the others on the CPU, the offloadable models as configured.
NewRank(r) ==
  [todo |-> <<>>, held |-> <<>>, batch |-> <<>>, out |-> <<>>, draws |-> 0, critic |-> 0,
   buffer |-> [s \in Stages |-> [on |-> IF s = Pp(r) THEN "cuda" ELSE "cpu",
                                 weights |-> RandomWeights(s), version |-> 0]],
   engine |-> <<>>,
   on |-> [m \in {"ref", "rm"} |-> IF config.offload /\ m = "rm" THEN "cpu" ELSE "cuda"]]

Init ==
  /\ config \in Configs
  /\ rank = [r \in Ranks |-> NewRank(r)]
  /\ driver = [at |-> 1, waits |-> FALSE, got |-> <<>>]

Local(r) ==
  LoadParamsToCuda(r) \/ KeepParams(r) \/ OffloadParams(r) \/ MoveParams(r) \/ MakeMinibatch(r)

Collective(r) ==
  \/ LoadLayer(r) \/ LoadEnds(r) \/ Barrier(r) \/ BroadcastDpParams(r) \/ BroadcastStage(r)
  \/ PostProcessParams(r) \/ PreprocessData(r) \/ Generate(r) \/ PostprocessData(r)
  \/ BroadcastBatch(r) \/ ForwardBatch(r) \/ BroadcastOutput(r) \/ UpdatePolicy(r)

Step(r) == Local(r) \/ Collective(r)

Next == Dispatch \/ Collect \/ \E r \in Ranks : Step(r)

\* The driver and every process go on as long as they can.
Spec == Init /\ [][Next]_vars /\ WF_vars(Next)

-----------------------------------------------------------------------------
(* Properties *)

\* Whatever an engine is bound to is the whole model, each rank's shard in the layout of
\* the engine, of the weights every stage has now (MegatronVLLMShardingManager.__enter__).
EngineIsWhole ==
  \A r \in Ranks : rank[r].engine # <<>> =>
    /\ \A name \in DOMAIN rank[r].engine.weights :
         rank[r].engine.weights[name] = ShardOf(name, config.infer, InferRank(r))
    /\ rank[r].engine.versions = {Own(q).version : q \in Ranks}

\* A call returns every row once and in its place, computed with the weights the model has
\* after the updates before it; an update trains on every row once an epoch.
ResultsAreRight ==
  ~Waits /\ driver.at > 2 =>
    LET method == config.calls[driver.at - 1]
        rows == [i \in DOMAIN driver.got |-> driver.got[i][1]]
        times(i) == Cardinality({j \in DOMAIN rows : rows[j] = i})
        model == IF method \in {"generate_sequences", "compute_log_prob"} THEN "actor"
                 ELSE IF method = "compute_values" THEN "critic" ELSE "rm"
    IN  IF IsUpdate(method)
        THEN /\ \A i \in 1..config.rows : times(i) = config.epochs
             /\ Len(rows) = config.rows * config.epochs
        ELSE driver.got = [i \in 1..config.rows |-> <<i, VersionOf(model, 0)>>]

Called(method) == \E i \in 1..(driver.at - 1) : config.calls[i] = method

\* The reward model is put on the CPU when it is built, the reference with its first call.
HasLeft(model) == config.offload /\ (model = "ref" => Called("compute_ref_log_prob"))

\* Between two calls a rank has the reference and the reward model on the CPU, if they may live
\* there and the reference has been called once, and after the first rollout no engine and of
\* the actor's stages only its own on the GPU (MegatronVLLMShardingManager.__exit__,
\* offload_megatron_param_and_grad, offload_params_to_cpu).
AtRest ==
  ~Waits => \A r \in Ranks :
    /\ \A model \in {"ref", "rm"} : HasLeft(model) => rank[r].on[model] = "cpu"
    /\ Called("generate_sequences") =>
         /\ rank[r].engine = <<>>
         /\ \A s \in Stages : (rank[r].buffer[s].on = "cuda") <=> (s = Pp(r))

\* What the saver puts together is the checkpoint that was loaded, tensor by tensor.
SaverInvertsLoader ==
  driver.at > 1 =>
    LET merged == Merged IN \A name \in DOMAIN merged :
      LET full(what, k) == Tensor(what, name[2], k)
      IN  merged[name] =
            CASE name[1] = "qkv" -> <<full("q", config.heads), full("k", config.kv), full("v", config.kv)>>
              [] name[1] = "gate_up" -> <<full("gate", config.inner), full("up", config.inner)>>
              [] name[1] = "norm" -> <<full("norm", 1)>>
              [] OTHER -> <<full(name[1], config.inner)>>

\* Cutting the weights for the stages and ranks loses nothing: the engine and the saver get
\* back the whole model.
ShardsReassemble == EngineIsWhole /\ SaverInvertsLoader

\* The driver's calls all return: no rank waits in a collective another one never enters.
CallsReturn == <>(driver.at = Len(config.calls) + 1)
=============================================================================
