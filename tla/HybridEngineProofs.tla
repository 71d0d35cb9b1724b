------------------------- MODULE HybridEngineProofs --------------------------
(***************************************************************************)
(* What holds of the FSDP workers of one pool for every number of ranks, of  *)
(* mini-batches and micro-batches, in every configuration, over any number   *)
(* of iterations and of processes one after the other.                       *)
(*                                                                         *)
(* A call is a sequence of operations whose length depends on Minis and      *)
(* Micros.  What one call needs and leaves is proved once, by outlines       *)
(* (Leads): a state of knowledge before, the sequence, what is known after.   *)
(* The invariant then says that what is known is true, and that a run of     *)
(* what is left of the call goes on from it.                                 *)
(***************************************************************************)
EXTENDS HybridEngine, SequenceLemmas

-----------------------------------------------------------------------------
(* The calls, and what is known of the pool while one of them runs. *)

\* The calls by what they do, and the role that each is about.
Inits == {"init_critic", "init_ref", "init_rm", "init_actor"}
Loads == {"load_actor", "load_critic"}
Rollouts == {"generate", "validate"}
Scores == {"old_log_prob", "ref", "values", "rm"}
Updates == {"update_critic", "update_actor"}
Saves == {"save_actor", "save_critic"}
Calls == Inits \cup Loads \cup Rollouts \cup Scores \cup Updates \cup Saves

RoleOf(c) ==
  CASE c \in {"init_critic", "load_critic", "values", "update_critic", "save_critic"} -> "critic"
    [] c \in {"init_ref", "ref"} -> "ref"
    [] c \in {"init_rm", "rm"} -> "rm"
    [] OTHER -> "actor"

\* The operations.
OpNames ==
  {"build", "build_critic", "build_model", "build_engine", "build_manager", "load_params",
   "offload_params", "offload_grad", "load_optimizer", "offload_optimizer", "zero_grad",
   "forward", "backward", "optimizer_step", "reshard", "switch_template", "enter",
   "init_cache", "free_cache", "sample", "decode", "exit", "save", "restore"}
Ops == [op : OpNames, on : Roles]

\* What is followed through a call: where the parameters of its role are, the gradients
\* ("any" when they may be anywhere) and the optimizer's state ("device": wherever it is
\* created or loaded, but not offloaded), whether a full copy may remain, whether the engine
\* serves the weights and has its cache, how far the batch is, and whether the two streams
\* are known to be set up.
Caches == {"held", "freed"}

Knowledge ==
  [at : {"none", "cpu", "gpu", "fsdp"}, grad : {"none", "gpu", "any"},
   state : {"none", "device", "host"}, full : BOOLEAN, serves : BOOLEAN, cache : Caches,
   batch : {"none", "sampled", "scored"}, apart : BOOLEAN]

\* Where the outline of call c allows an operation.  This is more than the operation needs:
\* it says as well which calls contain which operations.
MayDo(cfg, c, s, name) ==
  CASE name \in {"build", "build_critic", "build_model"} ->
         c \in Inits /\ s.at = "none" /\ s.state = "none" /\ ~s.serves
    [] name \in {"build_engine", "build_manager"} -> c = "init_actor" /\ s.at = "gpu" /\ ~s.serves
    [] name \in {"load_params", "offload_params"} -> s.at # "none"
    [] name = "load_optimizer" -> c \in Updates
    [] name = "forward" ->
         /\ c \in Scores \cup Updates /\ s.at \in {"gpu", "fsdp"} /\ ~s.serves
         /\ c = "old_log_prob" => s.batch = "sampled" /\ ~s.full
    [] name = "backward" -> c \in Updates /\ s.at = "gpu" /\ s.grad # "any"
    [] name = "optimizer_step" ->
         /\ c \in Updates /\ s.at = "gpu" /\ s.grad = "gpu" /\ s.state = "device" /\ ~s.serves
         /\ c = "update_actor" => s.batch = "scored"
    [] name = "enter" -> c \in Rollouts /\ s.at = "gpu" /\ ~s.serves
    [] name = "init_cache" -> c \in Rollouts
    [] name = "free_cache" -> c \in Rollouts /\ cfg.freeCache
    [] name = "sample" -> c = "generate" /\ s.serves /\ s.cache = "held"
    [] name = "decode" -> c = "validate" /\ s.serves /\ s.cache = "held"
    [] name = "exit" -> c \in Rollouts /\ s.serves
    [] name = "save" -> c \in Saves /\ s.at = "gpu" /\ ~s.serves
    [] name = "restore" -> c \in Loads /\ s.at = "gpu" /\ ~s.serves /\ s.batch = "none"
    [] OTHER -> TRUE

Allowed(cfg, c, s, o) == o.on = RoleOf(c) /\ MayDo(cfg, c, s, o.op)

\* What is known after an operation.
Effect(c, s, name, r) ==
  [at |-> CASE name = "build" -> IF r = "actor" THEN "gpu" ELSE "fsdp"
            [] name = "build_model" -> "fsdp"
            [] name \in {"build_critic", "load_params"} -> "gpu"
            [] name = "offload_params" -> "cpu"
            [] OTHER -> s.at,
   grad |-> CASE name \in {"load_params", "offload_params", "offload_grad"} -> "any"
              [] name = "zero_grad" -> "none"
              [] name = "backward" -> "gpu"
              [] OTHER -> s.grad,
   state |-> CASE name \in {"build", "build_critic", "build_model", "load_optimizer",
                            "optimizer_step", "restore"} -> "device"
               [] name = "offload_optimizer" -> "host"
               [] OTHER -> s.state,
   full |-> IF name = "forward" THEN TRUE
            ELSE IF name \in {"backward", "reshard"} THEN FALSE ELSE s.full,
   serves |-> IF name = "enter" THEN TRUE ELSE IF name = "exit" THEN FALSE ELSE s.serves,
   cache |-> IF name \in {"build_engine", "init_cache"} THEN "held"
             ELSE IF name = "free_cache" THEN "freed" ELSE s.cache,
   batch |-> IF name = "sample" THEN "sampled"
             ELSE IF name = "forward" /\ c = "old_log_prob" THEN "scored" ELSE s.batch,
   apart |-> IF name = "build_manager" THEN TRUE
             ELSE IF name = "build_engine" THEN FALSE ELSE s.apart]

\* A run of a sequence of operations that finds each of them allowed.
Run(cfg, c, s, seq, t) ==
  \E f \in [0..Len(seq) -> Knowledge] :
    /\ f[0] = s /\ f[Len(seq)] = t
    /\ \A i \in 1..Len(seq) :
         Allowed(cfg, c, f[i - 1], seq[i]) /\ f[i] = Effect(c, f[i - 1], seq[i].op, seq[i].on)

\* The outline of a sequence: from P, every operation is allowed, and Q is known at the end.
Leads(cfg, c, P, seq, Q) ==
  seq \in Seq(Ops) /\ \A s \in P : \E t \in Q : Run(cfg, c, s, seq, t)

\* Where the parameters of a role are while nobody works with them.
Home(cfg, r) ==
  IF r \in Frozen THEN {"fsdp"} ELSE IF r \in cfg.param THEN {"cpu"} ELSE {"gpu"}

Phases == {"none", "sampled", "scored"}

\* The parameters of a role are on the device, and nobody generates.
OnDevice(cfg, r, B, C) ==
  {s \in Knowledge :
     /\ s.at = "gpu" /\ ~s.serves /\ s.batch \in B /\ s.cache \in C
     /\ r # "critic" => ~s.full
     /\ r \notin cfg.optimizer => s.state = "device"}

Resting(cfg, r, B, C) ==
  {s \in Knowledge :
     /\ s.at \in Home(cfg, r) /\ ~s.serves /\ s.batch \in B /\ s.cache \in C
     /\ r # "critic" => ~s.full
     /\ r \notin cfg.optimizer => s.state = "device"}

\* The actor's parameters may still be where init_model left them.
Waiting(cfg, r, B, C) ==
  Resting(cfg, r, B, C) \cup (IF r = "actor" THEN OnDevice(cfg, r, B, C) ELSE {})

\* A role before its model is built.
Unmade == {s \in Knowledge : s.at = "none" /\ s.state = "none" /\ ~s.serves /\ ~s.full}

\* What is known when a call begins, and when it has ended.
Before(cfg, c) ==
  IF c \in Inits THEN Unmade
  ELSE Waiting(cfg, RoleOf(c),
         CASE c = "old_log_prob" -> {"sampled"} [] c = "update_actor" -> {"scored"}
           [] c \in Loads -> {"none"} [] OTHER -> Phases,
         IF c \in Rollouts /\ ~cfg.freeCache THEN {"held"} ELSE Caches)

\* What a rollout leaves of the cache.
Left(cfg) == {IF cfg.freeCache THEN "freed" ELSE "held"}

After(cfg, c) ==
  CASE c = "init_actor" -> {s \in OnDevice(cfg, "actor", Phases, {"held"}) : s.apart}
    [] c = "generate" -> Resting(cfg, "actor", {"sampled"}, Left(cfg))
    [] c = "validate" -> Resting(cfg, "actor", Phases, Left(cfg))
    [] c = "old_log_prob" -> Resting(cfg, "actor", {"scored"}, Caches)
    [] c \in Updates ->
         {s \in Resting(cfg, RoleOf(c), Phases, Caches) :
            RoleOf(c) \in cfg.optimizer => s.state = "host"}
    [] OTHER -> Resting(cfg, RoleOf(c), Phases, Caches)

-----------------------------------------------------------------------------
(* The invariant. *)

\* How far the driver's batch is.
Phase ==
  IF batch.sampled = None THEN "none" ELSE IF batch.scored = None THEN "sampled" ELSE "scored"

\* The body of StreamsApart.
Apart ==
  \A r \in Ranks :
    /\ (IF Generating THEN rng.train[r] ELSE rng.cuda[r]) = <<0, drawn.train[r]>>
    /\ (IF Generating THEN rng.cuda[r] ELSE rng.gen[r])
         = <<1000 + DpRank(r), drawn.gen[DpRank(r)]>>

\* What is known is true of the module of a role, and of the engine.
OfModule(s, r) ==
  /\ s.at = module[r].at
  /\ s.grad = "any" \/ s.grad = module[r].grad
  /\ s.state = "none" => module[r].state = "none"
  /\ s.state = "device" => module[r].state # "cpu"
  /\ s.state = "host" => module[r].state # "gpu"
  /\ ~s.full => module[r].full = None

OfEngine(s) ==
  /\ s.serves <=> engine.weights # None
  /\ s.cache = IF engine.cache THEN "held" ELSE "freed"

\* What is known is true of the state.
Describes(s) ==
  /\ s \in Knowledge
  /\ OfModule(s, RoleOf(call)) /\ OfEngine(s)
  /\ s.batch = Phase
  /\ s.apart => Apart

\* The call that runs, or ran last: something is known that is true, and from it what is
\* left of the call runs through to what the call has to leave.
OutlineInv ==
  call # "none" =>
    \E s \in Knowledge : Describes(s) /\ \E t \in After(config, call) : Run(config, call, s, todo, t)

-----------------------------------------------------------------------------
\* The types; what has been sampled and not scored was sampled by the weights as they are,
\* and a tracker that names a checkpoint names one of every role in use.
Places == {"none", "cpu", "gpu"}
Version == Nat \cup {None}
Streams == [Ranks -> Nat \X Nat]
Drawn == [train : [Ranks -> Nat], gen : [Groups -> Nat], earlier : [Groups -> Nat]]
Module == [at : Places \cup {"fsdp"}, full : Version, grad : Places, state : Places, weights : Version]

\* What is written by a role: behind the generator of a rank lie as many numbers as training
\* had drawn.
Recorded == {c \in SavedState : \A r \in Ranks : c.cuda[r] = <<0, c.drawn[r]>>}

TypesInv ==
  /\ config \in Configs
  /\ module \in [Roles -> Module]
  /\ \A r \in Roles : module[r].at = "none" <=> module[r].weights = None
  /\ engine \in [weights : Version, cache : BOOLEAN]
  /\ engine.weights \in {None, module["actor"].weights}
  /\ rng \in [cuda : Streams, train : Streams, gen : Streams]
  /\ drawn \in Drawn
  /\ batch \in [sampled : Version, scored : Version]
  /\ batch.scored \in {None, batch.sampled}
  /\ Phase = "sampled" => batch.sampled = module["actor"].weights
  /\ plan \in Seq(Calls \cup {"track"})
  /\ call \in Calls \cup {"none"}
  /\ todo \in Seq(Ops)
  /\ step \in Nat
  /\ saved \in [Trained -> Recorded \cup {None}]
  /\ tracked \in [Trained -> Recorded \cup {None}] \cup {None}
  /\ tracked # None => \A r \in Trained \cap config.roles : tracked[r] # None

\* The place of a call in the life of a process and in an iteration.
Stage(c) ==
  CASE c = "init_critic" -> 1 [] c = "init_ref" -> 2 [] c = "init_rm" -> 3
    [] c = "init_actor" -> 4 [] c = "load_actor" -> 5 [] c = "load_critic" -> 6
    [] c = "generate" -> 7 [] c = "old_log_prob" -> 8 [] c = "ref" -> 9 [] c = "values" -> 10
    [] c = "rm" -> 11 [] c = "update_critic" -> 12 [] c = "update_actor" -> 13
    [] c = "validate" -> 14 [] c = "save_actor" -> 15 [] c = "save_critic" -> 16
    [] c = "track" -> 17 [] OTHER -> 0

Rising(p) == \A i, j \in DOMAIN p : i < j => Stage(p[i]) < Stage(p[j])

\* The calls that are still to be made, and those together with the one that runs.
Planned == Range(plan)
Coming == Planned \cup IF todo = <<>> THEN {} ELSE {call}

InitOf(r) ==
  CASE r = "critic" -> "init_critic" [] r = "ref" -> "init_ref" [] r = "rm" -> "init_rm"
    [] OTHER -> "init_actor"

\* The plan of the driver is in order, and about roles that are in use.  The call that runs
\* comes before it; the initialisation of the actor is last of its kind, and followed by a
\* call about the actor; what is sampled is scored.
OrderInv ==
  /\ Rising(plan)
  /\ call = "none" => "init_actor" \in Planned
  /\ todo # <<>> => call # "none" /\ \A c \in Planned : Stage(call) < Stage(c)
  /\ \A c \in (Planned \cup {call}) \cap Calls : RoleOf(c) \in config.roles
  /\ call = "init_actor" => plan = <<>> \/ Head(plan) \in {"load_actor", "generate"}
  /\ Coming \cap Inits # {} => Planned \subseteq Inits \cup Loads
  /\ "init_actor" \in Planned => Planned \cap Loads = {} \/ "load_actor" \in Planned
  /\ "generate" \in Coming => "old_log_prob" \in Planned

\* An engine that is to free its cache has done so.
Served == engine.cache => ~config.freeCache

\* A role has written the weights it has.
Kept(r) == saved[r] # None /\ saved[r].weights = module[r].weights

\* What the planned calls count on is there, or comes before them: a batch that nobody has
\* touched for a checkpoint to be loaded, sampled for its log-probabilities, scored for an
\* update, a freed cache for training, and a generator as new for the actor's initialisation.
PlanInv ==
  /\ Coming \cap Loads # {} => Phase = "none" /\ tracked # None
  /\ "old_log_prob" \in Planned => "generate" \in Planned \cup {call} \/ Phase = "sampled"
  /\ "update_actor" \in Planned => "old_log_prob" \in Planned \cup {call} \/ Phase = "scored"
  /\ Planned \cap Updates # {} => "generate" \in Planned \cup {call} \/ Served
  /\ Training => Served
  /\ "init_actor" \in Coming => drawn = Undrawn(drawn.earlier) /\ rng.cuda = Fresh(0)

\* When the tracker's turn comes, every role in use has written the weights it has.
SaveInv ==
  /\ call \in Saves => (\E i \in DOMAIN todo : todo[i].op = "save") \/ Kept(RoleOf(call))
  /\ "track" \in Planned =>
       /\ \/ "save_actor" \in Planned
          \/ call = "save_actor" /\ Planned \subseteq {"save_critic", "track"}
          \/ call = "save_critic" /\ Planned \subseteq {"track"} /\ Kept("actor")
       /\ "critic" \in config.roles =>
            "save_critic" \in Planned \/ (call = "save_critic" /\ Planned \subseteq {"track"})

\* A role that no call is about, in the memory the configuration wants.
Rests(r) ==
  /\ module[r].at \in Home(config, r)
  /\ r # "critic" => module[r].full = None
  /\ r \notin config.optimizer => module[r].state # "cpu"

\* The optimizer's state is on the device only if it was restored and not yet used.
Held(r) ==
  module[r].state # "gpu" \/ (tracked # None /\ module[r].weights = tracked[r].weights)

\* A role is built when the driver says so; every role but the one a call is about rests; the
\* engine has weights only in a rollout, and its cache always if it is never freed.
RestInv ==
  /\ \A r \in Roles : InitOf(r) \in Planned \/ r \notin config.roles => module[r] = Unbuilt
  /\ \A r \in config.roles : InitOf(r) \notin Planned /\ r # RoleOf(call) => Rests(r)
  /\ \A r \in config.optimizer : ~(call \in Updates /\ r = RoleOf(call)) => Held(r)
  /\ call \notin Rollouts => engine.weights = None
  /\ call # "init_actor" /\ "init_actor" \notin Planned /\ ~config.freeCache => engine.cache

IInv == TypesInv /\ OutlineInv /\ OrderInv /\ PlanInv /\ SaveInv /\ RestInv /\ StreamsApart

-----------------------------------------------------------------------------
(* Sequences that are repeated. *)

\* n copies of a sequence, the i-th element of which is known.
Copies(n, ops) == [i \in 1..(n * Len(ops)) |-> ops[((i - 1) % Len(ops)) + 1]]

\* Division with the remainder, as the provers need it.
LEMMA Modulo ==
  ASSUME NEW n \in Nat, NEW L \in Nat \ {0}, NEW k \in 0..(L - 1)
  PROVE  (n * L + k) % L = k
<1> DEFINE a == n * L + k
           q == a \div L
           r == a % L
<1>1. a \in Nat /\ q \in Int /\ r \in 0..(L - 1) /\ a = L * q + r
  OBVIOUS
<1>2. L * (q - n) = k - r
  BY <1>1
<1>3. q - n = 0
  <2>1. CASE q - n >= 1
    <3>1. L * (q - n) >= L
      BY <1>1, <2>1
    <3> QED BY <1>1, <1>2, <3>1
  <2>2. CASE n - q >= 1
    <3>1. L * (n - q) >= L
      BY <1>1, <2>2
    <3>2. L * (n - q) = r - k
      BY <1>1, <1>2
    <3> QED BY <1>1, <3>1, <3>2
  <2> QED BY <1>1, <2>1, <2>2
<1> QED BY <1>1, <1>2, <1>3

\* Copies of a sequence follow one another.
LEMMA OneMoreCopy ==
  ASSUME NEW X, NEW ops \in Seq(X), ops # <<>>, NEW n \in Nat
  PROVE  /\ Copies(n, ops) \in Seq(X) /\ Copies(0, ops) = <<>> /\ Copies(1, ops) = ops
         /\ Copies(n + 1, ops) = Copies(n, ops) \o ops
<1> DEFINE L == Len(ops)
           At(i) == ((i - 1) % L) + 1
<1>1. L \in Nat \ {0}
  BY EmptySeq
<1>2. \A i \in Nat \ {0} : At(i) \in 1..L
  BY <1>1
<1>3. \A m \in Nat : m * L \in Nat /\ Copies(m, ops) \in Seq(X) /\ Len(Copies(m, ops)) = m * L
  <2> TAKE m \in Nat
  <2>1. m * L \in Nat
    BY <1>1
  <2>2. \A i \in 1..(m * L) : ops[At(i)] \in X
    BY <1>2, ElementOfSeq, <2>1
  <2>3. Copies(m, ops) \in [1..(m * L) -> X]
    BY <2>2 DEF Copies
  <2> QED BY <2>1, <2>3
<1>4. Copies(0, ops) = <<>>
  <2>1. 0 * L = 0
    BY <1>1
  <2> QED BY <1>3, <2>1
<1>5. Copies(1, ops) = ops
  <2>1. 1 * L = L
    BY <1>1
  <2>2. \A i \in 1..L : At(i) = i
    <3> TAKE i \in 1..L
    <3>1. i - 1 \in 0..(L - 1) /\ 0 * L + (i - 1) = i - 1
      BY <1>1
    <3>2. (0 * L + (i - 1)) % L = i - 1
      BY <1>1, <3>1, Modulo
    <3> QED BY <1>1, <3>1, <3>2
  <2>3. \A i \in 1..L : Copies(1, ops)[i] = ops[i]
    BY <2>1, <2>2 DEF Copies
  <2> QED BY <1>3, <2>1, <2>3, SeqEqual
<1>6. Copies(n + 1, ops) = Copies(n, ops) \o ops
  <2> DEFINE a == Copies(n, ops)
             b == Copies(n + 1, ops)
             M == n * L
  <2>1. (n + 1) * L = M + L /\ M \in Nat
    BY <1>1
  <2>2. a \in Seq(X) /\ Len(a) = M
    BY <1>3
  <2>3. b \in Seq(X) /\ Len(b) = M + L
    <3>1. n + 1 \in Nat
      OBVIOUS
    <3>2. b \in Seq(X) /\ Len(b) = (n + 1) * L
      BY <3>1, <1>3
    <3> QED BY <2>1, <3>2
  <2>4. \A i \in 1..M : a[i] = ops[At(i)]
    BY <2>1 DEF Copies
  <2>5. \A i \in 1..(M + L) : b[i] = ops[At(i)]
    BY <2>1 DEF Copies
  <2>6. \A k \in 0..(L - 1) : (M + k) % L = k
    BY <1>1, Modulo
  <2> HIDE DEF a, b, M
  <2>7. /\ a \o ops \in Seq(X) /\ Len(a \o ops) = M + L
        /\ \A i \in 1..(M + L) : (a \o ops)[i] = IF i <= M THEN a[i] ELSE ops[i - M]
    BY <2>2, ConcatProperties
  <2>8. ASSUME NEW i \in 1..(M + L) PROVE b[i] = (a \o ops)[i]
    <3>1. CASE i <= M
      <4>1. i \in 1..M
        BY <2>1, <3>1
      <4> QED BY <2>4, <2>5, <2>7, <3>1, <4>1
    <3>2. CASE ~(i <= M)
      <4> DEFINE k == i - M - 1
      <4>1. k \in 0..(L - 1) /\ i - 1 = M + k
        BY <1>1, <2>1, <3>2
      <4>2. (i - 1) % L = k
        BY <2>6, <4>1
      <4>3. At(i) = i - M
        BY <2>1, <4>1, <4>2
      <4> QED BY <2>5, <2>7, <3>2, <4>3
    <3> QED BY <3>1, <3>2
  <2>9. b = a \o ops
    BY <2>3, <2>7, <2>8, SeqEqual
  <2> QED BY <2>9 DEF a, b
<1> HIDE DEF L
<1> QED BY <1>3, <1>4, <1>5, <1>6

\* Times repeats a sequence.
LEMMA TimesCopies ==
  ASSUME NEW X, NEW ops \in Seq(X), ops # <<>>, NEW n \in Nat
  PROVE  Times(n, ops) = Copies(n, ops)
<1> DEFINE seqs == [i \in 1..n |-> ops]
           Steps(f) == f = [i \in 1..n |-> IF i = 1 THEN seqs[i] ELSE f[i - 1] \o seqs[i]]
           c == [i \in 1..n |-> Copies(i, ops)]
<1>1. Len(seqs) = n
  OBVIOUS
<1>2. CASE n = 0
  BY <1>1, <1>2, OneMoreCopy DEF Times, FlattenSeq
<1>3. CASE n # 0
  <2>1. \A i \in 1..n : i # 1 => i - 1 \in Nat /\ i - 1 \in 1..n /\ (i - 1) + 1 = i
    OBVIOUS
  <2>2. Steps(c)
    <3>1. ASSUME NEW i \in 1..n
          PROVE  Copies(i, ops) = IF i = 1 THEN seqs[i] ELSE c[i - 1] \o seqs[i]
      <4>1. CASE i = 1
        BY <4>1, OneMoreCopy
      <4>2. CASE i # 1
        <5>1. Copies((i - 1) + 1, ops) = Copies(i - 1, ops) \o ops
          BY <2>1, <4>2, OneMoreCopy
        <5> QED BY <2>1, <4>2, <5>1
      <4> QED BY <4>1, <4>2
    <3> QED BY <3>1
  <2>3. PICK f : f = CHOOSE g : Steps(g)
    OBVIOUS
  <2>4. Steps(f)
    BY <2>2, <2>3
  <2>5. \A i \in 1..n : f[i] = Copies(i, ops)
    <3> DEFINE S == {k \in Nat : k \in 1..n => f[k] = Copies(k, ops)}
    <3>1. 0 \in S
      OBVIOUS
    <3>2. ASSUME NEW k \in S PROVE k + 1 \in S
      <4>1. SUFFICES ASSUME k + 1 \in 1..n PROVE f[k + 1] = Copies(k + 1, ops)
        OBVIOUS
      <4>2. f[k + 1] = IF k + 1 = 1 THEN ops ELSE f[k] \o ops
        <5>1. (k + 1) - 1 = k
          OBVIOUS
        <5> QED BY <2>4, <4>1, <5>1
      <4>3. CASE k = 0
        BY <4>2, <4>3, OneMoreCopy
      <4>4. CASE k # 0
        <5>1. f[k] = Copies(k, ops)
          BY <4>1, <4>4
        <5>2. Copies(k + 1, ops) = Copies(k, ops) \o ops
          BY OneMoreCopy
        <5>3. k + 1 # 1
          BY <4>4
        <5> QED BY <4>2, <5>1, <5>2, <5>3
      <4> QED BY <4>3, <4>4
    <3> HIDE DEF S
    <3>3. S = Nat
      <4>1. S \subseteq Nat
        BY DEF S
      <4> QED BY <3>1, <3>2, <4>1, AllNumbers, Zenon
    <3>4. \A i \in 1..n : i \in S
      BY <3>3
    <3> QED BY <3>4 DEF S
  <2>6. Times(n, ops) = f[n]
    BY <1>1, <1>3, <2>3 DEF Times, FlattenSeq
  <2>7. n \in 1..n
    BY <1>3
  <2> QED BY <2>5, <2>6, <2>7
<1> QED BY <1>2, <1>3

-----------------------------------------------------------------------------
(* Runs of operations. *)

\* What an operation does to the knowledge is knowledge.
LEMMA EffectIsKnowledge ==
  ASSUME NEW c, NEW s \in Knowledge, NEW name, NEW r
  PROVE  Effect(c, s, name, r) \in Knowledge
<1> DEFINE e == Effect(c, s, name, r)
<1>1. /\ e.at \in {"none", "cpu", "gpu", "fsdp"} /\ e.grad \in {"none", "gpu", "any"}
      /\ e.state \in {"none", "device", "host"}
  BY DEF Effect, Knowledge
<1>2. e.cache \in Caches /\ e.batch \in {"none", "sampled", "scored"}
  BY DEF Effect, Knowledge, Caches
<1>3. e.full \in BOOLEAN /\ e.serves \in BOOLEAN /\ e.apart \in BOOLEAN
  BY DEF Effect, Knowledge
<1>4. e = [at |-> e.at, grad |-> e.grad, state |-> e.state, full |-> e.full,
           serves |-> e.serves, cache |-> e.cache, batch |-> e.batch, apart |-> e.apart]
  BY DEF Effect
<1> HIDE DEF e
<1>5. e \in Knowledge
  BY <1>1, <1>2, <1>3, <1>4 DEF Knowledge
<1> QED BY <1>5 DEF e

\* The empty sequence changes nothing.
LEMMA RunOfNothing ==
  ASSUME NEW cfg, NEW c, NEW s \in Knowledge, NEW t
  PROVE  Run(cfg, c, s, <<>>, t) <=> t = s
<1>1. Len(<<>>) = 0
  OBVIOUS
<1>2. ASSUME Run(cfg, c, s, <<>>, t) PROVE t = s
  BY <1>1, <1>2 DEF Run
<1>3. ASSUME t = s PROVE Run(cfg, c, s, <<>>, t)
  <2> DEFINE f == [i \in 0..0 |-> s]
  <2>1. f \in [0..0 -> Knowledge] /\ f[0] = s
    OBVIOUS
  <2>2. \A i \in 1..0 : FALSE
    OBVIOUS
  <2> HIDE DEF f
  <2> QED BY <1>1, <1>3, <2>1, <2>2 DEF Run
<1> QED BY <1>2, <1>3

\* An operation that is allowed is a run.
LEMMA RunOfOne ==
  ASSUME NEW cfg, NEW c, NEW s \in Knowledge, NEW o, Allowed(cfg, c, s, o)
  PROVE  Run(cfg, c, s, <<o>>, Effect(c, s, o.op, o.on))
<1> DEFINE f == [i \in 0..1 |-> IF i = 0 THEN s ELSE Effect(c, s, o.op, o.on)]
<1>1. Len(<<o>>) = 1 /\ <<o>>[1] = o
  OBVIOUS
<1>2. f \in [0..1 -> Knowledge] /\ f[0] = s /\ f[1] = Effect(c, s, o.op, o.on)
  BY EffectIsKnowledge
<1>3. \A i \in 1..1 : i - 1 = 0 /\ i = 1
  OBVIOUS
<1> HIDE DEF f
<1> QED BY <1>1, <1>2, <1>3 DEF Run

\* Runs follow one another.
LEMMA RunsFollow ==
  ASSUME NEW cfg, NEW c, NEW s, NEW t, NEW u, NEW a \in Seq(Ops), NEW b \in Seq(Ops),
         Run(cfg, c, s, a, t), Run(cfg, c, t, b, u)
  PROVE  Run(cfg, c, s, a \o b, u)
<1> DEFINE m == Len(a)
           n == Len(b)
<1>1. m \in Nat /\ n \in Nat
  OBVIOUS
<1>2. PICK f \in [0..m -> Knowledge] :
        /\ f[0] = s /\ f[m] = t
        /\ \A i \in 1..m : Allowed(cfg, c, f[i - 1], a[i]) /\ f[i] = Effect(c, f[i - 1], a[i].op, a[i].on)
  BY DEF Run
<1>3. PICK g \in [0..n -> Knowledge] :
        /\ g[0] = t /\ g[n] = u
        /\ \A i \in 1..n : Allowed(cfg, c, g[i - 1], b[i]) /\ g[i] = Effect(c, g[i - 1], b[i].op, b[i].on)
  BY DEF Run
<1>4. /\ a \o b \in Seq(Ops) /\ Len(a \o b) = m + n
      /\ \A i \in 1..(m + n) : (a \o b)[i] = IF i <= m THEN a[i] ELSE b[i - m]
  BY ConcatProperties
<1> DEFINE h == [i \in 0..(m + n) |-> IF i <= m THEN f[i] ELSE g[i - m]]
           ab == a \o b
<1> HIDE DEF ab, m, n
<1>5. h \in [0..(m + n) -> Knowledge] /\ h[0] = s
  <2>1. \A i \in 0..(m + n) : i <= m => i \in 0..m
    BY <1>1
  <2>2. \A i \in 0..(m + n) : ~(i <= m) => i - m \in 0..n
    BY <1>1
  <2> QED BY <1>1, <1>2, <1>3, <2>1, <2>2
<1>6. \A i \in 0..n : h[m + i] = g[i]
  <2> TAKE i \in 0..n
  <2>1. CASE i = 0
    <3>1. m + i = m /\ m \in 0..(m + n)
      BY <1>1, <2>1
    <3> QED BY <1>1, <1>2, <1>3, <2>1, <3>1
  <2>2. CASE i # 0
    <3>1. m + i \in 0..(m + n) /\ ~(m + i <= m) /\ (m + i) - m = i
      BY <1>1, <2>2
    <3> QED BY <3>1
  <2> QED BY <2>1, <2>2
<1>7. h[m + n] = u
  <2> HIDE DEF h
  <2>1. n \in 0..n
    BY <1>1
  <2> QED BY <1>3, <1>6, <2>1
<1>8. ASSUME NEW i \in 1..(m + n)
      PROVE  Allowed(cfg, c, h[i - 1], ab[i]) /\ h[i] = Effect(c, h[i - 1], ab[i].op, ab[i].on)
  <2>1. CASE i <= m
    <3>1. i \in 1..m /\ i - 1 \in 0..(m + n) /\ i - 1 <= m /\ i \in 0..(m + n)
      BY <1>1, <2>1
    <3>2. h[i] = f[i] /\ h[i - 1] = f[i - 1] /\ ab[i] = a[i]
      BY <1>4, <2>1, <3>1 DEF ab, m, n
    <3> QED BY <1>2, <3>1, <3>2
  <2>2. CASE ~(i <= m)
    <3> DEFINE j == i - m
    <3>1. j \in 1..n /\ j - 1 \in 0..n /\ j \in 0..n /\ m + j = i /\ m + (j - 1) = i - 1
      BY <1>1, <2>2
    <3>2. h[i] = g[j] /\ h[i - 1] = g[j - 1]
      <4> HIDE DEF h, j
      <4>1. h[m + j] = g[j] /\ h[m + (j - 1)] = g[j - 1]
        BY <1>6, <3>1
      <4> QED BY <3>1, <4>1
    <3>3. ab[i] = b[j]
      BY <1>4, <2>2, <3>1 DEF ab, m, n
    <3> QED BY <1>3, <3>1, <3>2, <3>3
  <2> QED BY <1>1, <2>1, <2>2
<1>9. Len(ab) = m + n
  BY <1>4 DEF ab, m, n
<1> HIDE DEF h
<1>10. Run(cfg, c, s, ab, u)
  BY <1>5, <1>7, <1>8, <1>9 DEF Run
<1> QED BY <1>10 DEF ab

\* A run goes on with the rest of the sequence.
LEMMA RunGoesOn ==
  ASSUME NEW cfg, NEW c, NEW s \in Knowledge, NEW t, NEW seq \in Seq(Ops), seq # <<>>,
         Run(cfg, c, s, seq, t)
  PROVE  /\ Allowed(cfg, c, s, Head(seq))
         /\ Run(cfg, c, Effect(c, s, Head(seq).op, Head(seq).on), Tail(seq), t)
<1> DEFINE n == Len(seq)
           r == Tail(seq)
<1>1. /\ n \in Nat /\ n >= 1 /\ Len(r) = n - 1 /\ Head(seq) = seq[1]
      /\ \A i \in 1..(n - 1) : r[i] = seq[i + 1]
  BY HeadTailProperties
<1>2. PICK f \in [0..n -> Knowledge] :
        /\ f[0] = s /\ f[n] = t
        /\ \A i \in 1..n : /\ Allowed(cfg, c, f[i - 1], seq[i])
                           /\ f[i] = Effect(c, f[i - 1], seq[i].op, seq[i].on)
  BY DEF Run
<1> DEFINE g == [i \in 0..(n - 1) |-> f[i + 1]]
<1> HIDE DEF n, r
<1>3. 1 \in 1..n /\ 1 - 1 = 0
  BY <1>1
<1>4. Allowed(cfg, c, s, Head(seq)) /\ f[1] = Effect(c, s, Head(seq).op, Head(seq).on)
  BY <1>1, <1>2, <1>3
<1>5. g \in [0..(n - 1) -> Knowledge] /\ g[0] = f[1] /\ g[n - 1] = t
  <2>1. \A i \in 0..(n - 1) : i + 1 \in 0..n
    BY <1>1
  <2>2. 0 \in 0..(n - 1) /\ n - 1 \in 0..(n - 1) /\ (n - 1) + 1 = n /\ 0 + 1 = 1
    BY <1>1
  <2> QED BY <1>2, <2>1, <2>2
<1>6. ASSUME NEW i \in 1..(n - 1)
      PROVE  Allowed(cfg, c, g[i - 1], r[i]) /\ g[i] = Effect(c, g[i - 1], r[i].op, r[i].on)
  <2>1. /\ i + 1 \in 1..n /\ (i + 1) - 1 = i /\ i \in 0..(n - 1)
        /\ i - 1 \in 0..(n - 1) /\ (i - 1) + 1 = i
    BY <1>1
  <2>2. g[i] = f[i + 1] /\ g[i - 1] = f[i]
    BY <2>1
  <2> QED BY <1>1, <1>2, <2>1, <2>2
<1> HIDE DEF g
<1>7. Run(cfg, c, f[1], r, t)
  BY <1>1, <1>5, <1>6 DEF Run
<1> QED BY <1>4, <1>7 DEF r

-----------------------------------------------------------------------------
(* Rules for outlines. *)

\* Nothing leads to what holds anyway.
LEMMA LeadsNone ==
  ASSUME NEW cfg, NEW c, NEW P, NEW Q, P \subseteq Knowledge, P \subseteq Q
  PROVE  Leads(cfg, c, P, <<>>, Q)
<1>1. <<>> \in Seq(Ops)
  OBVIOUS
<1> QED BY <1>1, RunOfNothing DEF Leads

\* One operation leads to where its effect leads.
LEMMA LeadsOne ==
  ASSUME NEW cfg, NEW c, NEW P, NEW Q, P \subseteq Knowledge, NEW o \in Ops,
         \A s \in P : Allowed(cfg, c, s, o) /\ Effect(c, s, o.op, o.on) \in Q
  PROVE  Leads(cfg, c, P, <<o>>, Q)
<1>1. <<o>> \in Seq(Ops)
  OBVIOUS
<1> QED BY <1>1, RunOfOne DEF Leads

\* What one sequence leaves, the next begins with.
LEMMA LeadsThen ==
  ASSUME NEW cfg, NEW c, NEW P, NEW Q, NEW R, NEW a, NEW b,
         Leads(cfg, c, P, a, Q), Leads(cfg, c, Q, b, R)
  PROVE  Leads(cfg, c, P, a \o b, R)
<1>1. a \in Seq(Ops) /\ b \in Seq(Ops) /\ a \o b \in Seq(Ops)
  BY ConcatProperties DEF Leads
<1>2. ASSUME NEW s \in P PROVE \E u \in R : Run(cfg, c, s, a \o b, u)
  <2>1. PICK t \in Q : Run(cfg, c, s, a, t)
    BY DEF Leads
  <2>2. PICK u \in R : Run(cfg, c, t, b, u)
    BY DEF Leads
  <2> QED BY <1>1, <2>1, <2>2, RunsFollow
<1> QED BY <1>1, <1>2 DEF Leads

\* A sequence that a switch of the configuration leaves out.
LEMMA LeadsWhen ==
  ASSUME NEW cfg, NEW c, NEW P, NEW Q, NEW condition \in BOOLEAN, NEW ops, P \subseteq Knowledge,
         condition => Leads(cfg, c, P, ops, Q),
         ~condition => P \subseteq Q
  PROVE  Leads(cfg, c, P, When(condition, ops), Q)
BY LeadsNone DEF When

\* A sequence for the roles of a set of the configuration.
LEMMA LeadsWhenIn ==
  ASSUME NEW cfg, NEW c, NEW P, NEW Q, NEW x, NEW S, NEW ops, P \subseteq Knowledge,
         x \in S => Leads(cfg, c, P, ops, Q),
         x \notin S => P \subseteq Q
  PROVE  Leads(cfg, c, P, When(x \in S, ops), Q)
BY LeadsNone DEF When

\* A loop keeps its invariant.
LEMMA LeadsTimes ==
  ASSUME NEW cfg, NEW c, NEW P, NEW Q, P \subseteq Knowledge, Q \subseteq P,
         NEW ops, ops # <<>>, Leads(cfg, c, P, ops, Q), NEW n \in Nat
  PROVE  /\ Leads(cfg, c, P, Times(n, ops), P)
         /\ n # 0 => Leads(cfg, c, P, Times(n, ops), Q)
<1>1. ops \in Seq(Ops)
  BY DEF Leads
<1>2. \A k \in Nat : Times(k, ops) = Copies(k, ops)
  BY <1>1, TimesCopies
<1> DEFINE S == {k \in Nat : /\ Leads(cfg, c, P, Copies(k, ops), P)
                             /\ k # 0 => Leads(cfg, c, P, Copies(k, ops), Q)}
<1>3. 0 \in S
  BY <1>1, OneMoreCopy, LeadsNone
<1>4. ASSUME NEW k \in S PROVE k + 1 \in S
  <2>1. Copies(k + 1, ops) = Copies(k, ops) \o ops
    BY <1>1, OneMoreCopy
  <2>2. Leads(cfg, c, P, Copies(k + 1, ops), Q)
    BY <2>1, LeadsThen
  <2>3. Leads(cfg, c, P, Copies(k + 1, ops), P)
    BY <2>2 DEF Leads
  <2> QED BY <2>2, <2>3
<1>5. S \subseteq Nat
  OBVIOUS
<1> HIDE DEF S
<1>6. S = Nat
  BY <1>3, <1>4, <1>5, AllNumbers, Zenon
<1> QED BY <1>2, <1>6 DEF S

-----------------------------------------------------------------------------
(* The outlines of the calls. *)

\* The states of knowledge that the calls begin and end with.
LEMMA SetsOfKnowledge ==
  ASSUME NEW cfg, NEW r, NEW B, NEW C
  PROVE  /\ OnDevice(cfg, r, B, C) \subseteq Knowledge
         /\ Resting(cfg, r, B, C) \subseteq Knowledge
         /\ Waiting(cfg, r, B, C) \subseteq Knowledge
         /\ Unmade \subseteq Knowledge
BY DEF OnDevice, Resting, Waiting, Unmade

\* What Op builds.
LEMMA OpsOf ==
  ASSUME NEW name \in OpNames, NEW r \in Roles
  PROVE  Op(name, r) \in Ops /\ Op(name, r).op = name /\ Op(name, r).on = r
BY DEF Op, Ops

\* The fields of a configuration.
LEMMA ConfigFields ==
  ASSUME config \in Configs
  PROVE  /\ config.roles \subseteq Roles /\ "actor" \in config.roles
         /\ config.param \subseteq Trained /\ config.grad \subseteq Trained
         /\ config.optimizer \subseteq Trained
         /\ config.freeCache \in BOOLEAN /\ config.template \in BOOLEAN /\ config.warmup \in Nat
BY ConfigsValid DEF Config

\* The same for two operations written as one sequence.
LEMMA LeadsTwo ==
  ASSUME NEW cfg, NEW c, NEW P, NEW Q, NEW R, NEW a, NEW b,
         Leads(cfg, c, P, <<a>>, Q), Leads(cfg, c, Q, <<b>>, R)
  PROVE  Leads(cfg, c, P, <<a, b>>, R)
<1>1. Leads(cfg, c, P, <<a>> \o <<b>>, R)
  BY LeadsThen
<1>2. <<a>> \o <<b>> = <<a, b>>
  <2>1. <<a>> \in Seq({a, b}) /\ <<b>> \in Seq({a, b}) /\ <<a, b>> \in Seq({a, b})
    OBVIOUS
  <2>2. /\ <<a>> \o <<b>> \in Seq({a, b}) /\ Len(<<a>> \o <<b>>) = 2
        /\ \A i \in 1..2 : (<<a>> \o <<b>>)[i] = IF i <= 1 THEN <<a>>[i] ELSE <<b>>[i - 1]
    BY <2>1, ConcatProperties
  <2>3. \A i \in 1..2 : (<<a>> \o <<b>>)[i] = <<a, b>>[i]
    BY <2>2
  <2>4. Len(<<a, b>>) = 2
    OBVIOUS
  <2> QED BY <2>1, <2>2, <2>3, <2>4, SeqEqual
<1> QED BY <1>1, <1>2

\* One operation, found allowed wherever P holds, leads to Q.
Moves(cfg, c, P, name, Q) ==
  \A s \in P : \A e \in Knowledge :
    e = Effect(c, s, name, RoleOf(c)) => MayDo(cfg, c, s, name) /\ e \in Q

\* It is enough to look at the effect of an operation.
LEMMA OneOperation ==
  ASSUME NEW cfg, NEW c \in Calls, NEW P, NEW Q, P \subseteq Knowledge, NEW name \in OpNames,
         Moves(cfg, c, P, name, Q)
  PROVE  Leads(cfg, c, P, <<Op(name, RoleOf(c))>>, Q)
<1> DEFINE o == Op(name, RoleOf(c))
<1>1. RoleOf(c) \in Roles
  BY DEF RoleOf, Roles, Trained, Frozen
<1>2. o \in Ops /\ o.op = name /\ o.on = RoleOf(c)
  BY <1>1, OpsOf
<1>3. \A s \in P : Allowed(cfg, c, s, o) /\ Effect(c, s, o.op, o.on) \in Q
  BY <1>2, EffectIsKnowledge DEF Allowed, Moves
<1> QED BY <1>2, <1>3, LeadsOne

\* What brackets the calls about a role that is trained.
LEMMA Brackets ==
  ASSUME config \in Configs, NEW c \in Calls, RoleOf(c) \in Trained, NEW B, NEW C
  PROVE  LET r == RoleOf(c) IN
         /\ Leads(config, c, Waiting(config, r, B, C), LoadParams(r), OnDevice(config, r, B, C))
         /\ Leads(config, c, OnDevice(config, r, B, C), OffloadParams(r), Resting(config, r, B, C))
<1> DEFINE r == RoleOf(c)
           D == OnDevice(config, r, B, C)
           R == Resting(config, r, B, C)
           W == Waiting(config, r, B, C)
<1>1. D \subseteq Knowledge /\ R \subseteq Knowledge /\ W \subseteq Knowledge
  BY DEF OnDevice, Resting, Waiting
<1>2. r \notin Frozen
  BY DEF Trained, Frozen
<1>3. Leads(config, c, W, <<Op("load_params", r)>>, D)
  <2>1. Moves(config, c, W, "load_params", D)
    BY DEF Moves, MayDo, Effect, Waiting, Resting, OnDevice, Home
  <2> QED BY <1>1, <2>1, OneOperation DEF OpNames
<1>4. r \notin config.param => W \subseteq D
  BY <1>2 DEF Home, Waiting, Resting, OnDevice
<1>5. Leads(config, c, D, <<Op("offload_params", r)>>, R) \/ r \notin config.param
  <2>1. r \in config.param => Moves(config, c, D, "offload_params", R)
    BY <1>2 DEF Moves, MayDo, Effect, Home, Resting, OnDevice
  <2> QED BY <1>1, <2>1, OneOperation DEF OpNames
<1>6. r \notin config.param => D \subseteq R
  BY <1>2 DEF Home, Resting, OnDevice
<1>7. Leads(config, c, W, LoadParams(r), D)
  BY <1>1, <1>3, <1>4, LeadsWhenIn DEF LoadParams
<1>8. Leads(config, c, D, OffloadParams(r), R)
  BY <1>1, <1>5, <1>6, LeadsWhenIn DEF OffloadParams
<1> QED BY <1>7, <1>8

\* generate_sequences: the engine serves only between enter and exit.
LEMMA RolloutLeads ==
  ASSUME config \in Configs, NEW c \in Rollouts
  PROVE  Leads(config, c, Before(config, c), Operations(c), After(config, c))
<1> DEFINE sampling == IF c = "generate" THEN "sample" ELSE "decode"
           B == IF c = "generate" THEN {"sampled"} ELSE Phases
           C == IF config.freeCache THEN Caches ELSE {"held"}
           N == Left(config)
           D == OnDevice(config, "actor", Phases, C)
           Serving(X, Y) ==
             {s \in Knowledge :
                /\ s.at = "gpu" /\ s.serves /\ s.batch \in X /\ s.cache \in Y /\ ~s.full
                /\ "actor" \notin config.optimizer => s.state = "device"}
<1>1. /\ c \in Calls \ Inits /\ RoleOf(c) = "actor" /\ "actor" \in Trained
      /\ config.freeCache \in BOOLEAN /\ c \in {"generate", "validate"}
  BY ConfigFields DEF Calls, Inits, Rollouts, RoleOf, Trained
<1>2. Before(config, c) = Waiting(config, "actor", Phases, C)
  BY <1>1 DEF Before, Loads, Rollouts
<1>3. After(config, c) = Resting(config, "actor", B, N)
  <2>1. CASE c = "generate"
    BY <2>1 DEF After, Updates
  <2>2. CASE c = "validate"
    BY <2>2 DEF After, Updates
  <2> QED BY <1>1, <2>1, <2>2
<1>4. \A X, Y : Serving(X, Y) \subseteq Knowledge
  OBVIOUS
<1>5. Leads(config, c, Before(config, c), LoadParams("actor"), D)
  BY <1>1, <1>2, Brackets
<1>6. Leads(config, c, D, <<Op("enter", "actor")>>, Serving(Phases, C))
  <2>1. Moves(config, c, D, "enter", Serving(Phases, C))
    BY <1>1 DEF Moves, MayDo, Effect, OnDevice, Rollouts
  <2> QED BY <1>1, <1>4, <2>1, SetsOfKnowledge, OneOperation DEF OpNames
<1>7. Leads(config, c, Serving(Phases, C), <<Op("init_cache", "actor")>>, Serving(Phases, {"held"}))
  <2>1. Moves(config, c, Serving(Phases, C), "init_cache", Serving(Phases, {"held"}))
    BY <1>1 DEF Moves, MayDo, Effect, Rollouts
  <2> QED BY <1>1, <1>4, <2>1, SetsOfKnowledge, OneOperation DEF OpNames
<1>8. Leads(config, c, Serving(Phases, C), When(config.freeCache, <<Op("init_cache", "actor")>>),
            Serving(Phases, {"held"}))
  BY <1>1, <1>4, <1>7, LeadsWhen
<1>9. Leads(config, c, Serving(Phases, {"held"}), <<Op(sampling, "actor")>>, Serving(B, {"held"}))
  <2>1. CASE c = "generate"
    <3>1. Moves(config, c, Serving(Phases, {"held"}), "sample", Serving(B, {"held"}))
      BY <2>1 DEF Moves, MayDo, Effect
    <3> QED BY <1>1, <1>4, <2>1, <3>1, OneOperation DEF OpNames
  <2>2. CASE c = "validate"
    <3>1. Moves(config, c, Serving(Phases, {"held"}), "decode", Serving(B, {"held"}))
      BY <2>2 DEF Moves, MayDo, Effect
    <3> QED BY <1>1, <1>4, <2>2, <3>1, OneOperation DEF OpNames
  <2> QED BY <1>1, <2>1, <2>2
<1>10. Leads(config, c, Serving(B, {"held"}), When(config.freeCache, <<Op("free_cache", "actor")>>),
             Serving(B, N))
  <2>1. config.freeCache => Moves(config, c, Serving(B, {"held"}), "free_cache", Serving(B, N))
    BY <1>1 DEF Moves, MayDo, Effect, Rollouts, Left
  <2>2. config.freeCache =>
          Leads(config, c, Serving(B, {"held"}), <<Op("free_cache", "actor")>>, Serving(B, N))
    BY <1>1, <1>4, <2>1, OneOperation DEF OpNames
  <2>3. ~config.freeCache => Serving(B, {"held"}) \subseteq Serving(B, N)
    BY DEF Left
  <2> QED BY <1>1, <1>4, <2>2, <2>3, LeadsWhen
<1>11. Leads(config, c, Serving(B, N), <<Op("exit", "actor")>>, OnDevice(config, "actor", B, N))
  <2>1. Moves(config, c, Serving(B, N), "exit", OnDevice(config, "actor", B, N))
    BY <1>1 DEF Moves, MayDo, Effect, OnDevice, Rollouts
  <2> QED BY <1>1, <1>4, <2>1, SetsOfKnowledge, OneOperation DEF OpNames
<1>12. Leads(config, c, OnDevice(config, "actor", B, N), OffloadParams("actor"), After(config, c))
  BY <1>1, <1>3, Brackets
<1>13. Operations(c) = GenerateSequences(sampling)
  BY <1>1 DEF Operations
<1> HIDE DEF D, Serving, N, B, C
<1> QED BY <1>5, <1>6, <1>8, <1>9, <1>10, <1>11, <1>12, <1>13, LeadsThen DEF GenerateSequences

\* Checkpoints: the parameters are on the device when they are read or written.
LEMMA CheckpointLeads ==
  ASSUME config \in Configs, NEW c \in Saves \cup Loads
  PROVE  Leads(config, c, Before(config, c), Operations(c), After(config, c))
<1> DEFINE r == RoleOf(c)
           B == IF c \in Loads THEN {"none"} ELSE Phases
           D == OnDevice(config, r, B, Caches)
           E == OnDevice(config, r, Phases, Caches)
<1>1. /\ c \in Calls /\ r \in Trained /\ c \notin Inits \cup Rollouts
      /\ c \notin {"old_log_prob", "update_actor", "generate", "validate", "init_actor"}
      /\ c \notin Updates
  BY DEF Saves, Loads, Calls, Inits, Rollouts, Updates, RoleOf, Trained
<1>2. /\ Before(config, c) = Waiting(config, r, B, Caches)
      /\ After(config, c) = Resting(config, r, Phases, Caches)
  BY <1>1 DEF Before, After
<1>3. Leads(config, c, Before(config, c), LoadParams(r), D)
  BY <1>1, <1>2, Brackets
<1>4. Leads(config, c, E, OffloadParams(r), After(config, c))
  BY <1>1, <1>2, Brackets
<1>5. CASE c \in Saves
  <2>1. Moves(config, c, D, "save", E)
    BY <1>5 DEF Moves, MayDo, Effect, OnDevice, Saves, Loads
  <2>2. Leads(config, c, D, <<Op("save", r)>>, E)
    BY <1>1, <2>1, SetsOfKnowledge, OneOperation DEF OpNames
  <2>3. Operations(c) = SaveCheckpoint(r)
    BY <1>5 DEF Operations, Saves, RoleOf
  <2> HIDE DEF D, E, r
  <2> QED BY <1>3, <1>4, <2>2, <2>3, LeadsThen DEF SaveCheckpoint
<1>6. CASE c \in Loads
  <2>1. Moves(config, c, D, "restore", E)
    BY <1>6 DEF Moves, MayDo, Effect, OnDevice, Phases
  <2>2. Leads(config, c, D, <<Op("restore", r)>>, E)
    BY <1>1, <2>1, SetsOfKnowledge, OneOperation DEF OpNames
  <2>3. Operations(c) = LoadCheckpoint(r)
    BY <1>6 DEF Operations, Loads, RoleOf
  <2> HIDE DEF D, E, r
  <2> QED BY <1>3, <1>4, <2>2, <2>3, LeadsThen DEF LoadCheckpoint
<1> QED BY <1>5, <1>6

\* The forward passes that score a batch; but for the critic's they reshard the root.
LEMMA ScoreLeads ==
  ASSUME config \in Configs, NEW c \in Scores
  PROVE  Leads(config, c, Before(config, c), Operations(c), After(config, c))
<1>1. c \in Calls /\ c \notin Inits \cup Rollouts \cup Loads \cup Updates
  BY DEF Scores, Calls, Inits, Rollouts, Loads, Updates
<1>2. CASE c = "values"
  <2> DEFINE D == OnDevice(config, "critic", Phases, Caches)
  <2>1. RoleOf(c) = "critic" /\ "critic" \in Trained
    BY <1>2 DEF RoleOf, Trained
  <2>2. /\ Before(config, c) = Waiting(config, "critic", Phases, Caches)
        /\ After(config, c) = Resting(config, "critic", Phases, Caches)
    BY <1>1, <1>2, <2>1 DEF Before, After
  <2>3. Leads(config, c, Before(config, c), LoadParams("critic"), D)
    BY <1>1, <2>1, <2>2, Brackets
  <2>4. Moves(config, c, D, "forward", D)
    BY <1>2 DEF Moves, MayDo, Effect, OnDevice, Scores
  <2>5. Leads(config, c, D, <<Op("forward", "critic")>>, D)
    BY <1>1, <2>1, <2>4, SetsOfKnowledge, OneOperation DEF OpNames
  <2>6. Leads(config, c, D, OffloadParams("critic"), After(config, c))
    BY <1>1, <2>1, <2>2, Brackets
  <2>7. Operations(c) = ComputeValues
    BY <1>2 DEF Operations
  <2> HIDE DEF D
  <2> QED BY <2>3, <2>5, <2>6, <2>7, LeadsThen DEF ComputeValues
<1>3. CASE c = "old_log_prob"
  <2> DEFINE D == OnDevice(config, "actor", {"sampled"}, Caches)
             F == {s \in Knowledge :
                     /\ s.at = "gpu" /\ ~s.serves /\ s.batch = "scored"
                     /\ "actor" \notin config.optimizer => s.state = "device"}
             E == OnDevice(config, "actor", {"scored"}, Caches)
  <2>1. RoleOf(c) = "actor" /\ "actor" \in Trained
    BY <1>3 DEF RoleOf, Trained
  <2>2. /\ Before(config, c) = Waiting(config, "actor", {"sampled"}, Caches)
        /\ After(config, c) = Resting(config, "actor", {"scored"}, Caches)
    BY <1>1, <1>3, <2>1 DEF Before, After
  <2>3. Leads(config, c, Before(config, c), LoadParams("actor"), D)
    BY <1>1, <2>1, <2>2, Brackets
  <2>4. Moves(config, c, D, "forward", F)
    BY <1>3 DEF Moves, MayDo, Effect, OnDevice, Scores
  <2>5. Leads(config, c, D, <<Op("forward", "actor")>>, F)
    BY <1>1, <2>1, <2>4, SetsOfKnowledge, OneOperation DEF OpNames
  <2>6. Moves(config, c, F, "reshard", E)
    BY DEF Moves, MayDo, Effect, OnDevice, Knowledge
  <2>7. Leads(config, c, F, <<Op("reshard", "actor")>>, E)
    BY <1>1, <2>1, <2>6, OneOperation DEF OpNames
  <2>8. Leads(config, c, E, OffloadParams("actor"), After(config, c))
    BY <1>1, <2>1, <2>2, Brackets
  <2>9. Operations(c) = ComputeLogProb
    BY <1>3 DEF Operations
  <2> HIDE DEF D, E, F
  <2> QED BY <2>3, <2>5, <2>7, <2>8, <2>9, LeadsTwo, LeadsThen DEF ComputeLogProb
<1>4. CASE c \in {"ref", "rm"}
  <2> DEFINE r == RoleOf(c)
             R == Resting(config, r, Phases, Caches)
             F == {s \in Knowledge : s.at = "fsdp" /\ ~s.serves /\ (r \notin config.optimizer => s.state = "device")}
  <2>1. r \in Frozen /\ r # "actor" /\ Home(config, r) = {"fsdp"}
    <3>1. r \in {"ref", "rm"}
      BY <1>4 DEF RoleOf
    <3> QED BY <3>1 DEF Frozen, Home
  <2>2. Before(config, c) = R /\ After(config, c) = R
    BY <1>1, <1>4, <2>1 DEF Before, After, Waiting
  <2>3. Moves(config, c, R, "forward", F)
    BY <1>4, <2>1 DEF Moves, MayDo, Effect, Resting, Scores
  <2>4. Moves(config, c, F, "reshard", R)
    BY <2>1 DEF Moves, MayDo, Effect, Resting, Knowledge, Phases
  <2>5. Moves(config, c, R, "switch_template", R)
    BY DEF Moves, MayDo, Effect, Resting
  <2>6. Leads(config, c, R, <<Op("forward", r)>>, F)
    BY <1>1, <2>3, SetsOfKnowledge, OneOperation DEF OpNames
  <2>7. Leads(config, c, F, <<Op("reshard", r)>>, R)
    BY <1>1, <2>4, OneOperation DEF OpNames
  <2>8. Leads(config, c, R, When(config.template, <<Op("switch_template", r)>>), R)
    <3>1. Leads(config, c, R, <<Op("switch_template", r)>>, R)
      BY <1>1, <2>5, SetsOfKnowledge, OneOperation DEF OpNames
    <3> QED BY <3>1, ConfigFields, SetsOfKnowledge, LeadsWhen
  <2>9. Leads(config, c, R, <<Op("forward", r), Op("reshard", r)>>, R)
    <3> HIDE DEF R, F, r
    <3> QED BY <2>6, <2>7, LeadsTwo
  <2>10. Operations(c) = <<Op("forward", r), Op("reshard", r)>>
           \/ Operations(c) = When(config.template, <<Op("switch_template", r)>>)
                              \o <<Op("forward", r), Op("reshard", r)>>
    BY <1>4 DEF Operations, ComputeRefLogProb, ComputeRmScore, RoleOf
  <2> HIDE DEF R, r
  <2> QED BY <2>2, <2>8, <2>9, <2>10, LeadsThen
<1> QED BY <1>2, <1>3, <1>4 DEF Scores

\* A model and its optimizer are built, and then moved to where they wait.
LEMMA InitLeads ==
  ASSUME config \in Configs, NEW c \in Inits
  PROVE  Leads(config, c, Before(config, c), Operations(c), After(config, c))
<1>1. c \in Calls /\ Before(config, c) = Unmade
  BY DEF Calls, Before
<1>2. CASE c \in {"init_ref", "init_rm"}
  <2> DEFINE r == RoleOf(c)
             R == Resting(config, r, Phases, Caches)
             name == IF c = "init_ref" THEN "build" ELSE "build_model"
  <2>1. r \in {"ref", "rm"}
    BY <1>2 DEF RoleOf
  <2>2. After(config, c) = R
    BY <1>2 DEF After, Updates
  <2>3. Home(config, r) = {"fsdp"}
    BY <2>1 DEF Home, Frozen
  <2>4. CASE c = "init_ref"
    <3>1. r = "ref"
      BY <2>4 DEF RoleOf
    <3>2. Moves(config, c, Unmade, "build", R)
      BY <2>3, <3>1 DEF Moves, MayDo, Effect, Unmade, Resting, Knowledge, Phases
    <3>3. Leads(config, c, Unmade, <<Op("build", r)>>, R)
      BY <1>1, <3>2, SetsOfKnowledge, OneOperation DEF OpNames
    <3> QED BY <1>1, <2>2, <2>4, <3>1, <3>3 DEF Operations, InitRef
  <2>5. CASE c = "init_rm"
    <3>1. r = "rm"
      BY <2>5 DEF RoleOf
    <3>2. Moves(config, c, Unmade, "build_model", R)
      BY <2>3, <3>1 DEF Moves, MayDo, Effect, Unmade, Resting, Knowledge, Phases
    <3>3. Leads(config, c, Unmade, <<Op("build_model", r)>>, R)
      BY <1>1, <3>2, SetsOfKnowledge, OneOperation DEF OpNames
    <3> QED BY <1>1, <2>2, <2>5, <3>1, <3>3 DEF Operations, InitRewardModel
  <2> QED BY <1>2, <2>4, <2>5
<1>3. CASE c = "init_critic"
  <2> DEFINE D == OnDevice(config, "critic", Phases, Caches)
             R == Resting(config, "critic", Phases, Caches)
  <2>1. RoleOf(c) = "critic" /\ "critic" \in Trained
    BY <1>3 DEF RoleOf, Trained
  <2>2. After(config, c) = R
    BY <1>3, <2>1 DEF After, Updates
  <2>3. Moves(config, c, Unmade, "build_critic", D)
    BY <1>3 DEF Moves, MayDo, Effect, Unmade, OnDevice, Phases, Knowledge
  <2>4. Leads(config, c, Unmade, <<Op("build_critic", "critic")>>, D)
    BY <1>1, <2>1, <2>3, SetsOfKnowledge, OneOperation DEF OpNames
  <2>5. Leads(config, c, D, OffloadParams("critic"), R)
    BY <1>1, <2>1, Brackets
  <2>6. "critic" \in config.optimizer => Moves(config, c, R, "offload_optimizer", R)
    BY <2>1 DEF Moves, MayDo, Effect, Resting
  <2>7. Leads(config, c, R, OffloadOptimizer("critic"), R)
    <3>1. "critic" \in config.optimizer =>
            Leads(config, c, R, <<Op("offload_optimizer", "critic")>>, R)
      BY <1>1, <2>1, <2>6, SetsOfKnowledge, OneOperation DEF OpNames
    <3> QED BY <3>1, SetsOfKnowledge, LeadsWhenIn DEF OffloadOptimizer
  <2>8. Operations(c) = InitCritic
    BY <1>3 DEF Operations
  <2> HIDE DEF D, R
  <2> QED BY <1>1, <2>2, <2>4, <2>5, <2>7, <2>8, LeadsThen DEF InitCritic
<1>4. CASE c = "init_actor"
  <2> DEFINE D == OnDevice(config, "actor", Phases, Caches)
             E == OnDevice(config, "actor", Phases, {"held"})
             A == {s \in E : s.apart}
  <2>1. RoleOf(c) = "actor" /\ "actor" \in Trained
    BY <1>4 DEF RoleOf, Trained
  <2>2. After(config, c) = A
    BY <1>4 DEF After, Updates
  <2>3. Moves(config, c, Unmade, "build", D)
    BY <1>4, <2>1 DEF Moves, MayDo, Effect, Unmade, OnDevice, Phases, Knowledge
  <2>4. Moves(config, c, D, "offload_grad", D)
    BY DEF Moves, MayDo, Effect, OnDevice
  <2>5. "actor" \in config.optimizer => Moves(config, c, D, "offload_optimizer", D)
    BY DEF Moves, MayDo, Effect, OnDevice
  <2>6. Moves(config, c, D, "build_engine", E)
    BY <1>4 DEF Moves, MayDo, Effect, OnDevice
  <2>7. Moves(config, c, E, "build_manager", A)
    BY <1>4 DEF Moves, MayDo, Effect, OnDevice
  <2>8. Leads(config, c, Unmade, <<Op("build", "actor")>>, D)
    BY <1>1, <2>1, <2>3, SetsOfKnowledge, OneOperation DEF OpNames
  <2>9. Leads(config, c, D, When("actor" \in config.param, <<Op("offload_grad", "actor")>>), D)
    <3>1. Leads(config, c, D, <<Op("offload_grad", "actor")>>, D)
      BY <1>1, <2>1, <2>4, SetsOfKnowledge, OneOperation DEF OpNames
    <3> QED BY <3>1, SetsOfKnowledge, LeadsWhenIn
  <2>10. Leads(config, c, D, OffloadOptimizer("actor"), D)
    <3>1. "actor" \in config.optimizer =>
            Leads(config, c, D, <<Op("offload_optimizer", "actor")>>, D)
      BY <1>1, <2>1, <2>5, SetsOfKnowledge, OneOperation DEF OpNames
    <3> QED BY <3>1, SetsOfKnowledge, LeadsWhenIn DEF OffloadOptimizer
  <2>11. Leads(config, c, D, RolloutOps, A)
    <3>1. Leads(config, c, D, <<Op("build_engine", "actor")>>, E)
      BY <1>1, <2>1, <2>6, SetsOfKnowledge, OneOperation DEF OpNames
    <3>2. Leads(config, c, E, <<Op("build_manager", "actor")>>, A)
      BY <1>1, <2>1, <2>7, SetsOfKnowledge, OneOperation DEF OpNames
    <3> HIDE DEF D, E, A
    <3> QED BY <3>1, <3>2, LeadsTwo DEF RolloutOps
  <2>12. Operations(c) = InitActor
    BY <1>4 DEF Operations
  <2> HIDE DEF D, E, A
  <2> QED BY <1>1, <2>2, <2>8, <2>9, <2>10, <2>11, <2>12, LeadsThen DEF InitActor
<1> QED BY <1>2, <1>3, <1>4 DEF Inits

\* The mini-batches of an update: the optimizer steps on the gradients of the last
\* backward pass, which has resharded the root, with its state on the device.
LEMMA UpdateLeads ==
  ASSUME config \in Configs, NEW c \in Updates
  PROVE  Leads(config, c, Before(config, c), Operations(c), After(config, c))
<1> DEFINE r == RoleOf(c)
           B == IF c = "update_actor" THEN {"scored"} ELSE Phases
           D == OnDevice(config, r, B, Caches)
           L == {s \in D : s.state = "device"}
           Z == {s \in L : s.grad # "any"}
           F == {s \in Knowledge :
                   s.at = "gpu" /\ ~s.serves /\ s.batch \in B /\ s.state = "device" /\ s.grad # "any"}
           G == {s \in L : s.grad = "gpu"}
           R == Resting(config, r, B, Caches)
<1>1. /\ c \in Calls /\ r \in Trained /\ c \notin Inits \cup Rollouts \cup Loads
      /\ c \notin {"old_log_prob", "generate", "validate", "init_actor"}
  BY DEF Updates, Calls, Inits, Rollouts, Loads, RoleOf, Trained
<1>2. /\ Before(config, c) = Waiting(config, r, B, Caches)
      /\ After(config, c) = {s \in Resting(config, r, Phases, Caches) :
                               r \in config.optimizer => s.state = "host"}
  BY <1>1 DEF Before, After
<1>3. D \subseteq Knowledge /\ L \subseteq Knowledge /\ R \subseteq Knowledge
  BY DEF OnDevice, Resting
<1>4. Leads(config, c, Before(config, c), LoadParams(r), D)
  BY <1>1, <1>2, Brackets
<1>5. Leads(config, c, D, LoadOptimizer(r), L)
  <2>1. r \in config.optimizer => Moves(config, c, D, "load_optimizer", L)
    BY DEF Moves, MayDo, Effect, OnDevice
  <2>2. r \in config.optimizer => Leads(config, c, D, <<Op("load_optimizer", r)>>, L)
    BY <1>1, <1>3, <2>1, OneOperation DEF OpNames
  <2>3. r \notin config.optimizer => D \subseteq L
    BY DEF OnDevice
  <2> HIDE DEF D, L, r
  <2> QED BY <1>3, <2>2, <2>3, LeadsWhenIn DEF LoadOptimizer
<1>6. Leads(config, c, L, <<Op("zero_grad", r)>>, Z)
  <2>1. Moves(config, c, L, "zero_grad", Z)
    BY DEF Moves, MayDo, Effect, OnDevice
  <2> QED BY <1>1, <1>3, <2>1, OneOperation DEF OpNames
<1>7. Leads(config, c, Z, Times(Micros, <<Op("forward", r), Op("backward", r)>>), G)
  <2>1. Moves(config, c, Z, "forward", F)
    BY <1>1 DEF Moves, MayDo, Effect, OnDevice
  <2>2. Moves(config, c, F, "backward", G)
    BY DEF Moves, MayDo, Effect, OnDevice, Knowledge
  <2>3. Leads(config, c, Z, <<Op("forward", r)>>, F)
    BY <1>1, <1>3, <2>1, OneOperation DEF OpNames
  <2>4. Leads(config, c, F, <<Op("backward", r)>>, G)
    BY <1>1, <2>2, OneOperation DEF OpNames
  <2>5. G \subseteq Z /\ Z \subseteq Knowledge
    BY <1>3
  <2>6. <<Op("forward", r), Op("backward", r)>> # <<>>
    OBVIOUS
  <2> HIDE DEF F, G, Z, r
  <2> QED BY <2>3, <2>4, <2>5, <2>6, LeadsTwo, LeadsTimes, BatchesSplit
<1>8. Leads(config, c, G, <<Op("optimizer_step", r)>>, L)
  <2>1. Moves(config, c, G, "optimizer_step", L)
    BY DEF Moves, MayDo, Effect, OnDevice
  <2> QED BY <1>1, <1>3, <2>1, OneOperation DEF OpNames
<1>9. Leads(config, c, L, MiniBatch(r), L)
  <2> HIDE DEF L, Z, G, r
  <2> QED BY <1>6, <1>7, <1>8, LeadsThen DEF MiniBatch
<1>10. Leads(config, c, L, Times(Minis, MiniBatch(r)), L)
  <2>1. MiniBatch(r) # <<>>
    <3> DEFINE a == <<Op("zero_grad", r)>>
               b == Times(Micros, <<Op("forward", r), Op("backward", r)>>)
               d == <<Op("optimizer_step", r)>>
    <3>1. a \in Seq(Ops) /\ b \in Seq(Ops) /\ d \in Seq(Ops)
      BY <1>6, <1>7, <1>8 DEF Leads
    <3>2. Len(a) = 1
      OBVIOUS
    <3> DEFINE ab == a \o b
    <3> HIDE DEF a, b, d
    <3>3. ab \in Seq(Ops) /\ Len(ab) = 1 + Len(b)
      <4>1. ab \in Seq(Ops) /\ Len(ab) = Len(a) + Len(b)
        BY <3>1, ConcatProperties
      <4> QED BY <3>2, <4>1
    <3> HIDE DEF ab
    <3>4. Len(ab \o d) = Len(ab) + Len(d) /\ Len(b) \in Nat /\ Len(d) \in Nat
      BY <3>1, <3>3, ConcatProperties, LenProperties
    <3>5. ab \o d # <<>>
      BY <3>3, <3>4, EmptySeq
    <3> QED BY <3>5 DEF MiniBatch, ab, a, b, d
  <2> HIDE DEF L, r
  <2> QED BY <1>3, <1>9, <2>1, LeadsTimes, BatchesSplit
<1>11. Leads(config, c, L, <<Op("zero_grad", r)>>, D)
  <2>1. Moves(config, c, L, "zero_grad", D)
    BY DEF Moves, MayDo, Effect, OnDevice
  <2> QED BY <1>1, <1>3, <2>1, OneOperation DEF OpNames
<1>12. Leads(config, c, D, OffloadParams(r), R)
  BY <1>1, Brackets
<1>13. Leads(config, c, R, OffloadOptimizer(r), After(config, c))
  <2>1. r \in config.optimizer => Moves(config, c, R, "offload_optimizer", After(config, c))
    BY <1>2 DEF Moves, MayDo, Effect, Resting, Phases
  <2>2. r \in config.optimizer => Leads(config, c, R, <<Op("offload_optimizer", r)>>, After(config, c))
    BY <1>1, <1>3, <2>1, OneOperation DEF OpNames
  <2>3. r \notin config.optimizer => R \subseteq After(config, c)
    BY <1>2 DEF Resting, Phases
  <2> HIDE DEF R, r
  <2> QED BY <1>3, <2>2, <2>3, LeadsWhenIn DEF OffloadOptimizer
<1>14. Operations(c) = Update(r)
  BY DEF Operations, Updates, UpdateActor, UpdateCritic, RoleOf
<1> HIDE DEF D, L, R, r
<1> QED BY <1>4, <1>5, <1>10, <1>11, <1>12, <1>13, <1>14, LeadsThen DEF Update

\* Every call finds what its operations need, and leaves what After says.
LEMMA CallLeads ==
  ASSUME config \in Configs, NEW c \in Calls
  PROVE  Leads(config, c, Before(config, c), Operations(c), After(config, c))
BY RolloutLeads, CheckpointLeads, ScoreLeads, InitLeads, UpdateLeads DEF Calls

-----------------------------------------------------------------------------
(* What the operations change. *)

\* Every operation takes the head of todo, and leaves the driver's variables alone.
LEMMA OperateFrame ==
  ASSUME Operate
  PROVE  /\ todo # <<>> /\ todo' = Tail(todo)
         /\ UNCHANGED <<config, plan, call, step, tracked, lives>>
<1>1. CASE BuildModelOptimizer
  BY <1>1 DEF BuildModelOptimizer, Doing, Done, Built
<1>2. CASE BuildCriticModelOptimizer
  BY <1>2 DEF BuildCriticModelOptimizer, Doing, Done, Built
<1>3. CASE BuildModel
  BY <1>3 DEF BuildModel, Doing, Done, Built
<1>4. CASE BuildEngine
  BY <1>4 DEF BuildEngine, Doing, Done
<1>5. CASE BuildShardingManager
  BY <1>5 DEF BuildShardingManager, Doing, Done
<1>6. CASE LoadFsdpParamAndGrad
  BY <1>6 DEF LoadFsdpParamAndGrad, Doing, Done
<1>7. CASE OffloadFsdpParamAndGrad
  BY <1>7 DEF OffloadFsdpParamAndGrad, Doing, Done
<1>8. CASE OffloadFsdpGrad
  BY <1>8 DEF OffloadFsdpGrad, Doing, Done
<1>9. CASE LoadFsdpOptimizer
  BY <1>9 DEF LoadFsdpOptimizer, Doing, Done
<1>10. CASE OffloadFsdpOptimizer
  BY <1>10 DEF OffloadFsdpOptimizer, Doing, Done
<1>11. CASE ZeroGrad
  BY <1>11 DEF ZeroGrad, Doing, Done
<1>12. CASE Forward
  BY <1>12 DEF Forward, Doing, Done
<1>13. CASE Backward
  BY <1>13 DEF Backward, Doing, Done
<1>14. CASE OptimizerStep
  BY <1>14 DEF OptimizerStep, Doing, Done
<1>15. CASE Reshard
  BY <1>15 DEF Reshard, Doing, Done
<1>16. CASE SwitchChatTemplate
  BY <1>16 DEF SwitchChatTemplate, Doing, Done
<1>17. CASE Enter
  BY <1>17 DEF Enter, Doing, Done
<1>18. CASE InitCacheEngine
  BY <1>18 DEF InitCacheEngine, Doing, Done
<1>19. CASE FreeCacheEngine
  BY <1>19 DEF FreeCacheEngine, Doing, Done
<1>20. CASE Generate
  BY <1>20 DEF Generate, Doing, Done
<1>21. CASE Decode
  BY <1>21 DEF Decode, Doing, Done
<1>22. CASE Exit
  BY <1>22 DEF Exit, Doing, Done
<1>23. CASE SaveState
  BY <1>23 DEF SaveState, Doing, Done
<1>24. CASE LoadState
  BY <1>24 DEF LoadState, Doing, Done
<1> QED BY <1>1, <1>2, <1>3, <1>4, <1>5, <1>6, <1>7, <1>8, <1>9, <1>10, <1>11, <1>12, <1>13,
           <1>14, <1>15, <1>16, <1>17, <1>18, <1>19, <1>20, <1>21, <1>22, <1>23, <1>24 DEF
           Operate

\* The other variables, by the name of the operation.
Changes(name) ==
  /\ \A r \in Roles \ {On} : module'[r] = module[r]
  /\ name \notin {"build", "build_critic", "build_model", "optimizer_step", "restore"} =>
       module'[On].weights = module[On].weights
  /\ name \notin {"load_optimizer", "offload_optimizer", "optimizer_step", "restore"} =>
       module'[On].state = module[On].state
  /\ name = "offload_optimizer" => module'[On].state # "gpu"
  /\ name \notin {"build_engine", "enter", "init_cache", "free_cache", "exit"} => UNCHANGED engine
  /\ name \notin {"forward", "sample"} => UNCHANGED batch
  /\ name \notin {"forward", "sample", "restore"} => UNCHANGED drawn
  /\ name \notin {"build_engine", "build_manager", "forward", "enter", "sample", "exit",
                  "restore"} => UNCHANGED rng
  /\ name # "save" => UNCHANGED saved

\* What each operation leaves alone, by its name.
LEMMA OperateChanges ==
  ASSUME module \in [Roles -> Module], On \in Roles, Operate
  PROVE  Changes(Head(todo).op)
<1>1. CASE BuildModelOptimizer
  BY <1>1 DEF BuildModelOptimizer, Doing, Changes, Module, Built
<1>2. CASE BuildCriticModelOptimizer
  BY <1>2 DEF BuildCriticModelOptimizer, Doing, Changes, Module, Built
<1>3. CASE BuildModel
  BY <1>3 DEF BuildModel, Doing, Changes, Module, Built
<1>4. CASE BuildEngine
  BY <1>4 DEF BuildEngine, Doing, Changes, Module
<1>5. CASE BuildShardingManager
  BY <1>5 DEF BuildShardingManager, Doing, Changes, Module
<1>6. CASE LoadFsdpParamAndGrad
  BY <1>6 DEF LoadFsdpParamAndGrad, Doing, Changes, Module, MoveParams
<1>7. CASE OffloadFsdpParamAndGrad
  BY <1>7 DEF OffloadFsdpParamAndGrad, Doing, Changes, Module, MoveParams
<1>8. CASE OffloadFsdpGrad
  BY <1>8 DEF OffloadFsdpGrad, Doing, Changes, Module
<1>9. CASE LoadFsdpOptimizer
  BY <1>9 DEF LoadFsdpOptimizer, Doing, Changes, Module, MoveOptimizer
<1>10. CASE OffloadFsdpOptimizer
  BY <1>10 DEF OffloadFsdpOptimizer, Doing, Changes, Module, MoveOptimizer
<1>11. CASE ZeroGrad
  BY <1>11 DEF ZeroGrad, Doing, Changes, Module
<1>12. CASE Forward
  BY <1>12 DEF Forward, Doing, Changes, Module
<1>13. CASE Backward
  BY <1>13 DEF Backward, Doing, Changes, Module
<1>14. CASE OptimizerStep
  BY <1>14 DEF OptimizerStep, Doing, Changes, Module
<1>15. CASE Reshard
  BY <1>15 DEF Reshard, Doing, Changes, Module
<1>16. CASE SwitchChatTemplate
  BY <1>16 DEF SwitchChatTemplate, Doing, Changes, Module
<1>17. CASE Enter
  BY <1>17 DEF Enter, Doing, Changes, Module
<1>18. CASE InitCacheEngine
  BY <1>18 DEF InitCacheEngine, Doing, Changes, Module
<1>19. CASE FreeCacheEngine
  BY <1>19 DEF FreeCacheEngine, Doing, Changes, Module
<1>20. CASE Generate
  BY <1>20 DEF Generate, Doing, Changes, Module
<1>21. CASE Decode
  BY <1>21 DEF Decode, Doing, Changes, Module
<1>22. CASE Exit
  BY <1>22 DEF Exit, Doing, Changes, Module
<1>23. CASE SaveState
  BY <1>23 DEF SaveState, Doing, Changes, Module
<1>24. CASE LoadState
  BY <1>24 DEF LoadState, Loaded, Doing, Changes, Module
<1> QED BY <1>1, <1>2, <1>3, <1>4, <1>5, <1>6, <1>7, <1>8, <1>9, <1>10, <1>11, <1>12, <1>13,
           <1>14, <1>15, <1>16, <1>17, <1>18, <1>19, <1>20, <1>21, <1>22, <1>23, <1>24 DEF
           Operate

\* The record of the module, by the name of the operation.
Renewed(r, name) ==
  LET m == module[r] IN
  [at |-> CASE name = "build" -> IF r = "actor" THEN "gpu" ELSE "fsdp"
            [] name = "build_model" -> "fsdp"
            [] name \in {"build_critic", "load_params"} -> "gpu"
            [] name = "offload_params" -> "cpu"
            [] OTHER -> m.at,
   full |-> CASE name = "forward" -> Used(r)
              [] name \in {"backward", "reshard"} -> None
              [] OTHER -> m.full,
   grad |-> CASE name = "load_params" -> MoveGrad(m, r, "gpu")
              [] name = "offload_params" -> MoveGrad(m, r, "cpu")
              [] name = "offload_grad" -> IF m.grad = "none" THEN m.grad ELSE "cpu"
              [] name = "zero_grad" -> "none"
              [] name = "backward" -> "gpu"
              [] OTHER -> m.grad,
   state |-> CASE name = "load_optimizer" -> IF m.state = "none" THEN m.state ELSE "gpu"
               [] name = "offload_optimizer" -> IF m.state = "none" THEN m.state ELSE "cpu"
               [] name = "optimizer_step" -> "gpu"
               [] name = "restore" -> IF tracked[r].state THEN m.at ELSE "none"
               [] OTHER -> m.state,
   weights |-> CASE name \in {"build", "build_critic", "build_model"} -> 0
                 [] name = "optimizer_step" -> m.weights + 1
                 [] name = "restore" -> tracked[r].weights
                 [] OTHER -> m.weights]

\* Every operation renews the record of the role it is about, and no other.
LEMMA ModuleRenewed ==
  ASSUME module \in [Roles -> Module], On \in Roles, Operate
  PROVE  module' = [module EXCEPT ![On] = Renewed(On, Head(todo).op)]
<1> DEFINE m == module[On]
           n == Renewed(On, Head(todo).op)
<1>1. m \in Module
  OBVIOUS
<1>2. SUFFICES /\ module' = [q \in Roles |-> module'[q]]
               /\ \A q \in Roles \ {On} : module'[q] = module[q]
               /\ module'[On] = n
  OBVIOUS
<1>3. CASE BuildModelOptimizer
  BY <1>1, <1>3 DEF BuildModelOptimizer, Doing, Renewed, Module, Built
<1>4. CASE BuildCriticModelOptimizer
  BY <1>1, <1>4 DEF BuildCriticModelOptimizer, Doing, Renewed, Module, Built
<1>5. CASE BuildModel
  BY <1>1, <1>5 DEF BuildModel, Doing, Renewed, Module, Built
<1>6. CASE BuildEngine
  BY <1>1, <1>6 DEF BuildEngine, Doing, Renewed, Module
<1>7. CASE BuildShardingManager
  BY <1>1, <1>7 DEF BuildShardingManager, Doing, Renewed, Module
<1>8. CASE LoadFsdpParamAndGrad
  BY <1>1, <1>8 DEF LoadFsdpParamAndGrad, Doing, Renewed, Module, MoveParams
<1>9. CASE OffloadFsdpParamAndGrad
  BY <1>1, <1>9 DEF OffloadFsdpParamAndGrad, Doing, Renewed, Module, MoveParams
<1>10. CASE OffloadFsdpGrad
  BY <1>1, <1>10 DEF OffloadFsdpGrad, Doing, Renewed, Module
<1>11. CASE LoadFsdpOptimizer
  BY <1>1, <1>11 DEF LoadFsdpOptimizer, Doing, Renewed, Module, MoveOptimizer
<1>12. CASE OffloadFsdpOptimizer
  BY <1>1, <1>12 DEF OffloadFsdpOptimizer, Doing, Renewed, Module, MoveOptimizer
<1>13. CASE ZeroGrad
  BY <1>1, <1>13 DEF ZeroGrad, Doing, Renewed, Module
<1>14. CASE Forward
  BY <1>1, <1>14 DEF Forward, Doing, Renewed, Module
<1>15. CASE Backward
  BY <1>1, <1>15 DEF Backward, Doing, Renewed, Module
<1>16. CASE OptimizerStep
  BY <1>1, <1>16 DEF OptimizerStep, Doing, Renewed, Module
<1>17. CASE Reshard
  BY <1>1, <1>17 DEF Reshard, Doing, Renewed, Module
<1>18. CASE SwitchChatTemplate
  BY <1>1, <1>18 DEF SwitchChatTemplate, Doing, Renewed, Module
<1>19. CASE Enter
  BY <1>1, <1>19 DEF Enter, Doing, Renewed, Module
<1>20. CASE InitCacheEngine
  BY <1>1, <1>20 DEF InitCacheEngine, Doing, Renewed, Module
<1>21. CASE FreeCacheEngine
  BY <1>1, <1>21 DEF FreeCacheEngine, Doing, Renewed, Module
<1>22. CASE Generate
  BY <1>1, <1>22 DEF Generate, Doing, Renewed, Module
<1>23. CASE Decode
  BY <1>1, <1>23 DEF Decode, Doing, Renewed, Module
<1>24. CASE Exit
  BY <1>1, <1>24 DEF Exit, Doing, Renewed, Module
<1>25. CASE SaveState
  BY <1>1, <1>25 DEF SaveState, Doing, Renewed, Module
<1>26. CASE LoadState
  BY <1>1, <1>26 DEF LoadState, Loaded, Doing, Renewed, Module
<1> QED BY <1>3, <1>4, <1>5, <1>6, <1>7, <1>8, <1>9, <1>10, <1>11, <1>12, <1>13, <1>14, <1>15,
           <1>16, <1>17, <1>18, <1>19, <1>20, <1>21, <1>22, <1>23, <1>24, <1>25, <1>26 DEF
           Operate

\* What is known of the module of a role stays true of it.
LEMMA ModuleFollows ==
  ASSUME TypesInv, Operate, On \in Roles, NEW s \in Knowledge, OfModule(s, On),
         NEW c, MayDo(config, c, s, Head(todo).op),
         Head(todo).op = "restore" => tracked # None /\ tracked[On] # None /\ On \in Trained,
         NEW e, e = Effect(c, s, Head(todo).op, On), NEW r, r = On
  PROVE  OfModule(e, r)' /\ module' \in [Roles -> Module]
<1> DEFINE name == Head(todo).op
           m == module[On]
           n == Renewed(On, name)
<1>1. module \in [Roles -> Module] /\ m \in Module
  BY DEF TypesInv
<1>2. module' = [module EXCEPT ![On] = n]
  BY <1>1, ModuleRenewed
<1>3. module'[r] = n
  BY <1>1, <1>2
<1>4. m.at # "none" => m.weights \in Nat
  BY <1>1 DEF TypesInv, Module, Version
<1>5. /\ name \in {"optimizer_step", "restore"} => m.at = "gpu"
      /\ name = "restore" => tracked[On] \in Recorded
  BY DEF TypesInv, MayDo, OfModule
<1>6. n \in Module
  <2> HIDE DEF name
  <2>1. /\ n.at \in Places \cup {"fsdp"} /\ n.grad \in Places /\ n.state \in Places
    BY <1>1, <1>5 DEF Renewed, Module, Places, MoveGrad
  <2>2. n.full \in Version
    BY <1>1 DEF Renewed, Module, Version, Used
  <2>3. n.weights \in Version
    BY <1>1, <1>4, <1>5 DEF Renewed, Module, Version, Recorded, SavedState
  <2>4. n = [at |-> n.at, full |-> n.full, grad |-> n.grad, state |-> n.state, weights |-> n.weights]
    BY DEF Renewed
  <2> HIDE DEF n
  <2> QED BY <2>1, <2>2, <2>3, <2>4 DEF Module
<1>7. module' \in [Roles -> Module]
  BY <1>1, <1>2, <1>6
<1> HIDE DEF name
<1>8. e.at = n.at /\ (e.grad = "any" \/ e.grad = n.grad)
  BY DEF Renewed, Effect, OfModule, name
<1>9. /\ e.state = "none" => n.state = "none"
      /\ e.state = "device" => n.state # "cpu"
      /\ e.state = "host" => n.state # "gpu"
  BY DEF Renewed, Effect, OfModule, MayDo, name
<1>10. ~e.full => n.full = None
  BY DEF Renewed, Effect, OfModule, name
<1> QED BY <1>3, <1>7, <1>8, <1>9, <1>10 DEF OfModule

\* The operation that runs is the one of that name.
LEMMA OperationByName ==
  ASSUME Operate
  PROVE  LET name == Head(todo).op IN
         /\ (name = "build_engine" => BuildEngine) /\ (name = "build_manager" => BuildShardingManager)
         /\ (name = "forward" => Forward) /\ (name = "enter" => Enter) /\ (name = "exit" => Exit)
         /\ (name = "init_cache" => InitCacheEngine) /\ (name = "free_cache" => FreeCacheEngine)
         /\ (name = "sample" => Generate) /\ (name = "save" => SaveState)
         /\ (name = "restore" => LoadState)
BY DEF Operate, BuildModelOptimizer, BuildCriticModelOptimizer, BuildModel, BuildEngine,
    BuildShardingManager, LoadFsdpParamAndGrad, OffloadFsdpParamAndGrad, OffloadFsdpGrad,
    LoadFsdpOptimizer, OffloadFsdpOptimizer, ZeroGrad, Forward, Backward, OptimizerStep, Reshard,
    SwitchChatTemplate, Enter, InitCacheEngine, FreeCacheEngine, Generate, Decode, Exit, SaveState,
    LoadState, Doing

\* An operation of the call that runs, found allowed by what is known.
Acts(s) ==
  /\ Describes(s) /\ call \in Calls /\ On = RoleOf(call) /\ On \in Roles
  /\ MayDo(config, call, s, Head(todo).op)

\* The engine, and whose weights it serves.
LEMMA EngineFollows ==
  ASSUME TypesInv, Operate, NEW s \in Knowledge, Acts(s),
         NEW e, e = Effect(call, s, Head(todo).op, On)
  PROVE  /\ OfEngine(e)' /\ engine' \in [weights : Version, cache : BOOLEAN]
         /\ engine'.weights \in {None, module'["actor"].weights}
<1> DEFINE name == Head(todo).op
<1>1. /\ Changes(name) /\ On \in Roles /\ module \in [Roles -> Module]
      /\ engine \in [weights : Version, cache : BOOLEAN]
      /\ engine.weights \in {None, module["actor"].weights}
  BY OperateChanges DEF TypesInv, Acts
<1>2. CASE name \notin {"build_engine", "enter", "init_cache", "free_cache", "exit"}
  <2> HIDE DEF name
  <2>1. engine' = engine
    BY <1>1, <1>2 DEF Changes
  <2>2. e.serves = s.serves /\ e.cache = s.cache
    BY <1>2 DEF Effect, name
  <2>3. engine.weights = None \/ module'["actor"].weights = module["actor"].weights
    <3>1. CASE name \in {"build", "build_critic", "build_model", "optimizer_step", "restore"}
      BY <3>1 DEF Acts, Describes, OfEngine, MayDo, name
    <3>2. CASE name \notin {"build", "build_critic", "build_model", "optimizer_step", "restore"}
      BY <1>1, <3>2 DEF Changes, Roles, Trained
    <3> QED BY <3>1, <3>2
  <2> QED BY <1>1, <2>1, <2>2, <2>3 DEF OfEngine, Acts, Describes
<1>3. CASE BuildEngine
  BY <1>1, <1>3 DEF BuildEngine, Doing, OfEngine, Acts, Describes, Effect, Version, MayDo
<1>4. CASE InitCacheEngine
  BY <1>1, <1>4 DEF InitCacheEngine, Doing, OfEngine, Acts, Describes, Effect, Version, Changes,
     Roles, Trained
<1>5. CASE FreeCacheEngine
  BY <1>1, <1>5 DEF FreeCacheEngine, Doing, OfEngine, Acts, Describes, Effect, Version, Changes,
     Roles, Trained
<1>6. CASE Exit
  BY <1>1, <1>6 DEF Exit, Doing, OfEngine, Acts, Describes, Effect, Version, Changes, Roles,
     Trained
<1>7. CASE Enter
  <2>1. module["actor"].weights \in Nat /\ module["actor"].weights # None
    <3>1. On = "actor" /\ module["actor"].at = "gpu"
      BY <1>7 DEF Enter, Doing, Acts, MayDo, Describes, OfModule, Rollouts, RoleOf
    <3> QED BY <3>1, NoneIsNoVersion DEF TypesInv, Module, Version, Roles, Trained
  <2> QED BY <1>1, <1>7, <2>1 DEF Enter, Doing, OfEngine, Acts, Describes, Effect, Version,
             Changes, Roles, Trained
<1> QED BY <1>2, <1>3, <1>4, <1>5, <1>6, <1>7, OperationByName

\* The batch: who sampled it, and whose log-probabilities it holds.
LEMMA BatchFollows ==
  ASSUME TypesInv, Operate, NEW s \in Knowledge, Acts(s),
         NEW e, e = Effect(call, s, Head(todo).op, On)
  PROVE  /\ (e.batch = Phase)' /\ batch' \in [sampled : Version, scored : Version]
         /\ batch'.scored \in {None, batch'.sampled}
         /\ (Phase = "sampled" => batch.sampled = module["actor"].weights)'
<1> DEFINE name == Head(todo).op
<1>1. /\ Changes(name) /\ On \in Roles /\ module \in [Roles -> Module] /\ "actor" \in Roles
      /\ batch \in [sampled : Version, scored : Version]
      /\ batch.scored \in {None, batch.sampled}
      /\ Phase = "sampled" => batch.sampled = module["actor"].weights
      /\ s.batch = Phase
  BY OperateChanges DEF TypesInv, Acts, Describes, Roles, Trained
<1>2. \/ module'["actor"].weights = module["actor"].weights \/ Phase # "sampled"
  <2>1. CASE name \in {"build", "build_critic", "build_model"}
    <3>1. On = "actor" => module["actor"].weights = None
      BY <1>1, <2>1 DEF Acts, MayDo, Describes, OfModule, TypesInv
    <3>2. On = "actor" => Phase # "sampled"
      BY <1>1, <3>1 DEF Phase
    <3> QED BY <1>1, <3>2 DEF Changes
  <2>2. CASE name = "optimizer_step"
    <3>1. On = "actor" => call = "update_actor"
      BY <2>2 DEF Acts, MayDo, Updates, RoleOf
    <3>2. On = "actor" => Phase # "sampled"
      BY <1>1, <2>2, <3>1 DEF Acts, MayDo
    <3> QED BY <1>1, <3>2 DEF Changes
  <2>3. CASE name = "restore"
    BY <1>1, <2>3 DEF Acts, MayDo
  <2>4. CASE name \notin {"build", "build_critic", "build_model", "optimizer_step", "restore"}
    BY <1>1, <2>4 DEF Changes
  <2> QED BY <2>1, <2>2, <2>3, <2>4
<1>3. CASE name \notin {"forward", "sample"}
  <2> HIDE DEF name
  <2>1. batch' = batch /\ e.batch = s.batch
    BY <1>1, <1>3 DEF Changes, Effect, name
  <2> QED BY <1>1, <1>2, <2>1 DEF Phase
<1>4. CASE Forward
  <2>1. module'["actor"].weights = module["actor"].weights
    BY <1>1, <1>4 DEF Forward, Doing, Changes
  <2>2. CASE call # "old_log_prob"
    <3>1. batch' = batch /\ e.batch = s.batch
      BY <1>4, <2>2 DEF Forward, Doing, Effect
    <3> QED BY <1>1, <2>1, <3>1 DEF Phase
  <2>3. CASE call = "old_log_prob"
    <3>1. On = "actor" /\ s.batch = "sampled" /\ ~s.full
      BY <1>4, <2>3 DEF Forward, Doing, Acts, MayDo, RoleOf
    <3>2. Used("actor") = batch.sampled /\ batch.sampled # None
      BY <1>1, <3>1 DEF Acts, Describes, OfModule, Used, Phase
    <3>3. batch' = [batch EXCEPT !.scored = Used("actor")] /\ e.batch = "scored"
      BY <1>4, <2>3 DEF Forward, Doing, Effect
    <3> QED BY <1>1, <3>2, <3>3 DEF Phase
  <2> QED BY <2>2, <2>3
<1>5. CASE Generate
  <2>1. module'["actor"].weights = module["actor"].weights
    BY <1>1, <1>5 DEF Generate, Doing, Changes
  <2>2. engine.weights # None /\ engine.weights = module["actor"].weights /\ engine.weights \in Version
    BY <1>5 DEF Generate, Doing, Acts, MayDo, Describes, OfEngine, TypesInv
  <2>3. batch' = [sampled |-> engine.weights, scored |-> None] /\ e.batch = "sampled"
    BY <1>5 DEF Generate, Doing, Effect
  <2> QED BY <1>1, <2>1, <2>2, <2>3 DEF Phase, Version
<1> QED BY <1>3, <1>4, <1>5, OperationByName

\* The generators: in every step either stream goes on from where it stopped.
LEMMA StreamsFollow ==
  ASSUME TypesInv, Operate, NEW s \in Knowledge, Acts(s),
         Head(todo).op = "restore" => tracked # None /\ tracked[On] # None /\ On \in Trained
  PROVE  /\ rng' \in [cuda : Streams, train : Streams, gen : Streams]
         /\ drawn' \in Drawn
         /\ Apart /\ Head(todo).op \notin {"build_engine", "build_manager"} => Apart'
<1> DEFINE name == Head(todo).op
<1>1. /\ Changes(name) /\ On \in Roles /\ module \in [Roles -> Module] /\ "actor" \in Roles
      /\ rng \in [cuda : Streams, train : Streams, gen : Streams]
      /\ drawn \in [train : [Ranks -> Nat], gen : [Groups -> Nat], earlier : [Groups -> Nat]]
  BY OperateChanges DEF TypesInv, Drawn, Acts, Roles, Trained
<1> USE DEF Drawn
<1>2. \A r \in Ranks : DpRank(r) \in Groups /\ DpRank(r) \in Nat
  BY MeshDivides DEF Groups, Ranks, DpRank
<1>3. CASE name \notin {"build_engine", "build_manager", "forward", "enter", "sample", "exit", "restore"}
  <2> HIDE DEF name
  <2>1. rng' = rng /\ drawn' = drawn
    BY <1>1, <1>3 DEF Changes
  <2>2. Generating' <=> Generating
    <3>1. CASE name \in {"init_cache", "free_cache"}
      BY <1>1, <3>1, OperationByName DEF name, InitCacheEngine, FreeCacheEngine, Generating,
         TypesInv
    <3>2. CASE name \notin {"init_cache", "free_cache"}
      BY <1>1, <1>3, <3>2 DEF Changes, Generating
    <3> QED BY <3>1, <3>2
  <2> QED BY <1>1, <2>1, <2>2 DEF Apart
<1>4. CASE BuildEngine
  <2>1. rng' = [rng EXCEPT !.cuda = Fresh(0)] /\ drawn' = drawn /\ Fresh(0) \in Streams
    BY <1>4 DEF BuildEngine, Fresh, Streams
  <2> QED BY <1>1, <1>4, <2>1 DEF BuildEngine, Doing
<1>5. CASE BuildShardingManager
  <2>1. /\ rng' = [cuda |-> rng.cuda, train |-> rng.cuda,
                   gen |-> [r \in Ranks |-> <<1000 + DpRank(r), 0>>]]
        /\ drawn' = drawn
    BY <1>5 DEF BuildShardingManager
  <2>2. [r \in Ranks |-> <<1000 + DpRank(r), 0>>] \in Streams
    BY <1>2 DEF Streams
  <2> QED BY <1>1, <1>5, <2>1, <2>2 DEF BuildShardingManager, Doing
<1>6. CASE Forward
  <2>1. PICK d \in [Ranks -> 0..(IF Training THEN 1 ELSE 0)] :
          /\ drawn' = [drawn EXCEPT !.train = [r \in Ranks |-> drawn.train[r] + d[r]]]
          /\ rng' = [rng EXCEPT !.cuda = [r \in Ranks |-> <<rng.cuda[r][1], rng.cuda[r][2] + d[r]>>]]
    BY <1>6 DEF Forward
  <2>2. \A r \in Ranks : d[r] \in Nat
    BY <2>1
  <2>3. ~Generating /\ engine' = engine
    BY <1>6 DEF Forward, Doing, Acts, MayDo, Describes, OfEngine, Generating
  <2>4. /\ drawn'.gen = drawn.gen /\ \A r \in Ranks : drawn'.train[r] = drawn.train[r] + d[r]
        /\ rng'.gen = rng.gen /\ \A r \in Ranks : rng'.cuda[r] = <<rng.cuda[r][1], rng.cuda[r][2] + d[r]>>
    BY <1>1, <2>1
  <2>5. \A r \in Ranks : drawn.train[r] \in Nat /\ rng.cuda[r] \in Nat \X Nat
    BY <1>1 DEF Streams
  <2>6. /\ [r \in Ranks |-> drawn.train[r] + d[r]] \in [Ranks -> Nat]
        /\ [r \in Ranks |-> <<rng.cuda[r][1], rng.cuda[r][2] + d[r]>>] \in Streams
    BY <2>2, <2>5 DEF Streams
  <2>7. Apart => Apart'
    BY <2>3, <2>4 DEF Apart, Generating
  <2> QED BY <1>1, <2>1, <2>6, <2>7
<1>7. CASE Enter
  <2>1. module["actor"].weights \in Nat /\ module["actor"].weights # None
    <3>1. On = "actor" /\ module["actor"].at = "gpu"
      BY <1>7 DEF Enter, Doing, Acts, MayDo, Describes, OfModule, Rollouts, RoleOf
    <3> QED BY <1>1, <3>1, NoneIsNoVersion DEF TypesInv, Module, Version
  <2>2. ~Generating /\ Generating'
    BY <1>7, <2>1 DEF Enter, Doing, Acts, MayDo, Describes, OfEngine, Generating, TypesInv
  <2>3. /\ rng' = [rng EXCEPT !.train = rng.cuda, !.cuda = rng.gen] /\ drawn' = drawn
    BY <1>7 DEF Enter
  <2>4. rng' = [cuda |-> rng.gen, train |-> rng.cuda, gen |-> rng.gen]
    BY <1>1, <2>3
  <2>5. Apart => Apart'
    BY <2>2, <2>3, <2>4 DEF Apart
  <2> QED BY <1>1, <2>3, <2>4, <2>5
<1>8. CASE Exit
  <2>1. Generating /\ ~Generating'
    BY <1>8 DEF Exit, Doing, Acts, MayDo, Describes, OfEngine, Generating, TypesInv
  <2>2. /\ rng' = [rng EXCEPT !.gen = rng.cuda, !.cuda = rng.train] /\ drawn' = drawn
    BY <1>8 DEF Exit
  <2>3. rng' = [cuda |-> rng.train, train |-> rng.train, gen |-> rng.cuda]
    BY <1>1, <2>2
  <2>4. Apart => Apart'
    BY <2>1, <2>2, <2>3 DEF Apart
  <2> QED BY <1>1, <2>2, <2>3, <2>4
<1>9. CASE Generate
  <2>1. PICK d \in [Groups -> 0..1] :
          /\ drawn' = [drawn EXCEPT !.gen = [g \in Groups |-> drawn.gen[g] + d[g]]]
          /\ rng' = [rng EXCEPT !.cuda = [r \in Ranks |-> <<rng.cuda[r][1], rng.cuda[r][2] + d[DpRank(r)]>>]]
    BY <1>9 DEF Generate
  <2>2. \A g \in Groups : d[g] \in Nat
    BY <2>1
  <2>3. Generating /\ engine' = engine
    BY <1>9 DEF Generate, Doing, Acts, MayDo, Describes, OfEngine, Generating
  <2>4. /\ drawn'.train = drawn.train /\ \A g \in Groups : drawn'.gen[g] = drawn.gen[g] + d[g]
        /\ rng'.train = rng.train
        /\ \A r \in Ranks : rng'.cuda[r] = <<rng.cuda[r][1], rng.cuda[r][2] + d[DpRank(r)]>>
    BY <1>1, <2>1
  <2>5. (\A g \in Groups : drawn.gen[g] \in Nat) /\ \A r \in Ranks : rng.cuda[r] \in Nat \X Nat
    BY <1>1 DEF Streams
  <2>6. /\ [g \in Groups |-> drawn.gen[g] + d[g]] \in [Groups -> Nat]
        /\ [r \in Ranks |-> <<rng.cuda[r][1], rng.cuda[r][2] + d[DpRank(r)]>>] \in Streams
    BY <1>2, <2>2, <2>5 DEF Streams
  <2>7. Apart => Apart'
    BY <1>2, <2>3, <2>4 DEF Apart, Generating
  <2> QED BY <1>1, <2>1, <2>6, <2>7
<1>10. CASE LoadState
  <2> DEFINE c == tracked[On]
  <2>1. /\ c.cuda \in Streams /\ c.drawn \in [Ranks -> Nat]
        /\ \A r \in Ranks : c.cuda[r] = <<0, c.drawn[r]>>
    BY <1>10 DEF LoadState, Doing, TypesInv, Recorded, SavedState, Streams
  <2>2. /\ rng' = [rng EXCEPT !.cuda = c.cuda]
        /\ drawn' = [drawn EXCEPT !.train = c.drawn]
        /\ engine' = engine
    BY <1>10 DEF LoadState
  <2>3. ~Generating
    BY <1>10 DEF LoadState, Doing, Acts, MayDo, Describes, OfEngine, Generating
  <2> HIDE DEF c
  <2>4. Apart => Apart'
    BY <1>1, <2>1, <2>2, <2>3 DEF Apart, Generating
  <2> QED BY <1>1, <2>1, <2>2, <2>4
<1> QED BY <1>3, <1>4, <1>5, <1>6, <1>7, <1>8, <1>9, <1>10, OperationByName

-----------------------------------------------------------------------------
(* The operations keep the invariant. *)

\* The stages of the calls.
LEMMA Stages ==
  /\ Stage("init_critic") = 1 /\ Stage("init_ref") = 2 /\ Stage("init_rm") = 3
  /\ Stage("init_actor") = 4 /\ Stage("load_actor") = 5 /\ Stage("load_critic") = 6
  /\ Stage("generate") = 7 /\ Stage("old_log_prob") = 8 /\ Stage("ref") = 9
  /\ Stage("values") = 10 /\ Stage("rm") = 11 /\ Stage("update_critic") = 12
  /\ Stage("update_actor") = 13 /\ Stage("validate") = 14 /\ Stage("save_actor") = 15
  /\ Stage("save_critic") = 16 /\ Stage("track") = 17
BY DEF Stage

\* The roles of the calls.
LEMMA RolesOf ==
  /\ RoleOf("init_critic") = "critic" /\ RoleOf("load_critic") = "critic"
  /\ RoleOf("values") = "critic" /\ RoleOf("update_critic") = "critic"
  /\ RoleOf("save_critic") = "critic" /\ RoleOf("init_ref") = "ref" /\ RoleOf("ref") = "ref"
  /\ RoleOf("init_rm") = "rm" /\ RoleOf("rm") = "rm" /\ RoleOf("init_actor") = "actor"
  /\ RoleOf("load_actor") = "actor" /\ RoleOf("generate") = "actor"
  /\ RoleOf("validate") = "actor" /\ RoleOf("old_log_prob") = "actor"
  /\ RoleOf("update_actor") = "actor" /\ RoleOf("save_actor") = "actor"
  /\ RoleOf("none") = "actor"
BY DEF RoleOf

\* A call is about a role, and comes no earlier than the call that builds the role.
LEMMA BuildsFirst ==
  ASSUME NEW c \in Calls
  PROVE  /\ RoleOf(c) \in Roles /\ Stage(c) \in Nat
         /\ Stage(InitOf(RoleOf(c))) \in Nat /\ Stage(InitOf(RoleOf(c))) <= Stage(c)
<1>1. RoleOf(c) \in {"critic", "ref", "rm", "actor"}
  BY DEF RoleOf
<1>2. Roles = {"critic", "ref", "rm", "actor"}
  BY DEF Roles, Trained, Frozen
<1>3. InitOf(RoleOf(c)) \in Inits
  BY <1>1 DEF InitOf, Inits
<1>4. \A d \in Inits : Stage(d) \in 1..4
  BY Stages DEF Inits
<1>5. CASE c \in Inits
  <2>1. InitOf(RoleOf(c)) = c
    BY <1>5 DEF Inits, InitOf, RoleOf
  <2> QED BY <1>1, <1>2, <1>4, <1>5, <2>1
<1>6. CASE c \notin Inits
  <2>1. Stage(c) \in 5..16
    <3>1. CASE c \in Loads \cup Rollouts
      BY <3>1, Stages DEF Loads, Rollouts
    <3>2. CASE c \in Scores
      BY <3>2, Stages DEF Scores
    <3>3. CASE c \in Updates \cup Saves
      BY <3>3, Stages DEF Updates, Saves
    <3> QED BY <1>6, <3>1, <3>2, <3>3 DEF Calls
  <2> QED BY <1>1, <1>2, <1>3, <1>4, <2>1
<1> QED BY <1>5, <1>6

\* A call that runs knows what its next operation needs.
LEMMA Underway ==
  ASSUME TypesInv, OutlineInv, OrderInv, todo # <<>>
  PROVE  \E s \in Knowledge :
           /\ Acts(s)
           /\ \E t \in After(config, call) :
                Run(config, call, Effect(call, s, Head(todo).op, On), Tail(todo), t)
<1>1. todo \in Seq(Ops) /\ call \in Calls
  BY DEF TypesInv, OrderInv
<1>2. PICK s \in Knowledge, t \in After(config, call) : Describes(s) /\ Run(config, call, s, todo, t)
  BY <1>1 DEF OutlineInv, OrderInv
<1>3. /\ Allowed(config, call, s, Head(todo))
      /\ Run(config, call, Effect(call, s, Head(todo).op, Head(todo).on), Tail(todo), t)
  BY <1>1, <1>2, RunGoesOn
<1>4. Head(todo) \in Ops
  BY <1>1, HeadTailProperties
<1>5. Acts(s)
  BY <1>1, <1>2, <1>3, <1>4 DEF Acts, Allowed, Ops, On
<1> QED BY <1>2, <1>3, <1>5 DEF On

\* A checkpoint is read where there is one.
LEMMA RestoreFinds ==
  ASSUME TypesInv, OrderInv, PlanInv, todo # <<>>, NEW s, Acts(s)
  PROVE  Head(todo).op = "restore" => tracked # None /\ tracked[On] # None /\ On \in Trained
<1>1. SUFFICES ASSUME Head(todo).op = "restore"
               PROVE  tracked # None /\ tracked[On] # None /\ On \in Trained
  OBVIOUS
<1>2. call \in Loads /\ On = RoleOf(call)
  BY <1>1 DEF Acts, MayDo
<1>3. tracked # None
  BY <1>2 DEF PlanInv, Coming
<1>4. On \in Trained
  BY <1>2, RolesOf DEF Loads, Trained
<1>5. On \in config.roles
  BY <1>2 DEF OrderInv, Calls
<1> QED BY <1>3, <1>4, <1>5 DEF TypesInv

\* What a checkpoint records of the generator is the stream of training.
LEMMA SaveFinds ==
  ASSUME TypesInv, OrderInv, RestInv, StreamsApart, todo # <<>>, NEW s, Acts(s),
         Head(todo).op = "save"
  PROVE  Apart /\ ~Generating
<1>1. call \in Saves /\ s.at = "gpu" /\ ~s.serves /\ Stage(call) \in Nat /\ Stage(call) > 4
  BY Stages DEF Acts, MayDo, Saves
<1>2. "init_actor" \notin Planned
  BY <1>1, Stages DEF OrderInv
<1>3. config \in Configs /\ "actor" \in config.roles /\ "actor" \in Roles
  BY ConfigFields DEF TypesInv, Roles, Trained
<1>4. module["actor"].weights # None
  <2>1. CASE On = "actor"
    <3>1. module["actor"].at # "none"
      BY <1>1, <2>1 DEF Acts, Describes, OfModule
    <3> QED BY <1>3, <3>1 DEF TypesInv
  <2>2. CASE On # "actor"
    <3>1. Rests("actor")
      BY <1>2, <1>3, <2>2 DEF RestInv, InitOf, Acts
    <3>2. module["actor"].at # "none"
      BY <3>1 DEF Rests, Home
    <3> QED BY <1>3, <3>2 DEF TypesInv
  <2> QED BY <2>1, <2>2
<1> QED BY <1>1, <1>4 DEF StreamsApart, Apart, Acts, Describes, OfEngine, Generating, Saves

\* What a role writes is its weights, and a checkpoint.
LEMMA SaveWrites ==
  ASSUME TypesInv, OrderInv, RestInv, StreamsApart, Operate, NEW s \in Knowledge, Acts(s),
         Head(todo).op = "save"
  PROVE  \E new \in Recorded :
           /\ On \in Trained /\ new.weights = module[On].weights
           /\ saved' = [saved EXCEPT ![On] = new]
<1> DEFINE new == [weights |-> module[On].weights, state |-> module[On].state # "none",
                   cuda |-> rng.cuda, drawn |-> drawn.train, step |-> 0]
<1>1. todo # <<>>
  BY OperateFrame
<1>2. SaveState /\ call \in Saves /\ On = RoleOf(call) /\ module[On].at = "gpu"
  BY OperationByName DEF Acts, MayDo, Describes, OfModule
<1>3. On \in Trained /\ module[On].weights \in Nat
  BY <1>2, RolesOf DEF TypesInv, Acts, Module, Version, Saves, Trained
<1>4. Apart /\ ~Generating
  BY <1>1, SaveFinds
<1>5. /\ rng.cuda \in [Ranks -> Nat \X Nat] /\ drawn.train \in [Ranks -> Nat]
      /\ \A r \in Ranks : rng.cuda[r] = <<0, drawn.train[r]>>
  BY <1>4 DEF Apart, TypesInv, Streams, Drawn
<1>6. new \in Recorded
  BY <1>3, <1>5 DEF Recorded, SavedState
<1> QED BY <1>2, <1>3, <1>6 DEF SaveState

\* What is known follows the operation.
LEMMA OperateDescribes ==
  ASSUME TypesInv, OrderInv, PlanInv, Operate, NEW s \in Knowledge, Acts(s),
         NEW e, e = Effect(call, s, Head(todo).op, On)
  PROVE  Describes(e)'
<1>1. todo # <<>> /\ call' = call
  BY OperateFrame
<1>2. Head(todo).op = "restore" => tracked # None /\ tracked[On] # None /\ On \in Trained
  BY <1>1, RestoreFinds
<1>3. e \in Knowledge
  BY EffectIsKnowledge
<1>4. ASSUME NEW r, r = On PROVE OfModule(e, r)'
  BY <1>2, <1>4, ModuleFollows DEF Acts, Describes
<1>5. OfModule(e, RoleOf(call))'
  <2>1. OfModule(e, RoleOf(call')) <=> OfModule(e, RoleOf(call))
    BY <1>1
  <2> QED BY <1>1, <1>4 DEF Acts, OfModule
<1>6. OfEngine(e)' /\ (e.batch = Phase)'
  BY EngineFollows, BatchFollows
<1>7. e.apart => Apart'
  <2>1. CASE Head(todo).op = "build_manager"
    <3>1. BuildShardingManager /\ call = "init_actor" /\ ~s.serves
      BY <2>1, OperationByName DEF Acts, MayDo
    <3>2. drawn = Undrawn(drawn.earlier) /\ rng.cuda = Fresh(0)
      BY <1>1, <3>1 DEF PlanInv, Coming
    <3>3. ~Generating' /\ drawn' = Undrawn(drawn'.earlier)
      BY <3>1, <3>2 DEF BuildShardingManager, Acts, Describes, OfEngine, Generating
    <3>4. rng' = [cuda |-> Fresh(0), train |-> Fresh(0),
                  gen |-> [r \in Ranks |-> <<1000 + DpRank(r), 0>>]]
      BY <3>1, <3>2 DEF BuildShardingManager
    <3>5. \A r \in Ranks : DpRank(r) \in Groups
      BY DEF Groups
    <3> QED BY <3>3, <3>4, <3>5 DEF Apart, Fresh, Undrawn
  <2>2. CASE Head(todo).op = "build_engine"
    BY <2>2 DEF Effect
  <2>3. CASE Head(todo).op \notin {"build_manager", "build_engine"}
    <3>1. e.apart = s.apart
      BY <2>3 DEF Effect
    <3> QED BY <1>2, <2>3, <3>1, StreamsFollow DEF Acts, Describes
  <2> QED BY <2>1, <2>2, <2>3
<1> QED BY <1>3, <1>5, <1>6, <1>7 DEF Describes

\* A call that has begun well goes on to what it has to leave.
LEMMA OperateOutline ==
  ASSUME TypesInv, OutlineInv, OrderInv, PlanInv, Operate
  PROVE  OutlineInv'
<1>1. /\ todo # <<>> /\ todo' = Tail(todo) /\ call' = call /\ config' = config
  BY OperateFrame
<1>2. PICK s \in Knowledge, t \in After(config, call) :
        Acts(s) /\ Run(config, call, Effect(call, s, Head(todo).op, On), Tail(todo), t)
  BY <1>1, Underway
<1>3. PICK e : e = Effect(call, s, Head(todo).op, On)
  OBVIOUS
<1>4. e \in Knowledge /\ Describes(e)'
  BY <1>2, <1>3, EffectIsKnowledge, OperateDescribes
<1> QED BY <1>1, <1>2, <1>3, <1>4 DEF OutlineInv

\* The operations keep the types.
LEMMA OperateTypes ==
  ASSUME TypesInv, OutlineInv, OrderInv, PlanInv, RestInv, StreamsApart, Operate
  PROVE  TypesInv'
<1>1. /\ todo # <<>> /\ todo' = Tail(todo)
      /\ UNCHANGED <<config, plan, call, step, tracked, lives>>
  BY OperateFrame
<1>2. PICK s \in Knowledge : Acts(s)
  BY <1>1, Underway
<1>3. PICK e : e = Effect(call, s, Head(todo).op, On)
  OBVIOUS
<1>4. Head(todo).op = "restore" => tracked # None /\ tracked[On] # None /\ On \in Trained
  BY <1>1, <1>2, RestoreFinds
<1>5. module' \in [Roles -> Module] /\ module \in [Roles -> Module]
  BY <1>2, <1>3, <1>4, ModuleFollows DEF Acts, Describes, TypesInv
<1>6. \A r \in Roles : module'[r].at = "none" <=> module'[r].weights = None
  <2> DEFINE n == Renewed(On, Head(todo).op)
             name == Head(todo).op
  <2>1. On \in Roles /\ module' = [module EXCEPT ![On] = n]
    BY <1>2, <1>5, ModuleRenewed DEF Acts
  <2>2. n.at = "none" <=> n.weights = None
    <3>1. module[On].at = "none" <=> module[On].weights = None
      BY <2>1 DEF TypesInv
    <3>2. name \in {"load_params", "offload_params", "optimizer_step", "restore"} =>
            module[On].at # "none"
      BY <1>2 DEF Acts, MayDo, Describes, OfModule
    <3>3. name = "restore" => tracked[On].weights \in Nat
      BY <1>4 DEF TypesInv, Recorded, SavedState
    <3>4. name = "optimizer_step" => module[On].weights + 1 \in Nat
      BY <1>5, <2>1, <3>1, <3>2 DEF Module, Version
    <3> QED BY <3>1, <3>2, <3>3, <3>4, NoneIsNoVersion DEF Renewed
  <2> QED BY <1>5, <2>1, <2>2 DEF TypesInv
<1>7. todo' \in Seq(Ops)
  BY <1>1, HeadTailProperties DEF TypesInv
<1>8. saved' \in [Trained -> Recorded \cup {None}]
  <2>1. CASE Head(todo).op # "save"
    BY <1>2, <1>5, <2>1, OperateChanges DEF Changes, Acts, TypesInv
  <2>2. CASE Head(todo).op = "save"
    <3>1. PICK new \in Recorded : On \in Trained /\ saved' = [saved EXCEPT ![On] = new]
      BY <1>2, <2>2, SaveWrites
    <3> QED BY <3>1 DEF TypesInv
  <2> QED BY <2>1, <2>2
<1>9. /\ engine' \in [weights : Version, cache : BOOLEAN]
      /\ engine'.weights \in {None, module'["actor"].weights}
  BY <1>2, <1>3, EngineFollows
<1>10. /\ batch' \in [sampled : Version, scored : Version]
       /\ batch'.scored \in {None, batch'.sampled}
       /\ (Phase = "sampled" => batch.sampled = module["actor"].weights)'
  BY <1>2, <1>3, BatchFollows
<1>11. /\ rng' \in [cuda : Streams, train : Streams, gen : Streams]
       /\ drawn' \in Drawn
  BY <1>2, <1>4, StreamsFollow
<1> QED BY <1>1, <1>5, <1>6, <1>7, <1>8, <1>9, <1>10, <1>11 DEF TypesInv

\* The operations do not touch the plan.
LEMMA OperateOrder ==
  ASSUME TypesInv, OrderInv, Operate
  PROVE  OrderInv'
<1>1. /\ todo # <<>> /\ todo' = Tail(todo)
      /\ UNCHANGED <<config, plan, call, step, tracked, lives>>
  BY OperateFrame
<1>2. Planned' = Planned /\ Coming' \subseteq Coming
  BY <1>1 DEF Planned, Coming
<1> QED BY <1>1, <1>2 DEF OrderInv

\* What the planned calls count on is not undone by the call that runs.
LEMMA OperatePlan ==
  ASSUME TypesInv, OutlineInv, OrderInv, PlanInv, Operate
  PROVE  PlanInv'
<1>1. /\ todo # <<>> /\ todo' = Tail(todo)
      /\ UNCHANGED <<config, plan, call, step, tracked, lives>>
  BY OperateFrame
<1>2. Planned' = Planned /\ Coming' \subseteq Coming /\ call \in Coming
  BY <1>1 DEF Planned, Coming
<1>3. PICK s \in Knowledge : Acts(s)
  BY <1>1, Underway
<1>4. PICK e : e = Effect(call, s, Head(todo).op, On)
  OBVIOUS
<1> DEFINE name == Head(todo).op
<1>5. Changes(name) /\ On \in Roles
  BY <1>3, OperateChanges DEF Acts, TypesInv
<1>6. \A c \in Planned : Stage(call) < Stage(c)
  BY <1>1 DEF OrderInv
<1>7. (Phase' = Phase) \/ call \in {"generate", "old_log_prob"}
  <2>1. CASE name \notin {"forward", "sample"}
    BY <1>5, <2>1 DEF Changes, Phase
  <2>2. CASE name = "sample"
    BY <1>3, <2>2 DEF Acts, MayDo
  <2>3. CASE name = "forward"
    BY <2>3, OperationByName DEF Forward, Phase
  <2> QED BY <2>1, <2>2, <2>3
<1>8. (Served => Served') \/ call \in {"init_actor"} \cup Rollouts
  <2>1. CASE name \notin {"build_engine", "enter", "init_cache", "free_cache", "exit"}
    BY <1>1, <1>5, <2>1 DEF Changes, Served
  <2>2. CASE name \in {"build_engine", "enter", "init_cache", "free_cache", "exit"}
    BY <1>3, <2>2 DEF Acts, MayDo
  <2> QED BY <2>1, <2>2
<1>9. ASSUME "init_actor" \in Coming PROVE drawn' = Undrawn(drawn'.earlier) /\ rng'.cuda = Fresh(0)
  <2>1. call \in Inits
    <3>1. CASE "init_actor" \in Planned
      <4>1. Stage(call) < 4
        BY <1>6, <3>1, Stages
      <4> QED BY <1>3, <4>1, Stages DEF Acts, Calls, Inits, Loads, Rollouts, Scores, Updates,
                 Saves
    <3>2. CASE "init_actor" \notin Planned
      BY <1>9, <3>2 DEF Coming, Inits
    <3> QED BY <3>1, <3>2
  <2>2. name \notin {"forward", "enter", "sample", "exit", "restore"}
    BY <1>3, <2>1 DEF Acts, MayDo, Inits, Scores, Updates, Rollouts, Loads
  <2>3. drawn' = drawn
    BY <1>5, <2>2 DEF Changes
  <2>4. rng'.cuda = rng.cuda \/ rng'.cuda = Fresh(0)
    <3>1. CASE name \in {"build_engine", "build_manager"}
      BY <3>1, OperationByName DEF BuildEngine, BuildShardingManager, TypesInv
    <3>2. CASE name \notin {"build_engine", "build_manager"}
      BY <1>5, <2>2, <3>2 DEF Changes
    <3> QED BY <3>1, <3>2
  <2> QED BY <1>9, <2>3, <2>4 DEF PlanInv
<1>10. Coming \cap Loads # {} => call \notin {"generate", "old_log_prob"}
  <2>1. call \in {"generate", "old_log_prob"} => Planned \cap Loads = {}
    BY <1>6, Stages DEF Loads
  <2> QED BY <2>1 DEF Coming, Loads
<1>11. "old_log_prob" \in Planned => call # "old_log_prob"
  BY <1>6, Stages
<1>12. "update_actor" \in Planned /\ call = "generate" => "old_log_prob" \in Planned
  BY <1>2 DEF OrderInv
<1>13. Planned \cap Updates # {} => call # "validate" /\ call # "init_actor"
  <2>1. Planned \cap Updates # {} => call # "validate"
    BY <1>6, Stages DEF Updates
  <2>2. call = "init_actor" => Planned \subseteq Inits \cup Loads
    BY <1>2 DEF OrderInv, Inits
  <2> QED BY <2>1, <2>2 DEF Updates, Inits, Loads
<1>14. Training => call \notin {"init_actor"} \cup Rollouts
  BY DEF Training, Rollouts
<1>15. (Coming \cap Loads # {} => Phase = "none" /\ tracked # None)'
  BY <1>1, <1>2, <1>7, <1>10 DEF PlanInv
<1>16. ("old_log_prob" \in Planned => "generate" \in Planned \cup {call} \/ Phase = "sampled")'
  BY <1>1, <1>2, <1>7, <1>11 DEF PlanInv
<1>17. ("update_actor" \in Planned => "old_log_prob" \in Planned \cup {call} \/ Phase = "scored")'
  BY <1>1, <1>2, <1>7, <1>12 DEF PlanInv
<1>18. (Planned \cap Updates # {} => "generate" \in Planned \cup {call} \/ Served)'
  BY <1>1, <1>2, <1>8, <1>13 DEF PlanInv, Rollouts
<1>19. (Training => Served)'
  BY <1>1, <1>8, <1>14 DEF PlanInv, Training
<1> QED BY <1>2, <1>9, <1>15, <1>16, <1>17, <1>18, <1>19 DEF PlanInv

\* What has been saved stays what the modules hold until the tracker names it.
LEMMA OperateSave ==
  ASSUME TypesInv, OutlineInv, OrderInv, RestInv, StreamsApart, SaveInv, Operate
  PROVE  SaveInv'
<1>1. /\ todo # <<>> /\ todo' = Tail(todo) /\ todo \in Seq(Ops)
      /\ UNCHANGED <<config, plan, call, step, tracked, lives>>
  BY OperateFrame DEF TypesInv
<1>2. Planned' = Planned
  BY <1>1 DEF Planned
<1>3. PICK s \in Knowledge : Acts(s)
  BY <1>1, Underway
<1> DEFINE name == Head(todo).op
<1>4. Changes(name) /\ On \in Roles /\ On = RoleOf(call)
  BY <1>3, OperateChanges DEF Acts, TypesInv
<1>5. ASSUME name = "save" PROVE Kept(RoleOf(call))'
  <2>1. PICK new \in Recorded :
          /\ On \in Trained /\ new.weights = module[On].weights
          /\ saved' = [saved EXCEPT ![On] = new]
    BY <1>3, <1>5, SaveWrites
  <2>2. module'[On].weights = module[On].weights
    BY <1>4, <1>5 DEF Changes
  <2>3. saved'[On] = new
    BY <2>1 DEF TypesInv
  <2> QED BY <1>1, <1>4, <2>1, <2>2, <2>3, NoneIsNoCheckpoint DEF Kept, Recorded
<1>6. ASSUME NEW r \in Roles, Kept(r), r # On \/ call \in Saves PROVE Kept(r)'
  <2>1. module'[r].weights = module[r].weights
    <3>1. CASE r # On
      BY <1>4, <3>1 DEF Changes
    <3>2. CASE call \in Saves /\ r = On
      <4>1. name \notin {"build", "build_critic", "build_model", "optimizer_step", "restore"}
        BY <1>3, <3>2 DEF Acts, MayDo, Saves, Inits, Updates, Loads
      <4> QED BY <1>4, <3>2, <4>1 DEF Changes
    <3> QED BY <1>6, <3>1, <3>2
  <2>2. CASE name # "save"
    BY <1>4, <1>6, <2>1, <2>2 DEF Changes, Kept
  <2>3. CASE name = "save"
    <3>1. SaveState /\ saved \in [Trained -> Recorded \cup {None}]
      BY <2>3, OperationByName DEF TypesInv
    <3>2. CASE r # On
      BY <1>6, <2>1, <3>1, <3>2 DEF SaveState, Kept
    <3>3. CASE r = On
      BY <1>1, <1>4, <1>5, <2>3, <3>3 DEF Kept
    <3> QED BY <3>2, <3>3
  <2> QED BY <2>2, <2>3
<1>7. (call \in Saves => (\E i \in DOMAIN todo : todo[i].op = "save") \/ Kept(RoleOf(call)))'
  <2>1. SUFFICES ASSUME call \in Saves
                 PROVE  (\E i \in DOMAIN todo' : todo'[i].op = "save") \/ Kept(RoleOf(call))'
    BY <1>1 DEF Kept
  <2>2. CASE name = "save"
    BY <1>5, <2>2
  <2>3. CASE name # "save" /\ Kept(RoleOf(call))
    BY <1>1, <1>4, <1>6, <2>1, <2>3 DEF Kept
  <2>4. CASE name # "save" /\ \E i \in DOMAIN todo : todo[i].op = "save"
    <3>1. PICK i \in 1..Len(todo) : todo[i].op = "save"
      BY <1>1, <2>4
    <3>2. /\ Head(todo) = todo[1] /\ Len(todo') = Len(todo) - 1 /\ Len(todo) \in Nat
          /\ \A j \in 1..(Len(todo) - 1) : todo'[j] = todo[j + 1]
      BY <1>1, HeadTailProperties
    <3>3. i # 1
      BY <2>4, <3>1, <3>2
    <3>4. i - 1 \in 1..(Len(todo) - 1) /\ (i - 1) + 1 = i
      BY <3>2, <3>3
    <3>5. todo'[i - 1].op = "save"
      BY <3>1, <3>2, <3>4
    <3>6. DOMAIN todo' = 1..(Len(todo) - 1)
      BY <1>1, <3>2, HeadTailProperties
    <3> QED BY <3>4, <3>5, <3>6
  <2> QED BY <2>1, <2>2, <2>3, <2>4 DEF SaveInv
<1>8. ("track" \in Planned =>
       /\ \/ "save_actor" \in Planned
          \/ call = "save_actor" /\ Planned \subseteq {"save_critic", "track"}
          \/ call = "save_critic" /\ Planned \subseteq {"track"} /\ Kept("actor")
       /\ "critic" \in config.roles =>
            "save_critic" \in Planned \/ (call = "save_critic" /\ Planned \subseteq {"track"}))'
  <2>1. call = "save_critic" /\ Kept("actor") => Kept("actor")'
    BY <1>6, RolesOf DEF Roles, Trained, Saves
  <2> QED BY <1>1, <1>2, <2>1 DEF SaveInv
<1> QED BY <1>7, <1>8 DEF SaveInv

\* Nobody is built twice: the call about a role comes after the one that builds it.
LEMMA BuiltBefore ==
  ASSUME TypesInv, OrderInv, todo # <<>>, call \in Calls
  PROVE  RoleOf(call) \in config.roles /\ InitOf(RoleOf(call)) \notin Planned
<1>1. /\ Stage(InitOf(RoleOf(call))) \in Nat /\ Stage(call) \in Nat
      /\ Stage(InitOf(RoleOf(call))) <= Stage(call)
  BY BuildsFirst
<1>2. \A c \in Planned : Stage(call) < Stage(c)
  BY DEF OrderInv
<1> QED BY <1>1, <1>2 DEF OrderInv

\* The roles that no call is about stay where the configuration wants them.
LEMMA OperateRest ==
  ASSUME TypesInv, OutlineInv, OrderInv, PlanInv, RestInv, Operate
  PROVE  RestInv'
<1>1. /\ todo # <<>> /\ todo' = Tail(todo)
      /\ UNCHANGED <<config, plan, call, step, tracked, lives>>
  BY OperateFrame
<1>2. Planned' = Planned
  BY <1>1 DEF Planned
<1>3. PICK s \in Knowledge : Acts(s)
  BY <1>1, Underway
<1> DEFINE name == Head(todo).op
<1>4. Changes(name) /\ On \in Roles /\ On = RoleOf(call) /\ call \in Calls /\ config \in Configs
  BY <1>3, OperateChanges DEF Acts, TypesInv
<1>5. On \in config.roles /\ InitOf(On) \notin Planned
  BY <1>1, <1>4, BuiltBefore
<1>6. \A r \in Roles : r # On => module'[r] = module[r]
  BY <1>4 DEF Changes
<1>7. (\A r \in Roles : InitOf(r) \in Planned \/ r \notin config.roles => module[r] = Unbuilt)'
  BY <1>1, <1>2, <1>5, <1>6 DEF RestInv
<1>8. (\A r \in config.roles : InitOf(r) \notin Planned /\ r # RoleOf(call) => Rests(r))'
  <2>1. config.roles \subseteq Roles
    BY <1>4, ConfigFields
  <2> QED BY <1>1, <1>2, <1>4, <1>6, <2>1 DEF RestInv, Rests, Home
<1>9. (\A r \in config.optimizer : ~(call \in Updates /\ r = RoleOf(call)) => Held(r))'
  <2>1. SUFFICES ASSUME NEW r \in config.optimizer, ~(call \in Updates /\ r = On)
                 PROVE  Held(r)'
    BY <1>1, <1>4
  <2>2. Held(r) /\ r \in Roles
    BY <1>4, <2>1, ConfigFields DEF RestInv, Roles
  <2>3. CASE r # On
    BY <1>1, <1>6, <2>2, <2>3 DEF Held
  <2>4. CASE r = On
    <3>1. name \notin {"load_optimizer", "optimizer_step"}
      BY <1>3, <2>1, <2>4 DEF Acts, MayDo
    <3>2. CASE name \in {"build", "build_critic", "build_model"}
      <4>1. module[On].state = "none"
        BY <1>3, <3>2 DEF Acts, MayDo, Describes, OfModule
      <4>2. module'[On].state = module[On].state
        BY <1>4, <3>2 DEF Changes
      <4> QED BY <2>4, <4>1, <4>2 DEF Held
    <3>3. CASE name = "offload_optimizer"
      BY <1>4, <2>4, <3>3 DEF Changes, Held
    <3>4. CASE name = "restore"
      <4>1. tracked # None /\ LoadState
        BY <1>1, <1>3, <3>4, RestoreFinds, OperationByName
      <4>2. module'[On].weights = tracked[On].weights
        BY <1>4, <4>1 DEF LoadState, Loaded, TypesInv, Module
      <4> QED BY <1>1, <2>4, <4>1, <4>2 DEF Held
    <3>5. CASE name \notin {"build", "build_critic", "build_model", "offload_optimizer", "restore"}
      <4>1. module'[On].state = module[On].state /\ module'[On].weights = module[On].weights
        BY <1>4, <3>1, <3>5 DEF Changes
      <4> QED BY <1>1, <2>2, <2>4, <4>1 DEF Held
    <3> QED BY <3>2, <3>3, <3>4, <3>5
  <2> QED BY <2>3, <2>4
<1>10. /\ call \notin Rollouts => engine'.weights = None
       /\ call # "init_actor" /\ "init_actor" \notin Planned /\ ~config.freeCache => engine'.cache
  <2>1. CASE name \notin {"build_engine", "enter", "init_cache", "free_cache", "exit"}
    BY <1>4, <2>1 DEF Changes, RestInv
  <2>2. CASE name \in {"enter", "init_cache", "free_cache", "exit"}
    <3>1. call \in Rollouts /\ (name = "free_cache" => config.freeCache)
      BY <1>3, <2>2 DEF Acts, MayDo
    <3>2. engine'.cache = engine.cache \/ name = "free_cache" \/ engine'.cache
      BY <2>2, OperationByName DEF Enter, Exit, InitCacheEngine, TypesInv
    <3> QED BY <3>1, <3>2 DEF RestInv
  <2>3. CASE name = "build_engine"
    <3>1. BuildEngine /\ call = "init_actor"
      BY <1>3, <2>3, OperationByName DEF Acts, MayDo
    <3> QED BY <3>1 DEF BuildEngine
  <2> QED BY <2>1, <2>2, <2>3
<1>11. (call \notin Rollouts => engine.weights = None)'
  BY <1>1, <1>10
<1>12. (call # "init_actor" /\ "init_actor" \notin Planned /\ ~config.freeCache => engine.cache)'
  BY <1>1, <1>2, <1>10
<1> QED BY <1>7, <1>8, <1>9, <1>11, <1>12 DEF RestInv

\* The streams stay apart in every operation.
LEMMA OperateStreams ==
  ASSUME TypesInv, OutlineInv, OrderInv, PlanInv, StreamsApart, Operate
  PROVE  StreamsApart'
<1>1. todo # <<>> /\ call' = call
  BY OperateFrame
<1>2. PICK s \in Knowledge : Acts(s)
  BY <1>1, Underway
<1> DEFINE name == Head(todo).op
<1>3. Changes(name) /\ On \in Roles /\ "actor" \in Roles
  BY <1>2, OperateChanges DEF Acts, TypesInv, Roles, Trained
<1>4. SUFFICES ASSUME module'["actor"].weights # None, call # "init_actor"
               PROVE  Apart'
  BY <1>1 DEF StreamsApart, Apart
<1>5. name \notin {"build_engine", "build_manager"}
  BY <1>2, <1>4 DEF Acts, MayDo
<1>6. module["actor"].weights # None
  <2>1. SUFFICES ASSUME On = "actor", module["actor"].weights = None,
                        module'["actor"].weights # module["actor"].weights
                 PROVE  FALSE
    BY <1>3, <1>4 DEF Changes
  <2>2. module["actor"].at = "none" /\ s.at = "none" /\ RoleOf(call) = "actor"
    BY <1>2, <1>3, <2>1 DEF TypesInv, Acts, Describes, OfModule
  <2>3. name \in {"build", "build_critic", "build_model"}
    BY <1>2, <1>3, <2>1, <2>2 DEF Changes, Acts, MayDo
  <2>4. call \in Inits
    BY <1>2, <2>3 DEF Acts, MayDo
  <2> QED BY <1>4, <2>2, <2>4, RolesOf DEF Inits
<1>7. Apart
  BY <1>4, <1>6 DEF StreamsApart, Apart
<1>8. name = "restore" => tracked # None /\ tracked[On] # None /\ On \in Trained
  BY <1>1, <1>2, RestoreFinds
<1> QED BY <1>2, <1>5, <1>7, <1>8, StreamsFollow

\* An operation of a worker keeps the invariant.
LEMMA OperateKeeps ==
  ASSUME IInv, Operate
  PROVE  IInv'
BY OperateTypes, OperateOutline, OperateOrder, OperatePlan, OperateSave, OperateRest,
   OperateStreams DEF IInv

-----------------------------------------------------------------------------
(* The calls of the driver. *)

\* The first call of a plan comes before the rest.
LEMMA FirstOfPlan ==
  ASSUME NEW S, NEW p \in Seq(S), p # <<>>, Rising(p)
  PROVE  /\ Head(p) \in S /\ Head(p) \in Range(p) /\ Tail(p) \in Seq(S) /\ Rising(Tail(p))
         /\ Range(p) = Range(Tail(p)) \cup {Head(p)}
         /\ \A c \in Range(Tail(p)) : Stage(Head(p)) < Stage(c)
<1> DEFINE n == Len(p)
           q == Tail(p)
<1>1. /\ n \in Nat /\ n >= 1 /\ q \in Seq(S) /\ Len(q) = n - 1 /\ Head(p) = p[1] /\ Head(p) \in S
      /\ \A i \in 1..(n - 1) : q[i] = p[i + 1]
  BY HeadTailProperties
<1>2. DOMAIN p = 1..n /\ DOMAIN q = 1..(n - 1)
  BY <1>1
<1> HIDE DEF n, q
<1>3. 1 \in 1..n /\ \A i \in 1..(n - 1) : i + 1 \in 1..n /\ 1 < i + 1
  BY <1>1
<1>4. \A i \in 1..n : i # 1 => i - 1 \in 1..(n - 1) /\ (i - 1) + 1 = i
  BY <1>1
<1>5. Head(p) \in Range(p)
  BY <1>1, <1>2, <1>3 DEF Range
<1>6. ASSUME NEW c \in Range(q) PROVE c \in Range(p) /\ Stage(Head(p)) < Stage(c)
  <2>1. PICK i \in 1..(n - 1) : c = q[i]
    BY <1>2 DEF Range
  <2>2. c = p[i + 1] /\ i + 1 \in DOMAIN p /\ 1 \in DOMAIN p /\ 1 < i + 1
    BY <1>1, <1>2, <1>3, <2>1
  <2>3. Stage(p[1]) < Stage(p[i + 1])
    BY <2>2 DEF Rising
  <2> QED BY <1>1, <2>2, <2>3 DEF Range
<1>7. ASSUME NEW c \in Range(p), c # Head(p) PROVE c \in Range(q)
  <2>1. PICK i \in 1..n : c = p[i]
    BY <1>2 DEF Range
  <2>2. i - 1 \in 1..(n - 1) /\ c = q[i - 1]
    BY <1>1, <1>4, <1>7, <2>1
  <2> QED BY <1>2, <2>2 DEF Range
<1>8. Rising(q)
  <2>1. \A i, j \in 1..(n - 1) : i < j => i + 1 < j + 1
    BY <1>1
  <2> QED BY <1>1, <1>2, <1>3, <2>1 DEF Rising
<1> QED BY <1>1, <1>5, <1>6, <1>7, <1>8 DEF q

\* What a call has left when it has ended.
LEMMA Ended ==
  ASSUME TypesInv, OutlineInv, todo = <<>>, call \in Calls
  PROVE  \E s \in After(config, call) : s \in Knowledge /\ Describes(s)
<1>1. call # "none"
  BY DEF Calls, Inits, Loads, Rollouts, Scores, Updates, Saves
<1>2. PICK s \in Knowledge, t \in After(config, call) : Describes(s) /\ Run(config, call, s, <<>>, t)
  BY <1>1 DEF OutlineInv
<1>3. t = s
  BY <1>2, RunOfNothing
<1> QED BY <1>2, <1>3

\* What holds between two calls.
LEMMA BetweenCalls ==
  ASSUME IInv, todo = <<>>
  PROVE  /\ \A r \in config.roles : InitOf(r) \notin Planned =>
              Rests(r) \/ (r = "actor" /\ call = "init_actor")
         /\ \A r \in config.optimizer : Held(r)
         /\ engine.weights = None
         /\ "init_actor" \notin Planned /\ ~config.freeCache => engine.cache
         /\ call = "generate" => Phase = "sampled"
         /\ call = "old_log_prob" => Phase = "scored"
         /\ call \in Rollouts => Served
         /\ call = "init_actor" =>
              /\ module["actor"].at = "gpu" /\ module["actor"].full = None /\ Apart
              /\ "actor" \notin config.optimizer => module["actor"].state # "cpu"
<1>1. TypesInv /\ OutlineInv /\ OrderInv /\ RestInv /\ config \in Configs /\ call \in Calls \cup {"none"}
  BY DEF IInv, TypesInv
<1>2. CASE call = "none"
  <2>1. InitOf("actor") \in Planned /\ "init_actor" \in Planned
    BY <1>1, <1>2 DEF OrderInv, InitOf
  <2> QED BY <1>1, <1>2, <2>1, RolesOf DEF RestInv, Rollouts, Updates
<1>3. CASE call \in Calls
  <2>1. PICK s \in After(config, call) : s \in Knowledge /\ Describes(s)
    BY <1>1, <1>3, Ended
  <2> DEFINE r == RoleOf(call)
  <2>2. OfModule(s, r) /\ OfEngine(s) /\ s.batch = Phase /\ (s.apart => Apart)
    BY <2>1 DEF Describes
  <2>3. ASSUME call = "init_actor"
        PROVE  /\ module["actor"].at = "gpu" /\ module["actor"].full = None /\ Apart
               /\ "actor" \notin config.optimizer => module["actor"].state # "cpu"
               /\ engine.weights = None /\ engine.cache
    <3>1. s \in OnDevice(config, "actor", Phases, {"held"}) /\ s.apart /\ r = "actor"
      BY <2>1, <2>3, RolesOf DEF After, Updates
    <3> QED BY <2>2, <3>1 DEF OnDevice, OfModule, OfEngine
  <2>4. ASSUME call # "init_actor"
        PROVE  Rests(r) /\ engine.weights = None
    <3>1. \E B, C : s \in Resting(config, r, B, C)
      BY <1>3, <2>1, <2>4, RolesOf DEF After, Calls, Inits, Loads, Rollouts, Scores, Updates,
         Saves
    <3> QED BY <2>2, <3>1 DEF Resting, Rests, OfModule, OfEngine
  <2>5. call \in Updates => (r \in config.optimizer => module[r].state # "gpu")
    BY <2>1, <2>2 DEF After, Updates, OfModule
  <2>6. ASSUME call = "generate" PROVE Phase = "sampled"
    <3>1. \E C : s \in Resting(config, "actor", {"sampled"}, C)
      BY <2>1, <2>6 DEF After, Updates
    <3> QED BY <2>2, <3>1 DEF Resting
  <2>7. ASSUME call = "old_log_prob" PROVE Phase = "scored"
    <3>1. \E C : s \in Resting(config, "actor", {"scored"}, C)
      BY <2>1, <2>7 DEF After, Updates
    <3> QED BY <2>2, <3>1 DEF Resting
  <2>8. ASSUME call \in Rollouts PROVE engine.cache => ~config.freeCache
    <3>1. \E B : s \in Resting(config, "actor", B, Left(config))
      BY <2>1, <2>8 DEF After, Updates, Rollouts
    <3> QED BY <2>2, <3>1 DEF Resting, Left, OfEngine
  <2>9. \A q \in config.optimizer : Held(q)
    BY <1>1, <2>5 DEF RestInv, Held
  <2>10. \A q \in config.roles : InitOf(q) \notin Planned =>
           Rests(q) \/ (q = "actor" /\ call = "init_actor")
    BY <1>1, <2>4, RolesOf DEF RestInv
  <2>11. "init_actor" \notin Planned /\ ~config.freeCache => engine.cache
    BY <1>1, <2>3 DEF RestInv
  <2> QED BY <2>3, <2>4, <2>6, <2>7, <2>8, <2>9, <2>10, <2>11 DEF Served
<1> QED BY <1>1, <1>2, <1>3

\* The next call finds its operands where its operations begin.
LEMMA CallBegins ==
  ASSUME IInv, Call
  PROVE  \E s \in Before(config, Head(plan)) :
           /\ OfModule(s, RoleOf(Head(plan))) /\ OfEngine(s) /\ s.batch = Phase /\ ~s.apart
<1> DEFINE c == Head(plan)
           r == RoleOf(c)
           m == module[r]
           s == [at |-> m.at, grad |-> "any",
                 state |-> IF c \in Inits THEN "none" ELSE IF m.state = "cpu" THEN "host" ELSE "device",
                 full |-> m.full # None, serves |-> FALSE,
                 cache |-> IF engine.cache THEN "held" ELSE "freed", batch |-> Phase, apart |-> FALSE]
<1>1. /\ TypesInv /\ OrderInv /\ PlanInv /\ RestInv /\ config \in Configs
      /\ plan \in Seq(Calls \cup {"track"}) /\ plan # <<>> /\ Rising(plan) /\ todo = <<>>
      /\ c \in Calls \cup {"track"} /\ c # "track"
  BY HeadTailProperties DEF IInv, TypesInv, Call, OrderInv
<1>2. /\ c \in Calls /\ c \in Planned /\ c \in Coming
      /\ \A d \in Planned : d = c \/ Stage(c) < Stage(d)
  BY <1>1, FirstOfPlan DEF Planned, Coming
<1>3. r \in Roles /\ r \in config.roles /\ Stage(c) \in Nat
  <2>1. r \in Roles /\ Stage(c) \in Nat
    BY <1>2, BuildsFirst
  <2> QED BY <1>1, <1>2, <2>1 DEF OrderInv
<1>4. m \in Module /\ Phase \in Phases
  BY <1>1, <1>3 DEF TypesInv, Phase, Phases
<1>5. s \in Knowledge
  <2>1. s.at \in {"none", "cpu", "gpu", "fsdp"} /\ s.state \in {"none", "device", "host"}
    BY <1>4 DEF Module, Places
  <2> QED BY <1>4, <2>1 DEF Knowledge, Phases, Caches
<1>6. engine.weights = None
  BY <1>1, BetweenCalls
<1>7. CASE c \in Inits
  <2>1. InitOf(r) = c
    BY <1>7, RolesOf DEF Inits, InitOf
  <2>2. m = Unbuilt
    BY <1>1, <1>2, <1>3, <2>1 DEF RestInv
  <2>3. s \in Unmade
    <3>1. m.full = None /\ m.at = "none"
      BY <2>2 DEF Unbuilt
    <3>2. s.at = "none" /\ s.state = "none"
      BY <1>7, <3>1
    <3>3. ~s.serves /\ ~s.full
      BY <3>1, Zenon
    <3> HIDE DEF s
    <3> QED BY <1>5, <3>2, <3>3 DEF Unmade
  <2>4. OfModule(s, r) /\ OfEngine(s) /\ s.batch = Phase /\ ~s.apart
    BY <1>6, <1>7, <2>2 DEF OfModule, OfEngine, Unbuilt
  <2> HIDE DEF s
  <2> QED BY <1>7, <2>3, <2>4 DEF Before
<1>8. CASE c \notin Inits
  <2>1. InitOf(r) \notin Planned
    <3>1. Stage(InitOf(r)) \in Nat /\ Stage(InitOf(r)) < Stage(c)
      BY <1>2, <1>8, Stages, RolesOf DEF Calls, Inits, Loads, Rollouts, Scores, Updates, Saves,
         InitOf
    <3> QED BY <1>2, <1>3, <3>1
  <2>2. Rests(r) \/ (r = "actor" /\ call = "init_actor")
    BY <1>1, <1>3, <2>1, BetweenCalls
  <2>3. /\ m.at \in Home(config, r) \/ (r = "actor" /\ m.at = "gpu")
        /\ r # "critic" => m.full = None
        /\ r \notin config.optimizer => m.state # "cpu"
    BY <1>1, <2>2, BetweenCalls DEF Rests
  <2> DEFINE B == CASE c = "old_log_prob" -> {"sampled"} [] c = "update_actor" -> {"scored"}
                    [] c \in Loads -> {"none"} [] OTHER -> Phases
             C == IF c \in Rollouts /\ ~config.freeCache THEN {"held"} ELSE Caches
  <2>4. Phase \in B
    <3>1. c \in Loads => Phase = "none"
      BY <1>1, <1>2 DEF PlanInv
    <3>2. c = "old_log_prob" => Phase = "sampled"
      <4>1. c = "old_log_prob" => "generate" \notin Planned
        BY <1>2, Stages
      <4>2. call = "generate" => Phase = "sampled"
        BY <1>1, BetweenCalls
      <4> QED BY <1>1, <1>2, <4>1, <4>2 DEF PlanInv
    <3>3. c = "update_actor" => Phase = "scored"
      <4>1. c = "update_actor" => "old_log_prob" \notin Planned
        BY <1>2, Stages
      <4>2. call = "old_log_prob" => Phase = "scored"
        BY <1>1, BetweenCalls
      <4> QED BY <1>1, <1>2, <4>1, <4>2 DEF PlanInv
    <3> QED BY <1>4, <3>1, <3>2, <3>3 DEF Loads
  <2>5. s.cache \in C
    <3>1. c \in Rollouts => "init_actor" \notin Planned
      BY <1>2, Stages DEF Rollouts
    <3>2. c \in Rollouts /\ ~config.freeCache => engine.cache
      BY <1>1, <3>1, BetweenCalls
    <3> QED BY <3>2 DEF Caches
  <2> HIDE DEF B, C
  <2>6. s \in Waiting(config, r, B, C)
    BY <1>5, <1>8, <2>3, <2>4, <2>5 DEF Waiting, Resting, OnDevice
  <2>7. OfModule(s, r) /\ OfEngine(s) /\ s.batch = Phase /\ ~s.apart
    BY <1>6, <1>8 DEF OfModule, OfEngine
  <2> HIDE DEF s
  <2> QED BY <1>8, <2>6, <2>7 DEF Before, B, C
<1> QED BY <1>7, <1>8

\* The sequence of a saving call saves.
LEMMA SavingSaves ==
  ASSUME NEW c \in Saves, config \in Configs
  PROVE  \E i \in DOMAIN Operations(c) : Operations(c)[i].op = "save"
<1> DEFINE r == RoleOf(c)
           a == LoadParams(r)
           b == <<Op("save", r)>>
           d == OffloadParams(r)
<1>1. r \in Roles
  BY RolesOf DEF Saves, Roles, Trained
<1>2. \A name \in OpNames : <<Op(name, r)>> \in Seq(Ops) /\ Op(name, r).op = name
  BY <1>1, OpsOf
<1>3. a \in Seq(Ops) /\ b \in Seq(Ops) /\ d \in Seq(Ops)
  BY <1>2 DEF LoadParams, OffloadParams, When, OpNames
<1>4. Len(b) = 1 /\ b[1].op = "save"
  BY <1>2 DEF OpNames
<1> HIDE DEF a, b, d
<1>5. Len(a) \in Nat /\ Len(d) \in Nat
  BY <1>3, LenProperties
<1> DEFINE ab == a \o b
<1>6. /\ ab \in Seq(Ops) /\ Len(ab) = Len(a) + Len(b)
      /\ \A i \in 1..(Len(a) + Len(b)) : ab[i] = IF i <= Len(a) THEN a[i] ELSE b[i - Len(a)]
  BY <1>3, ConcatProperties
<1> HIDE DEF ab
<1>7. ab[Len(a) + 1] = b[1]
  <2>1. Len(a) + 1 \in 1..(Len(a) + 1) /\ ~(Len(a) + 1 <= Len(a)) /\ (Len(a) + 1) - Len(a) = 1
    BY <1>5
  <2> QED BY <1>6, <1>4, <2>1
<1>8. /\ ab \o d \in Seq(Ops) /\ Len(ab \o d) = Len(ab) + Len(d)
      /\ \A i \in 1..(Len(ab) + Len(d)) : (ab \o d)[i] = IF i <= Len(ab) THEN ab[i] ELSE d[i - Len(ab)]
  <2>1. ab \in Seq(Ops) /\ d \in Seq(Ops)
    BY <1>3, <1>6
  <2> QED BY <2>1, ConcatProperties
<1>9. Len(ab) \in DOMAIN (ab \o d) /\ (ab \o d)[Len(ab)] = b[1]
  <2>1. Len(ab) \in 1..(Len(ab) + Len(d)) /\ Len(ab) <= Len(ab)
    BY <1>5, <1>6, <1>4
  <2> QED BY <1>6, <1>7, <1>8, <1>4, <2>1, LenProperties
<1>10. Operations(c) = ab \o d
  BY RolesOf DEF Operations, Saves, SaveCheckpoint, ab, a, b, d
<1> QED BY <1>10, <1>9, <1>4

\* What the driver does when it calls.
LEMMA CallFrame ==
  ASSUME IInv, Call
  PROVE  /\ call' = Head(plan) /\ call' \in Calls /\ call' \in Planned /\ call' \in Coming
         /\ todo = <<>> /\ todo' = Operations(call') /\ plan' = Tail(plan)
         /\ plan' \in Seq(Calls \cup {"track"}) /\ Rising(plan') /\ Rising(plan) /\ plan # <<>>
         /\ Planned = Planned' \cup {call'} /\ \A d \in Planned' : Stage(call') < Stage(d)
         /\ Coming' \subseteq Coming /\ Planned \subseteq Coming /\ Planned \subseteq Calls \cup {"track"}
         /\ UNCHANGED <<config, module, engine, rng, drawn, batch, step, saved, tracked, lives>>
         /\ TypesInv /\ OutlineInv /\ OrderInv /\ PlanInv /\ SaveInv /\ RestInv /\ StreamsApart
         /\ config \in Configs
<1>1. /\ TypesInv /\ OutlineInv /\ OrderInv /\ PlanInv /\ SaveInv /\ RestInv /\ StreamsApart
      /\ config \in Configs /\ plan \in Seq(Calls \cup {"track"}) /\ Rising(plan)
  BY DEF IInv, TypesInv, OrderInv
<1>2. /\ todo = <<>> /\ plan # <<>> /\ Head(plan) # "track"
      /\ call' = Head(plan) /\ todo' = Operations(call') /\ plan' = Tail(plan)
      /\ UNCHANGED <<config, module, engine, rng, drawn, batch, step, saved, tracked, lives>>
  BY DEF Call
<1>3. /\ Head(plan) \in Calls \cup {"track"} /\ Head(plan) \in Range(plan)
      /\ Tail(plan) \in Seq(Calls \cup {"track"}) /\ Rising(Tail(plan))
      /\ Range(plan) = Range(Tail(plan)) \cup {Head(plan)}
      /\ \A c \in Range(Tail(plan)) : Stage(Head(plan)) < Stage(c)
  BY <1>1, <1>2, FirstOfPlan
<1>4. Planned' = Range(Tail(plan))
  BY <1>2 DEF Planned
<1>5. Rising(plan') <=> Rising(Tail(plan))
  BY <1>2 DEF Rising
<1>6. Coming' \subseteq Coming /\ Planned \subseteq Coming
  BY <1>2, <1>3, <1>4 DEF Coming, Planned
<1>7. Range(plan) \subseteq Calls \cup {"track"}
  BY <1>1, LenProperties DEF Range
<1> QED BY <1>1, <1>2, <1>3, <1>4, <1>5, <1>6, <1>7 DEF Planned

\* A call begins well typed, with a run of its operations before it.
LEMMA CallTypes ==
  ASSUME IInv, Call
  PROVE  TypesInv' /\ OutlineInv'
<1>1. PICK s \in Before(config, Head(plan)) :
        /\ OfModule(s, RoleOf(Head(plan))) /\ OfEngine(s) /\ s.batch = Phase /\ ~s.apart
  BY CallBegins
<1>2. /\ call' = Head(plan) /\ call' \in Calls /\ todo' = Operations(call') /\ TypesInv
      /\ UNCHANGED <<config, module, engine, rng, drawn, batch, step, saved, tracked, lives>>
      /\ config \in Configs /\ plan' \in Seq(Calls \cup {"track"})
  BY CallFrame
<1>3. Leads(config, call', Before(config, call'), Operations(call'), After(config, call'))
  BY <1>2, CallLeads
<1>4. todo' \in Seq(Ops) /\ \E t \in After(config, call') : Run(config, call', s, todo', t)
  BY <1>1, <1>2, <1>3 DEF Leads
<1>5. Before(config, Head(plan)) \subseteq Knowledge
  BY SetsOfKnowledge DEF Before
<1>6. Describes(s)'
  <2>1. s \in Knowledge
    BY <1>1, <1>5
  <2> QED BY <1>1, <1>2, <2>1 DEF Describes, OfModule, OfEngine, Phase
<1>7. OutlineInv'
  BY <1>1, <1>2, <1>4, <1>5, <1>6 DEF OutlineInv
<1>8. TypesInv'
  BY <1>2, <1>4 DEF TypesInv, Phase
<1> QED BY <1>7, <1>8

\* The next call is the first of the plan.
LEMMA CallOrder ==
  ASSUME IInv, Call
  PROVE  OrderInv'
<1>1. /\ call' \in Calls /\ call' \in Planned /\ call' \in Coming
      /\ plan' \in Seq(Calls \cup {"track"}) /\ Rising(plan')
      /\ Planned = Planned' \cup {call'} /\ \A d \in Planned' : Stage(call') < Stage(d)
      /\ Coming' \subseteq Coming /\ Planned \subseteq Coming /\ config' = config /\ OrderInv
  BY CallFrame
<1>2. call' # "none"
  BY <1>1 DEF Calls, Inits, Loads, Rollouts, Scores, Updates, Saves
<1>3. ASSUME call' = "init_actor" PROVE plan' = <<>> \/ Head(plan') \in {"load_actor", "generate"}
  <2>1. SUFFICES ASSUME plan' # <<>> PROVE Head(plan') = "load_actor"
    OBVIOUS
  <2>2. /\ Head(plan') \in Range(plan') /\ Range(plan') = Range(Tail(plan')) \cup {Head(plan')}
        /\ \A c \in Range(Tail(plan')) : Stage(Head(plan')) < Stage(c)
    BY <1>1, <2>1, FirstOfPlan
  <2>3. Planned' = Range(plan')
    BY DEF Planned
  <2>4. Planned' \subseteq Loads
    <3>1. Planned' \subseteq Inits \cup Loads
      BY <1>1, <1>3 DEF OrderInv, Inits
    <3> QED BY <1>1, <1>3, <3>1, Stages DEF Inits
  <2>5. "load_actor" \in Planned'
    BY <1>1, <1>3, <2>2, <2>3, <2>4 DEF OrderInv, Loads
  <2>6. Stage(Head(plan')) <= 5
    <3>1. Head(plan') = "load_actor" \/ Stage(Head(plan')) < 5
      BY <2>2, <2>3, <2>5, Stages
    <3> QED BY <2>2, <2>3, <2>4, <3>1, Stages DEF Loads
  <2> QED BY <2>2, <2>3, <2>4, <2>6, Stages DEF Loads
<1>4. ASSUME "init_actor" \in Planned' PROVE Planned' \cap Loads = {} \/ "load_actor" \in Planned'
  <2>1. call' \notin Loads
    BY <1>1, <1>4, Stages DEF Loads
  <2> QED BY <1>1, <1>4, <2>1 DEF OrderInv, Loads
<1>5. ASSUME "generate" \in Coming' PROVE "old_log_prob" \in Planned'
  <2>1. "generate" \in Planned' \cup {call'}
    BY <1>5 DEF Coming
  <2>2. call' # "old_log_prob"
    BY <1>1, <2>1, Stages
  <2> QED BY <1>1, <1>5, <2>2 DEF OrderInv
<1>6. (\A c \in (Planned \cup {call}) \cap Calls : RoleOf(c) \in config.roles)'
  BY <1>1 DEF OrderInv
<1>7. (Coming \cap Inits # {} => Planned \subseteq Inits \cup Loads)'
  <2>1. Coming' \cap Inits # {} => Coming \cap Inits # {}
    BY <1>1
  <2> QED BY <1>1, <2>1 DEF OrderInv
<1> QED BY <1>1, <1>2, <1>3, <1>4, <1>5, <1>6, <1>7 DEF OrderInv

\* What the next call counts on, the last one has left.
LEMMA CallPlan ==
  ASSUME IInv, Call
  PROVE  PlanInv'
<1>1. /\ call' \in Calls /\ call' \in Planned /\ call' \in Coming /\ todo = <<>>
      /\ Planned = Planned' \cup {call'} /\ \A d \in Planned' : Stage(call') < Stage(d)
      /\ Coming' \subseteq Coming /\ Planned \subseteq Coming /\ PlanInv
      /\ UNCHANGED <<config, module, engine, rng, drawn, batch, step, saved, tracked, lives>>
  BY CallFrame
<1>2. /\ call = "generate" => Phase = "sampled" /\ Served
      /\ call = "old_log_prob" => Phase = "scored"
  BY <1>1, BetweenCalls DEF Rollouts
<1>3. Phase' = Phase /\ (Served' <=> Served)
  BY <1>1 DEF Phase, Served
<1>4. (Coming \cap Loads # {} => Phase = "none" /\ tracked # None)'
  BY <1>1, <1>3 DEF PlanInv
<1>5. ("old_log_prob" \in Planned => "generate" \in Planned \cup {call} \/ Phase = "sampled")'
  BY <1>1, <1>2, <1>3 DEF PlanInv
<1>6. ("update_actor" \in Planned => "old_log_prob" \in Planned \cup {call} \/ Phase = "scored")'
  BY <1>1, <1>2, <1>3 DEF PlanInv
<1>7. (Planned \cap Updates # {} => "generate" \in Planned \cup {call} \/ Served)'
  BY <1>1, <1>2, <1>3 DEF PlanInv
<1>8. ASSUME Training' PROVE Served'
  <2>1. call' \in Planned \cap Updates
    BY <1>1, <1>8 DEF Training, Updates
  <2>2. "generate" \notin Planned
    BY <1>1, <2>1, Stages DEF Updates
  <2> QED BY <1>1, <1>2, <1>3, <2>1, <2>2 DEF PlanInv
<1>9. ("init_actor" \in Coming => drawn = Undrawn(drawn.earlier) /\ rng.cuda = Fresh(0))'
  BY <1>1 DEF PlanInv
<1> QED BY <1>4, <1>5, <1>6, <1>7, <1>8, <1>9 DEF PlanInv

\* A role saves before the tracker is written.
LEMMA CallSave ==
  ASSUME IInv, Call
  PROVE  SaveInv'
<1>1. /\ call' \in Calls /\ call' \in Planned /\ todo = <<>> /\ todo' = Operations(call')
      /\ Planned = Planned' \cup {call'} /\ \A d \in Planned' : Stage(call') < Stage(d)
      /\ Planned \subseteq Calls \cup {"track"} /\ SaveInv /\ config \in Configs
      /\ UNCHANGED <<config, module, engine, rng, drawn, batch, step, saved, tracked, lives>>
  BY CallFrame
<1>2. call' \in Saves => \E i \in DOMAIN todo' : todo'[i].op = "save"
  BY <1>1, SavingSaves
<1>3. call \in Saves => Kept(RoleOf(call))
  BY <1>1 DEF SaveInv
<1>4. \A r : Kept(r)' <=> Kept(r)
  BY <1>1 DEF Kept
<1>5. call' = "save_actor" => Planned' \subseteq {"save_critic", "track"}
  BY <1>1, Stages DEF Calls, Inits, Loads, Rollouts, Scores, Updates, Saves
<1>6. call' = "save_critic" => Planned' \subseteq {"track"}
  BY <1>1, Stages DEF Calls, Inits, Loads, Rollouts, Scores, Updates, Saves
<1>7. call' # "track"
  BY <1>1 DEF Calls, Inits, Loads, Rollouts, Scores, Updates, Saves
<1>8. ASSUME "track" \in Planned'
      PROVE  /\ \/ "save_actor" \in Planned'
                \/ call' = "save_actor" /\ Planned' \subseteq {"save_critic", "track"}
                \/ call' = "save_critic" /\ Planned' \subseteq {"track"} /\ Kept("actor")
             /\ "critic" \in config.roles =>
                  "save_critic" \in Planned' \/ (call' = "save_critic" /\ Planned' \subseteq {"track"})
  <2>1. ~(Planned \subseteq {"track"})
    BY <1>1, <1>7
  <2>2. "save_actor" \in Planned \/ (call = "save_actor" /\ Planned \subseteq {"save_critic", "track"})
    BY <1>1, <1>8, <2>1 DEF SaveInv
  <2>3. "critic" \in config.roles => "save_critic" \in Planned
    BY <1>1, <1>8, <2>1 DEF SaveInv
  <2>4. CASE "save_actor" \in Planned
    BY <1>1, <1>5, <1>6, <2>3, <2>4
  <2>5. CASE call = "save_actor" /\ Planned \subseteq {"save_critic", "track"}
    <3>1. call' = "save_critic"
      BY <1>1, <1>7, <2>5
    <3>2. Kept("actor")
      BY <1>3, <2>5, RolesOf DEF Saves
    <3> QED BY <1>6, <3>1, <3>2
  <2> QED BY <2>2, <2>4, <2>5
<1>9. ("track" \in Planned =>
       /\ \/ "save_actor" \in Planned
          \/ call = "save_actor" /\ Planned \subseteq {"save_critic", "track"}
          \/ call = "save_critic" /\ Planned \subseteq {"track"} /\ Kept("actor")
       /\ "critic" \in config.roles =>
            "save_critic" \in Planned \/ (call = "save_critic" /\ Planned \subseteq {"track"}))'
  BY <1>1, <1>4, <1>8
<1> QED BY <1>2, <1>9 DEF SaveInv

\* What the last call was about is at rest when the next one begins.
LEMMA CallRest ==
  ASSUME IInv, Call
  PROVE  RestInv' /\ StreamsApart'
<1>1. /\ call' = Head(plan) /\ call' \in Calls /\ call' \in Planned /\ todo = <<>> /\ plan # <<>>
      /\ Planned = Planned' \cup {call'} /\ RestInv /\ OrderInv /\ StreamsApart /\ config \in Configs
      /\ UNCHANGED <<config, module, engine, rng, drawn, batch, step, saved, tracked, lives>>
  BY CallFrame
<1>2. /\ \A r \in config.roles : InitOf(r) \notin Planned =>
           Rests(r) \/ (r = "actor" /\ call = "init_actor")
      /\ \A r \in config.optimizer : Held(r)
      /\ engine.weights = None
      /\ "init_actor" \notin Planned /\ ~config.freeCache => engine.cache
      /\ call = "init_actor" => Apart
  BY <1>1, BetweenCalls
<1>3. (\A r \in Roles : InitOf(r) \in Planned \/ r \notin config.roles => module[r] = Unbuilt)'
  BY <1>1 DEF RestInv
<1>4. ASSUME NEW r \in config.roles, InitOf(r) \notin Planned', r # RoleOf(call')
      PROVE  Rests(r)'
  <2>1. RoleOf(InitOf(r)) = r
    BY <1>1, <1>4, ConfigFields, RolesOf DEF InitOf, Roles, Trained, Frozen
  <2>2. InitOf(r) \notin Planned
    BY <1>1, <1>4, <2>1
  <2>3. ~(r = "actor" /\ call = "init_actor")
    <3>1. call = "init_actor" => call' \in {"load_actor", "generate"}
      BY <1>1 DEF OrderInv
    <3> QED BY <1>4, <3>1, RolesOf
  <2> QED BY <1>1, <1>2, <2>2, <2>3 DEF Rests, Home
<1>5. (\A r \in config.roles : InitOf(r) \notin Planned /\ r # RoleOf(call) => Rests(r))'
  BY <1>1, <1>4
<1>6. (\A r \in config.optimizer : ~(call \in Updates /\ r = RoleOf(call)) => Held(r))'
  BY <1>1, <1>2 DEF Held
<1>7. (call \notin Rollouts => engine.weights = None)'
  BY <1>1, <1>2
<1>8. (call # "init_actor" /\ "init_actor" \notin Planned /\ ~config.freeCache => engine.cache)'
  BY <1>1, <1>2
<1>9. StreamsApart'
  <2>1. module["actor"].weights # None => call = "init_actor" \/ Apart
    BY <1>1 DEF StreamsApart, Apart
  <2> QED BY <1>1, <1>2, <2>1 DEF StreamsApart, Apart, Generating
<1> QED BY <1>3, <1>5, <1>6, <1>7, <1>8, <1>9 DEF RestInv

\* A call of the driver keeps the invariant.
LEMMA CallKeeps ==
  ASSUME IInv, Call
  PROVE  IInv'
BY CallTypes, CallOrder, CallPlan, CallSave, CallRest DEF IInv

-----------------------------------------------------------------------------
(* The plans of the driver. *)

\* A plan that lists the calls of S in their order, with stages between a and b.
Lists(p, S, a, b) ==
  /\ p \in Seq(Calls \cup {"track"}) /\ Range(p) = S /\ Rising(p)
  /\ \A c \in S : Stage(c) \in a..b

\* A plan of one call.
LEMMA ListsOne ==
  ASSUME NEW c \in Calls \cup {"track"}, NEW a, a = Stage(c)
  PROVE  Lists(<<c>>, {c}, a, a)
<1>1. Stage(c) \in Nat
  BY Stages DEF Calls, Inits, Loads, Rollouts, Scores, Updates, Saves
<1>2. /\ <<c>> \in Seq(Calls \cup {"track"}) /\ DOMAIN <<c>> = 1..1 /\ <<c>>[1] = c
  OBVIOUS
<1>3. \A i \in 1..1 : i = 1
  OBVIOUS
<1>4. Range(<<c>>) = {c} /\ Rising(<<c>>)
  BY <1>2, <1>3 DEF Range, Rising
<1>5. \A d \in {c} : Stage(d) \in a..a
  BY <1>1
<1> QED BY <1>2, <1>4, <1>5 DEF Lists

\* Two plans, the second with later stages.
LEMMA ListsThen ==
  ASSUME NEW p, NEW q, NEW S, NEW T, NEW a \in Nat, NEW b \in Nat, NEW c \in Nat, NEW d \in Nat,
         Lists(p, S, a, b), Lists(q, T, c, d), b < c, a <= b, c <= d
  PROVE  Lists(p \o q, S \cup T, a, d)
<1> DEFINE m == Len(p)
           n == Len(q)
           pq == p \o q
<1>1. /\ p \in Seq(Calls \cup {"track"}) /\ q \in Seq(Calls \cup {"track"})
      /\ Range(p) = S /\ Range(q) = T /\ Rising(p) /\ Rising(q)
      /\ (\A x \in S : Stage(x) \in a..b) /\ \A x \in T : Stage(x) \in c..d
  BY DEF Lists
<1>2. m \in Nat /\ n \in Nat /\ DOMAIN p = 1..m /\ DOMAIN q = 1..n
  BY <1>1, LenProperties
<1>3. /\ pq \in Seq(Calls \cup {"track"}) /\ Len(pq) = m + n
      /\ \A i \in 1..(m + n) : pq[i] = IF i <= m THEN p[i] ELSE q[i - m]
  BY <1>1, ConcatProperties
<1>4. DOMAIN pq = 1..(m + n)
  BY <1>3, LenProperties
<1> HIDE DEF m, n, pq
<1>5. /\ \A i \in 1..m : i \in 1..(m + n) /\ pq[i] = p[i]
      /\ \A i \in 1..n : m + i \in 1..(m + n) /\ pq[m + i] = q[i]
  <2>1. \A i \in 1..m : i \in 1..(m + n) /\ i <= m
    BY <1>2
  <2>2. \A i \in 1..n : m + i \in 1..(m + n) /\ ~(m + i <= m) /\ (m + i) - m = i
    BY <1>2
  <2> QED BY <1>3, <2>1, <2>2
<1>6. \A i \in 1..(m + n) : i \in 1..m \/ \E j \in 1..n : i = m + j
  <2> TAKE i \in 1..(m + n)
  <2>1. i > m => i - m \in 1..n /\ i = m + (i - m)
    BY <1>2
  <2> QED BY <1>2, <2>1
<1>7. Range(pq) = S \cup T
  <2>1. ASSUME NEW x \in Range(pq) PROVE x \in S \cup T
    <3>1. PICK i \in 1..(m + n) : x = pq[i]
      BY <1>4 DEF Range
    <3>2. CASE i \in 1..m
      BY <1>1, <1>2, <1>5, <3>1, <3>2 DEF Range
    <3>3. CASE \E j \in 1..n : i = m + j
      BY <1>1, <1>2, <1>5, <3>1, <3>3 DEF Range
    <3> QED BY <1>6, <3>2, <3>3
  <2>2. ASSUME NEW x \in S PROVE x \in Range(pq)
    BY <1>1, <1>2, <1>4, <1>5 DEF Range
  <2>3. ASSUME NEW x \in T PROVE x \in Range(pq)
    BY <1>1, <1>2, <1>4, <1>5 DEF Range
  <2> QED BY <2>1, <2>2, <2>3
<1>8. Rising(pq)
  <2>1. SUFFICES ASSUME NEW i \in 1..(m + n), NEW j \in 1..(m + n), i < j
                 PROVE  Stage(pq[i]) < Stage(pq[j])
    BY <1>4 DEF Rising
  <2>2. CASE i \in 1..m /\ j \in 1..m
    BY <1>1, <1>2, <1>5, <2>1, <2>2 DEF Rising
  <2>3. CASE i \in 1..m /\ j \notin 1..m
    <3>1. PICK l \in 1..n : j = m + l
      BY <1>6, <2>3
    <3>2. p[i] \in S /\ q[l] \in T
      BY <1>1, <1>2, <2>3 DEF Range
    <3>3. Stage(p[i]) \in a..b /\ Stage(q[l]) \in c..d
      BY <1>1, <3>2
    <3>4. Stage(p[i]) < Stage(q[l])
      BY <3>3
    <3> QED BY <1>5, <2>3, <3>1, <3>4
  <2>4. CASE i \notin 1..m
    <3>1. PICK k \in 1..n : i = m + k
      BY <1>6, <2>4
    <3>2. PICK l \in 1..n : j = m + l
      BY <1>2, <1>6, <2>1, <2>4
    <3>3. k < l
      BY <1>2, <2>1, <3>1, <3>2
    <3> QED BY <1>1, <1>2, <1>5, <3>1, <3>2, <3>3 DEF Rising
  <2> QED BY <2>2, <2>3, <2>4
<1>9. \A x \in S \cup T : Stage(x) \in a..d
  <2>1. a..b \subseteq a..d /\ c..d \subseteq a..d
    OBVIOUS
  <2> QED BY <1>1, <2>1
<1> QED BY <1>3, <1>7, <1>8, <1>9 DEF Lists, pq

\* The plan of nothing.
LEMMA ListsNone ==
  ASSUME NEW a, NEW b
  PROVE  Lists(<<>>, {}, a, b)
<1>1. /\ <<>> \in Seq(Calls \cup {"track"}) /\ DOMAIN <<>> = {}
  OBVIOUS
<1>2. Range(<<>>) = {} /\ Rising(<<>>)
  BY <1>1 DEF Range, Rising
<1> QED BY <1>1, <1>2 DEF Lists

\* A plan that is left out on a condition.
LEMMA ListsWhen ==
  ASSUME NEW p, NEW S, NEW a, NEW b, Lists(p, S, a, b), NEW condition \in BOOLEAN
  PROVE  Lists(When(condition, p), {c \in S : condition}, a, b)
<1>1. CASE condition
  BY <1>1 DEF When
<1>2. CASE ~condition
  <2>1. {c \in S : condition} = {}
    BY <1>2
  <2> QED BY <1>2, <2>1, ListsNone DEF When
<1> QED BY <1>1, <1>2

\* One call that is planned for a role in use.
LEMMA ListsUses ==
  ASSUME NEW r, NEW c \in Calls, NEW a, a = Stage(c)
  PROVE  Lists(Uses(r, <<c>>), {d \in {c} : r \in config.roles}, a, a)
<1>1. Lists(<<c>>, {c}, a, a)
  BY ListsOne
<1>2. CASE r \in config.roles
  BY <1>1, <1>2 DEF Uses, When
<1>3. CASE r \notin config.roles
  <2>1. {d \in {c} : r \in config.roles} = {}
    BY <1>3
  <2> QED BY <1>3, <2>1, ListsNone DEF Uses, When
<1> QED BY <1>2, <1>3

\* The names of the calls.
LEMMA AllCalls ==
  /\ \A c \in {"init_critic", "init_ref", "init_rm", "init_actor", "load_actor", "load_critic",
               "generate", "old_log_prob", "ref", "values", "rm", "update_critic",
               "update_actor", "validate", "save_actor", "save_critic"} : c \in Calls
  /\ "track" \notin Calls /\ "none" \notin Calls
BY DEF Calls, Inits, Loads, Rollouts, Scores, Updates, Saves

\* What a new process plans.
Opened(checkpoint) ==
  {c \in {"init_critic"} : "critic" \in config.roles}
  \cup {c \in {"init_ref"} : "ref" \in config.roles}
  \cup {c \in {"init_rm"} : "rm" \in config.roles} \cup {"init_actor"}
  \cup {d \in {"load_actor"} \cup {c \in {"load_critic"} : "critic" \in config.roles} :
          checkpoint # None}

\* init_workers and _load_checkpoint in their order.
LEMMA OpeningLists ==
  ASSUME NEW checkpoint
  PROVE  Lists(Opening(checkpoint), Opened(checkpoint), 1, 6)
<1> DEFINE p1 == Uses("critic", <<"init_critic">>)
           p2 == p1 \o Uses("ref", <<"init_ref">>)
           p3 == p2 \o Uses("rm", <<"init_rm">>)
           p4 == p3 \o <<"init_actor">>
           q == <<"load_actor">> \o Uses("critic", <<"load_critic">>)
           S1 == {c \in {"init_critic"} : "critic" \in config.roles}
           S2 == S1 \cup {c \in {"init_ref"} : "ref" \in config.roles}
           S3 == S2 \cup {c \in {"init_rm"} : "rm" \in config.roles}
           S4 == S3 \cup {"init_actor"}
           T == {"load_actor"} \cup {c \in {"load_critic"} : "critic" \in config.roles}
<1>1. Lists(p1, S1, 1, 1)
  BY ListsUses, Stages, AllCalls
<1>2. Lists(p2, S2, 1, 2)
  <2>1. Lists(Uses("ref", <<"init_ref">>), {c \in {"init_ref"} : "ref" \in config.roles}, 2, 2)
    BY ListsUses, Stages, AllCalls
  <2> HIDE DEF p1, S1
  <2> QED BY <1>1, <2>1, ListsThen
<1>3. Lists(p3, S3, 1, 3)
  <2>1. Lists(Uses("rm", <<"init_rm">>), {c \in {"init_rm"} : "rm" \in config.roles}, 3, 3)
    BY ListsUses, Stages, AllCalls
  <2> HIDE DEF p2, S2
  <2> QED BY <1>2, <2>1, ListsThen
<1>4. Lists(p4, S4, 1, 4)
  <2>1. Lists(<<"init_actor">>, {"init_actor"}, 4, 4)
    BY ListsOne, Stages, AllCalls
  <2> HIDE DEF p3, S3
  <2> QED BY <1>3, <2>1, ListsThen
<1>5. Lists(q, T, 5, 6)
  <2>1. Lists(<<"load_actor">>, {"load_actor"}, 5, 5)
    BY ListsOne, Stages, AllCalls
  <2>2. Lists(Uses("critic", <<"load_critic">>), {c \in {"load_critic"} : "critic" \in config.roles}, 6, 6)
    BY ListsUses, Stages, AllCalls
  <2> QED BY <2>1, <2>2, ListsThen
<1>6. Lists(When(checkpoint # None, q), {d \in T : checkpoint # None}, 5, 6)
  <2> HIDE DEF q, T
  <2>1. CASE checkpoint # None
    BY <1>5, <2>1 DEF When
  <2>2. CASE checkpoint = None
    <3>1. {d \in T : checkpoint # None} = {}
      BY <2>2
    <3> QED BY <2>2, <3>1, ListsNone DEF When
  <2> QED BY <2>1, <2>2
<1>7. Lists(p4 \o When(checkpoint # None, q), S4 \cup {d \in T : checkpoint # None}, 1, 6)
  <2> HIDE DEF p4, S4, q, T
  <2> QED BY <1>4, <1>6, ListsThen
<1> QED BY <1>7 DEF Opening, Opened

\* What an iteration plans.
Iterated(s, validates, saves) ==
  {"generate", "old_log_prob"}
  \cup {c \in {"ref"} : "ref" \in config.roles}
  \cup {c \in {"values"} : "critic" \in config.roles}
  \cup {c \in {"rm"} : "rm" \in config.roles}
  \cup {c \in {"update_critic"} : "critic" \in config.roles}
  \cup {c \in {"update_actor"} : config.warmup <= s}
  \cup {c \in {"validate"} : validates}
  \cup {d \in {"save_actor"} \cup {c \in {"save_critic"} : "critic" \in config.roles}
              \cup {"track"} : saves}

\* One iteration of fit in its order.
LEMMA IterationLists ==
  ASSUME NEW s, NEW validates \in BOOLEAN, NEW saves \in BOOLEAN
  PROVE  Lists(Iteration(s) \o When(validates, <<"validate">>) \o When(saves, Saving),
               Iterated(s, validates, saves), 7, 17)
<1> DEFINE p1 == <<"generate", "old_log_prob">>
           p2 == p1 \o Uses("ref", <<"ref">>)
           p3 == p2 \o Uses("critic", <<"values">>)
           p4 == p3 \o Uses("rm", <<"rm">>)
           p5 == p4 \o Uses("critic", <<"update_critic">>)
           p6 == p5 \o When(config.warmup <= s, <<"update_actor">>)
           p7 == p6 \o When(validates, <<"validate">>)
           q == <<"save_actor">> \o Uses("critic", <<"save_critic">>) \o <<"track">>
           S1 == {"generate", "old_log_prob"}
           S2 == S1 \cup {c \in {"ref"} : "ref" \in config.roles}
           S3 == S2 \cup {c \in {"values"} : "critic" \in config.roles}
           S4 == S3 \cup {c \in {"rm"} : "rm" \in config.roles}
           S5 == S4 \cup {c \in {"update_critic"} : "critic" \in config.roles}
           S6 == S5 \cup {c \in {"update_actor"} : config.warmup <= s}
           S7 == S6 \cup {c \in {"validate"} : validates}
           T1 == {"save_actor"} \cup {c \in {"save_critic"} : "critic" \in config.roles}
           T == T1 \cup {"track"}
<1>1. Lists(p1, S1, 7, 8)
  <2>1. p1 \in Seq(Calls \cup {"track"}) /\ DOMAIN p1 = 1..2 /\ p1[1] = "generate" /\ p1[2] = "old_log_prob"
    BY AllCalls
  <2> HIDE DEF p1
  <2>2. 1..2 = {1, 2}
    OBVIOUS
  <2>3. Range(p1) = {"generate", "old_log_prob"}
    BY <2>1, <2>2 DEF Range
  <2>4. Rising(p1)
    BY <2>1, <2>2, Stages DEF Rising
  <2> QED BY <2>1, <2>3, <2>4, Stages DEF Lists
<1>2. Lists(p2, S2, 7, 9)
  <2>1. Lists(Uses("ref", <<"ref">>), {c \in {"ref"} : "ref" \in config.roles}, 9, 9)
    BY ListsUses, Stages, AllCalls
  <2> HIDE DEF p1, S1
  <2> QED BY <1>1, <2>1, ListsThen
<1>3. Lists(p3, S3, 7, 10)
  <2>1. Lists(Uses("critic", <<"values">>), {c \in {"values"} : "critic" \in config.roles}, 10, 10)
    BY ListsUses, Stages, AllCalls
  <2> HIDE DEF p2, S2
  <2> QED BY <1>2, <2>1, ListsThen
<1>4. Lists(p4, S4, 7, 11)
  <2>1. Lists(Uses("rm", <<"rm">>), {c \in {"rm"} : "rm" \in config.roles}, 11, 11)
    BY ListsUses, Stages, AllCalls
  <2> HIDE DEF p3, S3
  <2> QED BY <1>3, <2>1, ListsThen
<1>5. Lists(p5, S5, 7, 12)
  <2>1. Lists(Uses("critic", <<"update_critic">>), {c \in {"update_critic"} : "critic" \in config.roles}, 12, 12)
    BY ListsUses, Stages, AllCalls
  <2> HIDE DEF p4, S4
  <2> QED BY <1>4, <2>1, ListsThen
<1>6. Lists(p6, S6, 7, 13)
  <2>1. Lists(<<"update_actor">>, {"update_actor"}, 13, 13)
    BY ListsOne, Stages, AllCalls
  <2>2. Lists(When(config.warmup <= s, <<"update_actor">>), {c \in {"update_actor"} : config.warmup <= s}, 13, 13)
    <3>1. CASE config.warmup <= s
      BY <2>1, <3>1 DEF When
    <3>2. CASE ~(config.warmup <= s)
      <4>1. {c \in {"update_actor"} : config.warmup <= s} = {}
        BY <3>2
      <4> QED BY <3>2, <4>1, ListsNone DEF When
    <3> QED BY <3>1, <3>2
  <2> HIDE DEF p5, S5
  <2> QED BY <1>5, <2>2, ListsThen
<1>7. Lists(p7, S7, 7, 14)
  <2>1. Lists(<<"validate">>, {"validate"}, 14, 14)
    BY ListsOne, Stages, AllCalls
  <2>2. Lists(When(validates, <<"validate">>), {c \in {"validate"} : validates}, 14, 14)
    BY <2>1, ListsWhen
  <2> HIDE DEF p6, S6
  <2> QED BY <1>6, <2>2, ListsThen
<1>8. Lists(q, T, 15, 17)
  <2>1. Lists(<<"save_actor">>, {"save_actor"}, 15, 15) /\ Lists(<<"track">>, {"track"}, 17, 17)
    BY ListsOne, Stages, AllCalls
  <2>2. Lists(Uses("critic", <<"save_critic">>), {c \in {"save_critic"} : "critic" \in config.roles}, 16, 16)
    BY ListsUses, Stages, AllCalls
  <2>3. Lists(<<"save_actor">> \o Uses("critic", <<"save_critic">>), T1, 15, 16)
    BY <2>1, <2>2, ListsThen
  <2> HIDE DEF T1
  <2> QED BY <2>1, <2>3, ListsThen
<1>9. Lists(When(saves, q), {d \in T : saves}, 15, 17)
  <2> HIDE DEF q, T
  <2> QED BY <1>8, ListsWhen
<1>10. Lists(p7 \o When(saves, q), S7 \cup {d \in T : saves}, 7, 17)
  <2> HIDE DEF p7, S7, q, T
  <2> QED BY <1>7, <1>9, ListsThen
<1> QED BY <1>10 DEF Iteration, Saving, Iterated

-----------------------------------------------------------------------------
(* The other steps of the driver. *)

\* The tracker names a directory in which every role has just saved its weights.
LEMMA TrackKeeps ==
  ASSUME IInv, Track
  PROVE  IInv'
<1>1. /\ TypesInv /\ OutlineInv /\ OrderInv /\ PlanInv /\ SaveInv /\ RestInv /\ StreamsApart
      /\ config \in Configs /\ plan \in Seq(Calls \cup {"track"}) /\ Rising(plan)
      /\ call \in Calls \cup {"none"} /\ saved \in [Trained -> Recorded \cup {None}] /\ step \in Nat
      /\ module \in [Roles -> Module]
  BY DEF IInv, TypesInv, OrderInv
<1>2. /\ todo = <<>> /\ plan # <<>> /\ Head(plan) = "track" /\ plan' = Tail(plan)
      /\ tracked' = [saved EXCEPT !["actor"].step = step]
      /\ UNCHANGED <<config, module, engine, rng, drawn, batch, call, todo, step, saved, lives>>
  BY DEF Track
<1>3. /\ "track" \in Planned /\ plan' \in Seq(Calls \cup {"track"}) /\ Rising(plan')
      /\ Planned = Planned' \cup {"track"} /\ \A d \in Planned' : 17 < Stage(d)
  <2>1. /\ Head(plan) \in Range(plan) /\ Tail(plan) \in Seq(Calls \cup {"track"})
        /\ Rising(Tail(plan)) /\ Range(plan) = Range(Tail(plan)) \cup {Head(plan)}
        /\ \A c \in Range(Tail(plan)) : Stage(Head(plan)) < Stage(c)
    BY <1>1, <1>2, FirstOfPlan
  <2>2. Rising(plan') <=> Rising(Tail(plan))
    BY <1>2 DEF Rising
  <2> QED BY <1>2, <2>1, <2>2, Stages DEF Planned
<1>4. Planned' = {}
  <2>1. Planned \subseteq Calls \cup {"track"}
    BY <1>1, LenProperties DEF Planned, Range
  <2> QED BY <1>3, <2>1, Stages DEF Calls, Inits, Loads, Rollouts, Scores, Updates, Saves
<1>5. Planned = {"track"} /\ Coming' = {}
  BY <1>2, <1>3, <1>4 DEF Coming
<1>6. /\ call \in Saves /\ Kept("actor")
      /\ "critic" \in config.roles => Kept("critic")
  <2>1. call \in Saves => Kept(RoleOf(call))
    BY <1>1, <1>2 DEF SaveInv
  <2>2. /\ call = "save_actor" \/ (call = "save_critic" /\ Kept("actor"))
        /\ "critic" \in config.roles => call = "save_critic"
    BY <1>1, <1>5 DEF SaveInv
  <2> QED BY <2>1, <2>2, RolesOf DEF Saves
<1>7. /\ "actor" \in Trained /\ "actor" \in config.roles /\ config.optimizer \subseteq Trained
      /\ Trained = {"actor", "critic"} /\ Trained \subseteq Roles
  BY <1>1, ConfigFields DEF Trained, Roles
<1>8. saved["actor"] \in Recorded /\ [saved["actor"] EXCEPT !.step = step] \in Recorded
  BY <1>1, <1>6, <1>7 DEF Kept, Recorded, SavedState
<1>9. /\ tracked' \in [Trained -> Recorded \cup {None}]
      /\ tracked'["actor"] = [saved["actor"] EXCEPT !.step = step]
      /\ tracked'["critic"] = saved["critic"]
  BY <1>1, <1>2, <1>7, <1>8
<1>10. tracked' # None /\ tracked'["actor"] # None
  <2>1. Recorded \subseteq SavedState
    BY DEF Recorded
  <2>2. tracked' \in [Trained -> SavedState \cup {None}] /\ tracked'["actor"] \in SavedState
    BY <1>8, <1>9, <2>1
  <2> QED BY <2>2, NoneIsNoCheckpoint
<1>11. tracked'["actor"].weights = module["actor"].weights
  BY <1>6, <1>8, <1>9 DEF Kept, Recorded, SavedState
<1>12. "critic" \in config.roles =>
         tracked'["critic"] # None /\ tracked'["critic"].weights = module["critic"].weights
  BY <1>6, <1>9 DEF Kept
<1>13. TypesInv'
  <2>1. \A r \in Trained \cap config.roles : tracked'[r] # None
    BY <1>7, <1>10, <1>12
  <2> QED BY <1>1, <1>2, <1>3, <1>9, <2>1 DEF TypesInv, Phase
<1>14. OutlineInv'
  BY <1>1, <1>2 DEF OutlineInv, Describes, OfModule, OfEngine, Phase, Apart, Generating
<1>15. call # "none" /\ call # "init_actor"
  BY <1>6 DEF Saves
<1>16. OrderInv'
  BY <1>1, <1>2, <1>3, <1>4, <1>5, <1>15 DEF OrderInv
<1>17. PlanInv'
  <2>1. Training' => Served'
    BY <1>1, <1>2 DEF PlanInv, Training, Served
  <2> QED BY <1>4, <1>5, <2>1 DEF PlanInv
<1>18. SaveInv'
  BY <1>1, <1>2, <1>4, <1>6, RolesOf DEF SaveInv, Kept, Saves
<1>19. RestInv'
  <2>1. \A r : InitOf(r) # "track"
    BY DEF InitOf
  <2>2. (\A r \in Roles : InitOf(r) \in Planned \/ r \notin config.roles => module[r] = Unbuilt)'
    BY <1>1, <1>2, <1>4 DEF RestInv
  <2>3. (\A r \in config.roles : InitOf(r) \notin Planned /\ r # RoleOf(call) => Rests(r))'
    BY <1>1, <1>2, <1>5, <2>1 DEF RestInv, Rests, Home
  <2>4. (\A r \in config.optimizer : ~(call \in Updates /\ r = RoleOf(call)) => Held(r))'
    <3>1. \A r \in Trained : r \notin config.roles => module[r].state # "gpu"
      BY <1>1, <1>7 DEF RestInv, Unbuilt
    <3>2. \A r \in Trained : module[r].state # "gpu" \/ module[r].weights = tracked'[r].weights
      BY <1>7, <1>11, <1>12, <3>1
    <3> QED BY <1>2, <1>7, <1>10, <3>2 DEF Held
  <2>5. (call \notin Rollouts => engine.weights = None)'
    BY <1>1, <1>2 DEF RestInv
  <2>6. (call # "init_actor" /\ "init_actor" \notin Planned /\ ~config.freeCache => engine.cache)'
    BY <1>1, <1>2, <1>5 DEF RestInv
  <2> QED BY <2>2, <2>3, <2>4, <2>5, <2>6 DEF RestInv
<1>20. StreamsApart'
  BY <1>1, <1>2 DEF StreamsApart, Generating
<1> QED BY <1>13, <1>14, <1>16, <1>17, <1>18, <1>19, <1>20 DEF IInv

\* The next iteration begins with generation, and needs nothing that is not there.
LEMMA IterateKeeps ==
  ASSUME IInv, Iterate
  PROVE  IInv'
<1>1. /\ TypesInv /\ OutlineInv /\ OrderInv /\ PlanInv /\ SaveInv /\ RestInv /\ StreamsApart
      /\ config \in Configs
  BY DEF IInv, TypesInv
<1>2. /\ todo = <<>> /\ plan = <<>> /\ step' = step + 1
      /\ UNCHANGED <<config, module, engine, rng, drawn, batch, call, todo, saved, tracked, lives>>
  BY DEF Iterate
<1>3. PICK validates \in BOOLEAN, saves \in BOOLEAN :
        plan' = Iteration(step') \o When(validates, <<"validate">>) \o When(saves, Saving)
  BY DEF Iterate
<1> DEFINE S == Iterated(step', validates, saves)
<1>4. Lists(plan', S, 7, 17)
  BY <1>3, IterationLists
<1>5. /\ plan' \in Seq(Calls \cup {"track"}) /\ Range(plan') = S /\ Rising(plan')
      /\ \A c \in S : Stage(c) \in 7..17
  BY <1>4 DEF Lists
<1>6. /\ "generate" \in S /\ "old_log_prob" \in S
      /\ "track" \in S => "save_actor" \in S /\ ("critic" \in config.roles => "save_critic" \in S)
      /\ \A c \in S \cap Calls : RoleOf(c) \in config.roles
  <2>1. "actor" \in config.roles
    BY <1>1, ConfigFields
  <2> QED BY <2>1, RolesOf, AllCalls DEF Iterated
<1> HIDE DEF S
<1>7. Planned' = S /\ Planned = {} /\ Coming' = S
  BY <1>2, <1>5 DEF Planned, Coming, Range
<1>8. S \cap (Inits \cup Loads) = {}
  BY <1>5, Stages DEF Inits, Loads
<1>9. call # "none"
  BY <1>1, <1>7 DEF OrderInv
<1>10. Head(plan') = "generate"
  <2>1. plan' # <<>>
    BY <1>5, <1>6 DEF Range
  <2>2. /\ Head(plan') \in S /\ S = Range(Tail(plan')) \cup {Head(plan')}
        /\ \A c \in Range(Tail(plan')) : Stage(Head(plan')) < Stage(c)
    BY <1>5, <2>1, FirstOfPlan
  <2>3. SUFFICES ASSUME Head(plan') # "generate" PROVE FALSE
    OBVIOUS
  <2>4. Stage(Head(plan')) < Stage("generate") /\ Stage(Head(plan')) \in 7..17
    BY <1>5, <1>6, <2>2, <2>3
  <2> QED BY <2>4, Stages
<1>11. TypesInv'
  BY <1>1, <1>2, <1>5 DEF TypesInv, Phase
<1>12. OutlineInv'
  BY <1>1, <1>2 DEF OutlineInv, Describes, OfModule, OfEngine, Phase, Apart, Generating
<1>13. OrderInv'
  <2>1. (\A c \in (Planned \cup {call}) \cap Calls : RoleOf(c) \in config.roles)'
    BY <1>1, <1>2, <1>6, <1>7 DEF OrderInv
  <2>2. "init_actor" \notin S
    BY <1>8 DEF Inits
  <2>3. (todo # <<>> => call # "none" /\ \A c \in Planned : Stage(call) < Stage(c))'
    BY <1>2
  <2>4. (call = "none" => "init_actor" \in Planned)'
    BY <1>2, <1>9
  <2>5. (Coming \cap Inits # {} => Planned \subseteq Inits \cup Loads)'
    BY <1>7, <1>8
  <2> QED BY <1>5, <1>6, <1>7, <1>10, <2>1, <2>2, <2>3, <2>4, <2>5 DEF OrderInv
<1>14. PlanInv'
  <2>1. Training' => Served'
    BY <1>1, <1>2 DEF PlanInv, Training, Served
  <2>2. "init_actor" \notin S
    BY <1>8 DEF Inits
  <2> QED BY <1>6, <1>7, <1>8, <2>1, <2>2 DEF PlanInv
<1>15. SaveInv'
  BY <1>1, <1>2, <1>6, <1>7 DEF SaveInv, Kept
<1>16. RestInv'
  <2>1. \A r : InitOf(r) \in Inits
    BY DEF InitOf, Inits
  <2>2. (\A r \in Roles : InitOf(r) \in Planned \/ r \notin config.roles => module[r] = Unbuilt)'
    BY <1>1, <1>2, <1>7, <1>8, <2>1 DEF RestInv
  <2>3. (\A r \in config.roles : InitOf(r) \notin Planned /\ r # RoleOf(call) => Rests(r))'
    BY <1>1, <1>2, <1>7 DEF RestInv, Rests, Home
  <2>4. (\A r \in config.optimizer : ~(call \in Updates /\ r = RoleOf(call)) => Held(r))'
    BY <1>1, <1>2 DEF RestInv, Held
  <2>5. (call \notin Rollouts => engine.weights = None)'
    BY <1>1, <1>2 DEF RestInv
  <2>6. (call # "init_actor" /\ "init_actor" \notin Planned /\ ~config.freeCache => engine.cache)'
    BY <1>1, <1>2, <1>7 DEF RestInv
  <2> QED BY <2>2, <2>3, <2>4, <2>5, <2>6 DEF RestInv
<1>17. StreamsApart'
  BY <1>1, <1>2 DEF StreamsApart, Generating
<1> QED BY <1>11, <1>12, <1>13, <1>14, <1>15, <1>16, <1>17 DEF IInv

\* A process that has just started, whatever the tracker names.
Started ==
  /\ config \in Configs
  /\ module = [r \in Roles |-> Unbuilt]
  /\ engine = [weights |-> None, cache |-> FALSE]
  /\ rng = [cuda |-> Fresh(0), train |-> Fresh(0), gen |-> Fresh(0)]
  /\ drawn = Undrawn(drawn.earlier) /\ drawn.earlier \in [Groups -> Nat] /\ batch = NoBatch
  /\ plan = Opening(tracked) /\ call = "none" /\ todo = <<>>
  /\ step \in Nat
  /\ saved = [r \in Trained |-> None]
  /\ tracked \in [Trained -> Recorded \cup {None}] \cup {None}
  /\ tracked # None => \A r \in Trained \cap config.roles : tracked[r] # None

\* A process that has just started satisfies the invariant.
LEMMA StartedKeeps == Started => IInv
<1> SUFFICES ASSUME Started PROVE IInv
  OBVIOUS
<1> DEFINE S == Opened(tracked)
<1>1. Lists(plan, S, 1, 6)
  BY OpeningLists DEF Started
<1>2. /\ plan \in Seq(Calls \cup {"track"}) /\ Range(plan) = S /\ Rising(plan)
      /\ \A c \in S : Stage(c) \in 1..6
  BY <1>1 DEF Lists
<1>3. config.roles \subseteq Roles /\ "actor" \in config.roles
  BY ConfigFields DEF Started
<1>4. /\ S \subseteq Inits \cup Loads /\ "init_actor" \in S
      /\ S \cap Loads # {} => tracked # None /\ "load_actor" \in S
      /\ \A c \in S : RoleOf(c) \in config.roles
      /\ \A r \in config.roles : InitOf(r) \in S
  BY <1>3, RolesOf DEF Opened, Inits, Loads, InitOf, Roles, Trained, Frozen
<1> HIDE DEF S
<1>5. Planned = S /\ Coming = S
  BY <1>2 DEF Planned, Coming, Started
<1>6. /\ "generate" \notin S /\ "old_log_prob" \notin S /\ "update_actor" \notin S
      /\ "track" \notin S /\ S \cap Updates = {}
  BY <1>4 DEF Inits, Loads, Updates
<1>7. \A r \in Roles : module[r] = Unbuilt
  BY DEF Started
<1>8. Phase = "none"
  BY DEF Started, Phase, NoBatch
<1>9. TypesInv
  <2>1. /\ Unbuilt \in Module /\ Unbuilt.at = "none" /\ Unbuilt.weights = None
    BY DEF Unbuilt, Module, Places, Version
  <2>2. Fresh(0) \in Streams /\ drawn \in Drawn
    BY DEF Fresh, Streams, Undrawn, Drawn, Started
  <2>3. engine \in [weights : Version, cache : BOOLEAN] /\ engine.weights \in {None, module["actor"].weights}
    BY DEF Started, Version
  <2>4. batch \in [sampled : Version, scored : Version] /\ batch.scored \in {None, batch.sampled}
    BY DEF Started, NoBatch, Version
  <2>5. todo \in Seq(Ops) /\ call \in Calls \cup {"none"}
    BY DEF Started
  <2>6. module \in [Roles -> Module] /\ \A r \in Roles : module[r].at = "none" <=> module[r].weights = None
    BY <2>1 DEF Started
  <2> QED BY <1>2, <1>8, <2>2, <2>3, <2>4, <2>5, <2>6 DEF TypesInv, Started
<1>10. OutlineInv
  BY DEF OutlineInv, Started
<1>11. OrderInv
  BY <1>2, <1>4, <1>5, <1>6, RolesOf DEF OrderInv, Started
<1>12. PlanInv
  BY <1>4, <1>5, <1>6, <1>8 DEF PlanInv, Started, Training
<1>13. SaveInv
  BY <1>5, <1>6 DEF SaveInv, Started, Saves
<1>14. RestInv
  <2>1. \A r \in config.optimizer : Held(r)
    BY <1>7, ConfigFields DEF Held, Unbuilt, Started, Roles
  <2> QED BY <1>4, <1>5, <1>7, <2>1 DEF RestInv, Started
<1>15. StreamsApart
  <2>1. module["actor"].weights = None
    BY <1>7 DEF Unbuilt, Roles, Trained
  <2> QED BY <2>1 DEF StreamsApart
<1> QED BY <1>9, <1>10, <1>11, <1>12, <1>13, <1>14, <1>15 DEF IInv

\* The first process has just started.
LEMMA InitStarts == Init => Started
BY DEF Init, Started, Undrawn

\* So has every later one.
LEMMA RestartStarts ==
  ASSUME IInv, Restart
  PROVE  Started'
<1>1. /\ config \in Configs
      /\ tracked \in [Trained -> Recorded \cup {None}] \cup {None}
      /\ tracked # None => \A r \in Trained \cap config.roles : tracked[r] # None
  BY DEF IInv, TypesInv
<1>2. /\ config' = config /\ tracked' = tracked /\ Boot(tracked)
      /\ step' = IF tracked = None THEN 0 ELSE tracked["actor"].step
  BY DEF Restart
<1>3. tracked # None => tracked["actor"].step \in Nat
  <2>1. "actor" \in Trained /\ "actor" \in config.roles
    BY <1>1, ConfigFields DEF Trained
  <2> QED BY <1>1, <2>1 DEF Recorded, SavedState
<1>4. step' \in Nat
  BY <1>2, <1>3
<1>5. plan' = Opening(tracked)'
  BY <1>2 DEF Boot, Opening, Uses
<1>6. drawn' = Undrawn(drawn'.earlier) /\ drawn'.earlier \in [Groups -> Nat]
  <2>1. drawn.earlier \in [Groups -> Nat] /\ drawn.gen \in [Groups -> Nat]
    BY DEF IInv, TypesInv, Drawn
  <2>2. [g \in Groups |-> drawn.earlier[g] + drawn.gen[g]] \in [Groups -> Nat]
    BY <2>1
  <2> QED BY <1>2, <2>2 DEF Boot, Undrawn
<1> QED BY <1>1, <1>2, <1>4, <1>5, <1>6 DEF Started, Boot

-----------------------------------------------------------------------------
(* The theorems. *)

\* The invariant that carries the rest.
THEOREM Invariant == Spec => []IInv
<1>1. Init => IInv
  BY InitStarts, StartedKeeps
<1>2. IInv /\ [Next]_vars => IInv'
  <2>1. IInv /\ Call => IInv'
    BY CallKeeps
  <2>2. IInv /\ Track => IInv'
    BY TrackKeeps
  <2>3. IInv /\ Iterate => IInv'
    BY IterateKeeps
  <2>4. IInv /\ Restart => IInv'
    <3>1. IInv /\ Restart => Started'
      BY RestartStarts
    <3> QED BY <3>1, StartedKeeps, PTL
  <2>5. IInv /\ Operate => IInv'
    BY OperateKeeps
  <2>6. IInv /\ UNCHANGED vars => IInv'
    <3> SUFFICES ASSUME IInv, UNCHANGED vars PROVE IInv'
      OBVIOUS
    <3> USE DEF vars, IInv
    <3>1. Planned' = Planned /\ Coming' = Coming /\ Phase' = Phase /\ (Served' <=> Served)
      BY DEF Planned, Coming, Phase, Served
    <3>2. TypesInv'
      BY <3>1 DEF TypesInv
    <3>3. OutlineInv'
      BY DEF OutlineInv, Describes, OfModule, OfEngine, Phase, Apart, Generating
    <3>4. OrderInv'
      BY <3>1 DEF OrderInv
    <3>5. PlanInv'
      BY <3>1 DEF PlanInv, Training
    <3>6. SaveInv'
      BY <3>1 DEF SaveInv, Kept
    <3>7. RestInv'
      BY <3>1 DEF RestInv, Rests, Home, Held
    <3>8. StreamsApart'
      BY DEF StreamsApart, Generating
    <3> QED BY <3>2, <3>3, <3>4, <3>5, <3>6, <3>7, <3>8
  <2> QED BY <2>1, <2>2, <2>3, <2>4, <2>5, <2>6 DEF Next, Stop
<1> QED BY <1>1, <1>2, PTL DEF Spec

\* Every variable keeps its type; what is sampled and not yet scored was sampled by the
\* weights as they are (fsdp_workers.py and the driver's fit).
THEOREM TypeCorrect == Spec => []TypesInv
<1>1. IInv => TypesInv
  BY DEF IInv
<1> QED BY <1>1, Invariant, PTL

\* No operation finds its operands in the wrong memory, whatever is offloaded and however
\* often the driver calls, if a reward model has a chat template of its own to switch to.
THEOREM OperandsAreReady ==
  ASSUME \A c \in Configs : "rm" \in c.roles => c.template
  PROVE  Spec => []OperandsReady
<1>1. IInv => OperandsReady
  <2> SUFFICES ASSUME IInv, todo # <<>> PROVE Ready(Head(todo))
    BY DEF OperandsReady
  <2>1. TypesInv /\ OutlineInv /\ OrderInv /\ config \in Configs
    BY DEF IInv, TypesInv
  <2>2. PICK s \in Knowledge : Acts(s)
    BY <2>1, Underway
  <2> DEFINE name == Head(todo).op
             m == module[On]
  <2>3. /\ MayDo(config, call, s, name) /\ OfModule(s, On) /\ OfEngine(s)
        /\ On = RoleOf(call) /\ call \in Calls
    BY <2>2 DEF Acts, Describes
  <2>4. On \in config.roles
    BY <2>1, <2>3, BuiltBefore
  <2>5. name = "forward" => m.at \in {"gpu", "fsdp"} /\ (On = "rm" => config.template)
    BY <2>1, <2>3, <2>4 DEF MayDo, OfModule
  <2>6. name = "backward" => m.at = "gpu" /\ m.grad # "cpu"
    BY <2>3 DEF MayDo, OfModule, Knowledge
  <2>7. name = "optimizer_step" => m.at = "gpu" /\ m.grad = "gpu" /\ m.state # "cpu"
    BY <2>3 DEF MayDo, OfModule
  <2>8. name \in {"enter", "save", "restore"} => m.at = "gpu"
    BY <2>3 DEF MayDo, OfModule
  <2>9. name \in {"sample", "decode"} => engine.weights # None /\ engine.cache
    BY <2>3 DEF MayDo, OfEngine
  <2> QED BY <2>5, <2>6, <2>7, <2>8, <2>9 DEF Ready, On
<1> QED BY <1>1, Invariant, PTL

\* Between two calls everything is where the configuration wants it, and an engine that
\* frees its cache holds none while a model is trained.
THEOREM RestIsKept == Spec => []AtRest
<1>1. IInv => AtRest
  <2> SUFFICES ASSUME IInv PROVE AtRest
    OBVIOUS
  <2>1. TypesInv /\ RestInv /\ PlanInv /\ config \in Configs
    BY DEF IInv, TypesInv
  <2>2. Training => engine.weights = None /\ (config.freeCache => ~engine.cache)
    <3>1. Training => call \notin Rollouts
      BY DEF Training, Rollouts
    <3> QED BY <2>1, <3>1 DEF RestInv, PlanInv, Served
  <2>3. ASSUME todo = <<>>
        PROVE  /\ \A r \in config.param :
                    module[r].at \in {"none", "cpu"} \/ (r = "actor" /\ call = "init_actor")
               /\ \A r \in config.optimizer :
                    module[r].state # "gpu"
                      \/ (tracked # None /\ module[r].weights = tracked[r].weights)
               /\ \A r \in Roles \ {"critic"} : module[r].full = None
    <3>1. ASSUME NEW r \in Roles
          PROVE  \/ module[r] = Unbuilt \/ Rests(r)
                 \/ (r = "actor" /\ call = "init_actor")
      BY <2>1, <2>3, <3>1, BetweenCalls DEF RestInv
    <3>2. config.param \subseteq Roles /\ config.param \cap Frozen = {}
      BY <2>1, ConfigFields DEF Roles, Trained, Frozen
    <3>3. \A r \in config.param :
            module[r].at \in {"none", "cpu"} \/ (r = "actor" /\ call = "init_actor")
      BY <3>1, <3>2 DEF Unbuilt, Rests, Home
    <3>4. \A r \in Roles \ {"critic"} : module[r].full = None
      BY <2>3, <3>1, BetweenCalls DEF Unbuilt, Rests
    <3>5. \A r \in config.optimizer : Held(r)
      BY <2>3, BetweenCalls
    <3> QED BY <3>3, <3>4, <3>5 DEF Held
  <2> QED BY <2>2, <2>3 DEF AtRest
<1> QED BY <1>1, Invariant, PTL

\* Training and generation draw from streams of their own: training's goes on where it
\* stopped over any number of calls and iterations, and through a checkpoint into the next
\* process, as its state is saved; generation's over any number of calls of a process, in
\* each of which it begins again.
THEOREM StreamsStayApart == Spec => []StreamsApart
<1>1. IInv => StreamsApart
  BY DEF IInv
<1> QED BY <1>1, Invariant, PTL

\* Every step of the workers is a step of the one policy, or none.
LEMMA StepsOfOnePolicy ==
  ASSUME IInv, [Next]_vars
  PROVE  [Promise!Next]_(Promise!vars)
<1>1. TypesInv /\ OutlineInv /\ OrderInv /\ PlanInv /\ "actor" \in Roles
  BY DEF IInv, Roles, Trained
<1>2. ASSUME module' = module, batch' = batch PROVE UNCHANGED Promise!vars
  BY <1>2 DEF Promise!vars, Versions
<1>3. CASE Call \/ Track \/ Iterate \/ Stop \/ UNCHANGED vars
  BY <1>2, <1>3 DEF Call, Track, Iterate, Stop, vars
<1>4. CASE Restart
  <2>1. module'["actor"].weights = None /\ batch' = NoBatch
    BY <1>1, <1>4 DEF Restart, Boot, Unbuilt
  <2> QED BY <2>1 DEF Promise!Next, Promise!Resume, Versions, NoBatch
<1>5. CASE Operate
  <2> DEFINE name == Head(todo).op
             w == module["actor"].weights
  <2>1. todo # <<>>
    BY <1>5, OperateFrame
  <2>2. PICK s \in Knowledge : Acts(s)
    BY <1>1, <2>1, Underway
  <2>3. /\ Changes(name) /\ On = RoleOf(call) /\ MayDo(config, call, s, name)
        /\ OfModule(s, On) /\ OfEngine(s) /\ s.batch = Phase
        /\ module \in [Roles -> Module] /\ On \in Roles
        /\ batch.scored \in {None, batch.sampled}
    BY <1>1, <1>5, <2>2, OperateChanges DEF Acts, Describes, TypesInv
  <2>4. w \in Nat \cup {None} /\ (w = None <=> module["actor"].at = "none")
    BY <1>1, <2>3 DEF TypesInv, Module, Version
  <2>5. CASE name = "forward"
    <3>1. Forward /\ module'["actor"].weights = w
      BY <1>1, <1>5, <2>3, <2>5, OperationByName DEF Changes
    <3>2. CASE call # "old_log_prob"
      <4>1. batch' = batch
        BY <3>1, <3>2 DEF Forward
      <4> QED BY <3>1, <4>1 DEF Promise!vars, Versions
    <3>3. CASE call = "old_log_prob"
      <4>1. On = "actor" /\ Phase = "sampled" /\ module["actor"].full = None
        BY <2>3, <2>5, <3>3, RolesOf DEF MayDo, OfModule
      <4>2. batch.sampled = w /\ w # None /\ batch.scored = None
        BY <1>1, <2>3, <4>1 DEF TypesInv, Phase
      <4>3. batch' = [batch EXCEPT !.scored = w]
        BY <3>1, <3>3, <4>1 DEF Forward, Used
      <4>4. batch'.sampled = batch.sampled /\ batch'.scored = w
        BY <1>1, <4>3 DEF TypesInv
      <4> QED BY <3>1, <4>2, <4>4 DEF Promise!Next, Promise!Score, Versions
    <3> QED BY <3>2, <3>3
  <2>6. CASE name = "sample"
    <3>1. Generate /\ module'["actor"].weights = w
      BY <1>1, <1>5, <2>3, <2>6, OperationByName DEF Changes
    <3>2. engine.weights = w /\ w # None
      BY <1>1, <2>3, <2>6 DEF MayDo, OfEngine, TypesInv
    <3>3. batch'.sampled = w /\ batch'.scored = None
      BY <3>1, <3>2 DEF Generate
    <3> QED BY <3>1, <3>2, <3>3 DEF Promise!Next, Promise!Sample, Versions
  <2>7. CASE name \notin {"forward", "sample"} /\ module'["actor"].weights = w
    <3>1. batch' = batch
      BY <2>3, <2>7 DEF Changes
    <3> QED BY <2>7, <3>1 DEF Promise!vars, Versions
  <2>8. CASE name \notin {"forward", "sample"} /\ module'["actor"].weights # w
    <3>1. /\ On = "actor" /\ batch' = batch
          /\ name \in {"build", "build_critic", "build_model", "optimizer_step", "restore"}
      BY <1>1, <2>3, <2>8 DEF Changes
    <3>2. /\ module' = [module EXCEPT !["actor"] = Renewed("actor", name)]
          /\ module'["actor"].weights = Renewed("actor", name).weights
      BY <1>1, <1>5, <2>3, <3>1, ModuleRenewed
    <3>3. CASE name \in {"build", "build_critic", "build_model"}
      <4>1. w = None /\ module'["actor"].weights = 0
        BY <2>3, <2>4, <3>1, <3>2, <3>3 DEF MayDo, OfModule, Renewed
      <4> QED BY <3>1, <4>1, NoneIsNoVersion DEF Promise!vars, Versions
    <3>4. CASE name = "optimizer_step"
      <4>1. w \in Nat /\ w # None /\ module'["actor"].weights = w + 1
        BY <2>3, <2>4, <3>1, <3>2, <3>4, NoneIsNoVersion DEF MayDo, OfModule, Renewed
      <4>2. call = "update_actor" /\ Phase = "scored"
        BY <2>3, <3>1, <3>4, RolesOf DEF MayDo, Updates
      <4>3. batch.sampled # None /\ batch.scored = batch.sampled
        BY <2>3, <4>2 DEF Phase
      <4>4. w + 1 # None
        BY <4>1, NoneIsNoVersion
      <4> QED BY <3>1, <4>1, <4>3, <4>4 DEF Promise!Next, Promise!Learn, Versions
    <3>5. CASE name = "restore"
      <4>1. tracked # None /\ tracked["actor"] # None /\ "actor" \in Trained
        BY <1>1, <2>1, <2>2, <3>1, <3>5, RestoreFinds
      <4>2. tracked["actor"].weights \in Nat
        BY <1>1, <4>1 DEF TypesInv, Recorded, SavedState
      <4>3. module'["actor"].weights \in Nat
        BY <3>2, <3>5, <4>2 DEF Renewed
      <4>4. batch.sampled = None /\ batch.scored = None
        BY <2>3, <3>5 DEF MayDo, Phase
      <4> QED BY <3>1, <4>3, <4>4, NoneIsNoVersion DEF Promise!Next, Promise!Resume, Versions
    <3> QED BY <3>1, <3>3, <3>4, <3>5
  <2> QED BY <2>5, <2>6, <2>7, <2>8
<1> QED BY <1>3, <1>4, <1>5 DEF Next

\* The engine and the FSDP modules together are one policy: what samples is what was
\* trained last, and an update starts from the log-probabilities of the sampler.
THEOREM OnePolicy == Spec => IsOnPolicy
<1>1. Init => Promise!Init
  BY DEF Init, Promise!Init, Versions, Unbuilt, NoBatch, Roles, Trained
<1>2. IInv /\ [Next]_vars => [Promise!Next]_(Promise!vars)
  BY StepsOfOnePolicy
<1> QED BY <1>1, <1>2, Invariant, PTL DEF Spec, IsOnPolicy, Promise!Spec
=============================================================================
