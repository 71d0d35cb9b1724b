----------------------------- MODULE WorkerGroup ------------------------------
(***************************************************************************)
(* The single controller: the driver places pools of processes, starts one    *)
(* Ray actor for each rank, and calls them with its data dealt out and put     *)
(* together again according to the dispatch mode of the method.              *)
(*                                                                         *)
(* A batch is a sequence of Rows rows.  A call names its group, its mode,      *)
(* whether the driver waits for it, and the earlier call whose future is its   *)
(* argument (0: the driver's own batch).                                    *)
(***************************************************************************)
EXTENDS Naturals, FiniteSets, Sequences, SequencesExt, FiniteSetsExt, Functions

CONSTANTS
  Configs,    \* the configurations: nodes, pools, parallel sizes and calls
  Rows,       \* the rows of a batch
  MaxPolls,   \* how often the driver looks for the register center (120)
  MaxDeaths   \* bounds the actors that die of themselves

ASSUME BoundsAssumption == {Rows, MaxPolls, MaxDeaths} \subseteq Nat /\ Rows > 0

VARIABLES
  config,   \* the configuration
  free,     \* the GPUs of each node that no placement group has
  placed,   \* for each pool the nodes of its placement groups
  actor,    \* for each group and rank, how far the actor has come
  master,   \* the address in the environment of each actor
  centers,  \* the register centers by name, and the address each one knows
  known,    \* the address the driver was told for each group
  polls,    \* how often the driver has looked for a register center
  driver,   \* what the driver is at, and the pool or the call it is at it for
  inbox,    \* the calls an actor has yet to take, in their order
  entered,  \* the call each actor is in, 0 between calls
  output,   \* for each call what the ranks returned
  result    \* for each call what the driver got

vars == <<config, free, placed, actor, master, centers, known, polls, driver, inbox, entered,
          output, result>>

cluster == <<free, placed>>
started == <<actor, master, centers, known, polls>>
called == <<inbox, entered, output, result>>

None == <<>>
Pools == DOMAIN config.pools
Calls == DOMAIN config.calls
SizeOf(pool) == FoldSeq(LAMBDA n, sum : n + sum, 0, pool)
WorldSize(g) == SizeOf(config.pools[g])
Ranks(g) == 0..(WorldSize(g) - 1)
WorkersOf(c) == UNION {{g} \X (0..(SizeOf(c.pools[g]) - 1)) : g \in DOMAIN c.pools}
Workers == WorkersOf(config)

ASSUME PoolsAreSequences ==
  \A c \in Configs :
    /\ c.pools \in Seq(Seq(Nat \ {0})) /\ c.pools # <<>>
    /\ \A g \in DOMAIN c.pools : SizeOf(c.pools[g]) \in Nat \ {0}

Modes == {"one_to_all", "rank_zero", "dp", "megatron", "pp_as_dp", "pp_only"}

\* A call is about a pool and about the batch or what an earlier call gives back, and a mode
\* that deals rows out or is about the grid finds that they divide.
ASSUME CallsFit ==
  \A c \in Configs :
    /\ c.tp \in Nat \ {0} /\ c.pp \in Nat \ {0}
    /\ c.calls \in Seq([group : Nat, mode : Modes, blocking : BOOLEAN, arg : Nat])
    /\ \A i \in DOMAIN c.calls :
         LET call == c.calls[i]  n == SizeOf(c.pools[call.group])  grid == c.tp * c.pp IN
         /\ call.group \in DOMAIN c.pools /\ call.arg < i
         /\ call.arg # 0 => c.calls[call.arg].mode \in {"dp", "megatron", "pp_as_dp"}
         /\ call.mode = "dp" => Rows % n = 0
         /\ call.mode \in {"megatron", "pp_as_dp", "pp_only"} => n % grid = 0
         /\ call.mode = "megatron" => Rows % (n \div grid) = 0
         /\ call.mode = "pp_as_dp" => Rows % ((n \div grid) * c.pp) = 0

\* The name of a register center starts with the random prefix of its group.
CenterOf(g) == g

Init ==
  /\ config \in Configs
  /\ free = config.gpus
  /\ placed = [g \in Pools |-> None]
  /\ actor = [w \in Workers |-> "absent"]
  /\ master = [w \in Workers |-> None]
  /\ centers = [g \in Pools |-> None]
  /\ known = [g \in Pools |-> None]
  /\ polls = 0
  /\ driver = [at |-> "place", on |-> 1]
  /\ inbox = [w \in Workers |-> <<>>]
  /\ entered = [w \in Workers |-> 0]
  /\ output = [i \in Calls |-> [r \in Ranks(config.calls[i].group) |-> None]]
  /\ result = [i \in Calls |-> None]

At(stage) == driver.at = stage
GoTo(stage, on) == driver' = [at |-> stage, on |-> on]

-----------------------------------------------------------------------------
(* The resource pool and the actors (ray/base.py). *)

\* The GPUs the entries of pool p take of node n when entry i is placed on nodes[i].
Taken(p, nodes, n) ==
  MapThenSumSet(LAMBDA i : config.pools[p][i], {i \in DOMAIN nodes : nodes[i] = n})

\* One placement group for each entry of the pool, each on one node (STRICT_PACK).
Placements(p) ==
  {nodes \in [DOMAIN config.pools[p] -> DOMAIN free] :
     \A n \in DOMAIN free : Taken(p, nodes, n) <= free[n]}

\* ray.get of pg.ready(): there is no timeout.
GetPlacementGroups ==
  /\ At("place")
  /\ \E nodes \in Placements(driver.on) :
       /\ placed' = [placed EXCEPT ![driver.on] = nodes]
       /\ free' = [n \in DOMAIN free |-> free[n] - Taken(driver.on, nodes, n)]
  /\ GoTo("create", driver.on)
  /\ UNCHANGED <<config, started, called>>

Uncreated(g) == {r \in Ranks(g) : actor[<<g, r>>] = "absent"}

\* The next rank; all but the first are told the address of the first.
CreateWorker ==
  /\ At("create") /\ Uncreated(driver.on) # {}
  /\ LET g == driver.on  r == Min(Uncreated(g)) IN
     /\ actor' = [actor EXCEPT ![<<g, r>>] = "pending"]
     /\ master' = [master EXCEPT ![<<g, r>>] = IF r = 0 THEN None ELSE known[g]]
     /\ IF r = 0 THEN GoTo("find", g) ELSE UNCHANGED driver
  /\ polls' = 0
  /\ UNCHANGED <<config, cluster, centers, known, called>>

\* What the register center of a group knows, None before there is one.
RankZeroInfo(g) == centers[CenterOf(g)]

\* The driver looks for the register center and asks it, or sleeps a second.
FindRegisterCenter ==
  /\ At("find")
  /\ LET g == driver.on  found == RankZeroInfo(g) IN
     \/ /\ found # None
        /\ known' = [known EXCEPT ![g] = found] /\ GoTo("create", g)
        /\ UNCHANGED polls
     \/ /\ found = None
        /\ polls' = polls + 1
        /\ IF polls' = MaxPolls THEN GoTo("failed", g) ELSE UNCHANGED driver
        /\ UNCHANGED known
  /\ UNCHANGED <<config, cluster, actor, master, centers, called>>

Dead(g) == {r \in Ranks(g) : actor[<<g, r>>] = "dead"}

\* The group of Megatron waits until every rank has told its place in the grid.
GroupCreated ==
  /\ At("create") /\ Uncreated(driver.on) = {}
  /\ config.megatron => \A r \in Ranks(driver.on) : actor[<<driver.on, r>>] = "up"
  /\ IF driver.on < Len(config.pools) THEN GoTo("place", driver.on + 1) ELSE GoTo("call", 1)
  /\ UNCHANGED <<config, cluster, started, called>>

-----------------------------------------------------------------------------
(* The actors (base/worker.py). *)

\* Every worker announces its own address.
EveryRankPublishes(w) ==
  /\ w \in Workers /\ actor[w] = "pending"
  /\ actor' = [actor EXCEPT ![w] = "new"]
  /\ master' = [master EXCEPT ![w] = IF @ = None THEN w ELSE @]
  /\ centers' = [g \in DOMAIN centers |-> IF centers[g] = None THEN w ELSE centers[g]]
  /\ UNCHANGED <<config, cluster, known, polls, driver, called>>

\* Rank 0 publishes its address before it waits for the others.  The workers inside a
\* WorkerDict run with DISABLE_WORKER_INIT and publish none.
New(w) ==
  /\ w \in Workers /\ actor[w] = "pending"
  /\ actor' = [actor EXCEPT ![w] = "new"]
  /\ master' = [master EXCEPT ![w] = IF w[2] = 0 THEN w ELSE @]
  /\ centers' = [centers EXCEPT ![CenterOf(w[1])] = IF w[2] = 0 THEN w ELSE @]
  /\ UNCHANGED <<config, cluster, known, polls, driver, called>>

\* The master in a worker's environment.
MasterOf(w) == master[w]

\* init_process_group returns when every rank is at the same master.
InitProcessGroup(w) ==
  /\ w \in Workers /\ actor[w] = "new"
  /\ \A r \in Ranks(w[1]) :
       actor[<<w[1], r>>] \in {"new", "up"} /\ MasterOf(<<w[1], r>>) = MasterOf(w)
  /\ actor' = [actor EXCEPT ![w] = "up"]
  /\ UNCHANGED <<config, cluster, master, centers, known, polls, driver, called>>

Die(w) ==
  /\ w \in Workers /\ actor[w] \in {"pending", "new", "up"}
  /\ Cardinality({v \in Workers : actor[v] = "dead"}) < MaxDeaths
  /\ actor' = [actor EXCEPT ![w] = "dead"]
  /\ UNCHANGED <<config, cluster, master, centers, known, polls, driver, called>>

\* A rank that waits for one that is dead is stopped by the timeout of the collective.
CollectiveTimeout(w) ==
  /\ w \in Workers
  /\ actor[w] = "new" \/ (actor[w] = "up" /\ entered[w] # 0)
  /\ Dead(w[1]) # {}
  /\ actor' = [actor EXCEPT ![w] = "dead"]
  /\ UNCHANGED <<config, cluster, master, centers, known, polls, driver, called>>

\* The thread of start_worker_aliveness_check stops the driver's process.
CheckWorkersAlive ==
  /\ config.checker /\ driver.at \in {"call", "get"}
  /\ \E g \in Pools : Dead(g) # {}
  /\ GoTo("failed", driver.on)
  /\ UNCHANGED <<config, cluster, started, called>>

-----------------------------------------------------------------------------
(* Dispatch and collect (base/decorator.py). *)

DpSize(g) == WorldSize(g) \div (config.tp * config.pp)

\* Megatron numbers the ranks of a tensor parallel group first and the stages last.
RankInfo(g, r) ==
  [tp |-> r % config.tp, dp |-> (r \div config.tp) % DpSize(g),
   pp |-> r \div (config.tp * DpSize(g))]

ModeOf(i) == config.calls[i].mode
GroupOf(i) == config.calls[i].group

\* Into how many parts the argument is dealt.
PartsOf(i) ==
  [one_to_all |-> 1, rank_zero |-> 1, pp_only |-> 1, dp |-> WorldSize(GroupOf(i)),
   megatron |-> DpSize(GroupOf(i)), pp_as_dp |-> DpSize(GroupOf(i)) * config.pp][ModeOf(i)]

\* The stages of the grid first.
StagesFirst(i, r) ==
  LET info == RankInfo(GroupOf(i), r) IN
  [one_to_all |-> 0, rank_zero |-> 0, pp_only |-> 0, dp |-> r, megatron |-> info.dp,
   pp_as_dp |-> info.pp * DpSize(GroupOf(i)) + info.dp][ModeOf(i)]

\* The part each rank gets.
ArgRank(i, r) ==
  LET info == RankInfo(GroupOf(i), r) IN
  [one_to_all |-> 0, rank_zero |-> 0, pp_only |-> 0, dp |-> r, megatron |-> info.dp,
   pp_as_dp |-> info.dp * config.pp + info.pp][ModeOf(i)]

\* execute_rank_zero calls the first worker, execute_all every one.
CalledRanks(i) == IF ModeOf(i) = "rank_zero" THEN {0} ELSE Ranks(GroupOf(i))

\* The ranks whose output is kept.
Collects(i, r) ==
  LET info == RankInfo(GroupOf(i), r) IN
  \/ ModeOf(i) \in {"one_to_all", "rank_zero", "dp"}
  \/ ModeOf(i) = "megatron" /\ info.tp = 0 /\ info.pp = config.pp - 1
  \/ ModeOf(i) = "pp_as_dp" /\ info.tp = 0 /\ info.pp = 0
  \/ ModeOf(i) = "pp_only" /\ info.tp = 0 /\ info.dp = 0

\* The outputs that are kept, in the order of the ranks.
Collected(i) ==
  LET n == WorldSize(GroupOf(i)) IN
  FlattenSeq([k \in 1..n |->
    IF k - 1 \in CalledRanks(i) /\ Collects(i, k - 1) THEN output[i][k - 1] ELSE <<>>])

Chunk(batch, parts, k) ==
  LET size == Len(batch) \div parts IN SubSeq(batch, k * size + 1, (k + 1) * size)

Batch == [k \in 1..Rows |-> k]

-----------------------------------------------------------------------------
(* The calls. *)

\* A call reaches the queue of every rank; a future is not waited for by the driver.
CallMethod ==
  /\ At("call") /\ driver.on <= Len(config.calls)
  /\ LET i == driver.on IN
     /\ inbox' = [w \in Workers |->
          IF w[1] = GroupOf(i) /\ w[2] \in CalledRanks(i) THEN Append(inbox[w], i)
          ELSE inbox[w]]
     /\ IF config.calls[i].blocking THEN GoTo("get", i) ELSE GoTo("call", i + 1)
  /\ UNCHANGED <<config, cluster, started, entered, output, result>>

Answered(i) == \A r \in CalledRanks(i) : output[i][r] # None

\* A dead actor answers nothing, and no method runs whose argument has failed.
Failed[i \in Calls] ==
  \/ \E r \in CalledRanks(i) : output[i][r] = None /\ r \in Dead(GroupOf(i))
  \/ config.calls[i].arg # 0 /\ Failed[config.calls[i].arg]

\* The calls the driver asks the outputs of: a blocking one, then the futures.
Wanted ==
  IF At("get") THEN {driver.on}
  ELSE {i \in Calls : At("call") /\ driver.on > Len(config.calls) /\ result[i] = None
                      /\ \A k \in 1..(i - 1) : result[k] # None}

GetResult ==
  /\ \E i \in Wanted :
       /\ Answered(i)
       /\ result' = [result EXCEPT ![i] = Collected(i)]
  /\ IF At("get") THEN GoTo("call", driver.on + 1) ELSE UNCHANGED driver
  /\ UNCHANGED <<config, cluster, started, inbox, entered, output>>

Finish ==
  /\ At("call") /\ driver.on > Len(config.calls) /\ Wanted = {}
  /\ GoTo("done", driver.on)
  /\ UNCHANGED <<config, cluster, started, called>>

\* ray.get raises for an actor that died.
ActorDied ==
  /\ \/ \E i \in Wanted : Failed[i]
     \/ config.megatron /\ At("create") /\ Uncreated(driver.on) = {} /\ Dead(driver.on) # {}
  /\ GoTo("failed", driver.on)
  /\ UNCHANGED <<config, cluster, started, called>>

\* The newest call is taken first.
TakesNewest(w) ==
  /\ w \in Workers /\ actor[w] = "up" /\ inbox[w] # <<>> /\ entered[w] = 0
  /\ LET i == Last(inbox[w]) IN
     /\ config.calls[i].arg # 0 => Answered(config.calls[i].arg)
     /\ entered' = [entered EXCEPT ![w] = i]
  /\ inbox' = [inbox EXCEPT ![w] = Front(@)]
  /\ UNCHANGED <<config, cluster, started, driver, output, result>>

\* An actor takes its calls in their order, and first gets the future in the argument.
Enter(w) ==
  /\ w \in Workers /\ actor[w] = "up" /\ inbox[w] # <<>> /\ entered[w] = 0
  /\ LET i == Head(inbox[w]) IN
     /\ config.calls[i].arg # 0 => Answered(config.calls[i].arg)
     /\ entered' = [entered EXCEPT ![w] = i]
  /\ inbox' = [inbox EXCEPT ![w] = Tail(@)]
  /\ UNCHANGED <<config, cluster, started, driver, output, result>>

\* What rank r is given of the batch: for a future, of what its call returned.
ArgOf(i, r) ==
  Chunk(IF config.calls[i].arg = 0 THEN Batch ELSE Collected(config.calls[i].arg),
        PartsOf(i), ArgRank(i, r))

\* What the rank returns: the rows it was given; those of all stages when the stages
\* gather them; its stage when it is asked for its part of the model.
Work(i, r) ==
  LET stage == config.tp * DpSize(GroupOf(i))   \* the ranks of one stage
      gathered == FlattenSeq([s \in 1..config.pp |->
                                ArgOf(i, (s - 1) * stage + (r % stage))])
  IN  CASE ModeOf(i) = "pp_only" -> <<RankInfo(GroupOf(i), r).pp + 1>>
        [] ModeOf(i) = "pp_as_dp" -> gathered
        [] OTHER -> ArgOf(i, r)

\* The collectives of a call need every rank of it in that call.
Reached(w, i) == entered[w] = i \/ output[i][w[2]] # None

Return(w) ==
  /\ w \in Workers /\ actor[w] = "up" /\ entered[w] # 0
  /\ LET i == entered[w] IN
     /\ \A r \in CalledRanks(i) : Reached(<<w[1], r>>, i)
     /\ output' = [output EXCEPT ![i][w[2]] = Work(i, w[2])]
  /\ entered' = [entered EXCEPT ![w] = 0]
  /\ UNCHANGED <<config, cluster, started, driver, inbox, result>>

Drive ==
  \/ GetPlacementGroups \/ CreateWorker \/ FindRegisterCenter \/ GroupCreated \/ CallMethod
  \/ GetResult \/ Finish \/ ActorDied \/ CheckWorkersAlive

Act(w) == New(w) \/ InitProcessGroup(w) \/ Enter(w) \/ Return(w) \/ CollectiveTimeout(w)

AllWorkers == UNION {WorkersOf(c) : c \in Configs}

Next == Drive \/ \E w \in AllWorkers : Act(w) \/ Die(w)

\* Ray runs the driver, and starts and runs every actor.
Spec == Init /\ [][Next]_vars /\ WF_vars(Drive) /\ \A w \in AllWorkers : WF_vars(Act(w))

-----------------------------------------------------------------------------
(* Properties. *)

\* Every rank of a group joins the rank 0 of its own group: the address in its
\* environment is the one that rank published, whichever group is started next to it.
OneMaster ==
  \A w \in Workers : actor[w] \in {"new", "up"} => master[w] = <<w[1], 0>>

\* What the driver gets for a call is the batch that went into it, each row once and in
\* its place, whatever the grid of the group and also when the batch comes out of the
\* futures of another group; a call about the model returns the stages in their order.
ResultsInOrder ==
  \A i \in Calls :
    result[i] # None =>
      CASE ModeOf(i) \in {"dp", "megatron", "pp_as_dp", "rank_zero"} -> result[i] = Batch
        [] ModeOf(i) = "pp_only" -> result[i] = [s \in 1..config.pp |-> s]
        [] ModeOf(i) = "one_to_all" ->
             \A r \in Ranks(GroupOf(i)) : Chunk(result[i], WorldSize(GroupOf(i)), r) = Batch

\* Groups that work next to each other on one node do not mix: neither their ranks when they
\* find each other, nor the rows that come back.
GroupsKeepApart == OneMaster /\ ResultsInOrder

\* The driver is never left waiting: every program ends, or fails because an actor is dead
\* or its register center was not there in time, except for a pool no node has room for.
DriverEnds ==
  <>[](\/ At("done")
       \/ At("failed") /\ (polls = MaxPolls \/ \E g \in Pools : Dead(g) # {})
       \/ At("place") /\ Placements(driver.on) = {})
=============================================================================
