-------------------------- MODULE WorkerGroupProofs --------------------------
(***************************************************************************)
(* Proofs about the worker groups: every rank joins the rank 0 of its own    *)
(* group, and the driver gets back what it sent, whatever the grid.           *)
(***************************************************************************)
EXTENDS WorkerGroup, SequenceLemmas

States == {"absent", "pending", "new", "up", "dead"}

\* The variables that the start of the groups is about keep their types.
StartTypes ==
  /\ config \in Configs
  /\ driver.on \in Nat
  /\ actor \in [Workers -> States]
  /\ DOMAIN master = Workers
  /\ DOMAIN centers = Pools /\ DOMAIN known = Pools

Nobody(g) == \A r \in Ranks(g) : actor[<<g, r>>] = "absent"

\* An address is told only of a group's own rank 0, and no rank but the first is created
\* before the driver knows it.
AddressInv ==
  /\ \A g \in Pools : centers[g] \in {None, <<g, 0>>} /\ known[g] \in {None, <<g, 0>>}
  /\ \A w \in Workers :
       /\ actor[w] # "absent" /\ w[2] # 0 => master[w] = <<w[1], 0>>
       /\ w[2] = 0 => master[w] \in {None, w}
       /\ w[2] = 0 /\ actor[w] \in {"new", "up"} => master[w] = w
  /\ At("place") => \A g \in Pools : g >= driver.on => Nobody(g)
  /\ At("create") \/ At("find") => \A g \in Pools : g > driver.on => Nobody(g)
  /\ At("create") /\ ~Nobody(driver.on) => known[driver.on] = <<driver.on, 0>>
  /\ At("place") \/ At("create") \/ At("find") => driver.on \in Pools

\* The workers are the ranks of the pools.
LEMMA WorkersAreRanks ==
  ASSUME config \in Configs
  PROVE  /\ \A g \in Pools : g \in Nat /\ WorldSize(g) \in Nat
         /\ \A g \in Pools : \A r \in Ranks(g) : <<g, r>> \in Workers /\ 0 \in Ranks(g) /\ r \in Nat
         /\ \A w \in Workers : w[1] \in Pools /\ w[2] \in Ranks(w[1]) /\ w = <<w[1], w[2]>>
<1>1. \A g \in Pools : g \in Nat /\ WorldSize(g) \in Nat
  BY PoolsAreSequences DEF Pools, WorldSize
<1>2. \A g \in Pools : \A r \in Ranks(g) : <<g, r>> \in Workers
  BY DEF Workers, WorkersOf, Pools, Ranks, WorldSize
<1>3. \A g \in Pools : \A r \in Ranks(g) : 0 \in Ranks(g) /\ r \in Nat
  BY <1>1 DEF Ranks
<1>4. \A w \in Workers : w[1] \in Pools /\ w[2] \in Ranks(w[1]) /\ w = <<w[1], w[2]>>
  BY DEF Workers, WorkersOf, Pools, Ranks, WorldSize
<1> QED BY <1>1, <1>2, <1>3, <1>4


\* The start of the groups in the first state.
LEMMA StartsEmpty == Init => StartTypes /\ AddressInv
<1> SUFFICES ASSUME Init PROVE StartTypes /\ AddressInv
  OBVIOUS
<1>1. config \in Configs
  BY DEF Init
<1>2. StartTypes
  BY <1>1 DEF Init, StartTypes, States
<1>3. \A g \in Pools : Nobody(g)
  BY <1>1, WorkersAreRanks DEF Init, Nobody
<1>4. driver.at = "place" /\ driver.on = 1 /\ 1 \in Pools
  BY <1>1, PoolsAreSequences DEF Init, Pools
<1>5. \A w \in Workers : actor[w] = "absent" /\ master[w] = None
  BY DEF Init
<1>6. \A g \in Pools : centers[g] = None /\ known[g] = None
  BY DEF Init
<1> QED BY <1>2, <1>3, <1>4, <1>5, <1>6 DEF AddressInv, At

\* What the driver does while it starts the groups.
LEMMA DriverKeeps ==
  ASSUME StartTypes, AddressInv,
         GetPlacementGroups \/ CreateWorker \/ FindRegisterCenter \/ GroupCreated
  PROVE  StartTypes' /\ AddressInv'
<1> DEFINE g == driver.on
<1>0. /\ config \in Configs /\ UNCHANGED config /\ g \in Pools /\ g \in Nat
      /\ Workers' = Workers /\ Pools' = Pools
      /\ \A h \in Pools : Ranks(h)' = Ranks(h)
  BY WorkersAreRanks DEF StartTypes, AddressInv, GetPlacementGroups, CreateWorker,
     FindRegisterCenter, GroupCreated, At, Workers, Pools, Ranks, WorldSize
<1>1. CASE GetPlacementGroups
  <2>1. /\ driver.at = "place" /\ driver' = [at |-> "create", on |-> g]
        /\ UNCHANGED <<actor, master, centers, known>>
    BY <1>1 DEF GetPlacementGroups, At, GoTo, started
  <2>2. \A h \in Pools : Nobody(h)' <=> Nobody(h)
    BY <1>0, <2>1 DEF Nobody
  <2>3. \A h \in Pools : h >= g => Nobody(h)
    BY <2>1 DEF AddressInv, At
  <2>4. Nobody(g) /\ \A h \in Pools : h > g => Nobody(h)
    BY <1>0, <2>3, WorkersAreRanks
  <2> QED BY <1>0, <2>1, <2>2, <2>4 DEF StartTypes, AddressInv, At
<1>2. CASE CreateWorker
  <2> DEFINE r == Min(Uncreated(g))
             w == <<g, r>>
  <2>1. /\ driver.at = "create" /\ Uncreated(g) # {}
        /\ actor' = [actor EXCEPT ![w] = "pending"]
        /\ master' = [master EXCEPT ![w] = IF r = 0 THEN None ELSE known[g]]
        /\ driver' = IF r = 0 THEN [at |-> "find", on |-> g] ELSE driver
        /\ UNCHANGED <<centers, known>>
    BY <1>2 DEF CreateWorker, At, GoTo
  <2>2. Uncreated(g) \subseteq Ranks(g) /\ Uncreated(g) \subseteq Nat
    BY <1>0, WorkersAreRanks DEF Uncreated
  <2>3. r \in Uncreated(g) /\ \A x \in Uncreated(g) : r <= x
    BY <2>1, <2>2, MinIsLeast
  <2> HIDE DEF r
  <2>4. r \in Ranks(g) /\ r \in Nat /\ w \in Workers /\ actor[w] = "absent" /\ 0 \in Ranks(g)
    BY <1>0, <2>2, <2>3, WorkersAreRanks DEF Uncreated
  <2>5. r # 0 => known[g] = <<g, 0>>
    <3> SUFFICES ASSUME r # 0 PROVE known[g] = <<g, 0>>
      OBVIOUS
    <3>1. 0 \notin Uncreated(g)
      BY <2>3, <2>4
    <3>2. ~Nobody(g)
      BY <2>4, <3>1 DEF Nobody, Uncreated
    <3> QED BY <2>1, <3>2 DEF AddressInv, At
  <2>6. \A h \in Pools : h # g /\ Nobody(h) => Nobody(h)'
    BY <1>0, <2>1, <2>4 DEF Nobody, StartTypes
  <2>7. StartTypes'
    BY <1>0, <2>1 DEF StartTypes, States
  <2>8. ASSUME NEW v \in Workers
        PROVE  /\ actor'[v] # "absent" /\ v[2] # 0 => master'[v] = <<v[1], 0>>
               /\ v[2] = 0 => master'[v] \in {None, v}
               /\ v[2] = 0 /\ actor'[v] \in {"new", "up"} => master'[v] = v
    <3>1. CASE v = w
      BY <2>1, <2>4, <2>5, <3>1 DEF StartTypes
    <3>2. CASE v # w
      BY <2>1, <2>8, <3>2 DEF AddressInv, StartTypes
    <3> QED BY <3>1, <3>2
  <2>9. driver'.on = g /\ driver'.at \in {"create", "find"} /\ (driver'.at = "create" => r # 0)
    BY <2>1
  <2> QED BY <1>0, <2>1, <2>5, <2>6, <2>7, <2>8, <2>9 DEF AddressInv, At
<1>3. CASE FindRegisterCenter
  <2>1. /\ driver.at = "find" /\ UNCHANGED <<actor, master, centers>>
        /\ \/ /\ centers[g] # None /\ known' = [known EXCEPT ![g] = centers[g]]
              /\ driver' = [at |-> "create", on |-> g]
           \/ /\ UNCHANGED known
              /\ driver' = [at |-> "failed", on |-> g] \/ UNCHANGED driver
    BY <1>3 DEF FindRegisterCenter, RankZeroInfo, CenterOf, At, GoTo
  <2>2. centers[g] # None => centers[g] = <<g, 0>>
    BY <1>0 DEF AddressInv
  <2> QED BY <1>0, <2>1, <2>2 DEF StartTypes, AddressInv, At, Nobody
<1>4. CASE GroupCreated
  <2>1. /\ driver.at = "create" /\ UNCHANGED <<actor, master, centers, known>>
        /\ driver' = IF g < Len(config.pools) THEN [at |-> "place", on |-> g + 1]
                     ELSE [at |-> "call", on |-> 1]
    BY <1>4 DEF GroupCreated, At, GoTo, started
  <2>2. g < Len(config.pools) => g + 1 \in Pools
    BY <1>0, PoolsAreSequences DEF Pools
  <2>3. \A h \in Pools : h >= g + 1 => h > g
    BY <1>0, WorkersAreRanks
  <2> QED BY <1>0, <2>1, <2>2, <2>3 DEF StartTypes, AddressInv, At, Nobody
<1> QED BY <1>1, <1>2, <1>3, <1>4

\* What one actor does to its own state.
LEMMA ActorKeeps ==
  ASSUME StartTypes, AddressInv, NEW w \in Workers,
         New(w) \/ InitProcessGroup(w) \/ Die(w) \/ CollectiveTimeout(w)
  PROVE  StartTypes' /\ AddressInv'
<1>0. /\ config \in Configs /\ UNCHANGED <<config, known, driver>>
      /\ Workers' = Workers /\ Pools' = Pools
      /\ w[1] \in Pools /\ w[2] \in Ranks(w[1]) /\ w = <<w[1], w[2]>>
      /\ \A h \in Pools : Ranks(h)' = Ranks(h)
  BY WorkersAreRanks DEF StartTypes, New, InitProcessGroup, Die, CollectiveTimeout, Workers,
     Pools, Ranks, WorldSize
<1>1. PICK s \in {"new", "up", "dead"} :
        /\ actor[w] # "absent" /\ actor' = [actor EXCEPT ![w] = s]
        /\ s = "up" => actor[w] = "new"
        /\ \/ s \in {"up", "dead"} /\ UNCHANGED <<master, centers>>
           \/ /\ s = "new"
              /\ master' = [master EXCEPT ![w] = IF w[2] = 0 THEN w ELSE @]
              /\ centers' = [centers EXCEPT ![w[1]] = IF w[2] = 0 THEN w ELSE @]
  BY DEF New, InitProcessGroup, Die, CollectiveTimeout, CenterOf
<1>2. \A g \in Pools : Nobody(g)' <=> Nobody(g)
  <2>1. \A g \in Pools : \A r \in Ranks(g) :
          actor'[<<g, r>>] = "absent" <=> actor[<<g, r>>] = "absent"
    BY <1>0, <1>1, WorkersAreRanks DEF StartTypes
  <2> QED BY <1>0, <2>1 DEF Nobody
<1>3. StartTypes'
  BY <1>0, <1>1 DEF StartTypes, States
<1>4. ASSUME NEW v \in Workers
      PROVE  /\ actor'[v] # "absent" /\ v[2] # 0 => master'[v] = <<v[1], 0>>
             /\ v[2] = 0 => master'[v] \in {None, v}
             /\ v[2] = 0 /\ actor'[v] \in {"new", "up"} => master'[v] = v
  <2>1. CASE v = w
    BY <1>0, <1>1, <2>1 DEF AddressInv, StartTypes
  <2>2. CASE v # w
    BY <1>1, <2>2 DEF AddressInv, StartTypes
  <2> QED BY <2>1, <2>2
<1>5. \A g \in Pools : centers'[g] \in {None, <<g, 0>>} /\ known'[g] \in {None, <<g, 0>>}
  BY <1>0, <1>1 DEF AddressInv, StartTypes
<1> QED BY <1>0, <1>2, <1>3, <1>4, <1>5 DEF AddressInv, At

\* No step tells an actor another group's address.
LEMMA AddressStep == StartTypes /\ AddressInv /\ [Next]_vars => (StartTypes /\ AddressInv)'
<1> SUFFICES ASSUME StartTypes, AddressInv, [Next]_vars PROVE (StartTypes /\ AddressInv)'
  OBVIOUS
<1>1. CASE GetPlacementGroups \/ CreateWorker \/ FindRegisterCenter \/ GroupCreated
  BY <1>1, DriverKeeps
<1>2. CASE CallMethod \/ GetResult \/ Finish \/ ActorDied \/ CheckWorkersAlive
  <2>1. /\ UNCHANGED <<config, actor, master, centers, known>>
        /\ \/ driver'.at \in {"call", "get", "failed", "done"} /\ driver'.on \in Nat
           \/ UNCHANGED driver
    BY <1>2 DEF CallMethod, GetResult, Finish, ActorDied, CheckWorkersAlive, GoTo, At, started,
         StartTypes
  <2> QED BY <2>1 DEF StartTypes, AddressInv, At, Nobody, Workers, Pools, Ranks, WorldSize
<1>3. ASSUME NEW w \in AllWorkers,
             New(w) \/ InitProcessGroup(w) \/ Die(w) \/ CollectiveTimeout(w)
      PROVE  (StartTypes /\ AddressInv)'
  <2>1. w \in Workers
    BY <1>3 DEF New, InitProcessGroup, Die, CollectiveTimeout
  <2> QED BY <1>3, <2>1, ActorKeeps
<1>4. ASSUME NEW w \in AllWorkers, Enter(w) \/ Return(w)
      PROVE  (StartTypes /\ AddressInv)'
  <2>1. UNCHANGED <<config, actor, master, centers, known, driver>>
    BY <1>4 DEF Enter, Return, started
  <2> QED BY <2>1 DEF StartTypes, AddressInv, At, Nobody, Workers, Pools, Ranks, WorldSize
<1>5. CASE UNCHANGED vars
  BY <1>5 DEF vars, started, StartTypes, AddressInv, At, Nobody, Workers, Pools, Ranks, WorldSize
<1> QED BY <1>1, <1>2, <1>3, <1>4, <1>5 DEF Next, Drive, Act

\* Whatever groups start one after the other, on whatever nodes, and whatever actors die: a
\* rank that has announced itself has the address of the rank 0 of its own group in its
\* environment, so that no two groups meet in one process group (Worker.__new__,
\* RayWorkerGroup._init_with_resource_pool).
THEOREM OwnMaster == Spec => []OneMaster
<1> DEFINE Inv == StartTypes /\ AddressInv
<1>1. Init => Inv
  BY StartsEmpty
<1>2. Inv /\ [Next]_vars => Inv'
  BY AddressStep
<1>3. Inv => OneMaster
  <2> SUFFICES ASSUME Inv, NEW w \in Workers, actor[w] \in {"new", "up"}
               PROVE  master[w] = <<w[1], 0>>
    BY DEF OneMaster
  <2>1. w = <<w[1], w[2]>>
    BY WorkersAreRanks DEF StartTypes
  <2> QED BY <2>1 DEF AddressInv
<1> QED BY <1>1, <1>2, <1>3, PTL DEF Spec

-----------------------------------------------------------------------------
(* What the ranks are given and return. *)

\* The ranks of one stage.
Stage(i) == config.tp * DpSize(GroupOf(i))

\* What rank r is given of a whole batch, and what it returns for it.
Share(i, r) == Chunk(Batch, PartsOf(i), ArgRank(i, r))

Returned(i, r) ==
  CASE ModeOf(i) = "pp_only" -> <<RankInfo(GroupOf(i), r).pp + 1>>
    [] ModeOf(i) = "pp_as_dp" ->
         FlattenSeq([s \in 1..config.pp |-> Share(i, (s - 1) * Stage(i) + (r % Stage(i)))])
    [] OTHER -> Share(i, r)

\* What the driver is to get for a call.
Expected(i, x) ==
  CASE ModeOf(i) \in {"dp", "megatron", "pp_as_dp", "rank_zero"} -> x = Batch
    [] ModeOf(i) = "pp_only" -> x = [s \in 1..config.pp |-> s]
    [] ModeOf(i) = "one_to_all" ->
         \A r \in Ranks(GroupOf(i)) : Chunk(x, WorldSize(GroupOf(i)), r) = Batch

GridModes == {"megatron", "pp_as_dp", "pp_only"}

\* The sizes a configuration gives to a call fit each other.
LEMMA CallFits ==
  ASSUME config \in Configs, NEW i \in Calls
  PROVE  /\ i \in Nat \ {0} /\ ModeOf(i) \in Modes
         /\ GroupOf(i) \in Pools /\ WorldSize(GroupOf(i)) \in Nat \ {0}
         /\ config.tp \in Nat \ {0} /\ config.pp \in Nat \ {0}
         /\ config.calls[i].arg \in Nat /\ config.calls[i].arg < i
         /\ config.calls[i].arg # 0 =>
              /\ config.calls[i].arg \in Calls
              /\ ModeOf(config.calls[i].arg) \in {"dp", "megatron", "pp_as_dp"}
         /\ ModeOf(i) = "dp" => Rows % WorldSize(GroupOf(i)) = 0
         /\ ModeOf(i) \in GridModes =>
              /\ DpSize(GroupOf(i)) \in Nat \ {0} /\ Stage(i) \in Nat \ {0}
              /\ WorldSize(GroupOf(i)) = Stage(i) * config.pp
         /\ ModeOf(i) = "megatron" => Rows % DpSize(GroupOf(i)) = 0
         /\ ModeOf(i) = "pp_as_dp" => Rows % (DpSize(GroupOf(i)) * config.pp) = 0
<1> DEFINE call == config.calls[i]
           n == SizeOf(config.pools[call.group])
           grid == config.tp * config.pp
<1>1. /\ config.tp \in Nat \ {0} /\ config.pp \in Nat \ {0}
      /\ config.calls \in Seq([group : Nat, mode : Modes, blocking : BOOLEAN, arg : Nat])
      /\ call.group \in DOMAIN config.pools /\ call.arg < i
      /\ call.arg # 0 => config.calls[call.arg].mode \in {"dp", "megatron", "pp_as_dp"}
      /\ call.mode = "dp" => Rows % n = 0
      /\ call.mode \in {"megatron", "pp_as_dp", "pp_only"} => n % grid = 0
      /\ call.mode = "megatron" => Rows % (n \div grid) = 0
      /\ call.mode = "pp_as_dp" => Rows % ((n \div grid) * config.pp) = 0
  BY CallsFit DEF Calls
<1>2. i \in 1..Len(config.calls) /\ Len(config.calls) \in Nat
  BY <1>1, LenProperties DEF Calls
<1>3. call \in [group : Nat, mode : Modes, blocking : BOOLEAN, arg : Nat]
  BY <1>1, <1>2, ElementOfSeq
<1>4. n \in Nat \ {0}
  BY <1>1, PoolsAreSequences
<1>5. call.arg \in Nat /\ call.mode \in Modes
  BY <1>3
<1>6. call.arg # 0 => call.arg \in Calls
  <2> DEFINE a == call.arg
  <2>1. a \in Nat /\ a < i /\ i \in 1..Len(config.calls) /\ Len(config.calls) \in Nat
    BY <1>1, <1>2, <1>5
  <2>2. DOMAIN config.calls = 1..Len(config.calls)
    BY <1>1
  <2> HIDE DEF a
  <2>3. a # 0 => a \in 1..Len(config.calls)
    BY <2>1
  <2> QED BY <2>2, <2>3 DEF a, Calls
<1>7. ASSUME call.mode \in GridModes
      PROVE  /\ n \div grid \in Nat \ {0} /\ config.tp * (n \div grid) \in Nat \ {0}
             /\ n = (config.tp * (n \div grid)) * config.pp
  <2> DEFINE D == n \div grid
             T == config.tp
             P == config.pp
  <2>1. n % grid = 0 /\ grid \in Nat \ {0} /\ T \in Nat \ {0} /\ P \in Nat \ {0}
    BY <1>1, <1>7 DEF GridModes
  <2> HIDE DEF n, T, P
  <2>2. D \in Nat /\ n = grid * D + 0
    <3> HIDE DEF grid
    <3> QED BY <1>4, <2>1, Division
  <2> HIDE DEF D
  <2>3. n = (T * D) * P
    BY <2>1, <2>2 DEF T, P
  <2>4. D # 0
    BY <1>4, <2>1, <2>3
  <2>5. T * D \in Nat \ {0}
    BY <2>1, <2>2, <2>4
  <2> QED BY <2>2, <2>3, <2>4, <2>5 DEF T, P, D
<1>8. /\ ModeOf(i) = call.mode /\ GroupOf(i) = call.group /\ WorldSize(GroupOf(i)) = n
      /\ DpSize(GroupOf(i)) = n \div grid /\ Stage(i) = config.tp * (n \div grid)
      /\ Pools = DOMAIN config.pools
  BY DEF ModeOf, GroupOf, WorldSize, DpSize, Stage, Pools
<1>9. call.arg # 0 => ModeOf(call.arg) = config.calls[call.arg].mode
  BY DEF ModeOf
<1>10. i \in Nat \ {0}
  BY <1>2
<1> HIDE DEF n, grid, call
<1>11. ModeOf(i) \in GridModes =>
         /\ DpSize(GroupOf(i)) \in Nat \ {0} /\ Stage(i) \in Nat \ {0}
         /\ WorldSize(GroupOf(i)) = Stage(i) * config.pp
  BY <1>7, <1>8, Zenon
<1>12. /\ ModeOf(i) = "dp" => Rows % WorldSize(GroupOf(i)) = 0
       /\ ModeOf(i) = "megatron" => Rows % DpSize(GroupOf(i)) = 0
       /\ ModeOf(i) = "pp_as_dp" => Rows % (DpSize(GroupOf(i)) * config.pp) = 0
  BY <1>1, <1>8, Zenon
<1>13. /\ call.arg \in Nat /\ call.arg < i
       /\ call.arg # 0 => call.arg \in Calls /\ ModeOf(call.arg) \in {"dp", "megatron", "pp_as_dp"}
  BY <1>1, <1>5, <1>6, <1>9
<1>14. /\ ModeOf(i) \in Modes /\ GroupOf(i) \in Pools /\ WorldSize(GroupOf(i)) \in Nat \ {0}
       /\ config.tp \in Nat \ {0} /\ config.pp \in Nat \ {0}
  BY <1>1, <1>4, <1>5, <1>8
<1> QED BY <1>10, <1>11, <1>12, <1>13, <1>14 DEF call

\* The part and the rank of each mode.
LEMMA PartsByMode ==
  ASSUME NEW i, NEW r
  PROVE  /\ ModeOf(i) \in {"one_to_all", "rank_zero", "pp_only"} => PartsOf(i) = 1 /\ ArgRank(i, r) = 0
         /\ ModeOf(i) = "dp" => PartsOf(i) = WorldSize(GroupOf(i)) /\ ArgRank(i, r) = r
         /\ ModeOf(i) = "megatron" =>
              PartsOf(i) = DpSize(GroupOf(i)) /\ ArgRank(i, r) = RankInfo(GroupOf(i), r).dp
         /\ ModeOf(i) = "pp_as_dp" =>
              /\ PartsOf(i) = DpSize(GroupOf(i)) * config.pp
              /\ ArgRank(i, r) = RankInfo(GroupOf(i), r).dp * config.pp + RankInfo(GroupOf(i), r).pp
BY DEF PartsOf, ArgRank

\* The rows of a batch in parts of one size.
LEMMA PartsFit ==
  ASSUME NEW parts \in Nat \ {0}, Rows % parts = 0
  PROVE  /\ Rows \div parts \in Nat \ {0} /\ (Rows \div parts) * parts = Rows
         /\ Batch \in Seq(Nat) /\ Len(Batch) = Rows /\ Rows \in Nat \ {0}
         /\ \A k \in Nat :
              Chunk(Batch, parts, k) = Part(Batch, (Rows \div parts) * k, (Rows \div parts) * (k + 1))
<1> DEFINE z == Rows \div parts
<1>1. Rows \in Nat \ {0}
  BY BoundsAssumption
<1>2. Batch \in Seq(Nat) /\ Len(Batch) = Rows
  BY <1>1 DEF Batch
<1>3. z \in Nat /\ Rows = parts * z + 0
  BY <1>1, Division
<1> HIDE DEF z
<1>4. z # 0 /\ z * parts = Rows
  BY <1>1, <1>3
<1>5. ASSUME NEW k \in Nat PROVE Chunk(Batch, parts, k) = Part(Batch, z * k, z * (k + 1))
  <2>1. k * z = z * k /\ (k + 1) * z = z * (k + 1)
    BY <1>3
  <2> QED BY <1>2, <2>1 DEF Chunk, Part, z
<1> QED BY <1>1, <1>2, <1>3, <1>4, <1>5 DEF z

\* One part is all of the batch.
LEMMA OnePart == Chunk(Batch, 1, 0) = Batch
<1>1. Rows \in Nat \ {0}
  BY BoundsAssumption
<1>2. Rows % 1 = 0 /\ Rows \div 1 = Rows
  BY <1>1
<1>3. /\ Batch \in Seq(Nat) /\ Len(Batch) = Rows
      /\ Chunk(Batch, 1, 0) = Part(Batch, Rows * 0, Rows * (0 + 1))
  BY <1>2, PartsFit
<1>4. Rows * 0 = 0 /\ Rows * (0 + 1) = Rows
  BY <1>1
<1> QED BY <1>3, <1>4, PartIsAll

\* Each rank of a grid has its place in it.
LEMMA RankHasPlace ==
  ASSUME config \in Configs, NEW i \in Calls, ModeOf(i) \in GridModes, NEW r \in Ranks(GroupOf(i))
  PROVE  LET info == RankInfo(GroupOf(i), r) IN
         /\ info.tp \in 0..(config.tp - 1) /\ info.dp \in 0..(DpSize(GroupOf(i)) - 1)
         /\ info.pp \in 0..(config.pp - 1)
         /\ r = Stage(i) * info.pp + config.tp * info.dp + info.tp
<1> DEFINE T == config.tp
           D == DpSize(GroupOf(i))
           P == config.pp
           t == r % T
           d == (r \div T) % D
           s == r \div (T * D)
<1>1. /\ T \in Nat \ {0} /\ D \in Nat \ {0} /\ P \in Nat \ {0} /\ Stage(i) \in Nat \ {0}
      /\ WorldSize(GroupOf(i)) = Stage(i) * P /\ WorldSize(GroupOf(i)) \in Nat
  BY CallFits
<1>2. Stage(i) = T * D
  BY DEF Stage
<1>3. r \in Nat /\ r < WorldSize(GroupOf(i))
  BY <1>1 DEF Ranks
<1>4. RankInfo(GroupOf(i), r) = [tp |-> t, dp |-> d, pp |-> s]
  BY DEF RankInfo
<1> HIDE DEF T, D, P
<1>5. /\ s \in Nat /\ d \in 0..(D - 1) /\ t \in 0..(T - 1)
      /\ r = Stage(i) * s + T * d + t
  BY <1>1, <1>2, <1>3, GridHasPlace
<1> HIDE DEF t, d, s
<1>6. s \in 0..(P - 1)
  <2>1. SUFFICES ASSUME P <= s PROVE FALSE
    BY <1>1, <1>5
  <2> DEFINE a == Stage(i) * s
             b == Stage(i) * P
             c == T * d
  <2>2. a \in Nat /\ b \in Nat /\ c \in Nat
    BY <1>1, <1>5
  <2>3. b <= a
    <3>1. CASE P = s
      BY <1>1, <2>2, <3>1
    <3>2. CASE P # s
      <4>1. P < s
        BY <1>1, <1>5, <2>1, <3>2
      <4>2. b + Stage(i) <= a
        BY <1>1, <1>5, <4>1, ProductGrows
      <4> HIDE DEF a, b
      <4> QED BY <1>1, <2>2, <4>2
    <3> QED BY <3>1, <3>2
  <2>4. r = a + c + t /\ r < b
    BY <1>1, <1>3, <1>5
  <2> HIDE DEF a, b, c
  <2> QED BY <1>5, <2>2, <2>3, <2>4
<1> QED BY <1>4, <1>5, <1>6 DEF T, D, P

\* The rank at a place.
LEMMA PlaceHasRank ==
  ASSUME config \in Configs, NEW i \in Calls, ModeOf(i) \in GridModes,
         NEW s \in 0..(config.pp - 1), NEW d \in 0..(DpSize(GroupOf(i)) - 1),
         NEW t \in 0..(config.tp - 1), NEW r, r = Stage(i) * s + config.tp * d + t
  PROVE  /\ r \in Ranks(GroupOf(i)) /\ RankInfo(GroupOf(i), r) = [tp |-> t, dp |-> d, pp |-> s]
         /\ r % Stage(i) = config.tp * d + t
<1> DEFINE T == config.tp
           D == DpSize(GroupOf(i))
           P == config.pp
<1>1. /\ T \in Nat \ {0} /\ D \in Nat \ {0} /\ P \in Nat \ {0} /\ Stage(i) \in Nat \ {0}
      /\ WorldSize(GroupOf(i)) = Stage(i) * P /\ WorldSize(GroupOf(i)) \in Nat
  BY CallFits
<1>2. Stage(i) = T * D
  BY DEF Stage
<1>0. /\ s \in 0..(P - 1) /\ d \in 0..(D - 1) /\ t \in 0..(T - 1) /\ s \in Nat
      /\ r = Stage(i) * s + T * d + t
  OBVIOUS
<1> HIDE DEF T, D, P
<1>3. /\ r \in Nat /\ r % T = t /\ (r \div T) % D = d
      /\ r \div (T * D) = s /\ r % (T * D) = T * d + t
  <2>1. InGrid(T, D, s, d, t, r)
    BY <1>0, <1>1, <1>2 DEF InGrid
  <2> QED BY <2>1, GridPlace
<1>4. r < Stage(i) * P
  <2> DEFINE a == Stage(i) * s
             b == Stage(i) * P
             c == T * d
             e == T * D
  <2>1. a \in Nat /\ b \in Nat /\ c \in Nat /\ e = Stage(i)
    BY <1>0, <1>1, <1>2
  <2>2. a + Stage(i) <= b
    BY <1>0, <1>1, ProductGrows
  <2>3. c + T <= e
    BY <1>0, <1>1, ProductGrows
  <2>4. r = a + c + t
    BY <1>0
  <2> HIDE DEF a, b, c, e
  <2>5. r < b
    BY <1>0, <1>1, <2>1, <2>2, <2>3, <2>4
  <2> QED BY <2>5 DEF b
<1>5. r \in Ranks(GroupOf(i))
  BY <1>1, <1>3, <1>4 DEF Ranks
<1>6. RankInfo(GroupOf(i), r) = [tp |-> r % T, dp |-> (r \div T) % D, pp |-> r \div (T * D)]
  BY DEF RankInfo, T, D
<1> QED BY <1>2, <1>3, <1>5, <1>6 DEF T

\* What a rank of a pp_as_dp call returns: its stages have the parts of one data rank.
LEMMA GatheredRows ==
  ASSUME config \in Configs, NEW i \in Calls, ModeOf(i) = "pp_as_dp", NEW r \in Ranks(GroupOf(i))
  PROVE  LET y == (Rows \div PartsOf(i)) * config.pp
             d == RankInfo(GroupOf(i), r).dp
         IN  Returned(i, r) = Part(Batch, y * d, y * (d + 1))
<1> DEFINE T == config.tp
           D == DpSize(GroupOf(i))
           P == config.pp
           d == RankInfo(GroupOf(i), r).dp
           t == RankInfo(GroupOf(i), r).tp
           z == Rows \div PartsOf(i)
           y == z * P
           m == Stage(i)
           p == [s \in 1..P |-> Share(i, (s - 1) * m + (r % m))]
           b == [k \in 0..P |-> z * (d * P + k)]
<1>1. /\ T \in Nat \ {0} /\ D \in Nat \ {0} /\ P \in Nat \ {0} /\ m \in Nat \ {0}
      /\ Rows % PartsOf(i) = 0 /\ PartsOf(i) = D * P /\ PartsOf(i) \in Nat \ {0}
      /\ ModeOf(i) \in GridModes
  <2>1. /\ T \in Nat \ {0} /\ D \in Nat \ {0} /\ P \in Nat \ {0} /\ m \in Nat \ {0}
        /\ Rows % (D * P) = 0 /\ ModeOf(i) \in GridModes
    BY CallFits DEF GridModes
  <2>2. PartsOf(i) = D * P
    BY PartsByMode
  <2>3. D * P \in Nat \ {0}
    <3> HIDE DEF D, P
    <3> QED BY <2>1
  <2> QED BY <2>1, <2>2, <2>3
<1>2. d \in 0..(D - 1) /\ t \in 0..(T - 1) /\ r % m = T * d + t
  <2>1. LET info == RankInfo(GroupOf(i), r) IN
        /\ info.tp \in 0..(T - 1) /\ info.dp \in 0..(D - 1) /\ info.pp \in 0..(P - 1)
        /\ r = m * info.pp + T * info.dp + info.tp
    BY <1>1, RankHasPlace
  <2> QED BY <1>1, <2>1, PlaceHasRank
<1>3. /\ z \in Nat \ {0} /\ z * PartsOf(i) = Rows
      /\ Batch \in Seq(Nat) /\ Len(Batch) = Rows /\ Rows \in Nat \ {0}
      /\ \A k \in Nat : Chunk(Batch, PartsOf(i), k) = Part(Batch, z * k, z * (k + 1))
  BY <1>1, PartsFit
<1>4. ASSUME NEW s \in 1..P
      PROVE  p[s] = Part(Batch, z * (d * P + (s - 1)), z * (d * P + (s - 1) + 1))
  <2> DEFINE q == (s - 1) * m + (r % m)
  <2>1. s - 1 \in 0..(P - 1)
    BY <1>1
  <2>2. q = m * (s - 1) + T * d + t
    <3>1. (s - 1) * m = m * (s - 1) /\ m * (s - 1) \in Nat /\ T * d \in Nat
      BY <1>1, <1>2, <2>1
    <3> HIDE DEF m, T, d, t
    <3>2. q = m * (s - 1) + (T * d + t)
      BY <1>2, <3>1
    <3> QED BY <1>2, <3>1, <3>2
  <2>3. RankInfo(GroupOf(i), q) = [tp |-> t, dp |-> d, pp |-> s - 1]
    <3> HIDE DEF q, d, t
    <3> QED BY <1>1, <1>2, <2>1, <2>2, PlaceHasRank
  <2> HIDE DEF q
  <2>4. ArgRank(i, q) = d * P + (s - 1)
    <3> HIDE DEF d, t
    <3> QED BY <2>3, PartsByMode
  <2>5. d * P + (s - 1) \in Nat
    <3> HIDE DEF d
    <3> QED BY <1>1, <1>2, <2>1
  <2>6. p[s] = Chunk(Batch, PartsOf(i), d * P + (s - 1))
    BY <2>4 DEF Share, q
  <2> HIDE DEF p, z, d, P
  <2> QED BY <1>3, <2>5, <2>6
<1> HIDE DEF T, D, d, t, m
<1>5. \A k \in 0..P : d * P + k \in Nat /\ d * P + k <= D * P
  <2> HIDE DEF P
  <2> TAKE k \in 0..P
  <2> DEFINE a == P * d
             c == P * D
  <2>1. a + P <= c /\ a \in Nat /\ c \in Nat
    BY <1>1, <1>2, ProductGrows
  <2>2. d * P = a /\ D * P = c
    BY <1>1, <1>2
  <2> HIDE DEF a, c
  <2> QED BY <1>1, <2>1, <2>2
<1>6. \A k \in 0..P : b[k] \in 0..Rows
  <2> TAKE k \in 0..P
  <2> DEFINE e == d * P + k
  <2>1. e \in Nat /\ e <= PartsOf(i)
    BY <1>1, <1>5
  <2> HIDE DEF e, z, P
  <2>2. z * e \in Nat /\ z * e <= z * PartsOf(i)
    <3>1. CASE e = PartsOf(i)
      BY <1>1, <1>3, <3>1
    <3>2. CASE e # PartsOf(i)
      <4>1. e < PartsOf(i) /\ PartsOf(i) \in Nat
        BY <1>1, <2>1, <3>2
      <4>2. z * e + z <= z * PartsOf(i)
        BY <1>3, <2>1, <4>1, ProductGrows
      <4>3. z * e \in Nat
        BY <1>3, <2>1
      <4> DEFINE f == z * e
                 h == z * PartsOf(i)
      <4>4. f \in Nat /\ f + z <= h /\ h = Rows
        BY <1>3, <4>2, <4>3
      <4> HIDE DEF f, h
      <4>5. f <= h
        BY <1>3, <4>4
      <4> QED BY <4>3, <4>5 DEF f, h
    <3> QED BY <3>1, <3>2
  <2>3. b[k] = z * e
    BY DEF e
  <2> QED BY <1>3, <2>2, <2>3
<1>7. \A k \in 1..P : b[k - 1] <= b[k] /\ p[k] = Part(Batch, b[k - 1], b[k])
  <2> TAKE k \in 1..P
  <2>0. P \in Nat
    BY <1>1
  <2> HIDE DEF P, z, p
  <2> DEFINE e == d * P + (k - 1)
  <2>1. k - 1 \in 0..P /\ k \in 0..P
    BY <2>0
  <2>2. b[k - 1] = z * e
    BY <2>1
  <2>3. e \in Nat /\ e + 1 = d * P + k
    <3>1. d * P \in Nat
      BY <1>2, <2>0
    <3> QED BY <2>0, <2>1, <3>1
  <2>4. b[k] = z * (e + 1)
    BY <2>1, <2>3
  <2> HIDE DEF b
  <2>5. p[k] = Part(Batch, z * e, z * (e + 1))
    BY <1>4
  <2> HIDE DEF e
  <2>6. z * e <= z * (e + 1)
    <3>1. z * (e + 1) = z * e + z /\ z * e \in Nat
      BY <1>3, <2>3
    <3> DEFINE f == z * e
    <3>2. f \in Nat /\ z * (e + 1) = f + z
      BY <3>1
    <3> HIDE DEF f
    <3>3. f <= f + z
      BY <1>3, <3>2
    <3> QED BY <3>2, <3>3 DEF f
  <2> QED BY <2>2, <2>4, <2>5, <2>6
<1>8. Slices(Nat, Batch, p, b, P)
  <2> HIDE DEF b, p, P
  <2> QED BY <1>1, <1>3, <1>6, <1>7 DEF Slices
<1>9. Joined(p, P) = Part(Batch, b[0], b[P])
  <2> HIDE DEF b, p
  <2>1. P \in 0..P
    BY <1>1
  <2> QED BY <1>8, <2>1, SlicesMakeWhole
<1>10. b[0] = y * d /\ b[P] = y * (d + 1)
  <2> HIDE DEF P, z
  <2>1. b[0] = z * (d * P + 0) /\ b[P] = z * (d * P + P)
    BY <1>1
  <2>2. z * (d * P + 0) = (z * P) * d
    BY <1>1, <1>2, <1>3
  <2>3. z * (d * P + P) = (z * P) * (d + 1)
    BY <1>1, <1>2, <1>3
  <2> QED BY <2>1, <2>2, <2>3
<1>11. Returned(i, r) = Joined(p, P)
  <2>1. Returned(i, r) = FlattenSeq(p)
    BY DEF Returned, m
  <2>2. p = [k \in 1..P |-> p[k]]
    OBVIOUS
  <2> HIDE DEF p
  <2> QED BY <2>1, <2>2 DEF Joined
<1> QED BY <1>9, <1>10, <1>11 DEF d

\* What the driver keeps of the output of each rank, which has numbers from 1.
Kept(i) ==
  [k \in 1..WorldSize(GroupOf(i)) |->
     IF k - 1 \in CalledRanks(i) /\ Collects(i, k - 1) THEN output[i][k - 1] ELSE <<>>]

\* All ranks have returned what they return for a whole batch.
AllReturned(i) == \A r \in CalledRanks(i) : output[i][r] = Returned(i, r)

\* What is kept is what is collected.
LEMMA CollectedIsJoined ==
  ASSUME NEW i
  PROVE  Collected(i) = Joined(Kept(i), WorldSize(GroupOf(i)))
<1> DEFINE n == WorldSize(GroupOf(i))
<1>1. Collected(i) = FlattenSeq(Kept(i))
  BY DEF Collected, Kept
<1>2. Kept(i) = [k \in 1..n |-> Kept(i)[k]]
  BY DEF Kept
<1> QED BY <1>1, <1>2 DEF Joined

\* What is kept of one rank.
LEMMA KeptOf ==
  ASSUME config \in Configs, NEW i \in Calls, AllReturned(i)
  PROVE  /\ \A r \in CalledRanks(i) :
              r \in Ranks(GroupOf(i)) /\ (Collects(i, r) => Kept(i)[r + 1] = Returned(i, r))
         /\ \A k \in 1..WorldSize(GroupOf(i)) : Kept(i)[k] # <<>> =>
              k - 1 \in CalledRanks(i) /\ Collects(i, k - 1)
         /\ ModeOf(i) # "rank_zero" => CalledRanks(i) = Ranks(GroupOf(i))
<1>1. WorldSize(GroupOf(i)) \in Nat \ {0}
  BY CallFits
<1>2. 0 \in Ranks(GroupOf(i))
  BY <1>1 DEF Ranks
<1>3. ASSUME NEW r \in CalledRanks(i), Collects(i, r)
      PROVE  Kept(i)[r + 1] = Returned(i, r)
  <2>1. r \in Ranks(GroupOf(i))
    BY <1>2 DEF CalledRanks
  <2>2. r + 1 \in 1..WorldSize(GroupOf(i)) /\ (r + 1) - 1 = r
    BY <1>1, <2>1 DEF Ranks
  <2>3. Kept(i)[r + 1] = output[i][r]
    BY <1>3, <2>2 DEF Kept
  <2> QED BY <2>3 DEF AllReturned
<1>4. ASSUME NEW k \in 1..WorldSize(GroupOf(i)), Kept(i)[k] # <<>>
      PROVE  k - 1 \in CalledRanks(i) /\ Collects(i, k - 1)
  BY <1>4 DEF Kept
<1>5. \A r \in CalledRanks(i) : r \in Ranks(GroupOf(i))
  BY <1>2 DEF CalledRanks
<1> QED BY <1>3, <1>4, <1>5, Zenon DEF CalledRanks

\* The rows come back from rank zero alone.
LEMMA RankZeroCollected ==
  ASSUME config \in Configs, NEW i \in Calls, AllReturned(i), ModeOf(i) = "rank_zero"
  PROVE  Collected(i) = Batch
<1> DEFINE n == WorldSize(GroupOf(i))
           p == Kept(i)
<1>1. n \in Nat \ {0} /\ Rows \in Nat \ {0}
  BY CallFits, BoundsAssumption
<1>2. CalledRanks(i) = {0} /\ Collects(i, 0)
  BY DEF CalledRanks, Collects
<1>3. Returned(i, 0) = Batch
  <2>1. Returned(i, 0) = Chunk(Batch, 1, 0)
    BY PartsByMode DEF Returned, Share
  <2> QED BY <2>1, OnePart
<1>4. p[1] = Batch
  <2>1. p[0 + 1] = Returned(i, 0)
    BY <1>2, KeptOf
  <2> QED BY <1>3, <2>1
<1>5. \A k \in 1..n : p[k] # <<>> => k = 1
  BY <1>1, <1>2, KeptOf
<1>6. Batch \in Seq(Nat) /\ Len(Batch) = Rows /\ Part(Batch, 0, Rows) = Batch
  <2>1. Batch \in Seq(Nat) /\ Len(Batch) = Rows
    BY <1>1 DEF Batch
  <2> QED BY <2>1, PartIsAll
<1> HIDE DEF n, p
<1>7. Dealt(Nat, Batch, p, n, Rows, n, 1, 0)
  <2>1. ASSUME NEW j \in Nat, j < 1
        PROVE  p[0 + n * j + 1] = Part(Batch, Rows * j, Rows * (j + 1))
    <3>1. j = 0 /\ 0 + n * 0 + 1 = 1 /\ Rows * 0 = 0 /\ Rows * (0 + 1) = Rows
      BY <1>1, <2>1
    <3> QED BY <1>4, <1>6, <3>1
  <2>2. ASSUME NEW k \in 1..n, p[k] # <<>>
        PROVE  \E j \in Nat : j < 1 /\ k = 0 + n * j + 1
    <3>1. k = 1 /\ 0 + n * 0 + 1 = 1
      BY <1>1, <1>5, <2>2
    <3> QED BY <3>1
  <2>3. 0 + n * 1 <= n /\ Rows * 1 = Len(Batch)
    BY <1>1, <1>6
  <2> QED BY <1>1, <1>6, <2>1, <2>2, <2>3 DEF Dealt
<1>8. Joined(p, n) = Batch
  BY <1>7, DealtIsWhole
<1> QED BY <1>8, CollectedIsJoined DEF n, p

\* The rows come back from every rank.
LEMMA DpCollected ==
  ASSUME config \in Configs, NEW i \in Calls, AllReturned(i), ModeOf(i) = "dp"
  PROVE  Collected(i) = Batch
<1> DEFINE n == WorldSize(GroupOf(i))
           z == Rows \div n
           p == Kept(i)
<1>1. n \in Nat \ {0} /\ Rows % n = 0 /\ CalledRanks(i) = Ranks(GroupOf(i))
  BY CallFits, KeptOf
<1>2. /\ z \in Nat \ {0} /\ z * n = Rows
      /\ Batch \in Seq(Nat) /\ Len(Batch) = Rows /\ Rows \in Nat \ {0}
      /\ \A k \in Nat : Chunk(Batch, n, k) = Part(Batch, z * k, z * (k + 1))
  <2> HIDE DEF n
  <2> QED BY <1>1, PartsFit
<1>3. ASSUME NEW j \in Nat, j < n PROVE p[j + 1] = Part(Batch, z * j, z * (j + 1))
  <2>1. j \in CalledRanks(i) /\ Collects(i, j)
    BY <1>1, <1>3 DEF Ranks, Collects
  <2>2. p[j + 1] = Returned(i, j)
    BY <2>1, KeptOf
  <2>3. Returned(i, j) = Chunk(Batch, n, j)
    BY PartsByMode DEF Returned, Share
  <2> HIDE DEF p, n, z
  <2> QED BY <1>2, <2>2, <2>3
<1> HIDE DEF n, p, z
<1>4. Dealt(Nat, Batch, p, n, z, 1, n, 0)
  <2>1. ASSUME NEW j \in Nat, j < n
        PROVE  p[0 + 1 * j + 1] = Part(Batch, z * j, z * (j + 1))
    <3>1. 0 + 1 * j + 1 = j + 1
      OBVIOUS
    <3> QED BY <1>3, <2>1, <3>1
  <2>2. ASSUME NEW k \in 1..n
        PROVE  \E j \in Nat : j < n /\ k = 0 + 1 * j + 1
    <3>1. k - 1 \in Nat /\ k - 1 < n /\ k = 0 + 1 * (k - 1) + 1
      BY <1>1
    <3> QED BY <3>1
  <2>3. 0 + 1 * n <= n
    BY <1>1
  <2> QED BY <1>1, <1>2, <2>1, <2>2, <2>3 DEF Dealt
<1>5. Joined(p, n) = Batch
  BY <1>4, DealtIsWhole
<1> QED BY <1>5, CollectedIsJoined DEF n, p

\* The rows come back from the first tensor rank of each data rank of one stage: the last
\* one of a megatron call and the first one of a pp_as_dp call.
LEMMA StageCollected ==
  ASSUME config \in Configs, NEW i \in Calls, AllReturned(i),
         ModeOf(i) \in {"megatron", "pp_as_dp"}
  PROVE  Collected(i) = Batch
<1> DEFINE n == WorldSize(GroupOf(i))
           T == config.tp
           D == DpSize(GroupOf(i))
           P == config.pp
           s == IF ModeOf(i) = "megatron" THEN P - 1 ELSE 0
           z == IF ModeOf(i) = "megatron" THEN Rows \div D ELSE (Rows \div (D * P)) * P
           base == Stage(i) * s
           p == Kept(i)
<1>1. /\ n \in Nat \ {0} /\ T \in Nat \ {0} /\ D \in Nat \ {0} /\ P \in Nat \ {0}
      /\ Stage(i) \in Nat \ {0} /\ n = Stage(i) * P /\ Stage(i) = T * D
      /\ CalledRanks(i) = Ranks(GroupOf(i)) /\ ModeOf(i) \in GridModes
      /\ ModeOf(i) = "megatron" => Rows % D = 0
      /\ ModeOf(i) = "pp_as_dp" => Rows % (D * P) = 0
  BY CallFits, KeptOf DEF GridModes, Stage
<1>2. s \in 0..(P - 1) /\ s \in Nat /\ base \in Nat
  <2>1. s \in 0..(P - 1) /\ s \in Nat
    BY <1>1
  <2> HIDE DEF s
  <2> QED BY <1>1, <2>1
<1>3. z \in Nat /\ z * D = Rows /\ Batch \in Seq(Nat) /\ Len(Batch) = Rows
  <2> HIDE DEF D, P
  <2>1. CASE ModeOf(i) = "megatron"
    BY <1>1, <2>1, PartsFit
  <2>2. CASE ModeOf(i) = "pp_as_dp"
    <3> DEFINE y == Rows \div (D * P)
    <3>1. D * P \in Nat \ {0}
      BY <1>1
    <3>2. y \in Nat /\ y * (D * P) = Rows /\ Batch \in Seq(Nat) /\ Len(Batch) = Rows
      BY <1>1, <2>2, <3>1, PartsFit
    <3> HIDE DEF y
    <3>3. (y * P) * D = y * (D * P) /\ y * P \in Nat
      BY <1>1, <3>2
    <3>4. z = y * P
      BY <2>2 DEF y
    <3> QED BY <3>2, <3>3, <3>4
  <2> QED BY <2>1, <2>2
<1>4. ASSUME NEW d \in 0..(D - 1)
      PROVE  p[base + T * d + 1] = Part(Batch, z * d, z * (d + 1))
  <2> DEFINE r == base + T * d + 0
  <2>1. /\ r \in Ranks(GroupOf(i)) /\ RankInfo(GroupOf(i), r) = [tp |-> 0, dp |-> d, pp |-> s]
    <3>1. 0 \in 0..(T - 1)
      BY <1>1
    <3> HIDE DEF s, r
    <3>2. r = Stage(i) * s + T * d + 0
      BY DEF r
    <3> QED BY <1>1, <1>2, <3>1, <3>2, PlaceHasRank
  <2>2. r + 1 = base + T * d + 1
    <3>1. T * d \in Nat
      BY <1>1
    <3> HIDE DEF base
    <3> QED BY <1>2, <3>1
  <2> HIDE DEF r, base
  <2>3. Collects(i, r)
    BY <2>1 DEF Collects
  <2>4. p[r + 1] = Returned(i, r)
    BY <1>1, <2>1, <2>3, KeptOf
  <2>5. CASE ModeOf(i) = "megatron"
    <3>1. Returned(i, r) = Chunk(Batch, D, d)
      BY <2>1, <2>5, PartsByMode DEF Returned, Share
    <3>2. \A k \in Nat : Chunk(Batch, D, k) = Part(Batch, (Rows \div D) * k, (Rows \div D) * (k + 1))
      <4> HIDE DEF D
      <4> QED BY <1>1, <2>5, PartsFit
    <3>3. z = Rows \div D
      BY <2>5
    <3>4. d \in Nat
      BY <1>1
    <3> HIDE DEF z, p, D
    <3> QED BY <2>2, <2>4, <3>1, <3>2, <3>3, <3>4
  <2>6. CASE ModeOf(i) = "pp_as_dp"
    <3>1. PartsOf(i) = D * P
      BY <2>6, PartsByMode
    <3>2. z = (Rows \div PartsOf(i)) * P
      BY <2>6, <3>1
    <3>3. RankInfo(GroupOf(i), r).dp = d
      BY <2>1
    <3> HIDE DEF z, p
    <3>4. Returned(i, r) = Part(Batch, z * d, z * (d + 1))
      BY <2>1, <2>6, <3>2, <3>3, GatheredRows
    <3> QED BY <2>2, <2>4, <3>4
  <2> QED BY <2>5, <2>6
<1>5. ASSUME NEW k \in 1..n, p[k] # <<>>
      PROVE  \E j \in Nat : j < D /\ k = base + T * j + 1
  <2> DEFINE r == k - 1
             info == RankInfo(GroupOf(i), r)
  <2>1. r \in Ranks(GroupOf(i)) /\ Collects(i, r)
    BY <1>1, <1>5, KeptOf
  <2>2. /\ info.tp \in 0..(T - 1) /\ info.dp \in 0..(D - 1) /\ info.pp \in 0..(P - 1)
        /\ r = Stage(i) * info.pp + T * info.dp + info.tp
    <3> HIDE DEF r
    <3> QED BY <1>1, <2>1, RankHasPlace
  <2>3. info.tp = 0 /\ info.pp = s
    BY <2>1 DEF Collects
  <2> HIDE DEF info
  <2> DEFINE j == info.dp
  <2>4. k - 1 = base + T * j + 0
    BY <2>2, <2>3
  <2>5. j \in Nat /\ j < D /\ T * j \in Nat
    BY <1>1, <2>2
  <2> HIDE DEF j, base
  <2>6. k = base + T * j + 1
    BY <1>1, <1>2, <2>4, <2>5
  <2> QED BY <2>5, <2>6
<1>6. base + T * D <= n
  <2> HIDE DEF s, T, D, P
  <2>1. Stage(i) * s + Stage(i) <= Stage(i) * P
    BY <1>1, <1>2, ProductGrows
  <2> QED BY <1>1, <2>1
<1> HIDE DEF n, T, D, P, s, z, base, p
<1>7. Dealt(Nat, Batch, p, n, z, T, D, base)
  <2>1. ASSUME NEW j \in Nat, j < D
        PROVE  p[base + T * j + 1] = Part(Batch, z * j, z * (j + 1))
    <3>1. j \in 0..(D - 1)
      BY <1>1, <2>1
    <3> QED BY <1>4, <3>1
  <2> QED BY <1>1, <1>2, <1>3, <1>5, <1>6, <2>1 DEF Dealt
<1>8. Joined(p, n) = Batch
  BY <1>7, DealtIsWhole
<1> QED BY <1>8, CollectedIsJoined DEF n, p

\* The stages come back in their order.
LEMMA StagesCollected ==
  ASSUME config \in Configs, NEW i \in Calls, AllReturned(i), ModeOf(i) = "pp_only"
  PROVE  Collected(i) = [s \in 1..config.pp |-> s]
<1> DEFINE n == WorldSize(GroupOf(i))
           T == config.tp
           D == DpSize(GroupOf(i))
           P == config.pp
           m == Stage(i)
           stages == [s \in 1..P |-> s]
           p == Kept(i)
<1>1. /\ n \in Nat \ {0} /\ T \in Nat \ {0} /\ D \in Nat \ {0} /\ P \in Nat \ {0}
      /\ m \in Nat \ {0} /\ n = m * P
      /\ CalledRanks(i) = Ranks(GroupOf(i)) /\ ModeOf(i) \in GridModes
  BY CallFits, KeptOf DEF GridModes
<1>2. stages \in Seq(Nat) /\ Len(stages) = P
  BY <1>1
<1>3. ASSUME NEW j \in 0..(P - 1) PROVE p[m * j + 1] = <<j + 1>>
  <2> DEFINE r == m * j + T * 0 + 0
  <2>1. T * 0 = 0 /\ m * j \in Nat
    BY <1>1
  <2>2. r = m * j
    <3> HIDE DEF T, m
    <3> QED BY <2>1
  <2>3. /\ r \in Ranks(GroupOf(i)) /\ RankInfo(GroupOf(i), r) = [tp |-> 0, dp |-> 0, pp |-> j]
    <3>1. 0 \in 0..(T - 1) /\ 0 \in 0..(D - 1)
      BY <1>1
    <3> HIDE DEF r
    <3>2. r = m * j + T * 0 + 0
      BY DEF r
    <3> QED BY <1>1, <3>1, <3>2, PlaceHasRank
  <2> HIDE DEF r
  <2>4. Collects(i, r)
    BY <2>3 DEF Collects
  <2>5. p[r + 1] = Returned(i, r)
    BY <1>1, <2>3, <2>4, KeptOf
  <2>6. Returned(i, r) = <<j + 1>>
    BY <2>3 DEF Returned
  <2> QED BY <2>2, <2>5, <2>6
<1>4. ASSUME NEW k \in 1..n, p[k] # <<>>
      PROVE  \E j \in Nat : j < P /\ k = 0 + m * j + 1
  <2> DEFINE r == k - 1
             info == RankInfo(GroupOf(i), r)
  <2>1. r \in Ranks(GroupOf(i)) /\ Collects(i, r)
    BY <1>1, <1>4, KeptOf
  <2>2. /\ info.tp \in 0..(T - 1) /\ info.dp \in 0..(D - 1) /\ info.pp \in 0..(P - 1)
        /\ r = m * info.pp + T * info.dp + info.tp
    <3> HIDE DEF r
    <3> QED BY <1>1, <2>1, RankHasPlace
  <2>3. info.tp = 0 /\ info.dp = 0
    BY <2>1 DEF Collects
  <2> HIDE DEF info
  <2> DEFINE j == info.pp
  <2>4. k - 1 = m * j + T * 0 + 0
    BY <2>2, <2>3
  <2>5. j \in Nat /\ j < P /\ m * j \in Nat /\ T * 0 = 0
    BY <1>1, <2>2
  <2> HIDE DEF j, m, T
  <2>6. k = 0 + m * j + 1
    BY <1>1, <2>4, <2>5
  <2> QED BY <2>5, <2>6
<1> HIDE DEF n, T, D, m, p
<1>5. ASSUME NEW j \in Nat, j < P
      PROVE  p[0 + m * j + 1] = Part(stages, 1 * j, 1 * (j + 1))
  <2>1. j \in 0..(P - 1) /\ 0 + m * j + 1 = m * j + 1 /\ 1 * j = j /\ 1 * (j + 1) = j + 1
    BY <1>1, <1>5
  <2>2. Part(stages, j, j + 1) = <<j + 1>>
    <3> DEFINE a == SubSeq(stages, j + 1, j + 1)
    <3>1. a \in Seq(Nat) /\ Len(a) = 1 /\ a[1] = stages[j + 1]
      <4>1. j + 1 \in 1..P /\ j + 1 \in Nat
        BY <1>1, <2>1
      <4> HIDE DEF stages
      <4> QED BY <1>2, <4>1, SubSeqProperties
    <3>2. stages[j + 1] = j + 1
      BY <1>1, <2>1
    <3> HIDE DEF stages, a
    <3>3. a = <<j + 1>>
      BY <3>1, <3>2
    <3> QED BY <3>3 DEF Part, a
  <2> HIDE DEF stages
  <2> QED BY <1>3, <2>1, <2>2
<1> HIDE DEF stages
<1>6. Dealt(Nat, stages, p, n, 1, m, P, 0)
  <2>1. 0 + m * P <= n /\ 1 * P = Len(stages)
    BY <1>1, <1>2
  <2> QED BY <1>1, <1>2, <1>4, <1>5, <2>1 DEF Dealt
<1>7. Joined(p, n) = stages
  BY <1>6, DealtIsWhole
<1> QED BY <1>7, CollectedIsJoined DEF n, p, stages

\* The driver has the whole batch of each rank.
LEMMA BatchesCollected ==
  ASSUME config \in Configs, NEW i \in Calls, AllReturned(i), ModeOf(i) = "one_to_all",
         NEW r \in Ranks(GroupOf(i))
  PROVE  Chunk(Collected(i), WorldSize(GroupOf(i)), r) = Batch
<1> DEFINE n == WorldSize(GroupOf(i))
           p == Kept(i)
<1>1. n \in Nat \ {0} /\ Rows \in Nat \ {0} /\ CalledRanks(i) = Ranks(GroupOf(i))
  BY CallFits, KeptOf, BoundsAssumption
<1>2. Batch \in Seq(Nat) /\ Len(Batch) = Rows
  BY <1>1 DEF Batch
<1>3. ASSUME NEW k \in 1..n PROVE p[k] = Batch
  <2>1. k - 1 \in Ranks(GroupOf(i)) /\ (k - 1) + 1 = k
    BY <1>1 DEF Ranks
  <2>2. Collects(i, k - 1)
    BY DEF Collects
  <2>3. p[(k - 1) + 1] = Returned(i, k - 1)
    BY <1>1, <2>1, <2>2, KeptOf
  <2>4. Returned(i, k - 1) = Chunk(Batch, 1, 0)
    BY PartsByMode DEF Returned, Share
  <2> HIDE DEF p
  <2> QED BY <2>1, <2>3, <2>4, OnePart
<1> HIDE DEF n, p
<1>4. EvenPieces(Nat, p, n, Rows)
  BY <1>1, <1>2, <1>3 DEF Pieces, EvenPieces
<1> DEFINE c == Joined(p, n)
<1>5. c \in Seq(Nat) /\ Len(c) = Rows * n
      /\ \A q \in 1..n : Part(c, Rows * (q - 1), Rows * q) = p[q]
  BY <1>4, PiecesComeBack
<1>6. r + 1 \in 1..n /\ r \in Nat /\ (r + 1) - 1 = r
  BY <1>1 DEF Ranks, n
<1>7. Part(c, Rows * r, Rows * (r + 1)) = Batch
  <2>1. Part(c, Rows * ((r + 1) - 1), Rows * (r + 1)) = p[r + 1]
    BY <1>5, <1>6
  <2> QED BY <1>3, <1>6, <2>1
<1>8. Len(c) \div n = Rows
  <2>1. Rows * n = n * Rows + 0 /\ 0 \in 0..(n - 1)
    BY <1>1
  <2>2. (n * Rows + 0) \div n = Rows
    BY <1>1, <2>1, DivisionIsUnique
  <2> QED BY <1>5, <2>1, <2>2
<1> HIDE DEF c
<1>9. Chunk(c, n, r) = Part(c, Rows * r, Rows * (r + 1))
  <2>1. r * Rows = Rows * r /\ (r + 1) * Rows = Rows * (r + 1)
    BY <1>1, <1>6
  <2> QED BY <1>8, <2>1 DEF Chunk, Part
<1> QED BY <1>7, <1>9, CollectedIsJoined DEF c, p, n

\* Whatever the mode, the driver gets what it is to get.
LEMMA CollectedIsExpected ==
  ASSUME config \in Configs, NEW i \in Calls, AllReturned(i)
  PROVE  /\ Expected(i, Collected(i))
         /\ ModeOf(i) \in {"dp", "megatron", "pp_as_dp"} => Collected(i) = Batch
<1>1. ModeOf(i) \in Modes
  BY CallFits
<1>2. CASE ModeOf(i) = "rank_zero"
  BY <1>2, RankZeroCollected DEF Expected
<1>3. CASE ModeOf(i) = "dp"
  BY <1>3, DpCollected DEF Expected
<1>4. CASE ModeOf(i) \in {"megatron", "pp_as_dp"}
  BY <1>4, StageCollected DEF Expected
<1>5. CASE ModeOf(i) = "pp_only"
  BY <1>5, StagesCollected DEF Expected
<1>6. CASE ModeOf(i) = "one_to_all"
  <2>1. \A r \in Ranks(GroupOf(i)) : Chunk(Collected(i), WorldSize(GroupOf(i)), r) = Batch
    BY <1>6, BatchesCollected
  <2> QED BY <1>6, <2>1 DEF Expected
<1> QED BY <1>1, <1>2, <1>3, <1>4, <1>5, <1>6 DEF Modes

-----------------------------------------------------------------------------
(* The calls. *)

\* The calls that are made of an actor.
CallsOf(w) == {i \in Calls : GroupOf(i) = w[1] /\ w[2] \in CalledRanks(i)}

\* An actor has the calls that were made of it and is in one whose argument is there.
TakenInv ==
  /\ DOMAIN inbox = Workers /\ DOMAIN entered = Workers
  /\ \A w \in Workers :
       /\ inbox[w] \in Seq(CallsOf(w))
       /\ entered[w] # 0 => entered[w] \in CallsOf(w)
       /\ entered[w] # 0 /\ config.calls[entered[w]].arg # 0 =>
            Answered(config.calls[entered[w]].arg)

\* What the ranks have returned is what they are to return.
OutputInv ==
  /\ DOMAIN output = Calls
  /\ \A i \in Calls : DOMAIN output[i] = Ranks(GroupOf(i))
  /\ \A i \in Calls : \A r \in CalledRanks(i) :
       output[i][r] = None \/ output[i][r] = Returned(i, r)

\* What the driver has got of a call is what it is to get.
ResultInv == DOMAIN result = Calls /\ \A i \in Calls : result[i] # None => Expected(i, result[i])

WorkInv == driver.on # 0 /\ TakenInv /\ OutputInv /\ ResultInv

\* A part of the batch has rows.
LEMMA PartHasRows ==
  ASSUME NEW z \in Nat, NEW m \in Nat, z * m = Rows, NEW k \in Nat, k < m
  PROVE  Part(Batch, z * k, z * (k + 1)) # <<>>
<1>1. Rows \in Nat \ {0}
  BY BoundsAssumption
<1>2. Batch \in Seq(Nat) /\ Len(Batch) = Rows
  BY <1>1 DEF Batch
<1>3. z # 0
  BY <1>1
<1>4. z * k + z <= Rows /\ z * k \in Nat
  BY <1>3, ProductGrows
<1>5. z * (k + 1) = z * k + z
  OBVIOUS
<1> DEFINE a == z * k
<1> HIDE DEF a
<1>6. Len(SubSeq(Batch, a + 1, a + z)) = z
  <2>1. a \in Nat /\ a + z <= Rows
    BY <1>4 DEF a
  <2> QED BY <1>1, <1>2, <2>1, SubSeqProperties
<1>7. SubSeq(Batch, a + 1, a + z) # <<>>
  BY <1>3, <1>6
<1> QED BY <1>5, <1>7 DEF Part, a

\* What a rank returns is something.
LEMMA SomethingReturned ==
  ASSUME config \in Configs, NEW i \in Calls, NEW r \in CalledRanks(i)
  PROVE  Returned(i, r) # None
<1> DEFINE D == DpSize(GroupOf(i))
           P == config.pp
<1>1. ModeOf(i) \in Modes /\ Rows \in Nat \ {0} /\ Batch # None
  <2>1. Rows \in Nat \ {0}
    BY BoundsAssumption
  <2>2. Len(Batch) = Rows
    BY <2>1 DEF Batch
  <2> QED BY <2>1, <2>2, CallFits DEF None
<1>2. r \in Ranks(GroupOf(i))
  BY CallFits DEF CalledRanks, Ranks
<1>3. CASE ModeOf(i) \in {"one_to_all", "rank_zero"}
  <2>1. Returned(i, r) = Chunk(Batch, 1, 0)
    BY <1>3, PartsByMode DEF Returned, Share
  <2> QED BY <1>1, <2>1, OnePart
<1>4. CASE ModeOf(i) = "pp_only"
  BY <1>4 DEF Returned, None
<1>5. CASE ModeOf(i) = "dp"
  <2> DEFINE n == WorldSize(GroupOf(i))
  <2>1. n \in Nat \ {0} /\ Rows % n = 0 /\ r \in Nat /\ r < n
    BY <1>2, <1>5, CallFits DEF Ranks
  <2>2. Returned(i, r) = Chunk(Batch, n, r)
    BY <1>5, PartsByMode DEF Returned, Share
  <2> HIDE DEF n
  <2> DEFINE z == Rows \div n
  <2>3. z \in Nat /\ z * n = Rows /\ Chunk(Batch, n, r) = Part(Batch, z * r, z * (r + 1))
    BY <2>1, PartsFit
  <2> HIDE DEF z
  <2>4. Part(Batch, z * r, z * (r + 1)) # <<>>
    BY <2>1, <2>3, PartHasRows
  <2> QED BY <2>2, <2>3, <2>4 DEF None
<1>6. ASSUME ModeOf(i) \in GridModes
      PROVE  /\ D \in Nat \ {0} /\ P \in Nat \ {0}
             /\ RankInfo(GroupOf(i), r).dp \in Nat /\ RankInfo(GroupOf(i), r).dp < D
  <2>1. D \in Nat \ {0} /\ P \in Nat \ {0}
    BY <1>6, CallFits
  <2>2. RankInfo(GroupOf(i), r).dp \in 0..(D - 1)
    BY <1>2, <1>6, RankHasPlace
  <2> DEFINE d == RankInfo(GroupOf(i), r).dp
  <2> HIDE DEF D, d
  <2>3. d \in Nat /\ d < D
    BY <2>1, <2>2 DEF d
  <2> QED BY <2>1, <2>3 DEF d
<1>7. CASE ModeOf(i) = "megatron"
  <2> DEFINE d == RankInfo(GroupOf(i), r).dp
  <2>1. D \in Nat \ {0} /\ Rows % D = 0 /\ d \in Nat /\ d < D
    BY <1>6, <1>7, CallFits DEF GridModes
  <2>2. Returned(i, r) = Chunk(Batch, D, d)
    BY <1>7, PartsByMode DEF Returned, Share
  <2> HIDE DEF D, d
  <2> DEFINE z == Rows \div D
  <2>3. z \in Nat /\ z * D = Rows /\ Chunk(Batch, D, d) = Part(Batch, z * d, z * (d + 1))
    BY <2>1, PartsFit
  <2> HIDE DEF z
  <2>4. Part(Batch, z * d, z * (d + 1)) # <<>>
    BY <2>1, <2>3, PartHasRows
  <2> QED BY <2>2, <2>3, <2>4 DEF None
<1>8. CASE ModeOf(i) = "pp_as_dp"
  <2> DEFINE d == RankInfo(GroupOf(i), r).dp
             x == Rows \div (D * P)
             y == x * P
  <2>1. D \in Nat \ {0} /\ P \in Nat \ {0} /\ Rows % (D * P) = 0 /\ d \in Nat /\ d < D
    BY <1>6, <1>8, CallFits DEF GridModes
  <2>2. Returned(i, r) = Part(Batch, y * d, y * (d + 1))
    <3>1. PartsOf(i) = D * P
      BY <1>8, PartsByMode
    <3> QED BY <1>2, <1>8, <3>1, GatheredRows
  <2> HIDE DEF D, P, d
  <2>3. D * P \in Nat \ {0}
    BY <2>1
  <2>4. x \in Nat /\ x * (D * P) = Rows
    BY <2>1, <2>3, PartsFit
  <2> HIDE DEF x
  <2>5. y \in Nat /\ y * D = Rows
    <3>1. (x * P) * D = x * (D * P)
      BY <2>1, <2>4
    <3> QED BY <2>1, <2>4, <3>1
  <2> HIDE DEF y
  <2>6. Part(Batch, y * d, y * (d + 1)) # <<>>
    BY <2>1, <2>5, PartHasRows
  <2> QED BY <2>2, <2>6 DEF None
<1> QED BY <1>1, <1>3, <1>4, <1>5, <1>7, <1>8 DEF Modes

\* A call that all its ranks have answered has all that they are to return.
LEMMA AnsweredIsReturned ==
  ASSUME OutputInv, NEW i \in Calls, Answered(i)
  PROVE  AllReturned(i)
BY DEF OutputInv, Answered, AllReturned

\* A rank returns what it is to return, also when its rows are those of another call.
LEMMA WorkIsReturned ==
  ASSUME config \in Configs, OutputInv, NEW i \in Calls, NEW r,
         config.calls[i].arg # 0 => Answered(config.calls[i].arg)
  PROVE  Work(i, r) = Returned(i, r)
<1> DEFINE a == config.calls[i].arg
<1>1. a # 0 => Collected(a) = Batch
  <2> SUFFICES ASSUME a # 0 PROVE Collected(a) = Batch
    OBVIOUS
  <2>1. a \in Calls /\ ModeOf(a) \in {"dp", "megatron", "pp_as_dp"}
    BY CallFits
  <2> HIDE DEF a
  <2>2. AllReturned(a)
    BY <2>1, AnsweredIsReturned DEF a
  <2> QED BY <2>1, <2>2, CollectedIsExpected
<1>2. \A q : ArgOf(i, q) = Share(i, q)
  BY <1>1 DEF ArgOf, Share
<1> DEFINE given == [s \in 1..config.pp |-> ArgOf(i, (s - 1) * Stage(i) + (r % Stage(i)))]
           shares == [s \in 1..config.pp |-> Share(i, (s - 1) * Stage(i) + (r % Stage(i)))]
<1>3. given = shares
  BY <1>2
<1>4. Work(i, r) = CASE ModeOf(i) = "pp_only" -> <<RankInfo(GroupOf(i), r).pp + 1>>
                     [] ModeOf(i) = "pp_as_dp" -> FlattenSeq(given)
                     [] OTHER -> ArgOf(i, r)
  BY DEF Work, Stage
<1>5. Returned(i, r) = CASE ModeOf(i) = "pp_only" -> <<RankInfo(GroupOf(i), r).pp + 1>>
                         [] ModeOf(i) = "pp_as_dp" -> FlattenSeq(shares)
                         [] OTHER -> Share(i, r)
  BY DEF Returned
<1>6. ArgOf(i, r) = Share(i, r)
  BY <1>2
<1> HIDE DEF given, shares
<1> QED BY <1>3, <1>4, <1>5, <1>6

\* What is said about a call depends on the configuration alone.
LEMMA CallsStay ==
  ASSUME UNCHANGED config
  PROVE  /\ Calls' = Calls /\ Workers' = Workers
         /\ \A i : GroupOf(i)' = GroupOf(i) /\ CalledRanks(i)' = CalledRanks(i)
         /\ \A g : Ranks(g)' = Ranks(g)
         /\ \A w : CallsOf(w)' = CallsOf(w)
         /\ \A i, r : Returned(i, r)' = Returned(i, r)
         /\ \A i, x : Expected(i, x)' <=> Expected(i, x)
<1>1. Calls' = Calls /\ Workers' = Workers
  BY DEF Calls, Workers
<1>2. \A g : Ranks(g)' = Ranks(g) /\ WorldSize(g)' = WorldSize(g) /\ DpSize(g)' = DpSize(g)
  BY DEF Ranks, WorldSize, DpSize
<1>3. \A i : GroupOf(i)' = GroupOf(i) /\ ModeOf(i)' = ModeOf(i)
  BY DEF GroupOf, ModeOf
<1>4. \A g, r : RankInfo(g, r)' = RankInfo(g, r)
  BY <1>2 DEF RankInfo
<1>5. \A i : CalledRanks(i)' = CalledRanks(i) /\ Stage(i)' = Stage(i)
  BY <1>2, <1>3 DEF CalledRanks, Stage
<1>6. \A w : CallsOf(w)' = CallsOf(w)
  BY <1>1, <1>3, <1>5 DEF CallsOf
<1>7. \A i : PartsOf(i)' = PartsOf(i) /\ \A r : ArgRank(i, r)' = ArgRank(i, r)
  BY <1>2, <1>3, <1>4 DEF PartsOf, ArgRank
<1>8. \A i, r : Share(i, r)' = Share(i, r)
  BY <1>7 DEF Share
<1>9. \A i, r : Returned(i, r)' = Returned(i, r)
  BY <1>3, <1>4, <1>5, <1>8 DEF Returned
<1>10. \A i, x : Expected(i, x)' <=> Expected(i, x)
  BY <1>2, <1>3 DEF Expected
<1> QED BY <1>1, <1>2, <1>3, <1>5, <1>6, <1>9, <1>10

\* Nothing is called in the first state.
LEMMA NothingCalled == Init => WorkInv
<1> SUFFICES ASSUME Init PROVE WorkInv
  OBVIOUS
<1>1. driver.on # 0
  BY DEF Init
<1>2. /\ DOMAIN inbox = Workers /\ DOMAIN entered = Workers
      /\ \A w \in Workers : inbox[w] = <<>> /\ entered[w] = 0
  BY DEF Init
<1>3. /\ DOMAIN output = Calls /\ DOMAIN result = Calls
      /\ \A i \in Calls : output[i] = [r \in Ranks(GroupOf(i)) |-> None] /\ result[i] = None
  BY DEF Init, GroupOf
<1>4. ASSUME NEW i \in Calls, NEW r \in CalledRanks(i) PROVE output[i][r] = None
  <2>1. r \in Ranks(GroupOf(i))
    BY CallFits DEF CalledRanks, Ranks, Init
  <2> QED BY <1>3, <2>1
<1>5. \A w \in Workers : inbox[w] \in Seq(CallsOf(w))
  BY <1>2, EmptySeq
<1> QED BY <1>1, <1>2, <1>3, <1>4, <1>5 DEF WorkInv, TakenInv, OutputInv, ResultInv

\* An actor has still taken only what it could take while its inbox stays.
LEMMA TakenStays ==
  ASSUME config \in Configs, TakenInv, UNCHANGED <<config, inbox, entered>>,
         \A i \in Calls : Answered(i) => Answered(i)'
  PROVE  TakenInv'
<1>1. /\ Calls' = Calls /\ Workers' = Workers
      /\ \A w : CallsOf(w)' = CallsOf(w)
  BY CallsStay
<1>2. ASSUME NEW w \in Workers, entered[w] # 0, config.calls[entered[w]].arg # 0
      PROVE  Answered(config.calls[entered[w]].arg)'
  <2>1. entered[w] \in Calls /\ Answered(config.calls[entered[w]].arg)
    BY <1>2 DEF TakenInv, CallsOf
  <2>2. config.calls[entered[w]].arg \in Calls
    BY <1>2, <2>1, CallFits
  <2> QED BY <2>1, <2>2
<1> QED BY <1>1, <1>2 DEF TakenInv

\* What the ranks returned is still right while it stays.
LEMMA OutputStays == ASSUME OutputInv, UNCHANGED <<config, output>> PROVE OutputInv'
BY CallsStay DEF OutputInv

\* What the driver has got is still right while it stays.
LEMMA ResultStays == ASSUME ResultInv, UNCHANGED <<config, result>> PROVE ResultInv'
BY CallsStay DEF ResultInv

\* The same calls are answered while the outputs stay.
LEMMA AnsweredStays == ASSUME UNCHANGED <<config, output>> PROVE \A i : Answered(i)' <=> Answered(i)
BY CallsStay DEF Answered

\* The driver makes a call of the actors it is about.
LEMMA CallKeeps ==
  ASSUME config \in Configs, driver.on \in Nat, WorkInv, CallMethod
  PROVE  WorkInv'
<1> DEFINE i == driver.on
<1>1. /\ UNCHANGED <<config, entered, output, result>> /\ i <= Len(config.calls)
      /\ inbox' = [w \in Workers |->
           IF w[1] = GroupOf(i) /\ w[2] \in CalledRanks(i) THEN Append(inbox[w], i) ELSE inbox[w]]
      /\ driver'.on = i \/ driver'.on = i + 1
  BY DEF CallMethod, GoTo, started
<1>2. i \in Calls
  <2>1. config.calls \in Seq([group : Nat, mode : Modes, blocking : BOOLEAN, arg : Nat])
    BY CallsFit
  <2>2. i \in 1..Len(config.calls)
    BY <1>1, <2>1, LenProperties DEF WorkInv
  <2> QED BY <2>1, <2>2 DEF Calls
<1>3. driver'.on # 0
  BY <1>1 DEF WorkInv
<1>4. ASSUME NEW w \in Workers PROVE inbox'[w] \in Seq(CallsOf(w))
  <2>1. inbox[w] \in Seq(CallsOf(w))
    BY DEF WorkInv, TakenInv
  <2>2. CASE w[1] = GroupOf(i) /\ w[2] \in CalledRanks(i)
    <3>1. i \in CallsOf(w)
      BY <1>2, <2>2 DEF CallsOf
    <3>2. inbox'[w] = Append(inbox[w], i)
      BY <1>1, <2>2
    <3> QED BY <2>1, <3>1, <3>2, AppendProperties
  <2>3. CASE ~ (w[1] = GroupOf(i) /\ w[2] \in CalledRanks(i))
    BY <1>1, <2>1, <2>3
  <2> QED BY <2>2, <2>3
<1>5. TakenInv'
  <2>1. DOMAIN inbox' = Workers
    BY <1>1
  <2>2. \A j : Answered(j)' <=> Answered(j)
    BY <1>1, AnsweredStays
  <2>3. Calls' = Calls /\ Workers' = Workers /\ \A w : CallsOf(w)' = CallsOf(w)
    BY <1>1, CallsStay
  <2> QED BY <1>1, <1>4, <2>1, <2>2, <2>3 DEF WorkInv, TakenInv
<1> QED BY <1>1, <1>3, <1>5, OutputStays, ResultStays DEF WorkInv

\* The driver gets what all ranks have returned.
LEMMA GetKeeps ==
  ASSUME config \in Configs, driver.on \in Nat, WorkInv, GetResult
  PROVE  WorkInv'
<1>1. /\ UNCHANGED <<config, inbox, entered, output>>
      /\ driver'.on = driver.on \/ driver'.on = driver.on + 1
  BY DEF GetResult, GoTo, started
<1>2. PICK i : Answered(i) /\ result' = [result EXCEPT ![i] = Collected(i)]
  BY DEF GetResult
<1>3. ASSUME NEW j \in Calls, result'[j] # None PROVE Expected(j, result'[j])
  <2>1. DOMAIN result = Calls
    BY DEF WorkInv, ResultInv
  <2>2. CASE j = i
    <3>1. AllReturned(i)
      BY <1>2, <2>2, AnsweredIsReturned DEF WorkInv
    <3>2. Expected(i, Collected(i))
      BY <2>2, <3>1, CollectedIsExpected
    <3>3. result'[j] = Collected(i)
      BY <1>2, <2>1, <2>2
    <3> QED BY <2>2, <3>2, <3>3, Zenon
  <2>3. CASE j # i
    <3>1. result'[j] = result[j]
      BY <1>2, <2>1, <2>3
    <3> QED BY <1>3, <3>1 DEF WorkInv, ResultInv
  <2> QED BY <2>2, <2>3
<1>4. ResultInv'
  <2>1. DOMAIN result' = Calls
    BY <1>2 DEF WorkInv, ResultInv
  <2>2. Calls' = Calls /\ \A j, x : Expected(j, x)' <=> Expected(j, x)
    BY <1>1, CallsStay
  <2> QED BY <1>3, <2>1, <2>2 DEF ResultInv
<1>5. TakenInv'
  BY <1>1, TakenStays, AnsweredStays DEF WorkInv
<1>6. driver'.on # 0
  BY <1>1 DEF WorkInv
<1> QED BY <1>1, <1>4, <1>5, <1>6, OutputStays DEF WorkInv

\* An actor takes the next of its calls.
LEMMA EnterKeeps ==
  ASSUME config \in Configs, WorkInv, NEW w \in Workers, Enter(w)
  PROVE  WorkInv'
<1> DEFINE i == Head(inbox[w])
<1>1. /\ UNCHANGED <<config, driver, output, result>> /\ inbox[w] # <<>>
      /\ config.calls[i].arg # 0 => Answered(config.calls[i].arg)
      /\ entered' = [entered EXCEPT ![w] = i] /\ inbox' = [inbox EXCEPT ![w] = Tail(@)]
  BY DEF Enter
<1>2. inbox[w] \in Seq(CallsOf(w))
  BY DEF WorkInv, TakenInv
<1>3. i \in CallsOf(w) /\ Tail(inbox[w]) \in Seq(CallsOf(w))
  BY <1>1, <1>2, HeadTailProperties
<1> HIDE DEF i
<1>4. TakenInv'
  <2>1. \A j : Answered(j)' <=> Answered(j)
    BY <1>1, AnsweredStays
  <2>2. Calls' = Calls /\ Workers' = Workers /\ \A v : CallsOf(v)' = CallsOf(v)
    BY <1>1, CallsStay
  <2>3. DOMAIN inbox' = Workers /\ DOMAIN entered' = Workers
    BY <1>1 DEF WorkInv, TakenInv
  <2>4. ASSUME NEW v \in Workers
        PROVE  /\ inbox'[v] \in Seq(CallsOf(v))
               /\ entered'[v] # 0 => entered'[v] \in CallsOf(v)
               /\ entered'[v] # 0 /\ config.calls[entered'[v]].arg # 0 =>
                    Answered(config.calls[entered'[v]].arg)
    <3>1. CASE v = w
      <4>1. inbox'[v] = Tail(inbox[w]) /\ entered'[v] = i
        BY <1>1, <3>1 DEF WorkInv, TakenInv
      <4> QED BY <1>1, <1>3, <3>1, <4>1
    <3>2. CASE v # w
      <4>1. inbox'[v] = inbox[v] /\ entered'[v] = entered[v]
        BY <1>1, <3>2 DEF WorkInv, TakenInv
      <4> QED BY <4>1 DEF WorkInv, TakenInv
    <3> QED BY <3>1, <3>2
  <2> QED BY <1>1, <2>1, <2>2, <2>3, <2>4 DEF TakenInv
<1> QED BY <1>1, <1>4, OutputStays, ResultStays DEF WorkInv

\* An actor returns from a call.
LEMMA ReturnKeeps ==
  ASSUME config \in Configs, WorkInv, NEW w \in Workers, Return(w)
  PROVE  WorkInv'
<1> DEFINE i == entered[w]
<1>1. /\ UNCHANGED <<config, driver, inbox, result>> /\ i # 0
      /\ output' = [output EXCEPT ![i][w[2]] = Work(i, w[2])]
      /\ entered' = [entered EXCEPT ![w] = 0]
  BY DEF Return
<1>2. /\ i \in Calls /\ w[2] \in CalledRanks(i)
      /\ config.calls[i].arg # 0 => Answered(config.calls[i].arg)
  BY <1>1 DEF WorkInv, TakenInv, CallsOf
<1> HIDE DEF i
<1>3. Work(i, w[2]) = Returned(i, w[2]) /\ Returned(i, w[2]) # None
  BY <1>2, WorkIsReturned, SomethingReturned DEF WorkInv
<1>4. /\ Calls' = Calls /\ Workers' = Workers
      /\ \A j : GroupOf(j)' = GroupOf(j) /\ CalledRanks(j)' = CalledRanks(j)
      /\ \A g : Ranks(g)' = Ranks(g)
      /\ \A v : CallsOf(v)' = CallsOf(v)
      /\ \A j, r : Returned(j, r)' = Returned(j, r)
  BY <1>1, CallsStay
<1>5. \A j \in Calls : \A r \in CalledRanks(j) : r \in DOMAIN output[j]
  <2> SUFFICES ASSUME NEW j \in Calls, NEW r \in CalledRanks(j) PROVE r \in DOMAIN output[j]
    OBVIOUS
  <2>1. r \in Ranks(GroupOf(j))
    BY CallFits DEF CalledRanks, Ranks
  <2> QED BY <2>1 DEF WorkInv, OutputInv
<1>6. /\ DOMAIN output' = Calls
      /\ \A j \in Calls : DOMAIN output'[j] = DOMAIN output[j]
      /\ \A j \in Calls : \A r \in CalledRanks(j) :
           output'[j][r] = IF j = i /\ r = w[2] THEN Returned(i, w[2]) ELSE output[j][r]
  <2>1. DOMAIN output = Calls
    BY DEF WorkInv, OutputInv
  <2> QED BY <1>1, <1>3, <1>5, <2>1
<1>7. OutputInv'
  <2>1. \A j \in Calls : \A r \in CalledRanks(j) :
          output'[j][r] = None \/ output'[j][r] = Returned(j, r)
    BY <1>6 DEF WorkInv, OutputInv
  <2>2. \A j \in Calls : DOMAIN output'[j] = Ranks(GroupOf(j))
    BY <1>6 DEF WorkInv, OutputInv
  <2> QED BY <1>4, <1>6, <2>1, <2>2 DEF OutputInv
<1>8. \A j \in Calls : Answered(j) => Answered(j)'
  BY <1>3, <1>4, <1>6 DEF Answered
<1>9. TakenInv'
  <2>1. DOMAIN inbox' = Workers /\ DOMAIN entered' = Workers
    BY <1>1 DEF WorkInv, TakenInv
  <2>2. ASSUME NEW v \in Workers
        PROVE  /\ inbox'[v] \in Seq(CallsOf(v))
               /\ entered'[v] # 0 => entered'[v] \in CallsOf(v)
               /\ \A a : entered'[v] # 0 /\ a = config.calls[entered'[v]].arg /\ a # 0 => Answered(a)'
    <3>1. inbox'[v] \in Seq(CallsOf(v))
      BY <1>1 DEF WorkInv, TakenInv
    <3>2. CASE v = w
      <4>1. entered'[v] = 0
        BY <1>1, <3>2 DEF WorkInv, TakenInv
      <4> QED BY <3>1, <4>1
    <3>3. CASE v # w
      <4>1. entered'[v] = entered[v]
        BY <1>1, <3>3 DEF WorkInv, TakenInv
      <4>2. entered[v] # 0 => entered[v] \in CallsOf(v)
        BY DEF WorkInv, TakenInv
      <4>3. ASSUME NEW a, entered[v] # 0, a = config.calls[entered[v]].arg, a # 0
            PROVE  Answered(a)'
        <5>1. entered[v] \in Calls /\ Answered(a)
          BY <4>2, <4>3 DEF WorkInv, TakenInv, CallsOf
        <5>2. a \in Calls
          BY <4>3, <5>1, CallFits
        <5> QED BY <1>8, <5>1, <5>2
      <4> QED BY <3>1, <4>1, <4>2, <4>3
    <3> QED BY <3>2, <3>3
  <2> QED BY <1>1, <1>4, <2>1, <2>2 DEF TakenInv
<1> QED BY <1>1, <1>7, <1>9, ResultStays DEF WorkInv

\* No step spoils what the calls give.
LEMMA WorkStep == StartTypes /\ WorkInv /\ [Next]_vars => WorkInv'
<1> SUFFICES ASSUME StartTypes, WorkInv, [Next]_vars PROVE WorkInv'
  OBVIOUS
<1>0. config \in Configs /\ driver.on \in Nat
  BY DEF StartTypes
<1>1. ASSUME UNCHANGED <<config, inbox, entered, output, result>>, driver'.on # 0
      PROVE  WorkInv'
  BY <1>0, <1>1, TakenStays, OutputStays, ResultStays, AnsweredStays DEF WorkInv
<1>2. CASE GetPlacementGroups \/ CreateWorker \/ FindRegisterCenter \/ GroupCreated
           \/ Finish \/ ActorDied \/ CheckWorkersAlive
  <2>1. /\ UNCHANGED <<config, inbox, entered, output, result>>
        /\ driver'.on \in {driver.on, driver.on + 1, 1}
    BY <1>2 DEF GetPlacementGroups, CreateWorker, FindRegisterCenter, GroupCreated, Finish,
       ActorDied, CheckWorkersAlive, GoTo, called
  <2>2. driver'.on # 0
    BY <1>0, <2>1 DEF WorkInv
  <2> QED BY <1>1, <2>1, <2>2
<1>3. CASE CallMethod
  BY <1>0, <1>3, CallKeeps
<1>4. CASE GetResult
  BY <1>0, <1>4, GetKeeps
<1>5. ASSUME NEW w \in AllWorkers, New(w) \/ InitProcessGroup(w) \/ CollectiveTimeout(w) \/ Die(w)
      PROVE  WorkInv'
  <2>1. UNCHANGED <<config, driver, inbox, entered, output, result>>
    BY <1>5 DEF New, InitProcessGroup, CollectiveTimeout, Die, called
  <2> QED BY <1>1, <2>1 DEF WorkInv
<1>6. ASSUME NEW w \in AllWorkers, Enter(w) PROVE WorkInv'
  <2>1. w \in Workers
    BY <1>6 DEF Enter
  <2> QED BY <1>0, <1>6, <2>1, EnterKeeps
<1>7. ASSUME NEW w \in AllWorkers, Return(w) PROVE WorkInv'
  <2>1. w \in Workers
    BY <1>7 DEF Return
  <2> QED BY <1>0, <1>7, <2>1, ReturnKeeps
<1>8. CASE UNCHANGED vars
  BY <1>1, <1>8 DEF vars, WorkInv
<1> QED BY <1>2, <1>3, <1>4, <1>5, <1>6, <1>7, <1>8 DEF Next, Drive, Act

\* Whatever the grid of a group and the mode of a call, and also when its argument is the
\* futures of another group's call: the driver gets back the batch, each row once and in its
\* place (dispatch and collect in decorator.py, DataProtoFuture), and the groups do not meet.
THEOREM GroupsStayApart == Spec => []GroupsKeepApart
<1>1. Init => StartTypes /\ WorkInv
  BY StartsEmpty, NothingCalled
<1>2. StartTypes /\ AddressInv /\ WorkInv /\ [Next]_vars => (StartTypes /\ AddressInv /\ WorkInv)'
  BY AddressStep, WorkStep
<1>3. WorkInv => ResultsInOrder
  BY DEF WorkInv, ResultInv, ResultsInOrder, Expected
<1>4. Init => AddressInv
  BY StartsEmpty
<1>5. Spec => []ResultsInOrder
  BY <1>1, <1>2, <1>3, <1>4, PTL DEF Spec
<1>6. OneMaster /\ ResultsInOrder => GroupsKeepApart
  BY DEF GroupsKeepApart
<1> QED BY <1>5, <1>6, OwnMaster, PTL
=============================================================================
