# Verification of the SMAC-R1 trainer

SMAC-R1 trains a language model to write StarCraft II bots: prompts are answered by the model, every answer is a Python program,
the program plays a batch of games, and what it achieves is the reward of a PPO (GRPO, ReMax, REINFORCE++) update. The repository is
a fork of verl with a reward of its own. This directory holds TLA+ models of the parts of it that keep state and can go wrong in ways
a test hardly reaches, the TLC configurations that check them, and TLAPS proofs about all of them but the advantages and the losses.

`PROJECT.json` lists the components, the runs, the source lines of every definition (`map`), the hazards and the theorems; for each
property of a passing run it names a mutation of the model, shaped like a plausible slip in the code, that breaks the property.
Paths below are relative to `src/`; `ray_trainer.py` is `verl/trainer/ppo/ray_trainer.py`.

## The system

```
  main_ppo ── RayPPOTrainer (one driver process)
                │  fit: epochs, steps, warm-up, validation, saves              TrainerLoop
                │  one iteration: the batch and its columns                    PPOStep
                │
                ├─ pools, actors, dispatch and collect, futures                WorkerGroup
                │     ├─ FSDP workers: load, offload, swap, roll out           HybridEngine ── OnPolicy
                │     │      micro-batches of balanced lengths                 Balance
                │     ├─ Megatron workers over tp x dp x pp ranks              Megatron
                │     └─ tokens: padding, packing, sequence parallelism,       TokenLayout
                │        log-probabilities, advantages, losses                   ── Layout ── Advantage
                │
                ├─ _save_checkpoint / _load_checkpoint ── ranks ── disk        Checkpoint ── DurableProgress
                │
                └─ reward_fn, val_reward_fn (in the driver)                    PrimeManager
                       log of samples ── file                                    ── RewardLog
                       prime: a pool of scoring processes, tests of programs     ── CodeScore
                       SMAC: compute_score ── threads ── game processes        GameRunner

  fsdp_sft_trainer (torchrun, one process for each GPU)                        SFT ── Layout
```

The driver calls the worker groups by remote calls that are chunked over the ranks and concatenated; ranks synchronise with each other
only by collectives and barriers inside one call. The driver and the ranks share a checkpoint directory. The reward functions run in
the driver; they start threads and processes of their own and share a file system and the process table with them. Supervised
fine-tuning is a program of its own that shares the models' attention and the sequence parallel layout.

### Inventory

| component | state | operations | hard behaviour | what makes it correct | model |
|---|---|---|---|---|---|
| SMAC reward, `verl/utils/reward_score/reward_compute_llm_smac.py` | semaphore, launch lock, `current_games`, counters, the bot's file, the games' processes | `compute_score`, `run_parallel_games`, `run_game`, `_kill_game`, `__del__` | threads and processes interleave; time-outs, failed kills, reused pids, exceptions on every path | permits conserved, no more games than slots, another's process ended only where its number was reused, no interpreter left, a rate only for games that ended | `GameRunner` |
| Checkpoints, `verl/utils/checkpoint/*`, `ray_trainer.py` | `previous_save_local_path` per rank and role, shards, `data.pt`, tracker | save with three barriers, remove the previous folder, tracker, load, resume | a crash between any two writes, ranks that remove the same folder | what the tracker names is whole and of one run; bounded loss | `Checkpoint`, `DurableProgress` |
| Training loop, `ray_trainer.py` `fit` | `global_steps`, the data loader's order and position, weights | pull, update critic, update actor, validate, save, count | resume in the middle of a pass, counters compared after they are incremented | no step skipped or taken twice, no batch trained twice, no run goes on behind the total | `TrainerLoop` |
| One iteration, `ray_trainer.py`, `protocol.py`, `decorator.py`, workers | the batch, what each rank was sent, its mini- and micro-batches | generate, baseline, balance, log-probs, reference, values, reward, advantage, updates, validation | reordering on three levels and back; ranks with different rows in one collective | each column stays with its row, groups are whole, every response trained once, nobody waits for ever | `PPOStep`, `Balance` |
| Tokens and algorithms, `core_algos.py`, `dp_actor.py`, `dp_critic.py`, `fsdp_workers.py`, `ulysses.py`, `torch_functional.py`, `verl/models` | the columns of one batch, token by token | tokenise, pad, generate, unpad, roll, slice, attend, gather, re-encode, score, estimate, lose | offsets by one on both sides of every conversion | a token's own log-probability in its own context, the score at the last token, nothing of the padding | `TokenLayout`, `Layout`, `Advantage` |
| Hybrid engine, `fsdp_workers.py`, `fsdp_vllm.py`, `fsdp_utils.py`, `vllm_rollout.py` | where parameters, gradients and optimizer are, the engine's weights and cache, two random states | init, generate, log-probs, values, score, update, save, load; load and offload, enter and exit | long sequences of legal calls under every combination of offloading; a restart | operands where they are used, memory handed over, separate random streams, on-policy data | `HybridEngine`, `OnPolicy` |
| Worker groups, `verl/single_controller/` | pools and placement groups, actors, register centres, futures, inboxes | place, create, poll, spawn, dispatch, collect, materialise, check | groups that start at once, actors that die, batches that pass from group to group | each rank its own master, rows back in order, the driver never left waiting | `WorkerGroup` |
| Megatron workers, `megatron_workers.py`, `megatron_actor.py`, `megatron_critic.py`, `megatron_vllm.py`, llama loader and saver | memory buffers of all stages on each rank, the engine's shards, seeds | load, broadcast the stages, gather and split the shards, roll out, forward, update, offload, merge | collectives of four kinds of groups in an order that must agree | the engine runs the whole current model, rows back once and in place, nobody waits for ever | `Megatron` |
| Sample log, `verl/workers/reward_manager/base.py` | buffer in memory, rows in the file | `log_sample`, `save_data_buffer`, `__del__` | partial failure of a write, two managers on one file, a kill | only the last rows lost, and only to a failure; order kept | `RewardLog` |
| Scoring pool, `verl/workers/reward_manager/prime.py`, `reward_score/__init__.py` | jobs of the executor, futures, time-out | submit, wait, kill, convert, log | time-out races an answer, a process dies, an interrupt while the rows are awaited or the pool shuts down | a zero has a cause, nothing scores after the call, the call returns | `PrimeManager` |
| Tests of programs, `reward_score/prime_code` | the process of each check, two shared lists | `compute_score`, `check_correctness`, `run_test` | a kill between two appends, a program that exits or never ends | a full score is earned, every check ends | `CodeScore` |
| Supervised fine-tuning, `verl/trainer/fsdp_sft_trainer.py`, `sft_dataset.py` | rows, the sampler's order, each rank's place, saved steps | tokenise, mask, deal, train, validate, save | ranks that share rows, divisors summed over the wrong ranks, rank 0 alone between barriers | the loss is over the response, an epoch is dealt evenly, the run ends | `SFT` |

The other components, with the reason each is left out, are under "Not modelled".

## Modules

| module | what it is |
|---|---|
| `GameRunner` | one call of `compute_score`: the main thread, a thread for each game, the operating system |
| `Checkpoint` | driver, ranks and directory across runs that crash |
| `DurableProgress` | what the checkpoints promise, without ranks and files |
| `TrainerLoop` | `fit` across the runs of one experiment |
| `TrainingProofs` | theorems about `GameRunner` and `TrainerLoop`: the reward's games, and the loop they are the reward of |
| `Balance` | the Karmarkar-Karp partitions of `seqlen_balancing.py`, as operators |
| `PPOStep` | one iteration of `fit` and the validation after it; extends `Balance` |
| `PPOStepProofs` | theorems about both |
| `Advantage` | the algorithms of `core_algos.py` over padded matrices of integers |
| `Layout` | padding, packing, sequence parallel and Megatron attention; extends `Advantage` |
| `TokenLayout` | one batch from the files to the losses; extends `Layout` |
| `HybridEngine` | the colocated FSDP workers, call by call and operation by operation |
| `HybridEngineProofs` | theorems about it, with the refinement of `OnPolicy` |
| `OnPolicy` | what the hybrid engine promises |
| `WorkerGroup` | the single controller: placement, actors, dispatch, futures, deaths |
| `WorkerGroupProofs` | theorems about the groups' masters and rows |
| `Megatron` | the second back end over a grid of ranks, each with its own program |
| `MegatronProofs` | theorems about it |
| `RewardLog` | `BaseRewardManager`'s buffer and file |
| `CodeScore` | prime_code's checks of one completion |
| `PrimeManager` | the scoring pool with the log and the checks: extends both |
| `DriverProofs` | theorems about the log, that `PrimeManager` implements it, about the pool's scores, and about `Checkpoint` with its refinement of `DurableProgress` |
| `SFT` | supervised fine-tuning; extends `Layout` |
| `LayoutProofs` | theorems about `SFT` and `TokenLayout`, and about the conversions of `Layout` that both use |
| `SequenceLemmas` | facts about sequences cut into pieces and joined again, places in a grid and induction over numbers, for the proofs |
| `MC*` | values for TLC, nothing else |

`Checkpoint` and `TrainerLoop` are two views of the same saves: `Checkpoint` shows under which conditions a save is found whole or
not at all, and `TrainerLoop` takes it as one step and follows what is in it. `PPOStep` is what `TrainerLoop` does in the actions
`UpdateCritic` and `UpdateActor`; `WorkerGroup` is how each of its calls reaches the ranks, `HybridEngine` and `Megatron` are what a call does there
to the memory and the weights, and `TokenLayout` is what it computes for one row. `PrimeManager` composes three parts that share a process: the pool, the log, and the checks.

A mutated form of a definition (`StartAtTracker`, `MergeAlike`, ...) stands before the definition it mutates and is used by nothing else.

### GameRunner

`mpc` is the main thread's place in `compute_score` and `run_parallel_games`, `pc[g]` each game's thread in `run_game`; `permits` is the
semaphore, `lock` the launch lock, `table` the dictionary `current_games`. A game is a parent process (the interpreter the manager
starts) and a child (the engine). Python's global lock makes single operations on the dictionary and the counters atomic, so an action
is a stretch of code between two places where another thread or process can matter: waiting for the semaphore, checking file and machine,
taking the lock, spawning, registering, `communicate`, each signal of `_kill_game`, deleting the entry, releasing.
`setting` is the machine, chosen once in `Init` from the constant `Settings`: how many games it has room for (`Slots`) and the set of what may go wrong on it
(`Faults`); the theorems hold for every setting:

- `pidReuse`: a pid that was reaped is handed out again while its entry is still in `current_games`;
- `stuckKill`: a killed process survives the waits of `_kill_game`;
- `threadStart`: `executor.submit` raises in the middle of a batch;
- `orphan`: the interpreter ends while its engine runs.

The specification is `GameSpec`, so that one module can extend it and `TrainerLoop`. Left out: the extraction of the program from the answer (`RejectCode` is its failure), the CPU a game is bound to, and logging.

### Checkpoint and DurableProgress

`phase` is the driver, `rpc[r]` each rank in `save_checkpoint`, `shard[<<step, role, rank>>]` the model, optimizer and extra files of one
rank: the number of the run that wrote them, `Torn` while they are open, `Absent` before. `prev` is `previous_save_local_path`, a variable
of the process that a crash clears. `rmtree` removes one file at a time and every rank works on the same folder. Opening the tracker with
mode `w` empties it, so it is `Torn` until it is closed. `Start` is `fit` with `_load_checkpoint`; its resume mode is a member of `Modes`.

`DurableProgress` has three variables: a run is up, the step it works on, the step that is durable or `Lost`. Its `Expose` is the promise
the code really makes: only while a due checkpoint is being taken may nothing be durable.

### TrainerLoop

The weights are the sequence of updates they were trained by, each with its step and its batch, a batch being the sampler's pass and the
position in it. `saved` is what the newest checkpoint restores. `Crash` may come between any two statements of the loop. A configuration
is a record, chosen once in `Init`.

### PPOStep and Balance

A row maps a column to what its value was computed from: a response is its prompt and its number, a log-probability the response it is
of, a value that and the response whose mask cut it, an advantage the set of responses it was computed from. That makes a misplaced row visible without any numbers. A remote call
is `Dispatch` (chunk), `Join(r)` (rank `r` enters its next collective) and a `Collect` action (concatenate); `Raise` is a call or
statement that fails, and ends the iteration. The tensor and sequence parallel groups gather and cut rows as the sharding managers do,
mini-batches are `split`, micro-batches are `split` or balanced by `Balance`, whose number of bins the ranks agree on by an all-reduce.

`Balance` has `Merge`, `Differenced`, `Partitions` and `ReverseIdx` for `State.merge`, `karmarkar_karp`,
`get_seqlen_balanced_partitions` and `get_reverse_idx`. The heap is a `CHOOSE` of the state with the largest spread, with the source's
order on ties.

### TokenLayout, Layout and Advantage

A token is its document, its sample and its place. A hidden state is, for each attention head, the sequence of tokens it attended to with
their rotary positions: the layers are one attention over what a place may see, so that any slip of an offset, a mask or a position
changes the state. A log-probability is a label with the state it was predicted from. `Layout` is written once and used for PPO and for supervised
fine-tuning: `RmpadForward` for the FSDP side (unpad, roll, pad and slice, all-to-all, gather), `MegatronForward` for the other,
whose padded-back states are paired with the responses (`Paired`). Where `compute_rm_score` has no tokenizer to read the text again (`rm_width` 0), the Megatron
side scores the policy's rows and the FSDP side raises (`HasRmData`).
The properties compare with `SeenIn` (`Context` in `SFT`), what a row's text alone gives, without padding and on one device.

`Advantage` computes over small integers that stand for scores, values and log-probabilities; a mean stays a pair of numerator and denominator and
whitening is left scaled, so that no division is rounded. Left out of it: the whole of `low_var_kl`, the KL controllers, the entropy, the half before the squares.

### HybridEngine and OnPolicy

`plan` is what the driver still calls in this iteration, `todo` the operations left of the call it is in: a call of `fsdp_workers.py` is a sequence
of operations that depends on the configuration (`GenerateSequences`, `UpdateActor`, ...), and each operation is an action on what the workers hold: `module[role]`
(where it is, its gradient, its optimizer's state, the version of its weights, and whether its root is left unsharded), `engine` (weights and cache),
`rng` (the device's random state of each rank and the two that the sharding manager keeps). All ranks run a call in step, which their collectives enforce. `Restart`
is a new process that loads the tracked checkpoint. `drawn` counts the numbers drawn: by training, which a checkpoint records next to the generator it saves, and by generation
in this process and in earlier ones (`drawn.earlier`), whose generator no checkpoint has. `OnPolicy` has one policy that samples, scores and learns in that order.

### WorkerGroup

The driver places pools, creates the actors of each group one by one, polls for the register centre that rank 0 makes in its constructor, and then works off a program
of calls; an actor is absent, pending, new, up or dead, and works off its inbox in order. A call names its group, its dispatch mode, whether the driver waits,
and the call whose futures are its argument. `Die` is the death of an actor at any time; Ray's answer to it (`ActorDied`, `Failed`) and the timeout of a
collective are modelled from how the code relies on them. A placement group that no node has room for is waited for for ever (`ray.get(pg.ready())`); `DriverEnds` says so.

### Megatron

Each rank works off its own program; a collective happens when all ranks of its group have come to it (`Together`), so that two ranks that disagree about an order
stop the model. A weight is the sequence of heads or columns it is made of, cut by `QkvShard` and `GateUpShard` as the loader does, put together by the saver and by
`DefaultTpConcat`. Memory buffers of the other stages are loaded, filled by `BroadcastStage`, bound to the engine and offloaded. Megatron's own pipeline
schedules are one step of a stage, and the state dictionaries of the CPU are not. `NormalName` is what a stage's tensor is called in the engine, `StageOf` and `LocalName` go back.

`ConfigsFit` names which configurations there are: the layers divide by the stages, the heads by the key-value heads, those and the columns by the tensor parallel size
(`parallel_attention.py:161` asserts it) and that by the rollout's, the rows by the ranks they are chunked to, a rank's rows by its mini-batches (`protocol.py:464`), and the workers are sent
`init_model` first and once. Virtual stages (`vpp`) are left out, as the workers set none.

### RewardLog, CodeScore and PrimeManager

A sample is its manager and its number. `faults` says whether items may be refused by `json.dumps` and whether files may fail to open
or to be written; a failure leaves a prefix of the rows. `main_ppo` makes a manager for training and one for validation; the name of the
file is a time stamp in seconds, so that two managers may share one. A manager's `life` ends when it is destroyed, with a last save, or killed with the driver; either takes its buffer along.

`CodeScore` is one completion in `prime_code.compute_score`: a check of all tests, then checks of the first ones alone. Each has a process that
runs them, appends its results and its metadata, and may exit or go on for ever; `Join` is the end of `p.join(timeout)`, at any time. The alarm does nothing, because its
handler returns.

`PrimeManager` has a job in the executor and a coroutine for each completion. The executor, `asyncio.wait_for` and `gather` are Python's;
they are modelled from how the code uses them. `job = "lost"` is a job that was in flight or queued when a process died. A completion runs tests or stands for another scorer:
one that raises, returns something odd, kills its process or never ends. After the scores every row is logged. An interrupt while the rows
are awaited (`Interrupt`) is followed by the kill of the pool's processes (`KillProcesses`); one in the end of the `with` statement, which waits for the jobs (`InterruptClose`), leaves the call `deserted`.
The end of the run and a kill of the driver end the managers.

### SFT

Rows are the lengths of a prompt and a response; a token is `<<row, 0, place>>`. `pull` holds the micro-batches of the last step of each rank, from which the terms of its
loss and the factor `Num / Den` of each in the averaged gradient are derived. `at` is where each rank is: training, at a barrier, gathering the state, returned or raised. A row that is too
long raises under truncation `error`, on the rank that draws it, and the launcher ends the others (`Abort`).

## What the runs check

All cfgs but `hybrid`'s say `CHECK_DEADLOCK FALSE`: a call returns, a run ends, and nothing more happens. That nothing stops *before* its end is a
property of its own where it matters (`EventuallyReturns`, `RunEnds` of `SFT`, `CallReturns`, `CallsReturn`, `DriverEnds`, `StepCompletes`).

| run | bounds | states | it shows |
|---|---|---|---|
| `games` | 2 games, 2 pids, on machines for no, one and two games, without faults and with all four | 211 654 | permits are conserved, interpreters are ended but for those that faults let escape, another's process is ended only where its number was reused, the bot's file outlives the games, no rate for a failed game, every call returns although a game may hang for ever |
| `checkpoint` | 2 ranks, 2 roles, save every 2nd of 8 steps, 3 runs, `auto` | 7 476 | the shards, the tracker outside a save, and the refinement of `DurableProgress` |
| `checkpoint_tracker` | 2 ranks, 1 role, a save at each of 4 steps, 1 run | stops | **violated**: during a save the tracker names a checkpoint that is gone |
| `trainer` | 6 configurations of at most 3 passes of 3 batches, 4 runs | 3 044 | each step once, no batch twice, no run that goes on |
| `ppo_step` | 10 configurations, 2 or 4 ranks, 4 to 6 responses, lengths in small sets | 30 951 | alignment, groups, once-only training and validation, balance, which configurations fail, no rank left waiting |
| `tokens` | 576 initial states: 8 layouts of the forward passes with a reward model's width of 0, 3 and 6, 4 estimators, λ 0 and 1; 2 prompts of at most 3 tokens cut to 2, responses of at most 3 | 33 420 | log-probabilities, the score's place, what of the padding reaches advantages and losses |
| `hybrid` | 4 ranks in 2 engines, 4 configurations, 2 mini-batches, 2 iterations, 2 lives | 2 084 897 | operands in place, nothing left behind, separate random streams, and the refinement of `OnPolicy` |
| `workers` | 7 programs on 1 or 2 nodes, groups of 1 to 4, 2 polls, 1 death | 5 347 | each group its own master and its own rows, the driver ends |
| `megatron` | 5 grids of 4 ranks, 4 rows, 2 iterations of 7 calls | 7 392 | the engine's and the saver's weights, results of every call, memory between calls, calls return |
| `rewards` | 2 managers, 2 calls of 2 completions, 1 process, 2 tests, saves at every 3rd sample, buffer of 2 | 1 030 146 | only the last rows are lost, rows in order, scores are earned, nothing scores behind the call unless its end was interrupted, the call returns |
| `sft` | 27 configurations of 1 or 2 by 1 or 2 ranks, 4 rows in a window of 4 | 19 978 | the loss's terms, an even epoch, the means, the end |
| `sft_loss` | 3 configurations of groups of one or two ranks, balanced or not | stops | **violated**: with balanced tokens the loss of groups of two ranks is not that of the same rows on one |

### Why the bounds are enough

- `games`: two games through one slot follow each other in two batches, through two they meet in one, and without a slot none starts. The manager never starts more games than it has
  permits and drains a batch before the next, so that more games than slots would not make one wait for a permit; they would make a third batch. With the four faults every early return, exception and failed kill
  meets the other game's. Games and pids are told apart, without symmetry, because liveness is checked.
- `checkpoint`: two ranks are the least for a barrier and for two processes removing one folder; the second role shows the order of actor
  and critic; eight steps with a save at every second one give four saves, so that in one run a save removes the folder of the save before;
  three runs give a crash during the recovery from a crash. `checkpoint_tracker` is the smallest instance with a second save.
- `trainer`: a total reached within the last pass, before the passes are over, or never; a warm-up of zero, one and three; saves at every
  step, every second, every third and never; validation before, after, only and none; with and without shuffling, critic and hdfs directory. Four runs
  give three resumes.
- `ppo_step`: two tensor parallel groups of two, two sequence parallel groups of two, one or two responses of a prompt, a mini-batch that
  divides the rank's rows and one that does not, fixed and dynamic micro-batches, each estimator; the lengths are chosen for all responses
  independently, so that balancing puts rows in every order that matters. Four further configurations must fail, and do: prompts that the ranks cannot share, a mini-batch of nothing, a loss without its reference, too few tokens for a row.
- `tokens`: prompts shorter than, as long as and longer than the space for them, answers that end early, at the last place or not at all, a total that one, two, three and four ranks
  divide or not, a padding token equal to the end token or not, a reward model with the same tokens or its own, cut or not; λ at both ends, because a value behind the end cancels for 1 only; both rows' lengths independent, so that packed rows meet at every offset.
- `hybrid`: two engines of two ranks tell the tensor parallel rank from the data parallel one in the random states; two mini-batches give an optimizer step after an optimizer step; two
  iterations bring every call after every other one that may precede it, and the second life starts from a checkpoint of the first; the configurations offload everything, one thing and nothing, with a warm-up that skips the actor's update.
- `workers`: two groups started next to each other, on one node and on two, a chain of futures through two groups and back, each grid of four with one parallel size of two; a death at any
  moment. Two polls instead of 120 let the register centre be early, late and too late.
- `megatron`: grids in which each of the three sizes is two, one with tensor parallelism of four in two engines; two layers for each stage, two queries for a key; micro-batches of one and two rows, one and two epochs. Two
  iterations show the state that the first one leaves.
- `rewards`: two rows on one process: one is queued while the other runs, so that a time-out or a dying process meets all three states of a job; two tests of which one is
  checked again alone (one instead of ten), so that a test may pass in one check and fail in another; four samples with a buffer of two and saves at every third let both reasons to save occur, and two
  calls let rows of training and validation mix.
- `sft`: rows that fit, fill and exceed the window and prompts that do, both paths of the forward pass, a batch that divides the rows and ones that do not, a total within, at and beyond the epochs, an empty validation loader.

Bounds in the models: `MaxRuns` (runs of an experiment), `MaxSamples` (samples of a manager), `MaxCalls` (calls of the managers), `MaxSteps`, `MaxDraws` and `MaxLives` of `HybridEngine`,
`MaxDeaths` of `WorkerGroup`, `Steps` of `Checkpoint` (follows from `Total` and `MaxRuns`). `MaxPolls` (120) and `SampleLimit` (10) are the code's own numbers, made smaller. Everything else is bounded by the code.

### Fairness

Properties of safety are checked with or without fairness; it matters to the temporal properties.

- `GameRunner`: weak fairness of the main thread and of each game's thread. The interpreter runs each thread that can run, the semaphore and
  the lock are not held for ever because every wait of `run_game` has a time-out (`communicate(timeout=...)`, `proc.wait(timeout=3)`). Of the
  game processes nothing is assumed: they may hang. `EventuallyReturns` holds even so, because `Timeout` is a step of the thread.
- `Checkpoint`, `TrainerLoop`: none. Their loops and barriers are the same on every path, so that nothing is claimed of their ends.
- `PrimeManager`: weak fairness of the event loop, of starting each job, of the end of each join (it has a time-out) and of the end of each scoring. Nothing is assumed of the process that runs a
  program's tests, and an endless scorer has no step to be fair to.
- `WorkerGroup`: weak fairness of the driver and of each actor; nothing is assumed of deaths, and the time-out of a collective is a step of the actor (NCCL's watchdog).
- `Megatron`, `SFT`: weak fairness of `Next`, that is, some rank that can go on does. Every step moves a rank forward in its program, so this is all that `CallsReturn` and `RunEnds` need.
- `PPOStep` needs none: its statement that nobody waits for ever is an invariant (`NobodyLeftWaiting` in `StepCompletes`). Every step moves a rank's count of
  collectives or the driver's statement forward, so a call in which somebody can always go on ends. `HybridEngine` has none: TLC checks that it never deadlocks.

### What the properties say

Each property is stated in its module. Those that carry most:

- `KillsOnlyOwn` (action property): `_kill_game` finds a process by its number, and between the end of a process and the deletion of its entry the number may already be another's. A thread
  ends another game's process only then: its own was reaped and the kernel gave its number away. Never while its own game runs.
- `ParentsAreEnded`: never more interpreters than slots, and none left when the call is over, but for those that `Escaped`: two games had their number, or their kills got stuck, and
  then the manager still has their entry.
- `RateMeansAllSucceeded`: futures are counted in the order they complete; in whatever order, one failure among them means no rate.
- `TrackedWhileTraining`, `LoadsOneRun`, `IsDurableProgress`: outside a due save the tracker names a checkpoint that can be resumed from,
  and what loads was written by one run. They hold under automatic resume. If a run resumes from an older path, its save passes over folders
  of an abandoned run, and a crash between two ranks' shards leaves a mixture that loads.
- `StepsOnce`, `OvertimeIsBounded`: each weight has the updates of consecutive steps, whatever crashes and resumes; the critic has had as many updates as the warm-up says when the actor's first comes; and since a resume
  has all its passes again and compares its counter late, a run takes one step at the total or behind it, and no second.
- `NoBatchTwice`: the checkpoint carries the generator of the sampler, so that a resumed run draws a new order; its place in the pass is not
  part of it, so the rest of the pass is dropped, never repeated.
- `RowsAligned`, `EveryRowCounts`: through `_balance_batch`, the chunks, the groups' gathering, the mini-batches, the micro-batches and all the
  ways back, a row keeps its columns (the critic's values under its own mask, unless micro-batches are dynamic, see the divergences) and is trained by one group, in one mini-batch and one micro-batch; validation scores each prompt once, without the padding rows.
- `StepCompletes`: nobody is left waiting, and an iteration fails only for one of four reasons that `_validate_config` does not look at.
- `LogProbsMatch`: a log-probability is that of its token after exactly the tokens before it in its row, whichever of four ways the forward pass was laid out.
- `ScoreAtLastToken`: where scores come out; on the FSDP side none do without a tokenizer of the reward model.
- `PaddingIsIgnored`: of all that stands in the padding only the critic's value right behind an early end reaches anything: GAE bootstraps from it. The property says by how much, to the last token: it cancels for λ = 1 and
  decays with `gamma * lam` below that. For the other estimators nothing does; the losses' masks keep the rest out, but for the term of that state in the critic's loss.
- `OperandsReady`, `AtRest`: the two halves of offloading: what a call works on is there, and what it brought is gone again. `AtRest` names the exceptions the code makes: the actor's parameters after `init_model`, an
  optimizer state that was restored and not yet used, and the critic's root, which `compute_values` leaves unsharded.
- `AtRest` of `Megatron`: the reward model, and the reference once it was called, are on the CPU between calls if they are offloaded, and no engine and no other stage's buffers are left after a rollout.
- `StreamsApart`: training and generation draw from streams of their own and each goes on where it stopped, over all calls of a process, alike on the ranks of one engine. Training's goes on through a checkpoint: behind the
  loaded generator lie as many numbers as were drawn when it was saved. Generation's begins again in every process.
- `IsOnPolicy`: the detailed worker implements sample, score, learn: no update between the sample and its log-probabilities, the engine's copy is never stale.
- `GroupsKeepApart`, `DriverEnds`: groups that start at once neither mix their masters nor their rows; the driver waits for ever only for a pool that no node has room for.
- `ShardsReassemble`, `ResultsAreRight`: what `llama_loader` cut is joined in the engine's layout and by the saver; each call gives each row once, in place, from weights that
  all updates before it and no others have changed.
- `OnlyTheEndIsLost`, `RowsInOrder`: a refused sample or a failed write holds back every later one of its manager, so that the file has its first samples without a gap; what a manager's end costs are the last ones, and only
  after a failure or with a kill of the driver. Without failures the file has the rows in order, and a kill costs fewer than the buffer holds.
- `ScoresAreEarned`: a zero has a cause and a full score was earned, when a program passes, fails, exits or never ends, and when its check is killed between two appends.
- `NothingLeftScoring`: when the driver goes on, no process of the call scores or runs a program, but for a program whose scoring process was itself killed: its process is an orphan that nobody joins. An interrupt of the `with`
  statement's end leaves the jobs it waited for running, and these are only jobs that outlived the time-out.
- `LossCoversResponse`, `EpochIsLearned`: the fine-tuning loss has a term for each response token and no other, and every group trains other rows. Each micro-batch pulls with a mean over its group's tokens, groups
  weighing the same, or, balanced and with groups of one rank, with one mean over the tokens of all groups; with balanced groups of more ranks the weights are equal but too small (`SpLossMatches`). Rows cut on the left are
  exempt, as their mask is not of their response.

## What is proved

TLAPS checks the following for every value of the constants, under the assumptions each module names: finite sets of games, ranks and
completions, natural numbers where the code counts, model values that are no members, configurations of the type `Config`, kinds of failure the module knows.

| module | theorem | statement | argument |
|---|---|---|---|
| `TrainingProofs`, games | `TypeCorrect` | `GameSpec => []TypeOK` | one lemma each for main thread, game threads, processes |
| | `PermitsAreConserved` | `GameSpec => []PermitsConserved` | `PermitsConserved` is inductive over `TypeOK`: only `Acquire` and `Release` touch the permits or the games that hold one, by one each |
| | `RatesAreEarned` | `GameSpec => []RateMeansAllSucceeded` | not inductive: `RateInv` adds that the counters remember every failure of a counted future, that an exception is never counted, and that a score is given once |
| | `FileStays` | `GameSpec => []FileOutlivesGames` | not inductive: `FileInv` adds in which of its states the main thread has busy threads, and in which the file is there |
| | `KillsAreOwn` | `GameSpec => KillsOnlyOwn`, under every fault | `PidInv`: an entry of `current_games` is under its own game's number, and numbers that two games have were reused after the first was reaped; a thread about to kill has found a game of its own game's number, its own unless that one is reaped |
| | `ParentsEnd` | `GameSpec => []ParentsAreEnded`, under every fault | `EndInv`: from `Popen` to the end of its kill a process is registered or about to be, the kill has found it unless it is reaped or escaped, behind the kill it does not run or is given up; the bound follows from `PermitsConserved`, because those threads hold permits |
| `DriverProofs`, checkpoints | `TypeCorrect` | `Spec => []TypeOK` | `TypeOK` bounds the step by `Total + MaxRuns`, which needs `StepsBounded`: a run takes at most one step at or behind `Total` |
| | `DescribedWhole` | `Spec => []DescribedIsWhole` | `SaveInv`: `PrevIsOlder` (a folder about to be removed is older than the one being saved) and `ShardsInv` (which shards are written at each barrier) |
| | `SavedByThisRun` | `Spec => []SavedIsThisRun` | the same |
| | `OneRunLoads` | under `Modes \subseteq {"auto"}`: `Spec => []LoadsOneRun` | `AutoInv`: the tracker is behind the run, what it names is of one piece if it is whole, and it is whole between saves |
| | `RestartableWhileTraining` | under the same: `Spec => []TrackedWhileTraining` | the same |
| | `ImplementsProgress` | under the same: `Spec => IsDurableProgress` | each action is a step of `DurableProgress` or a stutter: `RemoveFile` and the opening of files are `Expose` or stutter, `CloseTracker` is `Commit` |
| `TrainingProofs`, loop | `NoStepTwice` | `Spec => []StepsOnce` | `StepsInv`: in each phase both weights have the updates up to a step that the phase determines (`CriticDone`, `ActorDone`), and the checkpoint has those of its own step |
| | `EveryBatchIsNew` | `Spec => []NoBatchTwice` | `BatchInv`: every update is on a batch of a pass drawn before the generator's state, in weights and checkpoint alike, and of the current pass only behind the position; `FreshBatch` says that one more may be appended |
| | `NoRunGoesOn` | `Spec => []OvertimeIsBounded` | `OvertimeInv`: in the loop and in the checkpoint the counter is below the total plus the number of runs, and with it the steps of every update |
| `DriverProofs`, log and pool | `LogKeepsAll` | `LogSpec => []OnlyTheEndIsLost` | `LogInv`: what reached the file are a manager's first samples, its buffer holds the last ones, and as long as it lives the two are all; a save clears the buffer only when the prefix that was written is all of it |
| | `ImplementsLog` | `RewardSpec => LogSpec` | every action of `PrimeManager` is an action of the log or leaves it alone (`StepsAreLogSteps`) |
| | `LogInOrder` | `LogSpec => []RowsInOrder` | `OrderInv`: without failures what a manager appends to a file is selected for it, in order, and for no other manager (`SelectedConcat`), so that each save moves the end of the buffer's rows and nobody else's; a kill drops a buffer that is not full |
| | `RowsAreKept`, `RowsStayInOrder` | `RewardSpec => []OnlyTheEndIsLost`, `RewardSpec => []RowsInOrder` | from the three above |
| | `PrimeScoresAreEarned` | `RewardSpec => []ScoresAreEarned` | `ScoringInv`: a true result is of a test that passed, results speak of all tests of their check or end in a failure, `resList` has one for each check so far; `PoolInv`: an answer that is no number has its cause |
| | `PoolIsQuiet` | `RewardSpec => []NothingLeftScoring` | `JobInv`: only a job that runs its tests, or whose process was lost, is in the middle of scoring; none is queued or running once the call has come to its scores or its processes were killed, and an interrupted end of the call leaves only jobs whose rows timed out |
| `WorkerGroupProofs` | `OwnMaster` | `Spec => []OneMaster` | `AddressInv`: the address the driver knows of a group is the one its own rank 0 put up, and no rank but the first is created before the driver knows it; the pools are sequences of positive sizes (`PoolsAreSequences`) |
| | `GroupsStayApart` | `Spec => []GroupsKeepApart` | `WorkInv`: an actor has taken only a call that waits for nothing unanswered (`TakenInv`), each rank that returned has returned what its place in the grid makes of the batch (`OutputInv`), and what the driver got of a call is what the mode promises (`ResultInv`, `CollectedIsRight`) |
| `PPOStepProofs` | `PartitionsAreWhole` | each row is in one of the `Partitions`, once; parts asked to be equal are | every state of the heap has rows that no other state has, and together all rows (`Deals`); a round keeps that, a sort permutes |
| | `PartitionsAreBalanced` | no partition is empty; the tokens of two differ by at most `Difference` | `IsFair`, see below, kept by a round |
| | `RowsStayAligned` | `Spec => []RowsAligned` | `IInv`, see below |
| | `GroupsStayWhole` | `Spec => []GroupsAreWhole` | the same |
| | `StepsComplete` | `Spec => []StepCompletes` | `Entered`: no rank has entered more collectives than its own rows make; and under `IInv` that number is the same for all ranks (`CollectivesAgree`) |
| | `RowsCount` | `Spec => []EveryRowCounts` | `Counted`: an update has trained nothing or all of it (`Complete`); the validation has scored nothing, or each row in its place |
| | `SharesStayBalanced` | `Spec => []SharesAreBalanced` | `Balanced`, from `PartitionsAreBalanced` with the lengths of the batch's rows |
| `HybridEngineProofs` | `TypeCorrect` | `Spec => []TypesInv` | part of `IInv`, see below |
| | `OperandsAreReady` | under "a reward model has a chat template": `Spec => []OperandsReady` | `OutlineInv`: what the outline knows is true and allows the next operation; `OrderInv`: a role is built before a call is about it |
| | `RestIsKept` | `Spec => []AtRest` | `RestInv` for the roles that no call is about; the end of its outline for the role of the last call |
| | `StreamsStayApart` | `Spec => []StreamsApart` | inductive with `OutlineInv` (who generates), `PlanInv` (the generator is as new when the sharding manager is built) and `Recorded`: every checkpoint has as many numbers behind its generator as training had drawn when it was saved |
| | `OnePolicy` | `Spec => IsOnPolicy` | each operation is a step of `OnPolicy` or a stutter: `sample`, the `forward` of `compute_log_prob`, the actor's `optimizer_step` and `restore`, a restart; the outline gives each of them what `OnPolicy` asks |
| `MegatronProofs` | `ReturnsToRest` | `Spec => []AtRest` | `IInv`, see below: the end of a rollout's script for the engine, the buffers and the last call, `Between` for the time after; `HomeInv` and `Parked` for where the reference and the reward model are |
| | `WeightsReassemble` | `Spec => []ShardsReassemble` | under `IInv` an engine has the shards of its own tensor parallel size (`BoundIsWhole`), and what the saver joins is what the loader cut (`SavedIsLoaded`): heads, key-value heads and gate and up columns, fused in three orders |
| | `CallsGiveRightRows` | `Spec => []ResultsAreRight` | inductive over `IInv`: the driver's `Collect` concatenates what the end of each rank's script says; an update has trained each row once an epoch because a row has exactly one place in it (`Spot`) |
| `LayoutProofs`, fine-tuning | `EpochIsLearnedByMeans` | `Spec => []EpochIsLearned` | `IInv`, see below: each group has trained the first batches of its share of the sampler's order (`Trained`), and all ranks of a group pulled the micro-batches of the same rows, in the same number everywhere (`Pulled`) |
| | `LossIsOverResponses` | `Spec => []LossCoversResponse` | under `Pulled`, what a micro-batch's rows go through is followed element by element: packing, rolling, slicing, the two all-to-alls and the padding put back (`RmpadRows`), or attention with padding (`PaddedIs`) |
| `LayoutProofs`, a batch | `LogProbsAreOfTheirTokens` | `BatchSpec => []LogProbsMatch` | `BatchInv`, see below: until the scores are put, each row of the batch is one prompt and one of its answers, with the mask and the positions of exactly these (`RowsStand`) |
| | `ScoresAreAtLastTokens` | `BatchSpec => []ScoreAtLastToken` | the same, what the reward model reads is such a batch of the row's text (`Readable`), and where there is nothing to read no score comes out (`ScoresComeOut`) |

`SaveInv` holds in every resume mode; `AutoInv` needs automatic resume, because after a resume from an older path the tracker is ahead of the run. `PrimeScoresAreEarned` holds
for every number of processes and for completions of every kind, the endless one included; `NoStepTwice` and `EveryBatchIsNew` for any number of runs, in either mode, and without
regard to when a run crashes.

`GroupsStayApart` holds for any pools, grids, modes and lists of calls that `CallsFit` admits: rows divide by the ranks they are dealt to, which `DataProto.chunk` asserts (`protocol.py:499`), and a
group's size by its grid, without which Megatron does not start. Its core is arithmetic. `GridPlace`: a rank is in exactly one place of the grid, so that each part of the batch has exactly one rank whose
result is collected, and in rank order the parts come in the batch's order; `DealtIsWhole`: parts of one length, joined in that order, are the batch.

A call of `HybridEngine` is a sequence of operations whose length depends on `Minis` and `Micros`, so that no invariant over single states alone is inductive. `HybridEngineProofs` gives each call an
outline (`Leads`): a set of states of knowledge before it (where the parameters, gradients and the optimizer's state of its role are, whether the engine serves, how far the batch is), the sequence,
and the set after it. The outlines are proved once per call, composed along `\o` and repeated by an induction over numbers (`AllNumbers` of `SequenceLemmas`, `LeadsTimes`), for every configuration. `IInv` then says:
`OutlineInv`, what is known is true of the state, and what is left of the call runs from it to the outline's end; `OrderInv` and `PlanInv`, the driver's calls come in the order of a process's life and an
iteration, and what a later call counts on is there or comes before it; `RestInv`, the roles no call is about rest; `SaveInv`, when the tracker's turn comes all roles have written the weights they have;
`StreamsApart`; and the types. Its assumptions are `MeshDivides`, `ConfigsValid`, `BatchesSplit` and that `None` is no version and no checkpoint. That a reward model has a chat template is a hypothesis
of `OperandsAreReady` only: without it the property is false (see the divergences below).

An iteration of `PPOStep` is a short sequence of stages, and `IInv` says what the driver holds at each of them (`Holding`): which columns the batch has, that it has one row for every response, and that
every column of a row was computed from the row's own response or prompt; that the ranks' chunks are those of what is being sent (`Calling`); and that an iteration which failed had sizes that do not divide
(`BadSizes`). `RowsAligned` is not inductive because a call's result is in nobody's variable: it is computed from the chunks by the ranks, who gather them over a tensor or sequence parallel group, split
them into mini- and micro-batches in another order, compute, put them back, keep their part, and are concatenated. The lemmas follow a column on that way: cutting and joining are inverse
(`SequenceLemmas`), a permutation and its `ReverseIdx` cancel, and what the partitions put together is a permutation (`PartitionsAreWhole`). `StepsComplete` needs besides that the number of micro-batches
is a maximum over the ranks, of which each has enough rows; `RowsCount`, that a mini-batch of every rank exists when it does on one.

How even the partitions are is an invariant of the differencing itself. `IsFair` says of each state of the heap that a bin's sum is the tokens of its rows (`IsWeighed`), that two sums differ by at most
`D` (`IsNarrow`), and that no bin is empty or none has more than one row (`IsSpare`). `D` is the longest row's length, or, with parts of equal size, the longest less the shortest. Meeting the
largest bin with the smallest keeps `D`: of two sums of a large and a small bin neither exceeds the other by more than one of the two states allows. The rounds and the sums, which the code computes by loops, are inductions over
numbers (`AllNumbers`). The assumption is `ConfigsValid`: what `_validate_config` asserts and the meshes need, and lengths from 1 to the width of the batch.

`Megatron` has a program for each rank, and a collective moves a whole group at once, so that its invariant is about where the ranks are. `Script` is the sequence of operations that a method has every
rank do, of `ScriptLen` operations, of which a rank skips the first few or none, and `DoneBy` is how many it has behind it. `IInv` says of each rank that what it has to do is the rest of the script (`InScript`) and what it holds
after so many operations (`InPhase`, with `InitRank`, `GenRank`, `FwdRank` and `UpdRank`): which stages' buffers are loaded and of one version, whether the engine's shards are cut for its size, which rows are
its own, its engine's, its tensor or its pipeline group's. In an update all ranks are at one mini-batch of one epoch and have drawn as many orders before it (`k` and `D`); all have one version of each
model (`Versioned`), and outside updates the same number of draws (`Drawn`). Why `Together` never mixes two operations is a lemma, not an assumption: the kind of an operation determines its place in the script (`ScriptPlaces`, `KindPlaces`),
so that a group that has come to one operation is at one place, whatever the others do. None of the three properties is inductive alone: the engine's weights come from buffers that were filled
operations ago on other ranks, and a result from rows that were cut, gathered and cut again. The lemmas on pieces and on places in a grid of `SequenceLemmas` follow both on that way. The theorems hold for every grid, model, batch and list of calls that `ConfigsFit` admits.

`SFT` deals rows by arithmetic and its gradient is right by arithmetic, so that its `IInv` says little: the batch sizes divide once a rank is past its start (`GoInv`), `Trained` and `Pulled`. `EpochIsShared` follows because a place of the
sampler's order is in one share at one position (`SharePlace`). For `LossIsAMean` the lemmas count. A row has as many unmasked places as `Expected` has terms, unless the prompt fills the window (`RowIsLearned`): the mask drops the prompt but its last place, and
the last place. With `balance_dp_token` the divisor that is all-reduced over the world is the same on all ranks and `sp` times the sum over the groups, since ranks `sp * d` to `sp * d + sp - 1` have the rows of group `d` (`SumOfGroups`, `RankPlace`); with groups of one rank the rest cancels with FSDP's mean over the
ranks, and without balancing a group divides by its own tokens (`StepIsAMean`).
The sums are the folds that the model computes, followed along the sequence by an induction over numbers (`FoldsExist`, `SumIsRun`). The assumption is `ConfigsValid`: positive sizes, and rows that have a prompt and a response.

`LossCoversResponse` is about what ten conversions of a whole batch give, so that its proof is about none of the run's states but about each conversion's elements. `Indices` is an order of the valid places, built by
counting up to the last one; what `InOrderIs` says of it (increasing, complete) is an induction over numbers, and `RunOfPlaces` makes a row without gaps a run in the packed sequence. A place of a row has one number and the
number one place (`CellIs`, `IsCell`), so that `UnpadIs`, `RollIs`, `PadRightIs` and `SlicesAre` each say which token stands where. `GatherSeqIs`, `AttendsToTokens` and `GatherHeadsIs` are the ways of heads and tokens between the
ranks, and `UlyssesIs` puts them together: on every rank, each place attends with all heads to the tokens before it as if one rank had the whole sequence. That these are its own row's only is because positions begin again at 0 in each row
(`FirstIs`, `AttendedBy`). `RmpadRows` brings the results back to their rows. Then `StateIsContext` and `CoveredIs` compare them with the response's tokens, through each way of truncation. `ConfigsValid` says besides that a model
has a head and that the sequence parallel ranks divide the heads.

`TokenLayout` is a pipeline, so that `BatchInv` says at each phase what the columns are: the prompts that are kept fit (`DocsFit`), the batch of the rollout is the stack of their padded rows, and then `RowsStand`: the tokens of the
prompt stand at the end of its part, those of the answer at the beginning of theirs, the mask is 1 on both and the positions count from 0 there, whatever stands in the padding and whether or not it is the end token. Each conversion has a lemma that
says which token stands where: `PromptRow` for the data set, `PreProcessed` for what the engine is given (its `Min` finds the first token because a prompt has no padding token in it), `AnswersFit`, `EosMaskIs` and `RowIsLaid` for the
rollout's rows, `ShiftedIs` for the columns of the response. `BatchIs` then makes the batch one that the forward passes' lemmas are about, which hold for rows that begin anywhere: `RmpadRows`, `PaddedRows` and `MegatronRows`, the last with its own
packing, whose positions come from the lengths of the rows and not from the columns. For the scores, `WordsAre` says that both backends give the reward model the row's own words and one more end, and `TextRow` that their row is
laid out on the left; `LastIs`, that the largest product of position and mask (FSDP) and the first largest running sum (Megatron) are both at the last valid token, which needs two tokens in a row. The assumption is
`SetupsValid`: positive widths, ranks that divide the heads, and a reward model that reads at least two tokens (flash attention takes packed rows whose positions never fall for one row, so that with a width of 1 rows would see each other).

Only model-checked:

- the temporal properties of liveness (`EventuallyReturns`, `RunEnds`, `CallReturns`, `CallsReturn`, `DriverEnds`), which are out of this prover's reach, as is ENABLED;
- `PaddingIsIgnored`: it compares what the loops of `core_algos.py` compute, from the last place to the first, with sums of powers of `gamma`, which the provers have no facts about.

## Findings

| run | what |
|---|---|
| `checkpoint_tracker` | Each rank removes the previous folder before it writes the new one (`fsdp_checkpoint_manager.py:103`), while the tracker goes on naming the old step. A crash in that time leaves nothing to restart from; `checkpoint_manager.py:126` says the tracker names "the latest chckpoint during training to restart from". |
| `sft_loss` | With `balance_dp_token` the tokens of each group are summed over all of its ranks and the sum is multiplied by the number of groups, not of ranks (`fsdp_sft_trainer.py:372-378`): the loss is as many times too small as a group has ranks. `tests/sft/test_sp_loss_match.py:75` asserts that it is the same with and without sequence parallelism; its configuration leaves `balance_dp_token` off, with which this holds. |

### Divergences met while modelling

These are stated as invariants that the models refute; they have no run of their own. To see one, give the configuration named to the module's `MC` module and check the invariant.

| module, invariant, configuration | what |
|---|---|
| `GameRunner`, `RateIsWinRate`, `MCGameRunner.cfg` | Every game that ends adds one to `wins` and a victory a second one (`reward_compute_llm_smac.py:389-392`), so that a bot that loses all its games scores 0.5; the docstring at line 432 says "[0.0, 1.0]: Win rate from game results". |
| `TrainerLoop`, `TrainsAllSteps`, `MCShort` | The counter starts at 1 and is compared with the total after it was incremented (`ray_trainer.py:964-966`): the last of the steps printed as "Total training steps" is not trained, although `docs/examples/config.rst:355` gives the number of epochs as what is trained. |
| `PPOStep`, `ValuesMaskedByOwnRow`, `MCCritic` | `compute_values` multiplies values that are still in the order of the micro-batches by the masks in the order of the rows (`dp_critic.py:133`) and puts the values back afterwards: with `use_dynamic_bsz` a response's values are cut by another response's mask. |
| `HybridEngine`, `ScoresWithoutTemplate`, `MCNoTemplate` | `compute_rm_score` assigns `rm_data` only when the chat template is switched (`fsdp_workers.py:1088-1091`): with `input_tokenizer: null`, which `docs/examples/config.rst:287` advises for one template, the name is unbound. |
| `HybridEngine`, `GenerationGoesOn` (in `MCHybridEngine`), `MCConfigs` | The sharding manager seeds generation's random state when it is built (`fsdp_vllm.py:59-65`) and no checkpoint has it: a resumed run samples with the numbers of the run before. |
| `GameRunner`, `NoEngineLeft`, `MCPlain` | `_kill_game` lists an interpreter's children before it ends and waits for the interpreter: an engine started in between survives the call, where the docstring of `__del__` says "Ensure all processes are cleaned up" (`reward_compute_llm_smac.py:326`). |
| `TrainerLoop`, `LearnsAfterWarmup`, `MCConfigs` | `ray_trainer.py:938` lets the actor learn in step `critic_warmup` itself. `docs/examples/config.rst:364` calls it "the number of iterations to train the critic model before actual policy learning": as many updates of the critic precede it, in that step too (`StepsOnce`), but one iteration fewer trains the critic alone. |
| `TokenLayout`, `NullTokenizerScores` (in `MCTokenLayout`), `MCSetups` | The unbound `rm_data` of `fsdp_workers.py:1088-1091`, seen from the batch: without a tokenizer of the reward model the FSDP side fails. |
| `TokenLayout`, `AdvantagesFromOwnTokens` (in `MCTokenLayout`), `MCSetups` | With λ below 1, which `core_algos.py:99-101` lets one choose, the critic's value behind an early end stays in the advantages of the tokens before it. |

Without an invariant:

- `wait_for` cannot stop a scoring that runs, and leaving the `with` statement waits for it: one scorer that never ends blocks the trainer, which is what the comment at
  `prime.py:55` says cannot happen (`Endless` in `PrimeManager`). A program's tests cannot do it, because they run in a process that is joined with a time-out.
- A resume drops the rest of the pass, because the data loader is pickled without its place in it (`TrainerLoop`'s `Save` and `BeginPass`).
- With a directory on hdfs a start with resume fails with an unbound name: the error at `ray_trainer.py:745` is built and not raised (`LoadFails`).
- A crash between opening and closing the tracker leaves it empty; the next start cannot parse it (`Torn` in `Checkpoint`).
- A resume from an older path may save over folders of an abandoned run and leave a mixture that loads (`LoadsOneRun` under `Modes = {"path"}`).
- `current_games` is keyed by pid and entries outlive their processes: with `pidReuse` a thread kills another game, and an interpreter may be left. `KillsOnlyOwn` and `ParentsAreEnded` say when and no more.
- A rank's mini-batch that is smaller than its micro-batch makes `gradient_accumulation` 0 (`dp_actor.py:226`): the division at line 274 gives an infinite loss and no exception.
- Updates of the actor pass the reference's log-probabilities when the loss needs them, but nothing checks that there is a reference
  (`RunsWhenDivisible`); neither is it checked that prompts, and not only responses, divide by the ranks.
- The weight of a micro-batch in a dynamic update is its share of `ppo_mini_batch_size`, also in a last mini-batch that is shorter
  (`dp_actor.py:226`). The FSDP actor and critic make one pass whatever `ppo_epochs` says (`config.rst:176`).
- `compute_values` leaves the critic's root unsharded until its next update.
- `_get_free_port` closes its socket before the port is used (`worker.py:58-61`); `execute_all` splits list arguments of the length of the group (`ray/base.py:340-349`);
  `merge_resource_pool` drops `max_colocate_count` (`ray/base.py:122`).
- Megatron: `save_checkpoint` takes one argument where the trainer passes three, and does nothing; `NotImplementedError` is built and not raised at `megatron_workers.py:264`; the buffers of the other stages stay
  on the GPU until the first rollout ends; mini-batches are shuffled from the global random state, which agrees between the ranks of one data rank because all seeds are the same (`SeedOf`).
- `ScoreAtLastToken` reads the text again in the reward model's tokens; padding that equals the end token is told apart by positions only. Grouped key-value heads must divide by the sequence parallel size (`models/transformers/llama.py:57`).
- The adaptive KL multiplier becomes negative when `n_steps` is more than five times the horizon; `get_kl_controller` (`core_algos.py:60`), `naive_rollout.py`, `greedy_partition` and `ParallelLlamaModel` are called by nothing.
- SFT: a prompt that fills the window makes the loss 0/0 (`fsdp_sft_trainer.py:378`); an empty validation loader makes rank 0 raise at line 502 while the others wait; `/ n_micro_batches` comes after the backward pass
  (line 397) and scales only what is printed; `resume_path` is never read.
- prime_code: the sampled score tests only the first ten, so a full score may be given although a later test fails; with `continuous=False` a failure leaves `metadata_list` unbound; the comparison
  without order at the end of `run_test` is computed and not used.

## Not modelled, and why

- **Generation and evaluation scripts, the model merger**: sequential scripts that read files and write one; the padding of the former is `PPOStep`'s.
- **File systems, small utilities** (`hdfs_io.py`, `fs.py`, `tracking.py`, `logger`, ...): shell commands, logging and conversions that no property is about.
- **Rendezvous and debugging helpers** (`nccl` rendezvous, `trajectory_tracker.py`): not on the trainer's path.
- **Rule-based scorers other than prime_code** (gsm8k, math, prime_math, ...): pure functions of two texts.
- **vLLM, Ray, PyTorch, Megatron-core, the executor and the event loop**: third-party code; what the code relies on (calls return in rank order, an actor's exception or death is raised
  in the driver, barriers wait for all ranks, `split` and `all_gather` keep the order) is modelled from its use. Of the vendored vLLM only the groups this repository changed are modelled. Megatron's pipeline schedules are one step of a stage.
- **Other rollouts**: `hf_rollout.py` and `naive_rollout.py` are sampling loops without shared state; the masks of the former are `TokenLayout`'s.
- **The models' arithmetic**: `Layout` has one attention over what a place may see instead of layers; numbers are small integers in `Advantage`, without clipping, the adaptive KL controller, the
  entropy and rounded division. Optimizers, schedules of the learning rate and mixed precision are one version number.
- **Virtual pipeline stages**: the workers set none.
- Within `Megatron`: other users of the CPU's random generator than the order of the mini-batches. The saver (`SavedIsLoaded`) is the code of the llama checkpoint, which no worker calls.
- Within `WorkerGroup`: two groups that draw the same random six letters for their names (`ray/base.py:188`).
- Within modelled components: the extraction of the program from an answer and the CPU of a game, the comparison of a test's output, chat templates and filters of the data sets,
  serialisation and the checks of consistency of `DataProto`, `greedy_partition`, which nothing calls, the binding of methods to worker groups, reading the configuration, metrics and timing.

## Plan

Done, in this order: `GameRunner` with proofs, `Checkpoint` and `DurableProgress` with proofs, `TrainerLoop`, `RewardLog`, the scoring pool, `Balance`, `PPOStep`; then
`HybridEngine` and `OnPolicy`, `WorkerGroup`, `TokenLayout` with `Layout` and `Advantage`, `Megatron`, `CodeScore` and `PrimeManager`, `SFT`, and the proofs about `TrainerLoop`, the log, the scores, the worker groups, the games' processes,
`HybridEngine` with its refinement, `Balance` and `PPOStep`, `Megatron`, the fine-tuning's deal of rows and its loss, and a batch's log-probabilities and scores. Properties of the first
modules that restated a statement of the code gave way to those of the new ones.

What is left, in the order of its worth:

1. Proofs: the advantages and losses of `TokenLayout` (`PaddingIsIgnored`), from `RowsStand` and `LogProbsMatch`.
2. An abstract iteration, "each response once, with its own columns", that `PPOStep` implements, and its composition with `TrainerLoop`'s updates.
3. The rank's exceptions between a load and its offload in `HybridEngine`; elastic failures of several actors in `WorkerGroup`.
