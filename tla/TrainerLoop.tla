---------------------------- MODULE TrainerLoop -----------------------------
(***************************************************************************)
(* RayPPOTrainer.fit across the runs of one experiment: which batch of      *)
(* which pass over the data each step trains on, when the critic and the    *)
(* actor are updated, what a checkpoint carries to the next run.            *)
(*                                                                         *)
(* The weights are what they were trained on: a sequence of updates, each   *)
(* with its step and its batch.  A batch is the pass of the sampler and the *)
(* position in it.  Checkpoint.tla shows under what conditions a save is    *)
(* found whole or not at all; here it is one step.                          *)
(***************************************************************************)
EXTENDS Integers, Sequences

CONSTANTS
  Configs,  \* the configurations an experiment may have, see Config
  Modes,    \* the resume modes that runs are started with
  MaxRuns   \* bound on the runs, the first one included

Config ==
  [batches : Nat \ {0},    \* len(self.train_dataloader)
   epochs : Nat \ {0},     \* trainer.total_epochs
   total : Nat,            \* trainer.total_training_steps, 0 for null
   warmup : Nat,           \* trainer.critic_warmup
   saveFreq : Int,         \* trainer.save_freq, not positive for never
   useCritic : BOOLEAN,    \* algorithm.adv_estimator is gae
   shuffle : BOOLEAN,      \* data.shuffle
   validation :            \* no val_reward_fn; without val_before_train; the
     {"none", "after", "before", "only"},    \* default; with val_only
   hdfs : BOOLEAN]         \* trainer.default_hdfs_dir is given

ASSUME ConfigsTyped == Configs \subseteq Config
ASSUME ModesKnown == Modes \subseteq {"disable", "auto"}
ASSUME RunsNat == MaxRuns \in Nat \ {0}

VARIABLES
  config,   \* self.config
  phase,    \* what the driver does next
  run,      \* the number of the current run, 0 before the first
  step,     \* self.global_steps
  epoch,    \* passes begun by this run
  pass,     \* which order the sampler gave the current pass
  pos,      \* batches taken from the current pass
  drawn,    \* orders drawn from the sampler's generator
  actor,    \* the updates of the actor's weights
  critic,   \* the updates of the critic's weights
  final,    \* the validation after training was done
  saved     \* the checkpoint the tracker names: what a resume restores

vars == <<config, phase, run, step, epoch, pass, pos, drawn, actor, critic, final, saved>>

Phases == {"down", "failed", "validating", "pulling", "updatingCritic",
           "updatingActor", "saving", "counting", "lastValidation", "ended"}
Down == {"down", "failed", "ended"}

Total == IF config.total # 0 THEN config.total ELSE config.batches * config.epochs

\* The sampler's state at seed: nothing drawn.
NoCheckpoint == [step |-> 0, drawn |-> 0, actor |-> <<>>, critic |-> <<>>]

Init ==
  /\ config \in Configs
  /\ phase = "down" /\ run = 0
  /\ step = 0 /\ epoch = 0 /\ pass = 0 /\ pos = 0 /\ drawn = 0
  /\ actor = <<>> /\ critic = <<>>
  /\ final = FALSE
  /\ saved = NoCheckpoint

-----------------------------------------------------------------------------
(* fit up to the loops. *)

\* With a directory on hdfs the checkpoint folder is never looked up: the error
\* "not implemented yet" is built and not raised, and the name is unbound.
LoadFails(mode) == mode # "disable" /\ config.hdfs

\* The weights come back and the loader is built anew, from its seed.
RestoredWithoutLoader(mode) ==
  IF mode = "auto" THEN [saved EXCEPT !.drawn = 0] ELSE NoCheckpoint

Restored(mode) == IF mode = "auto" THEN saved ELSE NoCheckpoint

\* The counter is that of the checkpoint, without the step that follows.
BeginAtCheckpoint ==
  /\ phase = "validating"
  /\ IF config.validation = "only"
     THEN phase' = "ended" /\ UNCHANGED step
     ELSE phase' = "pulling" /\ step' = IF step = 0 THEN 1 ELSE step
  /\ UNCHANGED <<config, run, epoch, pass, pos, drawn, actor, critic, final, saved>>

Start ==
  /\ phase \in Down
  /\ run < MaxRuns
  /\ run' = run + 1
  /\ epoch' = 0 /\ pass' = 0 /\ pos' = config.batches
  /\ final' = FALSE
  /\ \E mode \in Modes :
       IF LoadFails(mode)
       THEN phase' = "failed" /\ UNCHANGED <<step, drawn, actor, critic>>
       ELSE LET c == Restored(mode)
            IN  /\ phase' = "validating"
                /\ step' = c.step /\ drawn' = c.drawn
                /\ actor' = c.actor /\ critic' = c.critic
  /\ UNCHANGED <<config, saved>>

\* Validation changes neither weights nor counters; the loops start one step
\* behind the checkpoint.
Begin ==
  /\ phase = "validating"
  /\ IF config.validation = "only"
     THEN phase' = "ended" /\ UNCHANGED step
     ELSE phase' = "pulling" /\ step' = step + 1
  /\ UNCHANGED <<config, run, epoch, pass, pos, drawn, actor, critic, final, saved>>

-----------------------------------------------------------------------------
(* The loops: for epoch, for batch_dict. *)

\* The order of a pass: a new one from the generator, or always the same.
BeginPass ==
  /\ phase = "pulling" /\ pos = config.batches /\ epoch < config.epochs
  /\ epoch' = epoch + 1
  /\ pass' = drawn
  /\ drawn' = IF config.shuffle THEN drawn + 1 ELSE drawn
  /\ pos' = 0
  /\ UNCHANGED <<config, phase, run, step, actor, critic, final, saved>>

\* All passes are over before total_training_steps is reached.
RunOut ==
  /\ phase = "pulling" /\ pos = config.batches /\ epoch = config.epochs
  /\ phase' = "ended"
  /\ UNCHANGED <<config, run, step, epoch, pass, pos, drawn, actor, critic, final, saved>>

\* next() of the data loader; the sequences are generated and scored.
TakeBatch ==
  /\ phase = "pulling" /\ pos < config.batches
  /\ pos' = pos + 1
  /\ phase' = "updatingCritic"
  /\ UNCHANGED <<config, run, step, epoch, pass, drawn, actor, critic, final, saved>>

Update == [step |-> step, batch |-> <<pass, pos>>]

UpdateCritic ==
  /\ phase = "updatingCritic"
  /\ critic' = IF config.useCritic THEN Append(critic, Update) ELSE critic
  /\ phase' = "updatingActor"
  /\ UNCHANGED <<config, run, step, epoch, pass, pos, drawn, actor, final, saved>>

Warm == config.warmup <= step

UpdateActor ==
  /\ phase = "updatingActor"
  /\ actor' = IF Warm THEN Append(actor, Update) ELSE actor
  /\ phase' = "saving"
  /\ UNCHANGED <<config, run, step, epoch, pass, pos, drawn, critic, final, saved>>

\* The save at the steps that are due; the data loader is pickled with the
\* state of its generator, its place in the pass is not part of it.
Save ==
  /\ phase = "saving"
  /\ saved' = IF config.saveFreq > 0 /\ step % config.saveFreq = 0
              THEN [step |-> step, drawn |-> drawn, actor |-> actor, critic |-> critic]
              ELSE saved
  /\ phase' = "counting"
  /\ UNCHANGED <<config, run, step, epoch, pass, pos, drawn, actor, critic, final>>

\* The loops are left at the total only, not behind it.
CountUntilEqual ==
  /\ phase = "counting"
  /\ step' = step + 1
  /\ phase' = CASE step + 1 # Total -> "pulling"
                [] config.validation = "none" -> "ended"
                [] OTHER -> "lastValidation"
  /\ UNCHANGED <<config, run, epoch, pass, pos, drawn, actor, critic, final, saved>>

\* The counter is compared with the total after it was incremented.
Count ==
  /\ phase = "counting"
  /\ step' = step + 1
  /\ phase' = CASE step + 1 < Total -> "pulling"
                [] config.validation = "none" -> "ended"
                [] OTHER -> "lastValidation"
  /\ UNCHANGED <<config, run, epoch, pass, pos, drawn, actor, critic, final, saved>>

LastValidation ==
  /\ phase = "lastValidation"
  /\ final' = TRUE
  /\ phase' = "ended"
  /\ UNCHANGED <<config, run, step, epoch, pass, pos, drawn, actor, critic, saved>>

Crash ==
  /\ phase \notin Down
  /\ phase' = "down"
  /\ UNCHANGED <<config, run, step, epoch, pass, pos, drawn, actor, critic, final, saved>>

Drive ==
  \/ Begin \/ BeginPass \/ RunOut \/ TakeBatch \/ UpdateCritic \/ UpdateActor
  \/ Save \/ Count \/ LastValidation

Next == Start \/ Drive \/ Crash

Spec == Init /\ [][Next]_vars

-----------------------------------------------------------------------------

\* Crashes and resumes leave no step out and take none twice, in weights and in
\* checkpoints alike: update i of the critic is that of step i, the actor's are those of
\* consecutive steps, and both are those of the counter when the next step begins.  The
\* actor's first is that of step critic_warmup or the first of all; a critic has had
\* critic_warmup updates by then, for it learns first (fit, _save_checkpoint,
\* _load_checkpoint; docs/examples/config.rst on critic_warmup).
StepsOnce ==
  /\ \A i \in DOMAIN critic : critic[i].step = i
  /\ \A i \in DOMAIN actor :
       IF i = 1 THEN actor[i].step \in {1, config.warmup}
                ELSE actor[i].step = actor[i - 1].step + 1
  /\ actor # <<>> /\ config.useCritic => Len(critic) >= config.warmup
  /\ phase = "pulling" =>
       /\ config.useCritic => Len(critic) = step - 1
       /\ IF step > 1 /\ step > config.warmup
          THEN actor # <<>> /\ actor[Len(actor)].step = step - 1
          ELSE actor = <<>>

\* With a shuffling sampler no weights are trained twice on one batch: the
\* checkpoint carries the generator, so a resumed run draws a new order
\* (_create_dataloader, _save_checkpoint, _load_checkpoint).
NoBatchTwice ==
  config.shuffle =>
    \A w \in {actor, critic} : \A i, j \in DOMAIN w :
      w[i].batch = w[j].batch => i = j

\* However often an experiment is resumed, and although each run has all its passes
\* again, a run takes at most one step at the total or behind it: the one that a resume
\* behind the last checkpoint begins with (the end of the loop in fit).
OvertimeIsBounded ==
  \A w \in {actor, critic} : \A i \in DOMAIN w : w[i].step < Total + run

-----------------------------------------------------------------------------
(* What the documentation says. *)

\* docs/examples/config.rst: total_epochs is the number of epochs in training, so
\* a run that ends has trained total_training_steps steps.
TrainsAllSteps ==
  phase = "ended" /\ config.validation # "only" => step > Total

\* docs/examples/config.rst: critic_warmup is the number of iterations that train the
\* critic before actual policy learning, read as iterations that train nothing else.
LearnsAfterWarmup ==
  \A i \in DOMAIN actor : actor[i].step > config.warmup
=============================================================================
