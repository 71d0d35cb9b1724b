----------------------------- MODULE Checkpoint -----------------------------
(***************************************************************************)
(* The checkpoints of the PPO trainer: the driver (RayPPOTrainer.fit with   *)
(* _save_checkpoint and _load_checkpoint), the ranks of the worker groups   *)
(* (FSDPCheckpointManager with its three barriers) and the directory they   *)
(* share.  Everything may crash between any two steps; a later run finds    *)
(* what is left on the disk.                                                *)
(*                                                                         *)
(* A rank's shard stands for its model, optimizer and extra_state files of  *)
(* one role in one global_step folder.                                      *)
(***************************************************************************)
EXTENDS Integers, FiniteSets

CONSTANTS
  Ranks,     \* the processes of a worker group
  Rank0,     \* the one that also writes the huggingface folder
  NRoles,    \* 1: only the actor is saved; 2: the actor, then the critic
  SaveFreq,  \* trainer.save_freq
  Total,     \* total_training_steps
  Modes,     \* the resume modes that runs are started with
  MaxRuns    \* bound on the runs, the first one included

ASSUME RankZeroIsRank == IsFiniteSet(Ranks) /\ Rank0 \in Ranks
ASSUME RolesNat == NRoles \in Nat \ {0}
ASSUME FreqNat == SaveFreq \in Nat \ {0}
ASSUME TotalNat == Total \in Nat \ {0}
ASSUME ModesKnown == Modes \subseteq {"auto", "path"}
ASSUME RunsNat == MaxRuns \in Nat \ {0}

Roles == 1..NRoles
Runs == 1..MaxRuns

\* A run that resumes at or behind Total still trains one step.
Steps == 1..(Total + MaxRuns)

Absent == 0     \* no file
Torn == -1      \* a file that was opened for writing and not closed yet

VARIABLES
  phase,    \* what the driver is doing
  run,      \* the number of the current run, 0 before the first
  step,     \* self.global_steps
  role,     \* the role whose worker group is saving
  rpc,      \* where each rank is in save_checkpoint
  prev,     \* previous_save_local_path, per role and rank: a step, or 0 for None
  shard,    \* on disk: for each step, role and rank the run that wrote the files
  data,     \* on disk: data.pt of each step, by the run that wrote it
  tracker   \* on disk: latest_checkpointed_iteration.txt

disk == <<shard, data, tracker>>
vars == <<phase, run, step, role, rpc, prev, shard, data, tracker>>

RankStates == {"idle", "removing", "made", "writing", "written", "describing",
               "described", "done"}
Phases == {"down", "failed", "training", "saving", "savingData", "closingData",
           "tracking", "closingTracker", "finished"}
Down == {"down", "failed", "finished"}

All(s) == [r \in Ranks |-> s]
At(states) == \A r \in Ranks : rpc[r] \in states

Init ==
  /\ phase = "down"
  /\ run = 0
  /\ step = 0
  /\ role = 1
  /\ rpc = All("idle")
  /\ prev = [o \in Roles |-> All(0)]
  /\ shard = [f \in Steps \X Roles \X Ranks |-> Absent]
  /\ data = [s \in Steps |-> Absent]
  /\ tracker = Absent

-----------------------------------------------------------------------------
(* A run starts: fit, _load_checkpoint. *)

\* Every file that load_checkpoint and the driver read can be read.
Loadable(s) ==
  /\ data[s] \in Runs
  /\ \A o \in Roles, r \in Ranks : shard[<<s, o, r>>] \in Runs

\* A run that finds a checkpoint may start from scratch all the same.
ResumeOrNot(mode) == {tracker, 0}

\* The step a mode resumes from: 0 for a start from scratch.  An empty tracker
\* cannot be parsed, and a path may name any folder.
ResumeFrom(mode) ==
  IF mode = "path" THEN Steps ELSE {tracker}

CanResume(s) == s = 0 \/ (s \in Steps /\ Loadable(s))

\* A run repeats the step of the checkpoint it resumes from.
StartAtTracker ==
  /\ phase \in {"down", "failed"}
  /\ run < MaxRuns
  /\ run' = run + 1
  /\ \E mode \in Modes : \E s \in ResumeFrom(mode) :
       IF CanResume(s)
       THEN phase' = "training" /\ step' = IF s = 0 THEN 1 ELSE s
       ELSE phase' = "failed" /\ step' = step
  /\ role' = 1
  /\ rpc' = All("idle")
  /\ prev' = [o \in Roles |-> All(0)]
  /\ UNCHANGED disk

\* Loading changes nothing on the disk, so a crash while loading is a run that
\* does not start.  The managers of the new processes have saved nothing yet.
Start ==
  /\ phase \in {"down", "failed"}
  /\ run < MaxRuns
  /\ run' = run + 1
  /\ \E mode \in Modes : \E s \in ResumeFrom(mode) :
       IF CanResume(s)
       THEN phase' = "training" /\ step' = s + 1
       ELSE phase' = "failed" /\ step' = step
  /\ role' = 1
  /\ rpc' = All("idle")
  /\ prev' = [o \in Roles |-> All(0)]
  /\ UNCHANGED disk

Crash ==
  /\ phase \notin Down
  /\ phase' = "down"
  /\ UNCHANGED <<run, step, role, rpc, prev, disk>>

-----------------------------------------------------------------------------
(* The driver: the loop of fit, and _save_checkpoint. *)

SaveDue == step % SaveFreq = 0

\* The end of an iteration: the counter is compared after it was incremented.
Advance ==
  /\ step' = step + 1
  /\ phase' = IF step + 1 >= Total THEN "finished" ELSE "training"

Train ==
  /\ phase = "training" /\ ~SaveDue
  /\ Advance
  /\ UNCHANGED <<run, role, rpc, prev, disk>>

BeginSave ==
  /\ phase = "training" /\ SaveDue
  /\ phase' = "saving"
  /\ role' = 1
  /\ rpc' = All("removing")
  /\ UNCHANGED <<run, step, prev, disk>>

\* The critic is never saved.
OnlyActorSaved ==
  /\ phase = "saving"
  /\ At({"done"})
  /\ role' = role /\ rpc' = All("idle") /\ phase' = "savingData"
  /\ UNCHANGED <<run, step, prev, disk>>

\* The call of one worker group has returned on every rank.
RoleSaved ==
  /\ phase = "saving"
  /\ At({"done"})
  /\ IF role < NRoles
     THEN role' = role + 1 /\ rpc' = All("removing") /\ phase' = phase
     ELSE role' = role /\ rpc' = All("idle") /\ phase' = "savingData"
  /\ UNCHANGED <<run, step, prev, disk>>

OpenData ==
  /\ phase = "savingData"
  /\ data' = [data EXCEPT ![step] = Torn]
  /\ phase' = "closingData"
  /\ UNCHANGED <<run, step, role, rpc, prev, shard, tracker>>

CloseData ==
  /\ phase = "closingData"
  /\ data' = [data EXCEPT ![step] = run]
  /\ phase' = "tracking"
  /\ UNCHANGED <<run, step, role, rpc, prev, shard, tracker>>

\* open(..., 'w') empties the tracker; its text is there when it is closed.
OpenTracker ==
  /\ phase = "tracking"
  /\ tracker' = Torn
  /\ phase' = "closingTracker"
  /\ UNCHANGED <<run, step, role, rpc, prev, shard, data>>

CloseTracker ==
  /\ phase = "closingTracker"
  /\ tracker' = step
  /\ Advance
  /\ UNCHANGED <<run, role, rpc, prev, shard, data>>

-----------------------------------------------------------------------------
(* One rank: FSDPCheckpointManager.save_checkpoint. *)

Move(r, from, to) ==
  /\ phase = "saving"
  /\ rpc[r] = from
  /\ rpc' = [rpc EXCEPT ![r] = to]

\* What is left of the folder this rank saved last for this role.
Previous(r) == {q \in Ranks : prev[role][r] # 0 /\ shard[<<prev[role][r], role, q>>] # Absent}

\* rmtree takes the files one by one, and every rank works on the same folder.
RemoveFile(r) ==
  /\ phase = "saving" /\ rpc[r] = "removing"
  /\ \E q \in Previous(r) : shard' = [shard EXCEPT ![<<prev[role][r], role, q>>] = Absent]
  /\ UNCHANGED <<phase, run, step, role, rpc, prev, data, tracker>>

MakeDir(r) ==
  /\ Previous(r) = {}
  /\ Move(r, "removing", "made")
  /\ UNCHANGED <<phase, run, step, role, prev, disk>>

\* Behind the first barrier each rank opens its files ...
OpenShard(r) ==
  /\ At(RankStates \ {"idle", "removing"})
  /\ Move(r, "made", "writing")
  /\ shard' = [shard EXCEPT ![<<step, role, r>>] = Torn]
  /\ UNCHANGED <<phase, run, step, role, prev, data, tracker>>

\* ... and has written all of them when the last is closed.
CloseShard(r) ==
  /\ Move(r, "writing", "written")
  /\ shard' = [shard EXCEPT ![<<step, role, r>>] = run]
  /\ UNCHANGED <<phase, run, step, role, prev, data, tracker>>

\* There is no second barrier.
PassSecondAtOnce(r) ==
  /\ Move(r, "written", IF r = Rank0 THEN "describing" ELSE "described")
  /\ UNCHANGED <<phase, run, step, role, prev, disk>>

\* The second barrier; behind it rank 0 writes the huggingface folder.
PassSecond(r) ==
  /\ At({"written", "describing", "described", "done"})
  /\ Move(r, "written", IF r = Rank0 THEN "describing" ELSE "described")
  /\ UNCHANGED <<phase, run, step, role, prev, disk>>

Describe(r) ==
  /\ Move(r, "describing", "described")
  /\ UNCHANGED <<phase, run, step, role, prev, disk>>

\* The third barrier, and what was saved becomes the previous path.
PassThird(r) ==
  /\ At({"described", "done"})
  /\ Move(r, "described", "done")
  /\ prev' = [prev EXCEPT ![role][r] = step]
  /\ UNCHANGED <<phase, run, step, role, disk>>

-----------------------------------------------------------------------------

DriverStep ==
  \/ Train \/ BeginSave \/ RoleSaved
  \/ OpenData \/ CloseData \/ OpenTracker \/ CloseTracker

RankStep(r) ==
  \/ RemoveFile(r) \/ MakeDir(r) \/ OpenShard(r) \/ CloseShard(r)
  \/ PassSecond(r) \/ Describe(r) \/ PassThird(r)

Next == Start \/ Crash \/ DriverStep \/ \E r \in Ranks : RankStep(r)

Spec == Init /\ [][Next]_vars

-----------------------------------------------------------------------------
(* Properties. *)

\* Every variable keeps to its values.
TypeOK ==
  /\ phase \in Phases
  /\ run \in 0..MaxRuns
  /\ step \in 0..(Total + MaxRuns)
  /\ role \in Roles
  /\ rpc \in [Ranks -> RankStates]
  /\ prev \in [Roles -> [Ranks -> {0} \cup Steps]]
  /\ shard \in [Steps \X Roles \X Ranks -> {Absent, Torn} \cup Runs]
  /\ data \in [Steps -> {Absent, Torn} \cup Runs]
  /\ tracker \in {Absent, Torn} \cup Steps

\* The huggingface folder, which other tools take for the mark of a saved model, is
\* written when the shards of every rank are complete.
DescribedIsWhole ==
  (\E r \in Ranks : rpc[r] \in {"describing", "described", "done"}) /\ phase = "saving"
    => \A q \in Ranks : shard[<<step, role, q>>] = run

\* The tracker is written last: when a run is past its save, the tracker names a
\* checkpoint all of whose files this run wrote.
SavedIsThisRun ==
  phase = "closingTracker" =>
    /\ data[step] = run
    /\ \A o \in Roles, r \in Ranks : shard[<<step, o, r>>] = run

\* The files a checkpoint is made of.
Writers(s) == {data[s]} \cup {shard[f] : f \in {s} \X Roles \X Ranks}

\* A checkpoint the tracker names and that loads is the work of one run: no rank
\* resumes from weights that the others never had.
LoadsOneRun ==
  tracker \in Steps /\ Loadable(tracker) => Cardinality(Writers(tracker)) = 1

\* While a run trains, every checkpoint it has announced can be resumed from; only
\* while it saves is there nothing to restart from.
TrackedWhileTraining == phase = "training" => CanResume(tracker)

\* The tracker records the latest checkpoint to restart from.
TrackerNamesLoadable == tracker \in Steps => Loadable(tracker)

-----------------------------------------------------------------------------
(* The abstract view: what is durable, and when nothing is. *)

Lost == -1
Durable == IF CanResume(tracker) THEN tracker ELSE Lost

Progress == INSTANCE DurableProgress WITH
  up <- phase \notin Down,
  durable <- Durable

\* Seen from outside, every run takes steps, commits a step as one action and goes
\* on from the last one committed; only within a due save may it be lost.
IsDurableProgress == Progress!Spec
=============================================================================
