-------------------------- MODULE DurableProgress --------------------------
(***************************************************************************)
(* What the trainer's checkpoints promise, without ranks and files: a run   *)
(* takes steps, every SaveFreq steps it commits the step it has reached,    *)
(* and a run that starts goes on after the step that is durable.  While a   *)
(* checkpoint is being taken nothing may be durable: whoever stops then     *)
(* has nothing to restart from.                                             *)
(***************************************************************************)
EXTENDS Integers

CONSTANTS
  SaveFreq,  \* a step divisible by it is committed
  Lost       \* not a step: there is nothing to restart from

VARIABLES
  up,       \* a run is training
  step,     \* the step it works on
  durable   \* the step a restart goes on from: 0 for a start from scratch

Init == up = FALSE /\ step = 0 /\ durable = 0

SaveDue == step % SaveFreq = 0

Start ==
  /\ ~up /\ durable # Lost
  /\ up' = TRUE
  /\ step' = durable + 1
  /\ UNCHANGED durable

Train ==
  /\ up /\ ~SaveDue
  /\ step' = step + 1
  /\ up' \in BOOLEAN
  /\ UNCHANGED durable

\* Taking a checkpoint may cost the one before it.
Expose ==
  /\ up /\ SaveDue
  /\ durable' = Lost
  /\ UNCHANGED <<up, step>>

Commit ==
  /\ up /\ SaveDue
  /\ durable' = step
  /\ step' = step + 1
  /\ up' \in BOOLEAN

Stop ==
  /\ up
  /\ up' = FALSE
  /\ UNCHANGED <<step, durable>>

Next == Start \/ Train \/ Expose \/ Commit \/ Stop

Spec == Init /\ [][Next]_<<up, step, durable>>

=============================================================================
