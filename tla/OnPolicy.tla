------------------------------ MODULE OnPolicy -------------------------------
(***************************************************************************)
(* What the hybrid engine promises: one policy, which samples a batch, whose *)
(* log-probabilities of the batch are those the update starts from, and       *)
(* which nothing but an update or a resumed checkpoint changes.               *)
(***************************************************************************)
EXTENDS Naturals

CONSTANT None   \* no version, and no number

VARIABLES policy,   \* the version of the policy
          sampled,  \* the version that sampled the batch
          scored    \* the version whose log-probabilities the batch holds

vars == <<policy, sampled, scored>>

Init == policy \in Nat /\ sampled = None /\ scored = None

\* The policy of this moment samples a batch.
Sample == sampled' = policy /\ scored' = None /\ UNCHANGED policy

\* The policy that sampled the batch scores it, before anything has changed it.
Score ==
  /\ sampled = policy /\ scored = None
  /\ scored' = policy
  /\ UNCHANGED <<policy, sampled>>

\* One step of the optimizer, on a batch whose log-probabilities are those of its sampler.
Learn ==
  /\ sampled # None /\ scored = sampled
  /\ policy' = policy + 1
  /\ UNCHANGED <<sampled, scored>>

\* Another process goes on with the weights it finds.
Resume == policy' \in Nat /\ sampled' = None /\ scored' = None

Next == Sample \/ Score \/ Learn \/ Resume

Spec == Init /\ [][Next]_vars
=============================================================================
