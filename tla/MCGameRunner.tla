---------------------------- MODULE MCGameRunner ----------------------------
(* Model values for GameRunner. *)
EXTENDS GameRunner

\* Both games at once, one after the other, or none; without faults and with all.
MCSettings ==
  {[slots |-> s, faults |-> f] : s \in 0..2, f \in {{}, FaultKinds}}

\* A machine for one game at a time that never fails: NoEngineLeft does not hold there.
MCPlain == {[slots |-> 1, faults |-> {}]}
=============================================================================
