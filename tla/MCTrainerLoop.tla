--------------------------- MODULE MCTrainerLoop ----------------------------
(* Model values for TrainerLoop. *)
EXTENDS TrainerLoop

Base ==
  [batches |-> 3, epochs |-> 3, total |-> 0, warmup |-> 3, saveFreq |-> 2,
   useCritic |-> TRUE, shuffle |-> TRUE, validation |-> "before", hdfs |-> FALSE]

\* A long run with a critic, and short ones in which the total is out of the reach
\* of the passes or before their end, nothing is validated or only that, and
\* nothing can be resumed.
MCConfigs ==
  {Base,
   [Base EXCEPT !.useCritic = FALSE, !.total = 7, !.batches = 2, !.epochs = 2,
                !.shuffle = FALSE, !.warmup = 0, !.saveFreq = 3],
   [Base EXCEPT !.total = 4, !.validation = "after", !.saveFreq = 1, !.warmup = 1],
   [Base EXCEPT !.batches = 1, !.validation = "none", !.saveFreq = -1],
   [Base EXCEPT !.batches = 1, !.validation = "only"],
   [Base EXCEPT !.batches = 1, !.epochs = 1, !.hdfs = TRUE]}

\* The smallest experiment of two passes: it ends without TrainsAllSteps.
MCShort == {[Base EXCEPT !.batches = 2, !.epochs = 2]}
=============================================================================
