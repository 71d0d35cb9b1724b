---------------------------- MODULE MCWorkerGroup -----------------------------
EXTENDS WorkerGroup

Call(g, m, b, a) == [group |-> g, mode |-> m, blocking |-> b, arg |-> a]
Program(gpus, pools, tp, pp, megatron, checker, calls) ==
  [gpus |-> gpus, pools |-> pools, tp |-> tp, pp |-> pp, megatron |-> megatron,
   checker |-> checker, calls |-> calls]

\* One colocated pool on two nodes; the split placement, whose critic and actor run at
\* once; a pool placed so that the next has no room; and the grids of four ranks.
MCConfigs ==
  {Program(<<1, 1>>, <<<<1, 1>>>>, 1, 1, FALSE, TRUE,
           <<Call(1, "one_to_all", TRUE, 0), Call(1, "dp", FALSE, 0), Call(1, "dp", TRUE, 2)>>),
   Program(<<2>>, <<<<1>>, <<1>>>>, 1, 1, FALSE, FALSE,
           <<Call(1, "dp", FALSE, 0), Call(2, "dp", FALSE, 1), Call(1, "dp", FALSE, 2)>>),
   Program(<<2, 2>>, <<<<2>>, <<2>>>>, 1, 1, FALSE, FALSE,
           <<Call(1, "dp", FALSE, 0), Call(2, "dp", FALSE, 1)>>),
   Program(<<2, 1>>, <<<<1>>, <<2>>>>, 1, 1, FALSE, FALSE, <<Call(2, "rank_zero", TRUE, 0)>>),
   Program(<<4>>, <<<<4>>>>, 1, 2, TRUE, FALSE, <<Call(1, "pp_as_dp", TRUE, 0)>>),
   Program(<<4>>, <<<<4>>>>, 2, 1, TRUE, FALSE, <<Call(1, "megatron", TRUE, 0)>>),
   Program(<<2>>, <<<<2>>>>, 1, 2, TRUE, FALSE,
           <<Call(1, "megatron", TRUE, 0), Call(1, "pp_only", TRUE, 0)>>)}
=============================================================================
