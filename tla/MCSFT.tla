-------------------------------- MODULE MCSFT --------------------------------
(* Model values for SFT. *)
EXTENDS SFT

Base == [dp |-> 2, sp |-> 1, batch |-> 4, micro |-> 1, balance |-> FALSE, truncation |-> "right",
         epochs |-> 2, total |-> 0, val |-> 4]
Once == [Base EXCEPT !.epochs = 1]
MCConfigs ==
  {[Once EXCEPT !.sp = s, !.balance = b, !.truncation = t, !.micro = m]
     : s \in {1, 2}, b \in BOOLEAN, t \in {"right", "left"}, m \in {1, 2}}
  \cup {[Once EXCEPT !.truncation = "error", !.sp = s, !.batch = 2] : s \in {1, 2}}
  \cup {[Base EXCEPT !.total = n, !.sp = s] : n \in {0, 1, 9}, s \in {1, 2}}
  \cup {[Base EXCEPT !.val = 1], [Base EXCEPT !.batch = 3], [Base EXCEPT !.batch = 6]}

\* Balanced groups of two ranks, for SpLossMatches, and one without and one with groups of one.
MCBalancedSp == {[Once EXCEPT !.sp = 2], [Once EXCEPT !.balance = TRUE], [Once EXCEPT !.sp = 2, !.balance = TRUE]}

Row(p, r) == [prompt |-> p, response |-> r]
\* Rows that fit, fill and exceed the window, and prompts that do.
MCFiles == {<<Row(1, 1), Row(2, 2), Row(1, 3), Row(3, 1)>>,
            <<Row(2, 3), Row(1, 2), Row(3, 2), Row(2, 1)>>,
            <<Row(4, 1), Row(1, 1), Row(5, 1), Row(2, 1)>>}
=============================================================================
