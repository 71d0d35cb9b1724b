------------------------------ MODULE CodeScore ------------------------------
(***************************************************************************)
(* The scoring of a program by its tests (prime_code.compute_score).        *)
(* check_correctness runs the program in a process of its own, waits for it *)
(* with one timeout for all its tests and kills it; the results come back   *)
(* through two shared lists.  compute_score checks all tests at once and,   *)
(* unless all pass, the first ones again, each in a check of its own.       *)
(*                                                                         *)
(* What a program does with a test is open at every run of it: it passes,   *)
(* it fails, it takes its process down, or it never ends, which is the step *)
(* that is not taken.  The handler of the alarm that run_test sets before   *)
(* each test only prints, so that the alarm interrupts nothing.             *)
(***************************************************************************)
EXTENDS Integers, Sequences, SequencesExt

CONSTANTS
  Completions,  \* the completions that are scored
  Tests,        \* number of tests of a problem
  SampleLimit   \* how many tests are checked on their own; 10 in the code

ASSUME TestsPositive == {Tests, SampleLimit} \subseteq Nat \ {0}

VARIABLES
  scoring,    \* compute_score of each completion: "no", "checking", "over"
  check,      \* the check it is at: 0 of all tests, i of the i-th alone
  child,      \* the process of that check
  seen,       \* run_test's results in it
  result,     \* the shared list of results
  described,  \* whether the shared list of metadata has its element
  resList,    \* res_list
  score,      \* what compute_score returned
  passed      \* history: the tests that the completion passed in some check

scoringVars == <<scoring, check, child, seen, result, described, resList, score, passed>>

\* "answers" and "describes": about to append the result, the metadata.
ChildStates == {"none", "testing", "answers", "describes", "gone"}
Alive(c) == child[c] \in {"testing", "answers", "describes"}

Sampled == IF Tests < SampleLimit THEN Tests ELSE SampleLimit

NumTests(k) == IF k = 0 THEN Tests ELSE 1

ScoringInit ==
  /\ scoring = [c \in Completions |-> "no"]
  /\ check = [c \in Completions |-> 0]
  /\ child = [c \in Completions |-> "none"]
  /\ seen = [c \in Completions |-> <<>>]
  /\ result = [c \in Completions |-> <<>>]
  /\ described = [c \in Completions |-> FALSE]
  /\ resList = [c \in Completions |-> <<>>]
  /\ score = [c \in Completions |-> "unset"]
  /\ passed = [c \in Completions |-> {}]

-----------------------------------------------------------------------------
(* The process of a check: _temp_run and run_test. *)

\* The program does not compile or has no entry point: one result for all tests.
CompileFails(c) ==
  /\ child[c] = "testing" /\ seen[c] = <<>>
  /\ seen' = [seen EXCEPT ![c] = <<FALSE>>]
  /\ child' = [child EXCEPT ![c] = "answers"]
  /\ UNCHANGED <<scoring, check, result, described, resList, score, passed>>

\* The outputs are compared as they are, stripped, by lines and as numbers: one of
\* these matches or none does.
Verdicts == BOOLEAN

\* The next test: the first one that fails, by its output or by an exception, ends
\* the check.
RunTest(c) ==
  /\ child[c] = "testing"
  /\ \E pass \in Verdicts :
       LET results == Append(seen[c], pass)
           test == IF check[c] = 0 THEN Len(results) ELSE check[c]
       IN  /\ seen' = [seen EXCEPT ![c] = results]
           /\ passed' = [passed EXCEPT ![c] = IF pass THEN @ \cup {test} ELSE @]
           /\ child' = [child EXCEPT ![c] =
                IF pass /\ Len(results) < NumTests(check[c]) THEN "testing" ELSE "answers"]
  /\ UNCHANGED <<scoring, check, result, described, resList, score>>

\* The program takes its process down: SystemExit and what no handler sees.
Exits(c) ==
  /\ child[c] = "testing"
  /\ child' = [child EXCEPT ![c] = "gone"]
  /\ UNCHANGED <<scoring, check, seen, result, described, resList, score, passed>>

AppendResult(c) ==
  /\ child[c] = "answers"
  /\ result' = [result EXCEPT ![c] = seen[c]]
  /\ child' = [child EXCEPT ![c] = "describes"]
  /\ UNCHANGED <<scoring, check, seen, described, resList, score, passed>>

AppendMetadata(c) ==
  /\ child[c] = "describes"
  /\ described' = [described EXCEPT ![c] = TRUE]
  /\ child' = [child EXCEPT ![c] = "gone"]
  /\ UNCHANGED <<scoring, check, seen, result, resList, score, passed>>

ChildStep(c) == CompileFails(c) \/ RunTest(c) \/ Exits(c) \/ AppendResult(c) \/ AppendMetadata(c)

-----------------------------------------------------------------------------
(* compute_score and check_correctness. *)

\* A check without an answer reports nothing.
ReportedOnly(c) == result[c]

\* The results of the check that ended: without an answer all its tests failed.
Reported(c) ==
  IF result[c] = <<>> THEN [i \in 1..NumTests(check[c]) |-> FALSE] ELSE result[c]

\* The share of the tests of resList that passed, told apart as far as it matters.
Share(list) ==
  IF \A i \in DOMAIN list : list[i] THEN "full"
  ELSE IF \E i \in DOMAIN list : list[i] THEN "part" ELSE "none"

Begin(c) ==
  /\ scoring[c] = "no"
  /\ scoring' = [scoring EXCEPT ![c] = "checking"]
  /\ child' = [child EXCEPT ![c] = "testing"]
  /\ UNCHANGED <<check, seen, result, described, resList, score, passed>>

\* The join ended, with the child or by its timeout, which kills the child; the
\* check's lists are read.  All tests passed in the check of all of them, and its
\* metadata is there, or the next check begins; the last one decides the score.
EndCheck(c) ==
  LET reported == Reported(c)
      whole == check[c] = 0 /\ described[c] /\ \A i \in DOMAIN reported : reported[i]
      list == IF check[c] = 0 THEN <<>> ELSE resList[c] \o reported
      over == whole \/ check[c] = Sampled
  IN  /\ scoring' = [scoring EXCEPT ![c] = IF over THEN "over" ELSE @]
      /\ score' = [score EXCEPT ![c] =
           IF whole THEN "full" ELSE IF over THEN Share(list) ELSE @]
      /\ check' = [check EXCEPT ![c] = IF over THEN 0 ELSE @ + 1]
      /\ child' = [child EXCEPT ![c] = IF over THEN "gone" ELSE "testing"]
      /\ resList' = [resList EXCEPT ![c] = IF over THEN <<>> ELSE list]
      /\ seen' = [seen EXCEPT ![c] = <<>>]
      /\ result' = [result EXCEPT ![c] = <<>>]
      /\ described' = [described EXCEPT ![c] = FALSE]
      /\ UNCHANGED passed

\* The join has no timeout.
JoinsForEver(c) == scoring[c] = "checking" /\ ~Alive(c) /\ EndCheck(c)

\* p.join(timeout): the child is gone, or the time of all tests is over.
Join(c) == scoring[c] = "checking" /\ EndCheck(c)

\* compute_score returns.
Leave(c) ==
  /\ scoring[c] = "over"
  /\ scoring' = [scoring EXCEPT ![c] = "no"]
  /\ child' = [child EXCEPT ![c] = IF Alive(c) THEN @ ELSE "none"]
  /\ score' = [score EXCEPT ![c] = "unset"]
  /\ passed' = [passed EXCEPT ![c] = {}]
  /\ UNCHANGED <<check, seen, result, described, resList>>

-----------------------------------------------------------------------------

\* A full score is earned: the completion passed each of the tests that are checked,
\* if not all in one check; a check that was killed earns nothing.
FullScoreIsEarned ==
  \A c \in Completions : score[c] = "full" => 1..Sampled \subseteq passed[c]
=============================================================================
