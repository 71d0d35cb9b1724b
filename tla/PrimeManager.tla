---------------------------- MODULE PrimeManager ----------------------------
(***************************************************************************)
(* The reward managers of a run that scores with PrimeRewardManager, one    *)
(* for training and one for validation.  A call gives every completion of   *)
(* its batch to a ProcessPoolExecutor and waits for each with               *)
(* asyncio.wait_for, all with the same timeout (parallel_compute_score_     *)
(* async), and then logs the rows one by one (RewardLog).  The driver has   *)
(* one thread: its calls follow each other.                                 *)
(*                                                                         *)
(* A completion's scoring is of one kind: it runs a program against its     *)
(* tests (CodeScore), raises, returns something that is neither a number    *)
(* nor a sequence, never ends, or kills the process it runs in.             *)
(***************************************************************************)
EXTENDS CodeScore, RewardLog, FiniteSets

CONSTANTS
  Processes,    \* num_processes
  Kinds,        \* the kinds of scoring that occur
  MaxCalls      \* bound on the calls of the managers

ASSUME CompletionsFinite == IsFiniteSet(Completions)
ASSUME ProcessesPositive == Processes \in Nat \ {0}
ASSUME KindsKnown == Kinds \subseteq {"tests", "raises", "odd", "endless", "deadly"}
ASSUME LogHoldsCalls == MaxCalls \in Nat /\ MaxSamples >= MaxCalls * Cardinality(Completions)

VARIABLES
  manager,  \* whose call it is
  calls,    \* number of calls begun
  kind,     \* what scoring each completion does
  job,      \* each completion in the executor
  answer,   \* each coroutine of single_compute_score
  late,     \* the timeout has passed; it runs from the submission of all rows
  broken,   \* a process died and the executor is unusable
  caller,   \* where the driver is in the call
  scores,   \* the call's scores
  row       \* how many rows of the call were logged

poolVars == <<manager, calls, kind, job, answer, late, broken, caller, scores, row>>
rewardVars == <<poolVars, scoringVars, logVars>>

\* What a step inside a call leaves alone.
callVars == <<manager, calls>>

Jobs == {"none", "queued", "running", "over", "cancelled", "lost"}
\* A number is what CodeScore tells apart of it; "odd" is another return value.
Numbers == {"full", "part", "none"}
Answers == {"waiting", "odd", "None"} \cup Numbers

Running == {c \in Completions : job[c] = "running"}
Queued == {c \in Completions : job[c] = "queued"}

RewardInit ==
  /\ manager = CHOOSE m \in Managers : TRUE
  /\ calls = 0
  /\ kind = [c \in Completions |-> "raises"]
  /\ job = [c \in Completions |-> "none"]
  /\ answer = [c \in Completions |-> "waiting"]
  /\ late = FALSE
  /\ broken = FALSE
  /\ caller = "idle"
  /\ scores = [c \in Completions |-> "unset"]
  /\ row = 0
  /\ ScoringInit
  /\ LogInit

\* The trainer calls a manager with a batch: all rows are submitted.
Call(m) ==
  /\ caller = "idle" /\ calls < MaxCalls /\ \A n \in Managers : life[n] = "running"
  /\ manager' = m
  /\ calls' = calls + 1
  /\ kind' \in [Completions -> Kinds]
  /\ job' = [c \in Completions |-> "queued"]
  /\ caller' = "gathering"
  /\ UNCHANGED <<answer, late, broken, scores, row, scoringVars, logVars>>

-----------------------------------------------------------------------------
(* The executor. *)

\* A process takes a job from the queue.  The executor gives jobs out in the order
\* of submission; no property depends on it.
StartJob(c) ==
  /\ job[c] = "queued" /\ ~broken
  /\ Cardinality(Running) < Processes
  /\ job' = [job EXCEPT ![c] = "running"]
  /\ IF kind[c] = "tests" THEN Begin(c) ELSE UNCHANGED scoringVars
  /\ UNCHANGED <<callVars, kind, answer, late, broken, caller, scores, row, logVars>>

\* A job that runs tests, as long as its process lives.  The process of a check
\* that outlives it touches nothing any more that is modelled.
RunsTests(c) == job[c] = "running" /\ kind[c] = "tests"

CheckStep(c) ==
  /\ RunsTests(c)
  /\ ChildStep(c)
  /\ UNCHANGED <<poolVars, logVars>>

JoinStep(c) ==
  /\ RunsTests(c)
  /\ Join(c)
  /\ UNCHANGED <<poolVars, logVars>>

\* What the future of a job that ended gives to the coroutine that waits for it;
\* the exceptions are caught in single_compute_score.
AnswerOf(c) ==
  CASE kind[c] = "tests" -> score[c]
    [] kind[c] = "odd" -> "odd"
    [] OTHER -> "None"

EndJob(c) ==
  /\ job[c] = "running" /\ kind[c] \in {"tests", "raises", "odd"}
  /\ IF kind[c] = "tests" THEN Leave(c) ELSE UNCHANGED scoringVars
  /\ job' = [job EXCEPT ![c] = "over"]
  /\ answer' = IF answer[c] = "waiting" THEN [answer EXCEPT ![c] = AnswerOf(c)] ELSE answer
  /\ UNCHANGED <<callVars, kind, late, broken, caller, scores, row, logVars>>

\* The jobs in flight are not told that the executor is broken.
ProcessDiesAlone(c) ==
  /\ job[c] = "running" /\ kind[c] = "deadly"
  /\ broken' = TRUE
  /\ job' = [job EXCEPT ![c] = "lost"]
  /\ UNCHANGED <<callVars, kind, answer, late, caller, scores, row, scoringVars, logVars>>

\* A process dies: all jobs that are not over fail with BrokenProcessPool, and
\* the executor terminates its other processes.
ProcessDies(c) ==
  /\ job[c] = "running" /\ kind[c] = "deadly"
  /\ broken' = TRUE
  /\ job' = [d \in Completions |-> IF job[d] \in {"queued", "running"} THEN "lost" ELSE job[d]]
  /\ answer' = [d \in Completions |->
                  IF answer[d] = "waiting" /\ job[d] \in {"queued", "running"}
                  THEN "None" ELSE answer[d]]
  /\ UNCHANGED <<callVars, kind, late, caller, scores, row, scoringVars, logVars>>

-----------------------------------------------------------------------------
(* The event loop: wait_for, gather, and the end of the with statement. *)

\* The executor hands max_workers + 1 jobs to its processes ahead of time; a job
\* that was handed over cannot be cancelled any more, started or not.
Ahead == Processes + 1

\* The timeout counts from the moment each coroutine starts, which is when the
\* row is submitted and not when its job starts: it passes for all rows at once.
\* A job that waits in the executor is cancelled, one that runs goes on.
Timeout ==
  /\ ~late /\ caller = "gathering"
  /\ late' = TRUE
  /\ \E kept \in SUBSET Queued :
       /\ Cardinality(kept) <= Ahead
       /\ job' = [c \in Completions |-> IF c \in Queued \ kept THEN "cancelled" ELSE job[c]]
  /\ answer' = [c \in Completions |-> IF answer[c] = "waiting" THEN "None" ELSE answer[c]]
  /\ UNCHANGED <<callVars, kind, broken, caller, scores, row, scoringVars, logVars>>

\* An interrupt cancels gather: jobs that wait in the executor are cancelled, and the
\* rows that still wait get no answer any more.
Interrupt ==
  /\ caller = "gathering"
  /\ caller' = "killing"
  /\ \E kept \in SUBSET Queued :
       /\ Cardinality(kept) <= Ahead
       /\ job' = [c \in Completions |-> IF c \in Queued \ kept THEN "cancelled" ELSE job[c]]
  /\ UNCHANGED <<callVars, kind, answer, late, broken, scores, row, scoringVars, logVars>>

\* The interrupt is passed on and the processes are left alone.
LeavesProcesses ==
  /\ caller = "killing"
  /\ caller' = "interrupted"
  /\ UNCHANGED <<callVars, kind, job, answer, late, broken, scores, row, scoringVars, logVars>>

\* The branch for exceptions kills the processes: the executor is broken, so that leaving
\* the with statement has nothing to wait for, and the interrupt leaves the call.
KillProcesses ==
  /\ caller = "killing"
  /\ caller' = "interrupted"
  /\ job' = [c \in Completions |-> IF job[c] \in {"queued", "running"} THEN "lost" ELSE job[c]]
  /\ broken' = TRUE
  /\ UNCHANGED <<callVars, kind, answer, late, scores, row, scoringVars, logVars>>

\* An interrupt of shutdown(wait=True), at the end of the with statement: nobody kills the
\* processes then, and their jobs go on.
InterruptClose ==
  /\ caller = "closing"
  /\ caller' = "deserted"
  /\ UNCHANGED <<callVars, kind, job, answer, late, broken, scores, row, scoringVars, logVars>>

Gathered == \A c \in Completions : answer[c] # "waiting"

\* gather: every exception of a coroutine was caught in it, so that of the two
\* ways on this is the one without the kill; the with statement's end follows.
Gather ==
  /\ caller = "gathering"
  /\ Gathered
  /\ caller' = "closing"
  /\ UNCHANGED <<callVars, kind, job, answer, late, broken, scores, row, scoringVars, logVars>>

\* shutdown(wait=True): the event loop is blocked until no job runs.
Close ==
  /\ caller = "closing"
  /\ Running \cup Queued = {}
  /\ caller' = "scoring"
  /\ UNCHANGED <<callVars, kind, job, answer, late, broken, scores, row, scoringVars, logVars>>

\* One row without a result makes all scores 0.
ScoreAllOrNone ==
  /\ caller = "scoring"
  /\ caller' = "logging"
  /\ scores' = [c \in Completions |->
       IF \A d \in Completions : answer[d] \in Numbers THEN answer[c] ELSE "zero"]
  /\ UNCHANGED <<callVars, kind, job, answer, late, broken, row, scoringVars, logVars>>

\* The results become scores; one that is neither a number nor a sequence raises,
\* and the manager sets all scores to 0.
Score ==
  /\ caller = "scoring"
  /\ caller' = "logging"
  /\ scores' = [c \in Completions |->
       IF answer[c] \in Numbers /\ \A d \in Completions : answer[d] # "odd"
       THEN answer[c] ELSE "zero"]
  /\ UNCHANGED <<callVars, kind, job, answer, late, broken, row, scoringVars, logVars>>

-----------------------------------------------------------------------------
(* The log, and the end of a call and of the run. *)

LogRow ==
  /\ caller = "logging" /\ row < Cardinality(Completions)
  /\ LogSample(manager)
  /\ row' = row + 1
  /\ UNCHANGED <<callVars, kind, job, answer, late, broken, caller, scores, scoringVars>>

\* The call is over and its variables are gone.
Forget ==
  /\ kind' = [c \in Completions |-> "raises"]
  /\ job' = [c \in Completions |-> "none"]
  /\ answer' = [c \in Completions |-> "waiting"]
  /\ late' = FALSE
  /\ broken' = FALSE
  /\ scores' = [c \in Completions |-> "unset"]
  /\ row' = 0
  /\ scoring' = [c \in Completions |-> "no"]
  /\ child' = [c \in Completions |-> "none"]
  /\ score' = [c \in Completions |-> "unset"]
  /\ passed' = [c \in Completions |-> {}]
  /\ check' = [c \in Completions |-> 0]
  /\ seen' = [c \in Completions |-> <<>>]
  /\ result' = [c \in Completions |-> <<>>]
  /\ described' = [c \in Completions |-> FALSE]
  /\ resList' = [c \in Completions |-> <<>>]

Return ==
  /\ caller = "logging" /\ row = Cardinality(Completions)
  /\ caller' = "idle"
  /\ Forget
  /\ UNCHANGED <<callVars, logVars>>

\* main_task ends, by itself or by an interrupt: its managers are destroyed, and nothing
\* awaits the call's jobs any more.  One that was deserted touches nothing that is modelled.
EndRun(m) ==
  /\ caller \in {"idle", "interrupted", "deserted"}
  /\ Destroy(m)
  /\ Forget
  /\ UNCHANGED <<callVars, caller>>

\* The driver is killed, at whatever point of a call.
Killed ==
  /\ LogCrash
  /\ caller' = "dead"
  /\ Forget
  /\ UNCHANGED callVars

Loop == Timeout \/ Gather \/ KillProcesses \/ Close \/ Score \/ LogRow \/ Return

RewardNext ==
  \/ \E c \in Completions :
       StartJob(c) \/ CheckStep(c) \/ JoinStep(c) \/ EndJob(c) \/ ProcessDies(c)
  \/ Loop
  \/ Interrupt \/ InterruptClose
  \/ \E m \in Managers : Call(m) \/ EndRun(m)
  \/ Killed

RewardSpec == RewardInit /\ [][RewardNext]_rewardVars

\* Processes and the event loop go on, and the timeout of a join passes.  An endless
\* job has no step to be fair to, and the program under test owes none.
FairRewardSpec ==
  /\ RewardSpec
  /\ WF_rewardVars(Loop)
  /\ \A c \in Completions :
       WF_rewardVars(StartJob(c)) /\ WF_rewardVars(JoinStep(c)) /\ WF_rewardVars(EndJob(c) \/ ProcessDies(c))

-----------------------------------------------------------------------------

\* A row is scored 0 for a reason: its own scoring failed, the timeout passed, it was
\* in flight when a process died, or the batch held a result that cannot be read.
\* A row that was scored before another one's process died keeps its score.
ZeroHasACause ==
  \A c \in Completions :
    scores[c] = "zero" /\ kind[c] = "tests" =>
      \/ late \/ job[c] = "lost"
      \/ \E d \in Completions : kind[d] = "odd"

\* No row gets less than it earned for another row's failure, and none gets the full
\* score for tests that it did not pass (single_compute_score, prime_code).
ScoresAreEarned == ZeroHasACause /\ FullScoreIsEarned

\* A call leaves no process behind that scores or runs a program, but for programs whose
\* scoring process was killed: not when its rows are scored, nor when it was interrupted
\* while its rows were awaited.  Only an interrupt of the with statement's end leaves any,
\* and they are jobs that outlived the timeout: nothing that was answered is scored still
\* (parallel_compute_score_async, p.kill()).
NothingLeftScoring ==
  /\ caller \in {"scoring", "logging", "interrupted"} =>
       /\ Running = {}
       /\ \A c \in Completions : job[c] # "lost" => ~Alive(c)
  /\ caller = "deserted" /\ ~late => Running \cup Queued = {}

Endless == {c \in Completions : kind[c] = "endless"}

\* A call whose scorings all end or die at last returns, whatever the programs under
\* test do.
CallReturns ==
  caller = "gathering" /\ Endless = {} ~>
    caller \in {"idle", "interrupted", "deserted", "dead"}
=============================================================================
