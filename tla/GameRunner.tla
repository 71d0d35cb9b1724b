----------------------------- MODULE GameRunner -----------------------------
(***************************************************************************)
(* The SMAC reward: one call of compute_score, which runs a batch of       *)
(* StarCraft II games for one generated bot and turns their results into a *)
(* score.  The main thread cuts the games into batches and counts the      *)
(* futures; every game is a thread that runs GameProcessManager.run_game:  *)
(* it takes a permit, checks the file and the machine, launches the game   *)
(* as an operating-system process, waits for it and kills what is left.    *)
(*                                                                         *)
(* A game process is a parent (the Python interpreter the manager starts)  *)
(* and the child it starts itself (the SC2 engine).  Only the parent's pid *)
(* matters to the manager, so only that one is modelled.                   *)
(***************************************************************************)
EXTENDS Naturals, FiniteSets

CONSTANTS
  Games,    \* the num_games calls of run_game
  Pids,     \* process ids the kernel can hand out
  NoPid,    \* not a process id
  NoGame,   \* an empty entry of current_games
  Settings  \* the machines a call may run on, see Setting

FaultKinds == {"pidReuse",    \* the kernel hands out the pid of a reaped process
               "stuckKill",   \* a killed process does not die within the waits
               "threadStart", \* the executor cannot start a thread
               "orphan"}      \* the parent exits while the engine still runs

Setting ==
  [slots : Nat,                \* optimal_workers: permits of the semaphore, size of a batch
   faults : SUBSET FaultKinds] \* which faults of the environment may happen

ASSUME GamesFinite == IsFiniteSet(Games) /\ NoGame \notin Games
ASSUME PidsDistinct == NoPid \notin Pids
ASSUME SettingsTyped == Settings \subseteq Setting

VARIABLES
  setting,  \* the machine: what it affords and which faults it has
  mpc,      \* where the main thread is in compute_score / run_parallel_games
  temp,     \* the temporary file the bot is written to
  results,  \* the counters of run_parallel_games
  score,    \* what compute_score returns
  pc,       \* where each game's thread is in run_game
  result,   \* the value each run_game is about to return
  permits,  \* the value of process_semaphore
  lock,     \* the holder of launch_lock
  table,    \* current_games: pid -> the game that registered it
  pid,      \* the pid of each game's process
  victim,   \* the game whose process the _kill_game of each thread has found
  parent,   \* the life of each game's parent process
  child     \* the life of each game's engine process

mainVars == <<mpc, temp, results, score>>
osVars == <<pid, victim, parent, child>>
gameVars == <<setting, mpc, temp, results, score, pc, result, permits, lock, table,
          pid, victim, parent, child>>

Slots == setting.slots
Faults == setting.faults

-----------------------------------------------------------------------------
(* Values. *)

MainStates == {"scoring", "batching", "collecting", "draining", "removing",
               "destroying", "rating", "returned"}
TempStates == {"absent", "valid", "invalid"}
GameStates == {"new", "queued", "validating", "monitoring", "rechecking",
               "launching", "spacing", "spawning", "registering",
               "communicating", "finally", "killing", "deleting", "exiting",
               "retrying", "rekilling", "returned", "counted"}
\* "raised" is an exception on its way to the handler of run_game.
Successes == {"v", "d", "t"}
Outcomes == Successes \cup {"error", "timeout", "resource_limit", "raised"}
ParentStates == {"none", "running", "zombie", "reaped"}
ChildStates == {"none", "running", "dead"}

\* The states of a thread inside `with self.process_semaphore`.
InSemaphore == {"validating", "monitoring", "rechecking", "launching",
                "spacing", "spawning", "registering", "communicating",
                "finally", "killing", "deleting", "exiting"}

Holding == {g \in Games : pc[g] \in InSemaphore}
Unsubmitted == {g \in Games : pc[g] = "new"}
Ended == {g \in Games : pc[g] \in {"returned", "counted"}}
Counted == {g \in Games : pc[g] = "counted"}

NoScore == [kind |-> "none", num |-> 0, den |-> 0]
FormatScore == [kind |-> "format", num |-> 0, den |-> 0]     \* format_score, -1.0
Penalty == [kind |-> "penalty", num |-> 0, den |-> 0]        \* -0.5
Rate(num, den) == [kind |-> "rate", num |-> num, den |-> den]

NoResults == [wins |-> 0, losses |-> 0, ties |-> 0, errors |-> 0, timeouts |-> 0]

GameInit ==
  /\ setting \in Settings
  /\ mpc = "scoring"
  /\ temp = "absent"
  /\ results = NoResults
  /\ score = NoScore
  /\ pc = [g \in Games |-> "new"]
  /\ result = [g \in Games |-> "error"]
  /\ permits = Slots
  /\ lock = NoGame
  /\ table = [p \in Pids |-> NoGame]
  /\ pid = [g \in Games |-> NoPid]
  /\ victim = [g \in Games |-> NoGame]
  /\ parent = [g \in Games |-> "none"]
  /\ child = [g \in Games |-> "none"]

-----------------------------------------------------------------------------
(* The main thread: compute_score and run_parallel_games. *)

\* No code in the response, code that is too long, or code that does not parse.
RejectCode ==
  /\ mpc = "scoring"
  /\ score' = FormatScore
  /\ mpc' = "returned"
  /\ UNCHANGED <<temp, results, pc, result, permits, lock, table, osVars>>

\* The bot is written between the prefix and the post code; the indentation the
\* template adds may or may not leave a file that parses.
WriteTemp ==
  /\ mpc = "scoring"
  /\ temp' \in {"valid", "invalid"}
  /\ mpc' = "batching"
  /\ UNCHANGED <<results, score, pc, result, permits, lock, table, osVars>>

\* The next slice of the games, all submitted to a fresh executor that has one
\* thread for each.
NextBatch ==
  LET size == IF Cardinality(Unsubmitted) < Slots
              THEN Cardinality(Unsubmitted) ELSE Slots
  IN {B \in SUBSET Unsubmitted : Cardinality(B) = size}

SubmitBatch ==
  /\ mpc = "batching"
  /\ Slots > 0
  /\ Unsubmitted # {}
  /\ \E B \in NextBatch : pc' = [g \in Games |-> IF g \in B THEN "queued" ELSE pc[g]]
  /\ mpc' = "collecting"
  /\ UNCHANGED <<temp, results, score, result, permits, lock, table, osVars>>

\* submit raises after some threads started: the executor's exit waits for those,
\* and the exception then leaves the loop, so that their results are not counted.
SubmitFails ==
  /\ mpc = "batching"
  /\ "threadStart" \in Faults
  /\ Slots > 0
  /\ Unsubmitted # {}
  /\ \E B \in NextBatch : \E S \in SUBSET B :
       /\ S # B
       /\ pc' = [g \in Games |-> IF g \in S THEN "queued" ELSE pc[g]]
  /\ mpc' = "draining"
  /\ UNCHANGED <<temp, results, score, result, permits, lock, table, osVars>>

\* Nobody waits for the threads that were started.
DrainedAtOnce ==
  /\ mpc = "draining"
  /\ mpc' = "removing"
  /\ UNCHANGED <<temp, results, score, pc, result, permits, lock, table, osVars>>

Drained ==
  /\ mpc = "draining"
  /\ \A g \in Games : pc[g] \in {"new", "returned", "counted"}
  /\ mpc' = "removing"
  /\ UNCHANGED <<temp, results, score, pc, result, permits, lock, table, osVars>>

\* range(0, num_games, 0) raises when no worker is affordable, and the loop ends
\* when every game was submitted.
LeaveLoop ==
  /\ mpc = "batching"
  /\ Slots = 0 \/ Unsubmitted = {}
  /\ mpc' = "removing"
  /\ UNCHANGED <<temp, results, score, pc, result, permits, lock, table, osVars>>

If(b) == IF b THEN 1 ELSE 0

\* The counters after one more future.  Every success adds a win, and a victory
\* adds a second one.
Tally(res, r) ==
  [wins     |-> res.wins + If(r \in Successes) + If(r = "v"),
   losses   |-> res.losses + If(r = "d"),
   ties     |-> res.ties + If(r = "t"),
   errors   |-> res.errors + If(r \in {"error", "resource_limit"}),
   timeouts |-> res.timeouts + If(r = "timeout")]

\* as_completed yields the future of a thread that has returned.
CountResult(g) ==
  /\ mpc = "collecting"
  /\ pc[g] = "returned"
  /\ results' = Tally(results, result[g])
  /\ pc' = [pc EXCEPT ![g] = "counted"]
  /\ UNCHANGED <<mpc, temp, score, result, permits, lock, table, osVars>>

EndBatch ==
  /\ mpc = "collecting"
  /\ \A g \in Games : pc[g] \in {"new", "counted"}
  /\ mpc' = "batching"
  /\ UNCHANGED <<temp, results, score, pc, result, permits, lock, table, osVars>>

\* The score ignores games that timed out.
ScoreIgnoresTimeouts(res) ==
  LET valid == res.wins + res.losses + res.ties
  IN IF res.errors > 0 \/ valid = 0 THEN Penalty ELSE Rate(res.wins, valid)

\* The end of compute_score.
ScoreOf(res) ==
  LET valid == res.wins + res.losses + res.ties
  IN IF res.errors > 0 \/ res.timeouts > 0 \/ valid = 0
     THEN Penalty
     ELSE Rate(res.wins, valid)

\* The finally of run_parallel_games.
RemoveTemp ==
  /\ mpc = "removing"
  /\ temp' = "absent"
  /\ mpc' = "destroying"
  /\ UNCHANGED <<results, score, pc, result, permits, lock, table, osVars>>

\* The counters of what was counted become the score.
GiveScore ==
  /\ mpc = "rating"
  /\ score' = ScoreOf(results)
  /\ mpc' = "returned"
  /\ UNCHANGED <<temp, results, pc, result, permits, lock, table, osVars>>

-----------------------------------------------------------------------------
(* One game: the thread in GameProcessManager.run_game. *)

Goto(g, from, to) == pc[g] = from /\ pc' = [pc EXCEPT ![g] = to]

Acquire(g) ==
  /\ permits > 0
  /\ Goto(g, "queued", "validating")
  /\ permits' = permits - 1
  /\ UNCHANGED <<mainVars, result, lock, table, osVars>>

\* The file is opened and parsed; a missing or broken file ends the game.
Validate(g) ==
  /\ IF temp = "valid"
     THEN /\ Goto(g, "validating", "monitoring")
          /\ UNCHANGED result
     ELSE /\ Goto(g, "validating", "exiting")
          /\ result' = [result EXCEPT ![g] = "error"]
  /\ UNCHANGED <<mainVars, permits, lock, table, osVars>>

\* check_resources: critical the first time means one more look five seconds later.
Monitor(g) ==
  /\ Goto(g, "monitoring", "launching") \/ Goto(g, "monitoring", "rechecking")
  /\ UNCHANGED <<mainVars, result, permits, lock, table, osVars>>

Recheck(g) ==
  /\ \/ /\ Goto(g, "rechecking", "launching")
        /\ UNCHANGED result
     \/ /\ Goto(g, "rechecking", "exiting")
        /\ result' = [result EXCEPT ![g] = "resource_limit"]
  /\ UNCHANGED <<mainVars, permits, lock, table, osVars>>

\* launch_lock is held while the thread sleeps out the launch interval.
TakeLock(g) ==
  /\ lock = NoGame
  /\ Goto(g, "launching", "spacing")
  /\ lock' = g
  /\ UNCHANGED <<mainVars, result, permits, table, osVars>>

\* The thread goes on to its launch with the lock in hand.
ReleaseLockLater(g) ==
  /\ lock = g
  /\ Goto(g, "spacing", "spawning")
  /\ UNCHANGED <<mainVars, result, permits, lock, table, osVars>>

ReleaseLock(g) ==
  /\ lock = g
  /\ Goto(g, "spacing", "spawning")
  /\ lock' = NoGame
  /\ UNCHANGED <<mainVars, result, permits, table, osVars>>

\* The kernel's choice of a pid: one that no living or unreaped process has.
FreePids ==
  IF "pidReuse" \in Faults
  THEN {p \in Pids : \A h \in Games : pid[h] = p => parent[h] = "reaped"}
  ELSE {p \in Pids : \A h \in Games : pid[h] # p}

Spawn(g) ==
  /\ Goto(g, "spawning", "registering")
  /\ \E p \in FreePids : pid' = [pid EXCEPT ![g] = p]
  /\ parent' = [parent EXCEPT ![g] = "running"]
  /\ UNCHANGED <<mainVars, result, permits, lock, table, victim, child>>

\* Popen raises: there is no process, and the handler has nothing to kill.
SpawnRaises(g) ==
  /\ Goto(g, "spawning", "exiting")
  /\ result' = [result EXCEPT ![g] = "raised"]
  /\ UNCHANGED <<mainVars, permits, lock, table, osVars>>

\* The process is not entered in current_games.
RegisterForgotten(g) ==
  /\ Goto(g, "registering", "communicating")
  /\ UNCHANGED <<mainVars, result, permits, lock, table, osVars>>

Register(g) ==
  /\ Goto(g, "registering", "communicating")
  /\ table' = [table EXCEPT ![pid[g]] = g]
  /\ UNCHANGED <<mainVars, result, permits, lock, osVars>>

\* communicate returns at the end of the output, which the engine also holds open,
\* and reaps the parent.  What the output says is the game's own choice, even when
\* the process was killed: it may have printed its result by then.
OutputOver(g) == parent[g] \in {"zombie", "reaped"} /\ child[g] # "running"

Communicate(g) ==
  /\ Goto(g, "communicating", "finally")
  /\ OutputOver(g)
  /\ parent' = [parent EXCEPT ![g] = "reaped"]
  /\ \E r \in Successes \cup {"error"} : result' = [result EXCEPT ![g] = r]
  /\ UNCHANGED <<mainVars, permits, lock, table, pid, victim, child>>

CommunicateRaises(g) ==
  /\ Goto(g, "communicating", "finally")
  /\ result' = [result EXCEPT ![g] = "raised"]
  /\ UNCHANGED <<mainVars, permits, lock, table, osVars>>

Timeout(g) ==
  /\ Goto(g, "communicating", "finally")
  /\ result' = [result EXCEPT ![g] = "timeout"]
  /\ UNCHANGED <<mainVars, permits, lock, table, osVars>>

\* Whoever has the pid now: psutil looks processes up by number.
Owners(p) == {h \in Games : pid[h] = p /\ parent[h] \in {"running", "zombie"}}

\* A process that has exited has no children any more.
Children(H) == {h \in H : parent[h] = "running" /\ child[h] = "running"}

KillChildrenOf(H) ==
  child' = [h \in Games |-> IF h \in Children(H) THEN "dead" ELSE child[h]]

\* A killed process is also waited for.
KillParents(H) ==
  parent' = [h \in Games |-> IF h \in H /\ parent[h] \in {"running", "zombie"}
                              THEN "reaped" ELSE parent[h]]

Registered(g) == pid[g] # NoPid /\ table[pid[g]] # NoGame

\* The first half of _kill_game, from the finally or from the handler: the children
\* that exist now are terminated, waited for and killed.  The parent still runs and
\* may start its engine afterwards.
KillChildren(g) ==
  /\ Goto(g, "finally", "killing") \/ Goto(g, "retrying", "rekilling")
  /\ Registered(g)
  /\ victim' = [victim EXCEPT ![g] = IF Owners(pid[g]) = {} THEN NoGame
                                     ELSE CHOOSE h \in Games : h \in Owners(pid[g])]
  /\ KillChildrenOf(Owners(pid[g]))
  /\ UNCHANGED <<mainVars, result, permits, lock, table, pid, parent>>

NothingToKill(g) ==
  /\ Goto(g, "finally", "exiting")
  /\ ~Registered(g)
  /\ UNCHANGED <<mainVars, result, permits, lock, table, osVars>>

\* The parent's end is not waited for, and it survives.
KillParentSkipped(g) ==
  /\ Goto(g, "killing", "deleting")
  /\ victim' = [victim EXCEPT ![g] = NoGame]
  /\ UNCHANGED <<mainVars, result, permits, lock, table, pid, parent, child>>

\* Every registered game is terminated, not only the one with this pid.
KillParentOfAll(g) ==
  /\ Goto(g, "killing", "deleting")
  /\ KillParents({table[p] : p \in Pids})
  /\ victim' = [victim EXCEPT ![g] = NoGame]
  /\ UNCHANGED <<mainVars, result, permits, lock, table, pid, child>>

\* The second half: the parent that was found is terminated and reaped.  psutil and
\* Popen both refuse to signal a later process with the same pid.
KillParent(g) ==
  /\ Goto(g, "killing", "deleting")
  /\ KillParents({victim[g]})
  /\ victim' = [victim EXCEPT ![g] = NoGame]
  /\ UNCHANGED <<mainVars, result, permits, lock, table, pid, child>>

\* Every wait times out: the exception skips the del and is only logged.
KillStuck(g) ==
  /\ "stuckKill" \in Faults
  /\ Goto(g, "killing", "exiting")
  /\ victim[g] # NoGame
  /\ victim' = [victim EXCEPT ![g] = NoGame]
  /\ UNCHANGED <<mainVars, result, permits, lock, table, pid, parent, child>>

DeleteEntry(g) ==
  /\ Goto(g, "deleting", "exiting")
  /\ table' = [table EXCEPT ![pid[g]] = NoGame]
  /\ UNCHANGED <<mainVars, result, permits, lock, osVars>>

\* An exception leaves the block without giving the permit back.
ReleaseUnlessRaised(g) ==
  /\ Goto(g, "exiting", IF result[g] = "raised" THEN "retrying" ELSE "returned")
  /\ permits' = IF result[g] = "raised" THEN permits ELSE permits + 1
  /\ UNCHANGED <<mainVars, result, lock, table, osVars>>

\* The end of `with self.process_semaphore`.
Release(g) ==
  /\ Goto(g, "exiting", IF result[g] = "raised" THEN "retrying" ELSE "returned")
  /\ permits' = permits + 1
  /\ UNCHANGED <<mainVars, result, lock, table, osVars>>

\* The handler of run_game returns an error; a process that is still registered is
\* killed again first.
HandleException(g) ==
  /\ Goto(g, "retrying", "returned")
  /\ ~Registered(g)
  /\ result' = [result EXCEPT ![g] = "error"]
  /\ UNCHANGED <<mainVars, permits, lock, table, osVars>>

KillAgain(g) ==
  /\ Goto(g, "rekilling", "returned")
  /\ \/ /\ KillParents({victim[g]})
        /\ table' = [table EXCEPT ![pid[g]] = NoGame]
     \/ /\ "stuckKill" \in Faults /\ victim[g] # NoGame
        /\ UNCHANGED <<parent, table>>
  /\ victim' = [victim EXCEPT ![g] = NoGame]
  /\ result' = [result EXCEPT ![g] = "error"]
  /\ UNCHANGED <<mainVars, permits, lock, pid, child>>

-----------------------------------------------------------------------------
(* The game processes themselves, which the manager does not control. *)

StartEngine(g) ==
  /\ parent[g] = "running" /\ child[g] = "none"
  /\ child' = [child EXCEPT ![g] = "running"]
  /\ UNCHANGED <<mainVars, pc, result, permits, lock, table, pid, victim, parent>>

EngineExits(g) ==
  /\ child[g] = "running"
  /\ child' = [child EXCEPT ![g] = "dead"]
  /\ UNCHANGED <<mainVars, pc, result, permits, lock, table, pid, victim, parent>>

ParentExits(g) ==
  /\ parent[g] = "running"
  /\ child[g] = "running" => "orphan" \in Faults
  /\ parent' = [parent EXCEPT ![g] = "zombie"]
  /\ UNCHANGED <<mainVars, pc, result, permits, lock, table, pid, victim, child>>

-----------------------------------------------------------------------------
(* The manager is collected when run_parallel_games returns: __del__ kills what *)
(* is still registered, one process after the other.                            *)

Destroy ==
  /\ mpc = "destroying"
  /\ mpc' = "rating"
  /\ \E stuck \in SUBSET {p \in Pids : table[p] # NoGame} :
       LET found == UNION {Owners(p) : p \in {q \in Pids : table[q] # NoGame}}
           dying == found \ UNION {Owners(p) : p \in stuck}
       IN /\ stuck # {} => "stuckKill" \in Faults
          /\ KillChildrenOf(found)
          /\ KillParents(dying)
          /\ table' = [p \in Pids |-> IF p \in stuck THEN table[p] ELSE NoGame]
  /\ UNCHANGED <<temp, results, score, pc, result, permits, lock, pid, victim>>

-----------------------------------------------------------------------------

MainStep ==
  /\ \/ RejectCode \/ WriteTemp \/ SubmitBatch \/ SubmitFails \/ Drained
     \/ LeaveLoop \/ EndBatch \/ RemoveTemp \/ Destroy \/ GiveScore
     \/ \E g \in Games : CountResult(g)
  /\ UNCHANGED setting

ThreadStep(g) ==
  /\ \/ Acquire(g) \/ Validate(g) \/ Monitor(g) \/ Recheck(g)
     \/ TakeLock(g) \/ ReleaseLock(g)
     \/ Spawn(g) \/ SpawnRaises(g) \/ Register(g)
     \/ Communicate(g) \/ CommunicateRaises(g) \/ Timeout(g)
     \/ KillChildren(g) \/ NothingToKill(g) \/ KillParent(g) \/ KillStuck(g)
     \/ DeleteEntry(g) \/ Release(g) \/ HandleException(g) \/ KillAgain(g)
  /\ UNCHANGED setting

ProcessStep(g) ==
  /\ StartEngine(g) \/ EngineExits(g) \/ ParentExits(g)
  /\ UNCHANGED setting

GameNext ==
  \/ MainStep
  \/ \E g \in Games : ThreadStep(g) \/ ProcessStep(g)

GameSpec == GameInit /\ [][GameNext]_gameVars

\* The interpreter runs every thread that can run, and every wait of run_game is
\* bounded: the semaphore hands its permits to the waiting threads in turn, and
\* communicate ends by its timeout at the latest.  Nothing is assumed of the game
\* processes: they may hang.
Fairness ==
  /\ WF_gameVars(MainStep)
  /\ \A g \in Games : WF_gameVars(ThreadStep(g))

FairGameSpec == GameSpec /\ Fairness

-----------------------------------------------------------------------------
(* Properties. *)

\* Every variable keeps to its values.
TypeOK ==
  /\ setting \in Setting
  /\ mpc \in MainStates
  /\ temp \in TempStates
  /\ results \in [wins : Nat, losses : Nat, ties : Nat, errors : Nat, timeouts : Nat]
  /\ score \in [kind : {"none", "format", "penalty", "rate"}, num : Nat, den : Nat]
  /\ pc \in [Games -> GameStates]
  /\ result \in [Games -> Outcomes]
  /\ permits \in Nat
  /\ lock \in Games \cup {NoGame}
  /\ table \in [Pids -> Games \cup {NoGame}]
  /\ pid \in [Games -> Pids \cup {NoPid}]
  /\ victim \in [Games -> Games \cup {NoGame}]
  /\ parent \in [Games -> ParentStates]
  /\ child \in [Games -> ChildStates]

\* Throttling: a permit is lost or invented by no path through run_game, whatever
\* returns early, raises or is killed, so that never more than Slots games are
\* between the semaphore's acquire and its release.
PermitsConserved == permits + Cardinality(Holding) = Slots

\* The bot's file outlives every thread that may still read it: it is removed only
\* after the executors of all batches have waited for their threads.
FileOutlivesGames ==
  (\E g \in Games : pc[g] \notin {"new", "returned", "counted"}) => temp # "absent"

\* A win rate is only ever given to a bot whose counted games all ended by
\* themselves with a result: one error, crash, timeout or lack of resources among
\* them means -0.5, in whatever order the futures completed.
RateMeansAllSucceeded ==
  score.kind = "rate" =>
    /\ Counted # {}
    /\ \A g \in Counted : result[g] \in Successes

Victories == {g \in Counted : result[g] = "v"}

\* compute_score's own documentation: the score is the win rate of the games.
RateIsWinRate ==
  score.kind = "rate" =>
    score.num * Cardinality(Counted) = score.den * Cardinality(Victories)

\* Another game was given the pid of this game's process, before it or after it.
SharesPid(g) ==
  "pidReuse" \in Faults /\ pid[g] # NoPid /\ \E h \in Games \ {g} : pid[h] = pid[g]

\* The kills of a game got stuck, and its thread has gone on; the manager still knows it.
GivenUp(g) ==
  "stuckKill" \in Faults /\ pc[g] \notin InSemaphore /\ pid[g] # NoPid /\ table[pid[g]] = g

\* What nobody ends any more.
Escaped(g) == SharesPid(g) \/ GivenUp(g)

\* _kill_game finds a process by its number, although an entry may outlive its process.  A
\* thread ends another game's process only where the kernel hands out numbers again, and
\* then only when its own process was reaped and the other one was given its number: a
\* thread whose game still runs never ends any game but its own.
KillsOnlyOwn ==
  [][\A g, h \in Games :
       (g # h /\ parent[h] = "running" /\ parent'[h] = "reaped" /\ pc'[g] # pc[g])
         => "pidReuse" \in Faults /\ pid[g] = pid[h] /\ parent[g] = "reaped"]_gameVars

\* The interpreters that run never outnumber the permits, although several batches follow
\* each other and a kill is a step of its own: each is dead before its permit goes to
\* another game, unless it escaped.
LiveBound == Cardinality({g \in Games : parent[g] = "running" /\ ~Escaped(g)}) <= Slots

\* On whatever path a game ended, an interpreter that runs once run_parallel_games has
\* returned is one whose kills got stuck, and then it still has its entry in
\* current_games, or one whose pid two games had.
NoParentLeft ==
  mpc \in {"rating", "returned"} => \A g \in Games : parent[g] = "running" => Escaped(g)

\* What the manager started it ends: the two together (_kill_game, run_game's finally).
ParentsAreEnded == LiveBound /\ NoParentLeft

\* The docstring of GameProcessManager.__del__: "Ensure all processes are cleaned up".  It
\* does not hold of the engines: _kill_game lists a game's children before it ends the
\* interpreter, which may start its engine in between.
NoEngineLeft ==
  mpc \in {"rating", "returned"} => \A g \in Games : child[g] # "running"

\* Every call of compute_score comes back, even if every game hangs.
EventuallyReturns == <>(mpc = "returned")
=============================================================================
