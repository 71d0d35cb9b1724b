---------------------------- MODULE TrainingProofs ----------------------------
(***************************************************************************)
(* Proofs about the SMAC reward and about the training loop that uses it.      *)
(* First what holds of one call of the reward for every number of games, of    *)
(* slots and of process ids, and under every fault; then, across crashes and   *)
(* resumes of the loop, that no step is left out or taken twice, and with a    *)
(* shuffling sampler no weights are trained twice on one batch.              *)
(***************************************************************************)
EXTENDS GameRunner, TrainerLoop, FiniteSetTheorems, SequenceTheorems, TLAPS

-----------------------------------------------------------------------------
(* Type correctness. *)

Counters == [wins : Nat, losses : Nat, ties : Nat, errors : Nat, timeouts : Nat]

\* Counting one more future keeps the counters natural numbers.
LEMMA TallyTyped == \A res \in Counters, r \in Outcomes : Tally(res, r) \in Counters
BY DEF Counters, Tally, If

\* The score is a record of its kind, numerator and denominator.
LEMMA ScoreTyped ==
  ASSUME NEW res \in Counters
  PROVE  ScoreOf(res) \in [kind : {"none", "format", "penalty", "rate"},
                           num : Nat, den : Nat]
BY DEF Counters, ScoreOf, Penalty, Rate

\* What submit does to the threads, whether or not it raises for one of them.
LEMMA SubmitQueues ==
  SubmitBatch \/ SubmitFails =>
    \E S \in SUBSET Unsubmitted : pc' = [g \in Games |-> IF g \in S THEN "queued" ELSE pc[g]]
BY DEF SubmitBatch, SubmitFails, NextBatch

\* The start of a call is well typed.
LEMMA InitTyped == GameInit => TypeOK
BY SettingsTyped
   DEF GameInit, TypeOK, Setting, Slots, MainStates, TempStates, NoResults, NoScore, GameStates, Outcomes,
       ParentStates, ChildStates

\* The steps of the main thread keep the types.
LEMMA MainTyped == TypeOK /\ MainStep => TypeOK'
<1> SUFFICES ASSUME TypeOK, MainStep PROVE TypeOK'
  OBVIOUS
<1> USE DEF TypeOK, osVars
<1>0. UNCHANGED setting
  BY DEF MainStep
<1>1. CASE RejectCode
  BY <1>0, <1>1 DEF RejectCode, FormatScore, MainStates
<1>2. CASE WriteTemp
  BY <1>0, <1>2 DEF WriteTemp, TempStates, MainStates
<1>3. CASE SubmitBatch
  BY <1>0, <1>3 DEF SubmitBatch, GameStates, MainStates
<1>4. CASE SubmitFails
  <2>1. PICK S \in SUBSET Unsubmitted :
          pc' = [g \in Games |-> IF g \in S THEN "queued" ELSE pc[g]]
    BY <1>4, SubmitQueues
  <2>2. pc' \in [Games -> GameStates]
    BY <2>1 DEF GameStates
  <2> QED BY <1>0, <1>4, <2>2 DEF SubmitFails, MainStates
<1>5. CASE Drained \/ LeaveLoop \/ EndBatch \/ RemoveTemp
  BY <1>0, <1>5 DEF Drained, LeaveLoop, EndBatch, RemoveTemp, TempStates, MainStates
<1>6. CASE GiveScore
  BY <1>0, <1>6, ScoreTyped DEF GiveScore, Counters, MainStates
<1>7. CASE Destroy
  <2>1. PICK stuck \in SUBSET {p \in Pids : table[p] # NoGame} :
          table' = [p \in Pids |-> IF p \in stuck THEN table[p] ELSE NoGame]
    BY <1>7 DEF Destroy
  <2>2. /\ parent' \in [Games -> ParentStates] /\ child' \in [Games -> ChildStates]
    BY <1>7 DEF Destroy, KillParents, KillChildrenOf, ParentStates, ChildStates
  <2> QED BY <1>0, <1>7, <2>1, <2>2 DEF Destroy, MainStates
<1>8. ASSUME NEW g \in Games, CountResult(g) PROVE TypeOK'
  BY <1>0, <1>8, TallyTyped DEF CountResult, Counters, GameStates
<1> QED BY <1>1, <1>2, <1>3, <1>4, <1>5, <1>6, <1>7, <1>8 DEF MainStep

\* The steps of a game's thread keep the types.
LEMMA ThreadTyped == \A g \in Games : TypeOK /\ ThreadStep(g) => TypeOK'
<1> SUFFICES ASSUME NEW g \in Games, TypeOK, ThreadStep(g) PROVE TypeOK'
  OBVIOUS
<1> USE DEF TypeOK, Goto, mainVars, osVars, GameStates
<1>0. UNCHANGED setting
  BY DEF ThreadStep
<1>1. CASE Acquire(g)
  BY <1>0, <1>1 DEF Acquire
<1>2. CASE Validate(g)
  BY <1>0, <1>2 DEF Validate, Outcomes
<1>3. CASE Monitor(g) \/ Recheck(g)
  BY <1>0, <1>3 DEF Monitor, Recheck, Outcomes
<1>4. CASE TakeLock(g) \/ ReleaseLock(g)
  BY <1>0, <1>4 DEF TakeLock, ReleaseLock
<1>5. CASE Spawn(g)
  <2>1. pid' \in [Games -> Pids \cup {NoPid}]
    BY <1>5 DEF Spawn, FreePids
  <2> QED BY <1>0, <1>5, <2>1 DEF Spawn, ParentStates
<1>6. CASE SpawnRaises(g) \/ CommunicateRaises(g) \/ Timeout(g)
  BY <1>0, <1>6 DEF SpawnRaises, CommunicateRaises, Timeout, Outcomes
<1>7. CASE Register(g)
  BY <1>0, <1>7 DEF Register
<1>8. CASE Communicate(g)
  BY <1>0, <1>8 DEF Communicate, Outcomes, ParentStates
<1>9. CASE KillChildren(g)
  <2>1. victim' \in [Games -> Games \cup {NoGame}]
    <3>1. Owners(pid[g]) # {} => (CHOOSE h \in Games : h \in Owners(pid[g])) \in Games
      BY DEF Owners
    <3> QED BY <1>9, <3>1 DEF KillChildren
  <2> QED BY <1>0, <1>9, <2>1 DEF KillChildren, KillChildrenOf, ChildStates
<1>10. CASE NothingToKill(g) \/ KillStuck(g) \/ DeleteEntry(g)
  BY <1>0, <1>10 DEF NothingToKill, KillStuck, DeleteEntry
<1>11. CASE KillParent(g)
  BY <1>0, <1>11 DEF KillParent, KillParents, ParentStates
<1>12. CASE Release(g)
  BY <1>0, <1>12 DEF Release
<1>13. CASE HandleException(g)
  BY <1>0, <1>13 DEF HandleException, Outcomes
<1>14. CASE KillAgain(g)
  <2>1. parent' \in [Games -> ParentStates]
    BY <1>14 DEF KillAgain, KillParents, ParentStates
  <2> QED BY <1>0, <1>14, <2>1 DEF KillAgain, Outcomes
<1> QED BY <1>1, <1>2, <1>3, <1>4, <1>5, <1>6, <1>7, <1>8, <1>9, <1>10, <1>11, <1>12,
           <1>13, <1>14
     DEF ThreadStep

\* The game processes keep the types.
LEMMA ProcessTyped == \A g \in Games : TypeOK /\ ProcessStep(g) => TypeOK'
BY DEF TypeOK, ProcessStep, StartEngine, EngineExits, ParentExits, mainVars,
       ParentStates, ChildStates

\* Every step of the specification keeps the types.
LEMMA StepTyped == TypeOK /\ [GameNext]_gameVars => TypeOK'
<1>1. TypeOK /\ UNCHANGED gameVars => TypeOK'
  BY DEF TypeOK, gameVars
<1> QED BY <1>1, MainTyped, ThreadTyped, ProcessTyped DEF GameNext

\* On every path of a call, with whatever faults, each variable keeps its type; in
\* particular no release ever finds fewer permits than none.
THEOREM TypeCorrect == GameSpec => []TypeOK
BY InitTyped, StepTyped, PTL DEF GameSpec

-----------------------------------------------------------------------------
(* The semaphore. *)

\* The games inside the semaphore are finitely many.
LEMMA HoldingFinite == IsFiniteSet(Holding) /\ Cardinality(Holding) \in Nat
BY GamesFinite, FS_Subset, FS_CardinalityType DEF Holding

\* The machine stays what it is.
LEMMA SettingUnchanged == [GameNext]_gameVars => UNCHANGED setting
BY DEF GameNext, MainStep, ThreadStep, ProcessStep, gameVars

\* Every step that is neither an acquire nor a release leaves the permits and the
\* games that hold one alone.
LEMMA HoldingUnchanged ==
  ASSUME TypeOK, [GameNext]_gameVars,
         ~ \E g \in Games : Acquire(g) \/ Release(g)
  PROVE  permits' = permits /\ Holding' = Holding
<1> USE DEF TypeOK, Holding, InSemaphore, mainVars, osVars
<1>1. CASE MainStep
  <2>1. CASE SubmitBatch \/ SubmitFails
    <3>1. PICK S \in SUBSET Unsubmitted :
            pc' = [g \in Games |-> IF g \in S THEN "queued" ELSE pc[g]]
      BY <2>1, SubmitQueues
    <3>2. \A g \in S : pc[g] = "new"
      BY DEF Unsubmitted
    <3> QED BY <2>1, <3>1, <3>2 DEF SubmitBatch, SubmitFails
  <2>2. ASSUME NEW g \in Games, CountResult(g) PROVE permits' = permits /\ Holding' = Holding
    BY <2>2 DEF CountResult
  <2>3. CASE RejectCode \/ WriteTemp \/ Drained \/ LeaveLoop \/ EndBatch
             \/ RemoveTemp \/ Destroy \/ GiveScore
    BY <2>3 DEF RejectCode, WriteTemp, Drained, LeaveLoop, EndBatch, RemoveTemp,
                Destroy, GiveScore
  <2> QED BY <1>1, <2>1, <2>2, <2>3 DEF MainStep
<1>2. ASSUME NEW g \in Games, ThreadStep(g)
      PROVE permits' = permits /\ Holding' = Holding
  <2> USE DEF Goto
  <2>1. CASE Validate(g) \/ Monitor(g) \/ Recheck(g) \/ TakeLock(g) \/ ReleaseLock(g)
    BY <2>1 DEF Validate, Monitor, Recheck, TakeLock, ReleaseLock
  <2>2. CASE Spawn(g) \/ SpawnRaises(g) \/ Register(g)
    BY <2>2 DEF Spawn, SpawnRaises, Register
  <2>3. CASE Communicate(g) \/ CommunicateRaises(g) \/ Timeout(g)
    BY <2>3 DEF Communicate, CommunicateRaises, Timeout
  <2>4. CASE KillChildren(g) \/ NothingToKill(g) \/ KillParent(g) \/ KillStuck(g)
             \/ DeleteEntry(g)
    BY <2>4 DEF KillChildren, NothingToKill, KillParent, KillStuck, DeleteEntry
  <2>5. CASE HandleException(g) \/ KillAgain(g)
    BY <2>5 DEF HandleException, KillAgain
  <2> QED BY <1>2, <2>1, <2>2, <2>3, <2>4, <2>5 DEF ThreadStep
<1>3. ASSUME NEW g \in Games, ProcessStep(g)
      PROVE permits' = permits /\ Holding' = Holding
  BY <1>3 DEF ProcessStep, StartEngine, EngineExits, ParentExits
<1>4. CASE UNCHANGED gameVars
  BY <1>4 DEF gameVars
<1> QED BY <1>1, <1>2, <1>3, <1>4 DEF GameNext

\* Every step keeps permits and holders at the number of slots.
LEMMA StepPermits == TypeOK /\ PermitsConserved /\ [GameNext]_gameVars => PermitsConserved'
<1> SUFFICES ASSUME TypeOK, PermitsConserved, [GameNext]_gameVars PROVE PermitsConserved'
  OBVIOUS
<1>0. Slots' = Slots /\ Slots \in Nat
  BY SettingUnchanged DEF Slots, TypeOK, Setting
<1> USE <1>0, HoldingFinite DEF PermitsConserved
<1>1. ASSUME NEW g \in Games, Acquire(g) PROVE PermitsConserved'
  <2>1. Holding' = Holding \cup {g} /\ g \notin Holding
    BY <1>1 DEF Acquire, Goto, Holding, InSemaphore, TypeOK
  <2>2. Cardinality(Holding') = Cardinality(Holding) + 1
    BY <2>1, FS_AddElement
  <2> QED BY <1>1, <2>2 DEF Acquire, TypeOK
<1>2. ASSUME NEW g \in Games, Release(g) PROVE PermitsConserved'
  <2>1. Holding' = Holding \ {g} /\ g \in Holding
    BY <1>2 DEF Release, Goto, Holding, InSemaphore, TypeOK
  <2>2. Cardinality(Holding') = Cardinality(Holding) - 1
    BY <2>1, FS_RemoveElement
  <2> QED BY <1>2, <2>2 DEF Release, TypeOK
<1>3. CASE ~ \E g \in Games : Acquire(g) \/ Release(g)
  BY <1>3, HoldingUnchanged
<1> QED BY <1>1, <1>2, <1>3

\* The semaphore loses and invents no permit, whichever way the games leave it, and so
\* never lets more than Slots games in.
THEOREM PermitsAreConserved == GameSpec => []PermitsConserved
<1>1. GameInit => PermitsConserved
  <2> SUFFICES ASSUME GameInit PROVE PermitsConserved
    OBVIOUS
  <2>1. Holding = {}
    BY DEF GameInit, Holding, InSemaphore
  <2> QED BY <2>1, InitTyped, FS_EmptySet DEF GameInit, PermitsConserved, TypeOK, Setting, Slots
<1> QED BY <1>1, InitTyped, StepTyped, StepPermits, PTL DEF GameSpec

-----------------------------------------------------------------------------
(* The batches and the counters. *)

Busy(g) == pc[g] \notin {"new", "returned", "counted"}

\* Games only run while the main thread waits for them, and the file is there until
\* it has stopped waiting.
FileInv ==
  /\ (\E g \in Games : Busy(g)) => mpc \in {"collecting", "draining"}
  /\ mpc \in {"batching", "collecting", "draining", "removing"} => temp # "absent"

\* The counters remember every failure among the futures that were counted, and no
\* future of an exception is ever counted.
RateInv ==
  /\ score.kind = "rate" =>
       /\ mpc = "returned"
       /\ results.errors = 0 /\ results.timeouts = 0
       /\ results.wins + results.losses + results.ties > 0
  /\ results.errors = 0 /\ results.timeouts = 0 =>
       \A g \in Counted : result[g] \in Successes
  /\ results.wins + results.losses + results.ties > 0 => Counted # {}
  /\ \A g \in Games : pc[g] \in {"returned", "counted"} => result[g] # "raised"

CallInv == FileInv /\ RateInv

\* A thread stays among the busy ones until it returns, and then it returns a result;
\* it changes nothing of the call, of the other threads or of what was counted.
LEMMA ThreadKeepsCall ==
  \A g \in Games : TypeOK /\ ThreadStep(g) =>
    /\ UNCHANGED mainVars
    /\ Busy(g)
    /\ \A h \in Games : h # g => pc'[h] = pc[h] /\ result'[h] = result[h]
    /\ pc'[g] \in GameStates \ {"new", "counted"}
    /\ pc'[g] = "returned" => result'[g] # "raised"
<1> SUFFICES ASSUME NEW g \in Games, TypeOK, ThreadStep(g)
             PROVE /\ UNCHANGED mainVars
                   /\ Busy(g)
                   /\ \A h \in Games : h # g => pc'[h] = pc[h] /\ result'[h] = result[h]
                   /\ pc'[g] \in GameStates \ {"new", "counted"}
                   /\ pc'[g] = "returned" => result'[g] # "raised"
  OBVIOUS
<1> USE DEF TypeOK, Busy, Goto, GameStates, mainVars
<1>1. CASE Acquire(g) \/ Validate(g) \/ Monitor(g) \/ Recheck(g)
  BY <1>1 DEF Acquire, Validate, Monitor, Recheck
<1>2. CASE TakeLock(g) \/ ReleaseLock(g) \/ Spawn(g) \/ SpawnRaises(g) \/ Register(g)
  BY <1>2 DEF TakeLock, ReleaseLock, Spawn, SpawnRaises, Register
<1>3. CASE Communicate(g) \/ CommunicateRaises(g) \/ Timeout(g)
  BY <1>3 DEF Communicate, CommunicateRaises, Timeout
<1>4. CASE KillChildren(g) \/ NothingToKill(g) \/ KillParent(g) \/ KillStuck(g)
           \/ DeleteEntry(g)
  BY <1>4 DEF KillChildren, NothingToKill, KillParent, KillStuck, DeleteEntry
<1>5. CASE Release(g) \/ HandleException(g) \/ KillAgain(g)
  BY <1>5 DEF Release, HandleException, KillAgain
<1> QED BY <1>1, <1>2, <1>3, <1>4, <1>5 DEF ThreadStep

\* Every step keeps the account of the call: its file, batch and failures.
LEMMA StepCall == TypeOK /\ CallInv /\ [GameNext]_gameVars => CallInv'
<1> SUFFICES ASSUME TypeOK, CallInv, [GameNext]_gameVars PROVE CallInv'
  OBVIOUS
<1> USE DEF CallInv, FileInv, RateInv, Busy, Counted
<1>1. CASE SubmitBatch \/ SubmitFails
  <2>1. PICK S \in SUBSET Unsubmitted :
          pc' = [g \in Games |-> IF g \in S THEN "queued" ELSE pc[g]]
    BY <1>1, SubmitQueues
  <2>2. \A g \in Games : pc'[g] # pc[g] => pc[g] = "new" /\ pc'[g] = "queued"
    BY <2>1 DEF Unsubmitted
  <2>3. Counted' = Counted
    BY <2>2
  <2>4. mpc' \in {"collecting", "draining"} /\ mpc = "batching"
        /\ UNCHANGED <<temp, results, score, result>>
    BY <1>1 DEF SubmitBatch, SubmitFails
  <2> QED BY <2>2, <2>3, <2>4
<1>2. ASSUME NEW g \in Games, CountResult(g) PROVE CallInv'
  <2>1. /\ pc' = [pc EXCEPT ![g] = "counted"] /\ pc[g] = "returned"
        /\ mpc' = mpc /\ mpc = "collecting"
        /\ UNCHANGED <<temp, score, result>>
    BY <1>2 DEF CountResult
  <2>2. Counted' = Counted \cup {g}
    BY <2>1 DEF TypeOK
  <2>3. result[g] \in Outcomes \ {"raised"}
    BY <2>1 DEF TypeOK
  <2>4. /\ results' = Tally(results, result[g])
        /\ results \in Counters
    BY <1>2 DEF CountResult, TypeOK, Counters
  <2>5. results'.errors = 0 /\ results'.timeouts = 0 =>
          results.errors = 0 /\ results.timeouts = 0 /\ result[g] \in Successes
    BY <2>3, <2>4 DEF Tally, If, Counters, Outcomes, Successes
  <2>6. score'.kind # "rate"
    BY <2>1
  <2>7. \A h \in Games : pc'[h] = IF h = g THEN "counted" ELSE pc[h]
    BY <2>1 DEF TypeOK
  <2>8. FileInv'
    BY <2>1, <2>7
  <2>9. Counted' # {} /\ \A h \in Games : pc'[h] \in {"returned", "counted"} => result'[h] # "raised"
    BY <2>1, <2>2, <2>3, <2>7
  <2>10. results'.errors = 0 /\ results'.timeouts = 0 =>
           \A h \in Counted' : result'[h] \in Successes
    BY <2>1, <2>2, <2>5
  <2> QED BY <2>6, <2>8, <2>9, <2>10
<1>3. CASE RejectCode
  BY <1>3 DEF RejectCode, FormatScore
<1>4. CASE WriteTemp \/ LeaveLoop \/ RemoveTemp
  BY <1>4 DEF WriteTemp, LeaveLoop, RemoveTemp
<1>5. CASE Drained \/ EndBatch
  BY <1>5 DEF Drained, EndBatch
<1>6. CASE GiveScore
  <2>1. results \in Counters
    BY DEF TypeOK, Counters
  <2>2. ScoreOf(results).kind = "rate" =>
          /\ results.errors = 0 /\ results.timeouts = 0
          /\ results.wins + results.losses + results.ties > 0
    BY <2>1 DEF ScoreOf, Penalty, Rate, Counters
  <2> QED BY <1>6, <2>2 DEF GiveScore
<1>7. CASE Destroy
  BY <1>7 DEF Destroy
<1>8. ASSUME NEW g \in Games, ThreadStep(g) PROVE CallInv'
  <2>1. /\ UNCHANGED mainVars
        /\ Busy(g)
        /\ \A h \in Games : h # g => pc'[h] = pc[h] /\ result'[h] = result[h]
        /\ pc'[g] \notin {"new", "counted"}
        /\ pc'[g] = "returned" => result'[g] # "raised"
    BY <1>8, ThreadKeepsCall
  <2>2. Counted' = Counted /\ \A h \in Counted : result'[h] = result[h]
    BY <2>1
  <2> QED BY <2>1, <2>2 DEF mainVars
<1>9. ASSUME NEW g \in Games, ProcessStep(g) PROVE CallInv'
  BY <1>9 DEF ProcessStep, StartEngine, EngineExits, ParentExits, mainVars
<1>10. CASE UNCHANGED gameVars
  BY <1>10 DEF gameVars
<1> QED BY <1>1, <1>2, <1>3, <1>4, <1>5, <1>6, <1>7, <1>8, <1>9, <1>10
     DEF GameNext, MainStep

\* The account of the call holds in every behaviour.
LEMMA CallInvariant == GameSpec => []CallInv
<1>1. GameInit => CallInv
  BY DEF GameInit, CallInv, FileInv, RateInv, Busy, Counted, NoScore, NoResults
<1> QED BY <1>1, InitTyped, StepTyped, StepCall, PTL DEF GameSpec

\* Under every fault, a bot whose counted games include an error, a timeout or a game
\* that could not run for lack of resources gets no win rate.
THEOREM RatesAreEarned == GameSpec => []RateMeansAllSucceeded
<1>1. CallInv => RateMeansAllSucceeded
  BY DEF CallInv, RateInv, RateMeansAllSucceeded
<1> QED BY <1>1, CallInvariant, PTL

\* Under every fault, the file with the bot's code is removed only when no thread can
\* read it any more.
THEOREM FileStays == GameSpec => []FileOutlivesGames
<1>1. CallInv => FileOutlivesGames
  BY DEF CallInv, FileInv, FileOutlivesGames, Busy
<1> QED BY <1>1, CallInvariant, PTL

-----------------------------------------------------------------------------
(* The processes. *)

\* A thread that has not started its process yet.
Unspawned == {"new", "queued", "validating", "monitoring", "rechecking", "launching",
              "spacing", "spawning"}

Alive == {"running", "zombie"}

\* Two games have one process id only where the kernel hands ids out again, and then one of
\* their processes is reaped; an entry of current_games is under its own game's id; a thread
\* about to kill a parent that is not its own game's has been given it for a reaped one.
PidInv ==
  /\ \A g, h \in Games : g # h /\ pid[g] = pid[h] /\ pid[g] # NoPid =>
       "pidReuse" \in Faults /\ (parent[g] = "reaped" \/ parent[h] = "reaped")
  /\ \A g \in Games : pid[g] = NoPid => parent[g] = "none"
  /\ \A g \in Games : pc[g] \in Unspawned => pid[g] = NoPid
  /\ \A p \in Pids : table[p] # NoGame => pid[table[p]] = p
  /\ \A g \in Games : victim[g] # NoGame =>
       /\ pid[g] # NoPid /\ pid[victim[g]] = pid[g]
       /\ victim[g] = g \/ parent[g] = "reaped"

\* From Popen to the end of its kill a process is on the way to its entry in current_games or
\* has it; the kill has found it unless it is reaped; behind the kill it does not run, or the
\* kill got stuck and the entry is still there.  All this unless its pid is another's, too.
EndOf(g) ==
  /\ pc[g] = "registering" => pid[g] # NoPid
  /\ pc[g] \in {"communicating", "finally", "killing"} => Registered(g)
  /\ pc[g] \in {"killing", "rekilling"} /\ parent[g] \in Alive => victim[g] = g
  /\ parent[g] = "running" =>
       \/ pc[g] \in {"registering", "communicating", "finally", "killing"}
       \/ /\ "stuckKill" \in Faults /\ Registered(g)
          /\ pc[g] \in {"exiting", "retrying", "rekilling", "returned", "counted"}

EndInv == \A g \in Games : ~SharesPid(g) => EndOf(g)

\* What a thread does to the ids, the table and the victims concerns its own entry only.
LEMMA StepPids ==
  ASSUME TypeOK, PidInv, [GameNext]_gameVars
  PROVE  PidInv'
<1> USE DEF TypeOK, PidInv, osVars, mainVars
<1>0. Faults' = Faults
  BY SettingUnchanged DEF Faults
<1> USE <1>0
<1>1. CASE MainStep
  <2>1. CASE SubmitBatch \/ SubmitFails
    <3>1. PICK S \in SUBSET Unsubmitted :
            pc' = [g \in Games |-> IF g \in S THEN "queued" ELSE pc[g]]
      BY <2>1, SubmitQueues
    <3>2. \A g \in Games : pc'[g] \in Unspawned => pc[g] \in Unspawned
      BY <3>1 DEF Unsubmitted, Unspawned
    <3>3. UNCHANGED <<pid, table, victim, parent>>
      BY <2>1 DEF SubmitBatch, SubmitFails
    <3> QED BY <3>2, <3>3
  <2>2. ASSUME NEW g \in Games, CountResult(g) PROVE PidInv'
    <3>1. pc' = [pc EXCEPT ![g] = "counted"] /\ UNCHANGED <<pid, table, victim, parent>>
      BY <2>2 DEF CountResult
    <3>2. \A h \in Games : pc'[h] \in Unspawned => pc[h] \in Unspawned
      BY <3>1 DEF Unspawned
    <3> QED BY <3>1, <3>2
  <2>3. CASE RejectCode \/ WriteTemp \/ Drained \/ LeaveLoop \/ EndBatch \/ RemoveTemp
             \/ GiveScore
    BY <2>3 DEF RejectCode, WriteTemp, Drained, LeaveLoop, EndBatch, RemoveTemp, GiveScore
  <2>4. CASE Destroy
    <3>1. \A p \in Pids : table'[p] \in {table[p], NoGame}
      BY <2>4 DEF Destroy
    <3>2. UNCHANGED <<pc, pid, victim>>
      BY <2>4 DEF Destroy
    <3>3. \A g \in Games : parent'[g] = parent[g] \/ (parent[g] \in Alive /\ parent'[g] = "reaped")
      BY <2>4 DEF Destroy, KillParents, Alive
    <3> QED BY <3>1, <3>2, <3>3 DEF Alive
  <2> QED BY <1>1, <2>1, <2>2, <2>3, <2>4 DEF MainStep
<1>2. ASSUME NEW g \in Games, ThreadStep(g) PROVE PidInv'
  <2> USE DEF Goto, Unspawned
  <2>1. CASE Acquire(g) \/ Validate(g) \/ Monitor(g) \/ Recheck(g)
    BY <2>1 DEF Acquire, Validate, Monitor, Recheck
  <2>2. CASE TakeLock(g) \/ ReleaseLock(g) \/ SpawnRaises(g)
    BY <2>2 DEF TakeLock, ReleaseLock, SpawnRaises
  <2>3. CASE Spawn(g)
    <3>1. PICK p \in Pids :
            /\ \A h \in Games : pid[h] = p => "pidReuse" \in Faults /\ parent[h] = "reaped"
            /\ pid' = [pid EXCEPT ![g] = p]
      BY <2>3 DEF Spawn, FreePids
    <3>2. /\ pid[g] = NoPid /\ pc' = [pc EXCEPT ![g] = "registering"]
          /\ parent' = [parent EXCEPT ![g] = "running"] /\ parent[g] = "none"
      BY <2>3 DEF Spawn
    <3>3. \A q \in Pids : table[q] # g
      BY <3>2, PidsDistinct, GamesFinite
    <3>4. \A h \in Games : victim[h] # g
      BY <3>2, GamesFinite
    <3>5. UNCHANGED <<table, victim>>
      BY <2>3 DEF Spawn
    <3>6. \A h \in Games : h # g => pid'[h] = pid[h] /\ parent'[h] = parent[h]
      BY <3>1, <3>2
    <3>7. pid'[g] = p /\ p # NoPid /\ parent'[g] = "running"
      BY <3>1, <3>2, PidsDistinct
    <3>8. victim[g] = NoGame
      BY <3>2, <3>4
    <3>9. ASSUME NEW i \in Games, NEW j \in Games, i # j, pid'[i] = pid'[j], pid'[i] # NoPid
          PROVE  "pidReuse" \in Faults /\ (parent'[i] = "reaped" \/ parent'[j] = "reaped")
      BY <3>1, <3>6, <3>7, <3>9
    <3>10. \A q \in Pids : table'[q] # NoGame => pid'[table'[q]] = q
      BY <3>3, <3>5, <3>6
    <3>11. \A h \in Games : victim'[h] # NoGame =>
             /\ pid'[h] # NoPid /\ pid'[victim'[h]] = pid'[h]
             /\ victim'[h] = h \/ parent'[h] = "reaped"
      BY <3>4, <3>5, <3>6, <3>8
    <3> QED BY <3>2, <3>6, <3>7, <3>9, <3>10, <3>11
  <2>4. CASE Register(g)
    BY <2>4 DEF Register
  <2>5. CASE CommunicateRaises(g) \/ Timeout(g) \/ NothingToKill(g)
    BY <2>5 DEF CommunicateRaises, Timeout, NothingToKill
  <2>6. CASE Communicate(g)
    <3>1. /\ pc' = [pc EXCEPT ![g] = "finally"] /\ parent' = [parent EXCEPT ![g] = "reaped"]
          /\ parent[g] \in {"zombie", "reaped"} /\ UNCHANGED <<pid, table, victim>>
      BY <2>6 DEF Communicate, OutputOver
    <3> QED BY <3>1
  <2>7. CASE KillChildren(g)
    <3> DEFINE h == CHOOSE i \in Games : i \in Owners(pid[g])
    <3>1. Owners(pid[g]) # {} => h \in Games /\ pid[h] = pid[g] /\ parent[h] \in Alive
      BY DEF Owners, Alive
    <3>2. victim' = [victim EXCEPT ![g] = IF Owners(pid[g]) = {} THEN NoGame ELSE h]
      BY <2>7 DEF KillChildren
    <3>3. UNCHANGED <<pid, table, parent>>
          /\ \A i \in Games : pc'[i] \in Unspawned => pc[i] \in Unspawned
      BY <2>7 DEF KillChildren
    <3>4. pid[g] # NoPid
      BY <2>7 DEF KillChildren, Registered
    <3> HIDE DEF h
    <3>5. victim'[g] # NoGame =>
            pid[victim'[g]] = pid[g] /\ (victim'[g] = g \/ parent[g] = "reaped")
      BY <3>1, <3>2, <3>4 DEF Alive
    <3>6. \A i \in Games : i # g => victim'[i] = victim[i]
      BY <3>2
    <3> QED BY <3>3, <3>4, <3>5, <3>6
  <2>8. CASE KillParent(g) \/ KillAgain(g)
    <3>1. /\ \A p \in Pids : table'[p] \in {table[p], NoGame}
          /\ pid' = pid /\ pc' \in {[pc EXCEPT ![g] = "returned"], [pc EXCEPT ![g] = "deleting"]}
          /\ victim' = [victim EXCEPT ![g] = NoGame]
      BY <2>8 DEF KillAgain, KillParent
    <3>2. \A i \in Games : parent'[i] = parent[i] \/ (parent[i] \in Alive /\ parent'[i] = "reaped")
      BY <2>8 DEF KillAgain, KillParent, KillParents, Alive
    <3>3. \A i \in Games : pc'[i] \in Unspawned => pc[i] \in Unspawned
      BY <3>1
    <3>4. \A i \in Games : /\ victim'[i] # NoGame => victim'[i] = victim[i]
                           /\ parent[i] = "reaped" => parent'[i] = "reaped"
                           /\ parent[i] = "none" => parent'[i] = "none"
      BY <3>1, <3>2 DEF Alive
    <3>5. \A p \in Pids : table'[p] # NoGame => table'[p] = table[p]
      BY <3>1
    <3>6. pid' = pid
      BY <3>1
    <3>7. \A i, j \in Games : i # j /\ pid'[i] = pid'[j] /\ pid'[i] # NoPid =>
            "pidReuse" \in Faults' /\ (parent'[i] = "reaped" \/ parent'[j] = "reaped")
      BY <3>4, <3>6
    <3>8. \A i \in Games : victim'[i] # NoGame =>
            /\ pid'[i] # NoPid /\ pid'[victim'[i]] = pid'[i]
            /\ victim'[i] = i \/ parent'[i] = "reaped"
      BY <3>4, <3>6
    <3>9. /\ \A i \in Games : pid'[i] = NoPid => parent'[i] = "none"
          /\ \A i \in Games : pc'[i] \in Unspawned => pid'[i] = NoPid
      BY <3>3, <3>4, <3>6
    <3>10. \A p \in Pids : table'[p] # NoGame => pid'[table'[p]] = p
      BY <3>5, <3>6
    <3> QED BY <3>7, <3>8, <3>9, <3>10
  <2>9. CASE KillStuck(g) \/ DeleteEntry(g)
    BY <2>9 DEF KillStuck, DeleteEntry
  <2>10. CASE Release(g) \/ HandleException(g)
    BY <2>10 DEF Release, HandleException
  <2> QED BY <1>2, <2>1, <2>2, <2>3, <2>4, <2>5, <2>6, <2>7, <2>8, <2>9, <2>10
       DEF ThreadStep
<1>3. ASSUME NEW g \in Games, ProcessStep(g) PROVE PidInv'
  BY <1>3 DEF ProcessStep, StartEngine, EngineExits, ParentExits
<1>4. CASE UNCHANGED gameVars
  BY <1>4 DEF gameVars
<1> QED BY <1>1, <1>2, <1>3, <1>4 DEF GameNext

\* An entry under the pid of a game that shares it with none is the game's own.
LEMMA OwnEntry ==
  ASSUME TypeOK, PidInv, NEW g \in Games, ~SharesPid(g), pid[g] # NoPid
  PROVE  /\ Registered(g) => table[pid[g]] = g
         /\ \A h \in Games : h # g => pid[h] # pid[g]
<1>1. \A h \in Games : h # g => pid[h] # pid[g]
  BY DEF PidInv, SharesPid
<1>2. pid[g] \in Pids /\ table[pid[g]] \in Games \cup {NoGame}
  BY DEF TypeOK
<1> QED BY <1>1, <1>2 DEF PidInv, Registered

\* What a step does to the entry, the process and the victim of a game that shares its pid
\* with none is done by the game's own thread.
LEMMA OthersKeep ==
  ASSUME TypeOK, PidInv, NEW g \in Games, NEW h \in Games, g # h, ~SharesPid(g),
         ThreadStep(h)
  PROVE  /\ pc'[g] = pc[g] /\ pid'[g] = pid[g] /\ victim'[g] = victim[g]
         /\ Registered(g) => Registered(g)'
         /\ parent'[g] = parent[g]
<1> USE DEF TypeOK, osVars, mainVars, Goto
<1>1. pc'[g] = pc[g]
  BY ThreadKeepsCall
<1>2. CASE Acquire(h) \/ Validate(h) \/ Monitor(h) \/ Recheck(h) \/ TakeLock(h)
           \/ ReleaseLock(h) \/ SpawnRaises(h) \/ CommunicateRaises(h) \/ Timeout(h)
           \/ NothingToKill(h) \/ Release(h) \/ HandleException(h)
  BY <1>1, <1>2 DEF Acquire, Validate, Monitor, Recheck, TakeLock, ReleaseLock, SpawnRaises,
     CommunicateRaises, Timeout, NothingToKill, Release, HandleException, Registered
<1>3. CASE Spawn(h) \/ Communicate(h) \/ KillChildren(h) \/ KillStuck(h)
  <2>1. UNCHANGED table /\ pid'[g] = pid[g] /\ victim'[g] = victim[g] /\ parent'[g] = parent[g]
    BY <1>3 DEF Spawn, Communicate, KillChildren, KillStuck
  <2> QED BY <1>1, <2>1 DEF Registered
<1>4. CASE Register(h)
  <2>1. pid[g] # NoPid => pid[g] \in Pids /\ pid[h] # pid[g]
    BY OwnEntry
  <2> QED BY <1>1, <1>4, <2>1 DEF Register, Registered
<1>5. CASE DeleteEntry(h)
  <2>1. pid[g] # NoPid => pid[g] \in Pids /\ pid[h] # pid[g]
    BY OwnEntry
  <2> QED BY <1>1, <1>5, <2>1 DEF DeleteEntry, Registered
<1>6. CASE KillParent(h) \/ KillAgain(h)
  <2>1. victim[h] # g
    BY OwnEntry, GamesFinite DEF PidInv
  <2>2. parent'[g] = parent[g]
    BY <1>6, <2>1 DEF KillParent, KillAgain, KillParents
  <2>3. pid[g] # NoPid => pid[g] \in Pids /\ pid[h] # pid[g]
    BY OwnEntry
  <2>4. pid' = pid /\ victim'[g] = victim[g]
        /\ (table' = table \/ table' = [table EXCEPT ![pid[h]] = NoGame])
    BY <1>6 DEF KillParent, KillAgain
  <2>5. pid[g] # NoPid => table'[pid[g]] = table[pid[g]]
    BY <2>3, <2>4
  <2> QED BY <1>1, <2>2, <2>4, <2>5 DEF Registered
<1> QED BY <1>2, <1>3, <1>4, <1>5, <1>6 DEF ThreadStep

\* A process keeps its pid.
LEMMA PidsStay ==
  ASSUME TypeOK, PidInv, [GameNext]_gameVars
  PROVE  \A h \in Games : pid[h] # NoPid => pid'[h] = pid[h]
<1> USE DEF TypeOK, PidInv, osVars, mainVars, Goto
<1>1. ASSUME NEW g \in Games, Spawn(g)
      PROVE  \A h \in Games : pid[h] # NoPid => pid'[h] = pid[h]
  BY <1>1 DEF Spawn, Unspawned
<1>2. CASE ~ \E g \in Games : Spawn(g)
  BY <1>2 DEF GameNext, gameVars, MainStep, RejectCode, WriteTemp, SubmitBatch, SubmitFails,
     Drained, LeaveLoop, EndBatch, CountResult, RemoveTemp, Destroy, GiveScore, ThreadStep,
     Acquire, Validate, Monitor, Recheck, TakeLock, ReleaseLock, SpawnRaises, Register,
     Communicate, CommunicateRaises, Timeout, KillChildren, NothingToKill, KillParent,
     KillStuck, DeleteEntry, Release, HandleException, KillAgain, ProcessStep, StartEngine,
     EngineExits, ParentExits
<1> QED BY <1>1, <1>2

\* A thread that leaves its kill has ended its process, or left it its entry.
LEMMA StepEnds ==
  ASSUME TypeOK, CallInv, PidInv, EndInv, [GameNext]_gameVars
  PROVE  EndInv'
<1> SUFFICES ASSUME NEW g \in Games, ~SharesPid(g)' PROVE EndOf(g)'
  BY DEF EndInv
<1> USE DEF TypeOK, osVars, mainVars
<1>0. Faults' = Faults
  BY SettingUnchanged DEF Faults
<1>a. pid[g] = NoPid => /\ parent[g] = "none"
                        /\ ~Registered(g)
  BY DEF PidInv, Registered
<1>1. ~SharesPid(g)
  <2>1. \A h \in Games : pid[h] # NoPid => pid'[h] = pid[h]
    BY PidsStay
  <2> QED BY <1>0, <2>1 DEF SharesPid
<1>b. EndOf(g)
  BY <1>1 DEF EndInv
<1>2. CASE MainStep
  <2>1. UNCHANGED <<pid, victim>>
    BY <1>2 DEF MainStep, RejectCode, WriteTemp, SubmitBatch, SubmitFails, Drained, LeaveLoop,
                EndBatch, CountResult, RemoveTemp, Destroy, GiveScore
  <2>3. CASE SubmitBatch \/ SubmitFails
    <3>1. PICK S \in SUBSET Unsubmitted :
            pc' = [h \in Games |-> IF h \in S THEN "queued" ELSE pc[h]]
      BY <2>3, SubmitQueues
    <3>2. pc'[g] = pc[g] \/ (pc[g] = "new" /\ pc'[g] = "queued")
      BY <3>1 DEF Unsubmitted
    <3>3. UNCHANGED <<table, parent>>
      BY <2>3 DEF SubmitBatch, SubmitFails
    <3> QED BY <1>0, <1>b, <2>1, <3>2, <3>3 DEF Registered, EndOf
  <2>4. ASSUME NEW h \in Games, CountResult(h)
        PROVE  /\ UNCHANGED <<table, parent>>
               /\ pc'[g] = pc[g] \/ (pc[g] = "returned" /\ pc'[g] = "counted")
    BY <2>4 DEF CountResult
  <2>5. CASE \E h \in Games : CountResult(h)
    BY <1>0, <1>b, <2>1, <2>4, <2>5 DEF Registered, EndOf
  <2>6. CASE RejectCode \/ WriteTemp \/ Drained \/ LeaveLoop \/ EndBatch \/ RemoveTemp
             \/ GiveScore
    <3>1. UNCHANGED <<table, parent, pc>>
      BY <2>6 DEF RejectCode, WriteTemp, Drained, LeaveLoop, EndBatch, RemoveTemp, GiveScore
    <3> QED BY <1>0, <1>b, <2>1, <3>1 DEF Registered, EndOf
  <2>7. CASE Destroy
    <3>1. ~ Busy(g)
      BY <2>7 DEF Destroy, CallInv, FileInv
    <3> DEFINE found == UNION {Owners(p) : p \in {q \in Pids : table[q] # NoGame}}
               Spared(S) == UNION {Owners(p) : p \in S}
    <3>2. PICK stuck \in SUBSET {p \in Pids : table[p] # NoGame} :
            /\ KillParents(found \ Spared(stuck))
            /\ table' = [p \in Pids |-> IF p \in stuck THEN table[p] ELSE NoGame]
      BY <2>7 DEF Destroy
    <3>3. parent'[g] \in {parent[g], "reaped"} /\ UNCHANGED pc
      BY <2>7, <3>2 DEF Destroy, KillParents
    <3>4. ASSUME parent'[g] = "running" PROVE Registered(g)'
      <4>1. parent[g] = "running" /\ pid[g] \in Pids
        BY <3>3, <3>4, <1>a
      <4>2. Registered(g) /\ "stuckKill" \in Faults
        BY <1>b, <3>1, <4>1 DEF EndOf, Busy
      <4>3. g \in Owners(pid[g]) /\ \A p \in Pids : g \in Owners(p) => p = pid[g]
        BY <4>1 DEF Owners
      <4>4. pid[g] \in stuck
        <5> SUFFICES ASSUME pid[g] \notin stuck PROVE FALSE
          OBVIOUS
        <5>1. g \in found
          BY <4>1, <4>2, <4>3 DEF Registered
        <5>2. g \notin Spared(stuck)
          BY <4>3
        <5>3. g \in found \ Spared(stuck)
          BY <5>1, <5>2
        <5> HIDE DEF found, Spared
        <5>4. parent'[g] = "reaped"
          BY <3>2, <4>1, <5>3 DEF KillParents
        <5> QED BY <3>4, <5>4
      <4> QED BY <2>1, <3>2, <4>2, <4>4 DEF Registered
    <3> QED BY <1>0, <1>b, <3>1, <3>3, <3>4 DEF Busy, EndOf
  <2> QED BY <1>2, <2>3, <2>5, <2>6, <2>7 DEF MainStep
<1>3. ASSUME NEW h \in Games, ThreadStep(h), h # g PROVE EndOf(g)'
  <2>1. /\ pc'[g] = pc[g] /\ pid'[g] = pid[g] /\ victim'[g] = victim[g]
        /\ Registered(g) => Registered(g)'
        /\ parent'[g] = parent[g]
    BY <1>1, <1>3, OthersKeep
  <2> QED BY <1>0, <1>b, <2>1 DEF EndOf
<1>4. CASE ThreadStep(g)
  <2> USE <1>b DEF Goto, EndOf
  <2>1. CASE Acquire(g) \/ Validate(g) \/ Monitor(g) \/ Recheck(g)
    BY <1>a, <2>1 DEF Acquire, Validate, Monitor, Recheck, Registered, Unspawned, PidInv, Alive
  <2>2. CASE TakeLock(g) \/ ReleaseLock(g) \/ SpawnRaises(g)
    BY <1>a, <2>2 DEF TakeLock, ReleaseLock, SpawnRaises, Registered, Unspawned, PidInv, Alive
  <2>3. CASE Spawn(g)
    <3>1. pc'[g] = "registering" /\ pid'[g] # NoPid
      BY <2>3, PidsDistinct DEF Spawn, FreePids
    <3> QED BY <3>1
  <2>4. CASE Register(g)
    <3>1. pid[g] \in Pids /\ g # NoGame
      BY <2>4, GamesFinite DEF Register
    <3>2. pc'[g] = "communicating" /\ Registered(g)'
      BY <2>4, <3>1 DEF Register, Registered
    <3> QED BY <3>2
  <2>5. CASE Communicate(g) \/ CommunicateRaises(g) \/ Timeout(g)
    <3>1. pc'[g] = "finally" /\ Registered(g)'
      BY <2>5 DEF Communicate, CommunicateRaises, Timeout, Registered
    <3> QED BY <3>1
  <2>6. CASE KillChildren(g)
    <3> DEFINE h == CHOOSE i \in Games : i \in Owners(pid[g])
    <3>1. ASSUME parent[g] \in Alive PROVE victim'[g] = g
      <4>1. g \in Owners(pid[g])
        BY <3>1 DEF Owners, Alive
      <4>2. h \in Games /\ pid[h] = pid[g]
        BY <4>1 DEF Owners
      <4>3. pid[g] # NoPid
        BY <2>6 DEF KillChildren, Registered
      <4>4. h = g
        BY <1>1, <4>2, <4>3, OwnEntry
      <4>5. Owners(pid[g]) # {}
        BY <4>1
      <4>6. victim' = [victim EXCEPT ![g] = IF Owners(pid[g]) = {} THEN NoGame ELSE h]
        BY <2>6 DEF KillChildren
      <4> HIDE DEF h
      <4> QED BY <4>4, <4>5, <4>6
    <3>2. /\ UNCHANGED <<pid, table, parent>>
          /\ \/ pc[g] = "finally" /\ pc' = [pc EXCEPT ![g] = "killing"]
             \/ pc[g] = "retrying" /\ pc' = [pc EXCEPT ![g] = "rekilling"]
      BY <2>6 DEF KillChildren
    <3> QED BY <1>0, <3>1, <3>2 DEF Registered
  <2>7. CASE NothingToKill(g)
    BY <1>0, <2>7 DEF NothingToKill
  <2>8. CASE KillParent(g)
    <3>1. parent'[g] \notin Alive /\ pc'[g] = "deleting"
      BY <2>8 DEF KillParent, KillParents, Alive
    <3> QED BY <3>1 DEF Alive
  <2>9. CASE KillStuck(g)
    <3>1. /\ pc[g] = "killing" /\ pc'[g] = "exiting" /\ "stuckKill" \in Faults
          /\ UNCHANGED <<pid, table, parent>>
      BY <2>9 DEF KillStuck
    <3> QED BY <1>0, <3>1 DEF Registered
  <2>10. CASE DeleteEntry(g)
    <3>1. pc[g] = "deleting" /\ pc'[g] = "exiting" /\ parent' = parent
      BY <2>10 DEF DeleteEntry
    <3> QED BY <3>1
  <2>11. CASE Release(g)
    <3>1. pc[g] = "exiting" /\ pc'[g] \in {"retrying", "returned"} /\ UNCHANGED <<pid, table, parent>>
      BY <2>11 DEF Release
    <3> QED BY <1>0, <3>1 DEF Registered
  <2>12. CASE HandleException(g)
    <3>1. /\ pc[g] = "retrying" /\ pc'[g] = "returned" /\ ~Registered(g) /\ parent' = parent
      BY <2>12 DEF HandleException
    <3> QED BY <3>1
  <2>13. CASE KillAgain(g)
    <3>1. pc[g] = "rekilling" /\ pc'[g] = "returned"
      BY <2>13 DEF KillAgain
    <3>2. CASE KillParents({victim[g]})
      <4>1. parent'[g] \notin Alive
        BY <3>1, <3>2 DEF KillParents, Alive
      <4> QED BY <3>1, <4>1 DEF Alive
    <3>3. CASE "stuckKill" \in Faults /\ UNCHANGED <<parent, table>>
      <4>1. pid' = pid
        BY <2>13 DEF KillAgain
      <4> QED BY <1>0, <3>1, <3>3, <4>1 DEF Registered
    <3> QED BY <2>13, <3>2, <3>3 DEF KillAgain
  <2> QED BY <1>4, <2>1, <2>2, <2>3, <2>4, <2>5, <2>6, <2>7, <2>8, <2>9, <2>10, <2>11, <2>12,
             <2>13
       DEF ThreadStep
<1>5. ASSUME NEW h \in Games, ProcessStep(h) PROVE EndOf(g)'
  <2>1. /\ UNCHANGED <<pc, pid, table, victim>>
        /\ parent'[g] = parent[g] \/ (parent[g] = "running" /\ parent'[g] = "zombie")
    BY <1>5 DEF ProcessStep, StartEngine, EngineExits, ParentExits
  <2> QED BY <1>0, <1>b, <2>1 DEF EndOf, Registered, Alive
<1>6. CASE UNCHANGED gameVars
  BY <1>0, <1>b, <1>6 DEF gameVars, EndOf, Registered
<1> QED BY <1>2, <1>3, <1>4, <1>5, <1>6 DEF GameNext

\* A call starts without processes.
LEMMA InitPids == GameInit => PidInv /\ EndInv
BY GamesFinite DEF GameInit, PidInv, EndInv, EndOf, Unspawned, Registered, Alive

\* The ids and the ends of the processes are in order in every behaviour.
LEMMA ProcessInvariant == GameSpec => [](PidInv /\ EndInv)
<1>1. TypeOK /\ CallInv /\ PidInv /\ EndInv /\ [GameNext]_gameVars => (PidInv /\ EndInv)'
  BY StepPids, StepEnds
<1> QED BY <1>1, InitTyped, InitPids, TypeCorrect, CallInvariant, PTL DEF GameSpec

\* Under every fault, a thread that ends another game's process has lost its own, and the
\* kernel has given the other one its number; no thread whose game still runs does so, although
\* processes are looked up by number and other threads register, kill and delete meanwhile.
THEOREM KillsAreOwn == GameSpec => KillsOnlyOwn
<1> DEFINE Own == \A g, h \in Games :
             (g # h /\ parent[h] = "running" /\ parent'[h] = "reaped" /\ pc'[g] # pc[g])
               => "pidReuse" \in Faults /\ pid[g] = pid[h] /\ parent[g] = "reaped"
<1>1. TypeOK /\ PidInv /\ [GameNext]_gameVars => [Own]_gameVars
  <2> SUFFICES ASSUME TypeOK, PidInv, GameNext, NEW g \in Games, NEW h \in Games,
                      g # h, pc'[g] # pc[g], parent[h] = "running", parent'[h] = "reaped"
               PROVE  "pidReuse" \in Faults /\ pid[g] = pid[h] /\ parent[g] = "reaped"
    BY DEF gameVars
  <2> USE DEF TypeOK, osVars, mainVars, Goto
  <2>1. CASE MainStep
    <3>1. ASSUME NEW k \in Games, CountResult(k) PROVE parent' = parent
      BY <3>1 DEF CountResult
    <3>2. CASE Destroy
      BY <3>2 DEF Destroy
    <3> QED BY <2>1, <3>1, <3>2 DEF MainStep, RejectCode, WriteTemp, SubmitBatch, SubmitFails,
                 Drained, LeaveLoop, EndBatch, RemoveTemp, GiveScore
  <2>2. ASSUME NEW k \in Games, ProcessStep(k) PROVE FALSE
    BY <2>2 DEF ProcessStep, StartEngine, EngineExits, ParentExits
  <2>3. ASSUME NEW k \in Games, ThreadStep(k)
        PROVE "pidReuse" \in Faults /\ pid[g] = pid[h] /\ parent[g] = "reaped"
    <3>1. k = g
      <4>1. \A j \in Games : j # k => pc'[j] = pc[j]
        BY <2>3, ThreadKeepsCall
      <4> QED BY <4>1
    <3>2. CASE KillParent(g) \/ KillAgain(g)
      <4>1. h = victim[g]
        BY <3>2 DEF KillParent, KillAgain, KillParents
      <4>2. pid[h] = pid[g] /\ pid[g] # NoPid /\ parent[g] = "reaped"
        BY <4>1, GamesFinite DEF PidInv
      <4> QED BY <4>2 DEF PidInv
    <3>3. CASE Communicate(g) \/ Spawn(g)
      BY <3>3 DEF Communicate, Spawn
    <3>4. CASE ~ (KillParent(g) \/ KillAgain(g) \/ Communicate(g) \/ Spawn(g))
      BY <2>3, <3>1, <3>4 DEF ThreadStep, Acquire, Validate, Monitor, Recheck, TakeLock,
           ReleaseLock, SpawnRaises, Register, CommunicateRaises, Timeout, KillChildren,
           NothingToKill, KillStuck, DeleteEntry, Release, HandleException
    <3> QED BY <3>2, <3>3, <3>4
  <2> QED BY <2>1, <2>2, <2>3 DEF GameNext
<1> QED BY <1>1, TypeCorrect, ProcessInvariant, PTL DEF GameSpec, KillsOnlyOwn

\* Under every fault, the interpreters that run never outnumber the slots, and none runs once
\* the call has returned: each is dead before its permit goes to another game, but for one
\* whose kills got stuck, which keeps its entry, and one whose pid was another game's too.
THEOREM ParentsEnd == GameSpec => []ParentsAreEnded
<1>1. TypeOK /\ PermitsConserved /\ CallInv /\ PidInv /\ EndInv => ParentsAreEnded
  <2> SUFFICES ASSUME TypeOK, PermitsConserved, CallInv, PidInv, EndInv PROVE ParentsAreEnded
    OBVIOUS
  <2> DEFINE Running == {g \in Games : parent[g] = "running" /\ ~Escaped(g)}
  <2>0. ASSUME NEW g \in Games, parent[g] = "running", ~Escaped(g)
        PROVE  g \in Holding
    <3>1. ~SharesPid(g) /\ ~GivenUp(g) /\ EndOf(g)
      BY <2>0 DEF Escaped, EndInv
    <3>2. pid[g] # NoPid
      BY <2>0 DEF PidInv
    <3>3. Registered(g) => table[pid[g]] = g
      BY <3>1, <3>2, OwnEntry
    <3> QED BY <2>0, <3>1, <3>2, <3>3 DEF EndOf, GivenUp, Holding, InSemaphore
  <2>1. Running \subseteq Holding
    BY <2>0
  <2>2. Cardinality(Running) \in Nat /\ Cardinality(Running) <= Cardinality(Holding)
    BY <2>1, HoldingFinite, FS_Subset, FS_CardinalityType
  <2>3. Cardinality(Running) <= Slots
    <3>1. Slots \in Nat
      BY DEF TypeOK, Setting, Slots
    <3> HIDE DEF Running
    <3> QED BY <2>2, <3>1, HoldingFinite DEF PermitsConserved, TypeOK
  <2>4. NoParentLeft
    BY <2>0 DEF CallInv, FileInv, Busy, NoParentLeft, Holding, InSemaphore
  <2> QED BY <2>3, <2>4 DEF ParentsAreEnded, LiveBound
<1> QED BY <1>1, ProcessInvariant, TypeCorrect, CallInvariant, PermitsAreConserved, PTL

-----------------------------------------------------------------------------
(* The training loop: what it keeps. *)

Updates == [step : Nat, batch : Nat \X Nat]

\* Every variable keeps its type.
LoopTypes ==
  /\ config \in Config /\ phase \in Phases
  /\ step \in Nat /\ drawn \in Nat /\ pass \in Nat /\ epoch \in Nat
  /\ pos \in 0..config.batches
  /\ actor \in Seq(Updates) /\ critic \in Seq(Updates)
  /\ saved \in [step : Nat, drawn : Nat, actor : Seq(Updates), critic : Seq(Updates)]

(* The steps of the updates. *)

\* The steps that leave the actor alone.
SkippedByWarmup == IF config.warmup > 1 THEN config.warmup - 1 ELSE 0

\* The critic's updates are those of the first n steps, the actor's those of them that
\* the warm-up left.
CriticAt(w, n) ==
  /\ Len(w) = IF config.useCritic THEN n ELSE 0
  /\ \A i \in DOMAIN w : w[i].step = i

ActorAt(w, n) ==
  /\ Len(w) = IF n > SkippedByWarmup THEN n - SkippedByWarmup ELSE 0
  /\ \A i \in DOMAIN w : w[i].step = i + SkippedByWarmup

\* The steps whose update is done, in each phase.
CriticDone == IF phase \in {"pulling", "updatingCritic"} THEN step - 1 ELSE step
ActorDone ==
  IF phase \in {"pulling", "updatingCritic", "updatingActor"} THEN step - 1 ELSE step

InLoop == phase \in {"pulling", "updatingCritic", "updatingActor", "saving", "counting"}

\* The weights of a run and those of the checkpoint are those of the step they claim;
\* what a run has left behind still is in order.
StepsInv ==
  /\ InLoop => step >= 1
  /\ InLoop \/ phase = "validating" =>
       CriticAt(critic, CriticDone) /\ ActorAt(actor, ActorDone)
  /\ \A i \in DOMAIN critic : critic[i].step = i
  /\ \A i \in DOMAIN actor : actor[i].step = i + SkippedByWarmup
  /\ actor # <<>> /\ config.useCritic => Len(critic) >= config.warmup
  /\ CriticAt(saved.critic, saved.step) /\ ActorAt(saved.actor, saved.step)

\* The number of steps without the actor is a number.
LEMMA SkippedNat == LoopTypes => SkippedByWarmup \in Nat
  BY DEF LoopTypes, Config, SkippedByWarmup

\* An actor of the weights of n steps that has learned has a critic of warmup updates.
LEMMA WarmBehind ==
  ASSUME LoopTypes, NEW n \in Nat, NEW v \in Seq(Updates), NEW w \in Seq(Updates),
         CriticAt(v, n), ActorAt(w, n), w # <<>>, config.useCritic
  PROVE  Len(v) >= config.warmup
<1>1. Len(w) > 0
  BY LenProperties, EmptySeq
<1>2. config.warmup \in Nat
  BY DEF LoopTypes, Config
<1> QED BY <1>1, <1>2 DEF CriticAt, ActorAt, SkippedByWarmup

\* An update of this step is one of the updates.
LEMMA UpdateTyped == LoopTypes => Update \in Updates
  BY DEF LoopTypes, Config, Update, Updates

\* Appending keeps what a sequence holds and adds one element at its end.
LEMMA Appended ==
  ASSUME NEW S, NEW w \in Seq(S), NEW e \in S
  PROVE  /\ Append(w, e) \in Seq(S)
         /\ Len(Append(w, e)) = Len(w) + 1 /\ Len(w) \in Nat
         /\ Append(w, e)[Len(w) + 1] = e
         /\ DOMAIN Append(w, e) = 1..(Len(w) + 1) /\ DOMAIN w = 1..Len(w)
         /\ \A i \in 1..Len(w) : Append(w, e)[i] = w[i]
  BY AppendProperties

\* The types are an invariant.
LEMMA LoopTypesStep == LoopTypes /\ [Next]_vars => LoopTypes'
<1> SUFFICES ASSUME LoopTypes, [Next]_vars PROVE LoopTypes'
  OBVIOUS
<1> USE DEF LoopTypes, Phases
<1>0. config.batches \in Nat /\ config.batches > 0
  BY DEF Config
<1>1. CASE Start
  <2>1. /\ UNCHANGED <<config, saved>> /\ epoch' = 0 /\ pass' = 0 /\ pos' = config.batches
    BY <1>1 DEF Start
  <2>2. PICK mode \in Modes :
          IF LoadFails(mode)
          THEN phase' = "failed" /\ UNCHANGED <<step, drawn, actor, critic>>
          ELSE /\ phase' = "validating"
               /\ step' = Restored(mode).step /\ drawn' = Restored(mode).drawn
               /\ actor' = Restored(mode).actor /\ critic' = Restored(mode).critic
    BY <1>1 DEF Start
  <2>3. Restored(mode) \in [step : Nat, drawn : Nat, actor : Seq(Updates), critic : Seq(Updates)]
    BY EmptySeq DEF Restored, NoCheckpoint
  <2> QED BY <1>0, <2>1, <2>2, <2>3, SMTT(30)
<1>2. CASE Begin
  BY <1>2 DEF Begin
<1>3. CASE BeginPass
  BY <1>0, <1>3 DEF BeginPass
<1>4. CASE RunOut
  BY <1>4 DEF RunOut
<1>5. CASE TakeBatch
  BY <1>0, <1>5 DEF TakeBatch
<1>6. CASE UpdateCritic
  BY <1>6, UpdateTyped, AppendProperties DEF UpdateCritic
<1>7. CASE UpdateActor
  BY <1>7, UpdateTyped, AppendProperties DEF UpdateActor
<1>8. CASE Save
  BY <1>8 DEF Save
<1>9. CASE Count
  BY <1>9 DEF Count
<1>10. CASE LastValidation
  BY <1>10 DEF LastValidation
<1>11. CASE Crash
  BY <1>11 DEF Crash
<1>12. CASE UNCHANGED vars
  BY <1>12 DEF vars
<1> QED BY <1>1, <1>2, <1>3, <1>4, <1>5, <1>6, <1>7, <1>8, <1>9, <1>10, <1>11, <1>12
      DEF Next, Drive

\* The order of the updates is an invariant.
LEMMA StepsInvStep == LoopTypes /\ StepsInv /\ [Next]_vars => StepsInv'
<1> SUFFICES ASSUME LoopTypes, StepsInv, [Next]_vars PROVE StepsInv'
  OBVIOUS
<1> DEFINE skipped == SkippedByWarmup
<1>0. skipped \in Nat /\ step \in Nat
  BY SkippedNat DEF LoopTypes
<1>1. CASE Start
  <2>1. UNCHANGED <<config, saved>>
    BY <1>1 DEF Start
  <2>2. PICK mode \in Modes :
          IF LoadFails(mode)
          THEN phase' = "failed" /\ UNCHANGED <<step, drawn, actor, critic>>
          ELSE /\ phase' = "validating"
               /\ step' = Restored(mode).step /\ drawn' = Restored(mode).drawn
               /\ actor' = Restored(mode).actor /\ critic' = Restored(mode).critic
    BY <1>1 DEF Start
  <2>3. CASE LoadFails(mode)
    BY <2>1, <2>2, <2>3 DEF StepsInv, InLoop, CriticAt, ActorAt, SkippedByWarmup
  <2>4. CASE ~LoadFails(mode)
    <3>1. CriticAt(Restored(mode).critic, Restored(mode).step)
      BY DEF Restored, NoCheckpoint, StepsInv, CriticAt
    <3>2. ActorAt(Restored(mode).actor, Restored(mode).step)
      BY <1>0 DEF Restored, NoCheckpoint, StepsInv, ActorAt
    <3>3. /\ Restored(mode).step \in Nat /\ Restored(mode).critic \in Seq(Updates)
          /\ Restored(mode).actor \in Seq(Updates)
      BY EmptySeq DEF Restored, NoCheckpoint, LoopTypes
    <3>4. Restored(mode).actor # <<>> /\ config.useCritic =>
            Len(Restored(mode).critic) >= config.warmup
      BY <3>1, <3>2, <3>3, WarmBehind
    <3> QED BY <2>1, <2>2, <2>4, <3>1, <3>2, <3>4
          DEF StepsInv, InLoop, CriticAt, ActorAt, SkippedByWarmup, CriticDone, ActorDone
  <2> QED BY <2>3, <2>4
<1>2. CASE Begin \/ RunOut \/ BeginPass \/ TakeBatch \/ Count \/ LastValidation \/ Crash
  BY <1>0, <1>2 DEF Begin, RunOut, BeginPass, TakeBatch, Count, LastValidation, Crash, Down,
       StepsInv, InLoop, CriticAt, ActorAt, SkippedByWarmup, CriticDone, ActorDone
<1>3. CASE UpdateCritic
  <2>1. /\ phase = "updatingCritic" /\ phase' = "updatingActor"
        /\ critic' = IF config.useCritic THEN Append(critic, Update) ELSE critic
        /\ UNCHANGED <<config, step, actor, saved>>
    BY <1>3 DEF UpdateCritic
  <2>2. CriticAt(critic, step - 1) /\ ActorAt(actor, step - 1) /\ step >= 1
    BY <2>1 DEF StepsInv, InLoop, CriticDone, ActorDone
  <2>3. CriticAt(critic', step)
    <3>1. CASE config.useCritic
      <4>1. Len(critic) = step - 1 /\ Update.step = step
        BY <2>2, <3>1 DEF CriticAt, Update
      <4>2. /\ Len(Append(critic, Update)) = step
            /\ Append(critic, Update)[step] = Update
            /\ DOMAIN Append(critic, Update) = 1..step /\ DOMAIN critic = 1..(step - 1)
            /\ \A i \in 1..(step - 1) : Append(critic, Update)[i] = critic[i]
        BY <1>0, <2>2, <4>1, Appended, UpdateTyped DEF LoopTypes
      <4>3. ASSUME NEW i \in 1..step PROVE Append(critic, Update)[i].step = i
        BY <1>0, <2>2, <4>1, <4>2, <4>3 DEF CriticAt
      <4> QED BY <2>1, <3>1, <4>2, <4>3 DEF CriticAt
    <3>2. CASE ~config.useCritic
      BY <2>1, <2>2, <3>2 DEF CriticAt
    <3> QED BY <3>1, <3>2
  <2>4. actor # <<>> /\ config.useCritic => Len(critic') >= config.warmup
    BY <1>0, <2>2, <2>3 DEF StepsInv, CriticAt, LoopTypes, Config
  <2> QED BY <2>1, <2>2, <2>3, <2>4 DEF StepsInv, InLoop, CriticAt, ActorAt, SkippedByWarmup,
            CriticDone, ActorDone
<1>4. CASE UpdateActor
  <2>1. /\ phase = "updatingActor" /\ phase' = "saving"
        /\ actor' = IF Warm THEN Append(actor, Update) ELSE actor
        /\ UNCHANGED <<config, step, critic, saved>>
    BY <1>4 DEF UpdateActor
  <2>2. CriticAt(critic, step) /\ ActorAt(actor, step - 1) /\ step >= 1
    BY <2>1 DEF StepsInv, InLoop, CriticDone, ActorDone
  <2>3. ActorAt(actor', step)
    <3>1. Warm <=> step > skipped
      BY <1>0, <2>2, SMTT(30) DEF Warm, SkippedByWarmup, LoopTypes, Config
    <3>2. CASE Warm
      <4>1. Len(actor) = step - 1 - skipped /\ Update.step = step
        BY <1>0, <2>2, <3>1, <3>2 DEF ActorAt, Update
      <4>2. /\ Len(Append(actor, Update)) = step - skipped
            /\ Append(actor, Update)[step - skipped] = Update
            /\ DOMAIN Append(actor, Update) = 1..(step - skipped)
            /\ DOMAIN actor = 1..(step - 1 - skipped)
            /\ \A i \in 1..(step - 1 - skipped) : Append(actor, Update)[i] = actor[i]
        BY <1>0, <2>2, <4>1, Appended, UpdateTyped DEF LoopTypes
      <4>3. ASSUME NEW i \in 1..(step - skipped)
            PROVE  Append(actor, Update)[i].step = i + skipped
        <5>1. CASE i = step - skipped
          BY <1>0, <4>1, <4>2, <5>1
        <5>2. CASE i # step - skipped
          <6>1. i \in 1..(step - 1 - skipped)
            BY <1>0, <5>2
          <6> QED BY <2>2, <4>2, <6>1 DEF ActorAt
        <5> QED BY <5>1, <5>2
      <4> QED BY <2>1, <3>1, <3>2, <4>2, <4>3 DEF ActorAt
    <3>3. CASE ~Warm
      BY <1>0, <2>1, <2>2, <3>1, <3>3 DEF ActorAt
    <3> QED BY <3>2, <3>3
  <2>4. actor' \in Seq(Updates)
    BY LoopTypesStep DEF LoopTypes
  <2>5. actor' # <<>> /\ config.useCritic => Len(critic) >= config.warmup
    BY <1>0, <2>2, <2>3, <2>4, WarmBehind DEF LoopTypes
  <2> QED BY <2>1, <2>2, <2>3, <2>5 DEF StepsInv, InLoop, CriticAt, ActorAt, SkippedByWarmup,
            CriticDone, ActorDone
<1>5. CASE Save
  BY <1>0, <1>5 DEF Save, StepsInv, InLoop, CriticAt, ActorAt, SkippedByWarmup,
       CriticDone, ActorDone
<1>6. CASE UNCHANGED vars
  BY <1>6 DEF vars, StepsInv, InLoop, CriticAt, ActorAt, SkippedByWarmup, CriticDone, ActorDone
<1> QED BY <1>1, <1>2, <1>3, <1>4, <1>5, <1>6 DEF Next, Drive

(* The batches of the updates. *)

\* No two updates are on one batch.
Distinct(w) == \A i, j \in DOMAIN w : w[i].batch = w[j].batch => i = j

\* The updates are on batches of passes whose order is drawn.
Older(w, d) == \A i \in DOMAIN w : w[i].batch[1] < d /\ w[i].batch[2] \in 1..config.batches

\* Of the current pass, the updates are on batches before position n.
Before(w, n) == \A i \in DOMAIN w : w[i].batch[1] = pass => w[i].batch[2] < n

\* Shuffling, each pass of a run has an order of its own, which the generator in the
\* checkpoint will not give again.
BatchInv ==
  config.shuffle =>
    /\ Distinct(critic) /\ Distinct(actor)
    /\ Older(critic, drawn) /\ Older(actor, drawn)
    /\ Distinct(saved.critic) /\ Distinct(saved.actor)
    /\ Older(saved.critic, saved.drawn) /\ Older(saved.actor, saved.drawn)
    /\ Before(critic, IF phase = "updatingCritic" THEN pos ELSE pos + 1)
    /\ Before(actor, IF phase \in {"updatingCritic", "updatingActor"} THEN pos ELSE pos + 1)
    /\ epoch > 0 => pass < drawn
    /\ epoch = 0 /\ phase \in {"validating", "pulling"} => pos = config.batches
    /\ phase \in {"updatingCritic", "updatingActor", "saving", "counting"} =>
         epoch > 0 /\ pos > 0

\* A batch that no update was on can be appended.
LEMMA FreshBatch ==
  ASSUME LoopTypes, NEW w \in Seq(Updates), Distinct(w), Older(w, drawn), Before(w, pos),
         pass < drawn, pos > 0
  PROVE  /\ Distinct(Append(w, Update)) /\ Older(Append(w, Update), drawn)
         /\ Before(Append(w, Update), pos + 1)
<1> DEFINE n == Len(w)
           new == Append(w, Update)
<1>1. /\ n \in Nat /\ DOMAIN new = 1..(n + 1) /\ DOMAIN w = 1..n
      /\ new[n + 1] = Update /\ \A i \in 1..n : new[i] = w[i]
  BY Appended, UpdateTyped
<1>2. Update.batch = <<pass, pos>> /\ Update.batch[1] = pass /\ Update.batch[2] = pos
  BY DEF Update
<1>3. ASSUME NEW i \in DOMAIN w PROVE w[i].batch # Update.batch
  <2> SUFFICES ASSUME w[i].batch = Update.batch PROVE FALSE
    OBVIOUS
  <2>1. w[i].batch[1] = pass /\ w[i].batch[2] = pos
    BY <1>2
  <2>2. pos < pos
    BY <2>1 DEF Before
  <2>3. pos \in Nat
    BY DEF LoopTypes, Config
  <2> QED BY <2>2, <2>3
<1>4. pos \in 1..config.batches /\ pass \in Nat /\ drawn \in Nat
  BY DEF LoopTypes, Config
<1> HIDE DEF new
<1>5. ASSUME NEW i \in 1..(n + 1)
      PROVE  i = n + 1 \/ (i \in DOMAIN w /\ new[i] = w[i])
  BY <1>1
<1>6. Distinct(new)
  <2> SUFFICES ASSUME NEW i \in 1..(n + 1), NEW j \in 1..(n + 1), new[i].batch = new[j].batch
               PROVE  i = j
    BY <1>1 DEF Distinct
  <2>1. CASE i = n + 1 /\ j = n + 1
    BY <2>1
  <2>2. CASE i = n + 1 /\ j # n + 1
    BY <1>1, <1>3, <1>5, <2>2
  <2>3. CASE i # n + 1 /\ j = n + 1
    BY <1>1, <1>3, <1>5, <2>3
  <2>4. CASE i # n + 1 /\ j # n + 1
    BY <1>5, <2>4 DEF Distinct
  <2> QED BY <2>1, <2>2, <2>3, <2>4
<1>7. Older(new, drawn)
  BY <1>1, <1>2, <1>4, <1>5 DEF Older
<1>8. Before(new, pos + 1)
  <2> SUFFICES ASSUME NEW i \in 1..(n + 1), new[i].batch[1] = pass
               PROVE  new[i].batch[2] < pos + 1
    BY <1>1 DEF Before
  <2>1. CASE i = n + 1
    BY <1>1, <1>2, <1>4, <2>1
  <2>2. CASE i # n + 1
    <3>1. i \in DOMAIN w /\ new[i] = w[i]
      BY <1>5, <2>2
    <3>2. w[i].batch[2] < pos /\ w[i].batch[2] \in 1..config.batches
      BY <3>1 DEF Before, Older
    <3>3. w[i].batch[2] \in Int /\ pos \in Int
      BY <1>4, <3>2, SMTT(30) DEF LoopTypes, Config
    <3> QED BY <3>1, <3>2, <3>3
  <2> QED BY <2>1, <2>2
<1> QED BY <1>6, <1>7, <1>8 DEF new

\* That batches are fresh is an invariant.
LEMMA BatchInvStep == LoopTypes /\ BatchInv /\ [Next]_vars => BatchInv'
<1> SUFFICES ASSUME LoopTypes, BatchInv, [Next]_vars, config'.shuffle PROVE BatchInv'
  BY DEF BatchInv
<1>0. /\ config.shuffle /\ UNCHANGED config
      /\ config.batches \in Nat /\ config.batches > 0 /\ pos \in 0..config.batches
      /\ pass \in Nat /\ drawn \in Nat /\ epoch \in Nat
  <2>1. UNCHANGED config
    BY DEF Next, Drive, Start, Begin, BeginPass, RunOut, TakeBatch, UpdateCritic, UpdateActor,
       Save, Count, LastValidation, Crash, vars
  <2> QED BY <2>1 DEF LoopTypes, Config
<1>1. CASE Start
  <2>1. /\ UNCHANGED <<config, saved>> /\ epoch' = 0 /\ pass' = 0 /\ pos' = config.batches
        /\ phase' \in {"failed", "validating"}
    BY <1>1 DEF Start
  <2>2. PICK mode \in Modes :
          IF LoadFails(mode)
          THEN phase' = "failed" /\ UNCHANGED <<step, drawn, actor, critic>>
          ELSE /\ phase' = "validating"
               /\ step' = Restored(mode).step /\ drawn' = Restored(mode).drawn
               /\ actor' = Restored(mode).actor /\ critic' = Restored(mode).critic
    BY <1>1 DEF Start
  <2>3. /\ Distinct(critic') /\ Older(critic', drawn')
        /\ Distinct(actor') /\ Older(actor', drawn')
    <3>1. CASE LoadFails(mode)
      BY <1>0, <2>2, <3>1 DEF BatchInv
    <3>2. CASE ~LoadFails(mode)
      <4>1. Restored(mode) = saved \/ Restored(mode) = NoCheckpoint
        BY DEF Restored
      <4>2. CASE Restored(mode) = saved
        BY <1>0, <2>2, <3>2, <4>2 DEF BatchInv
      <4>3. CASE Restored(mode) = NoCheckpoint
        BY <2>2, <3>2, <4>3 DEF NoCheckpoint, Distinct, Older
      <4> QED BY <4>1, <4>2, <4>3
    <3> QED BY <3>1, <3>2
  <2>4. \A k \in 1..config.batches : k < config.batches + 1
    BY <1>0
  <2> QED BY <1>0, <2>1, <2>3, <2>4 DEF BatchInv, Distinct, Older, Before
<1>2. CASE Begin \/ RunOut \/ Count \/ LastValidation \/ Crash
  <2>1. /\ UNCHANGED <<config, pass, pos, drawn, epoch, actor, critic, saved>>
        /\ phase' \notin {"updatingCritic", "updatingActor", "saving", "counting"}
        /\ phase' \in {"validating", "pulling"} => phase \in {"validating", "counting"}
    BY <1>2 DEF Begin, RunOut, Count, LastValidation, Crash, Down
  <2>2. ASSUME NEW w \in {actor, critic}, Older(w, drawn), Before(w, pos) \/ Before(w, pos + 1)
        PROVE  Before(w, pos + 1)
    BY <1>0, <2>2 DEF Older, Before
  <2>3. Before(actor, pos + 1) /\ Before(critic, pos + 1)
    BY <1>0, <2>2 DEF BatchInv
  <2> QED BY <1>0, <2>1, <2>3 DEF BatchInv, Distinct, Older, Before
<1>3. CASE BeginPass
  <2>1. /\ pass' = drawn /\ drawn' = drawn + 1 /\ pos' = 0 /\ epoch' = epoch + 1
        /\ phase = "pulling" /\ UNCHANGED <<config, phase, actor, critic, saved>>
    BY <1>0, <1>3 DEF BeginPass
  <2>2. ASSUME NEW w \in {actor, critic}
        PROVE  Older(w, drawn + 1) /\ \A i \in DOMAIN w : w[i].batch[1] # drawn
    <3>1. w \in Seq(Updates) /\ Older(w, drawn)
      BY <1>0, <2>2 DEF LoopTypes, BatchInv
    <3>2. ASSUME NEW i \in DOMAIN w
          PROVE  w[i].batch[1] \in Nat /\ w[i].batch[1] < drawn
      <4>1. w[i] \in Updates
        BY <3>1, <3>2, ElementOfSeq
      <4> QED BY <3>1, <4>1 DEF Updates, Older
    <3> QED BY <1>0, <3>1, <3>2 DEF Older
  <2>3. pass' < drawn' /\ epoch' > 0
    BY <1>0, <2>1
  <2>4. /\ Older(critic, drawn)' /\ Older(actor, drawn)'
        /\ Before(critic, pos + 1)' /\ Before(actor, pos + 1)'
    BY <1>0, <2>1, <2>2 DEF Older, Before
  <2> QED BY <1>0, <2>1, <2>3, <2>4 DEF BatchInv, Distinct, Older
<1>4. CASE TakeBatch
  <2>1. /\ phase = "pulling" /\ pos < config.batches /\ pos' = pos + 1
        /\ phase' = "updatingCritic"
        /\ UNCHANGED <<config, epoch, pass, drawn, actor, critic, saved>>
    BY <1>4 DEF TakeBatch
  <2> QED BY <1>0, <2>1 DEF BatchInv, Distinct, Older, Before
<1>5. CASE UpdateCritic
  <2>1. /\ phase = "updatingCritic" /\ phase' = "updatingActor"
        /\ critic' = IF config.useCritic THEN Append(critic, Update) ELSE critic
        /\ UNCHANGED <<config, epoch, pass, pos, drawn, actor, saved>>
    BY <1>5 DEF UpdateCritic
  <2>2. /\ Distinct(critic) /\ Older(critic, drawn) /\ Before(critic, pos)
        /\ pass < drawn /\ pos > 0
    BY <1>0, <2>1 DEF BatchInv
  <2>3. Distinct(critic') /\ Older(critic', drawn) /\ Before(critic', pos + 1)
    <3>1. CASE config.useCritic
      BY <2>1, <2>2, <3>1, FreshBatch DEF LoopTypes
    <3>2. CASE ~config.useCritic
      BY <1>0, <2>1, <2>2, <3>2 DEF Before, Older
    <3> QED BY <3>1, <3>2
  <2> QED BY <1>0, <2>1, <2>3 DEF BatchInv, Distinct, Older, Before
<1>6. CASE UpdateActor
  <2>1. /\ phase = "updatingActor" /\ phase' = "saving"
        /\ actor' = IF Warm THEN Append(actor, Update) ELSE actor
        /\ UNCHANGED <<config, epoch, pass, pos, drawn, critic, saved>>
    BY <1>6 DEF UpdateActor
  <2>2. /\ Distinct(actor) /\ Older(actor, drawn) /\ Before(actor, pos)
        /\ pass < drawn /\ pos > 0
    BY <1>0, <2>1 DEF BatchInv
  <2>3. Distinct(actor') /\ Older(actor', drawn) /\ Before(actor', pos + 1)
    <3>1. CASE Warm
      BY <2>1, <2>2, <3>1, FreshBatch DEF LoopTypes
    <3>2. CASE ~Warm
      BY <1>0, <2>1, <2>2, <3>2 DEF Before, Older
    <3> QED BY <3>1, <3>2
  <2> QED BY <1>0, <2>1, <2>3 DEF BatchInv, Distinct, Older, Before
<1>7. CASE Save
  <2>1. /\ phase = "saving" /\ phase' = "counting"
        /\ UNCHANGED <<config, epoch, pass, pos, drawn, actor, critic>>
        /\ saved' = saved \/ saved' = [step |-> step, drawn |-> drawn, actor |-> actor,
                                       critic |-> critic]
    BY <1>7 DEF Save
  <2>2. /\ Distinct(saved'.critic) /\ Older(saved'.critic, saved'.drawn)
        /\ Distinct(saved'.actor) /\ Older(saved'.actor, saved'.drawn)
    BY <1>0, <2>1 DEF BatchInv
  <2> QED BY <1>0, <2>1, <2>2 DEF BatchInv, Distinct, Older, Before
<1>8. CASE UNCHANGED vars
  BY <1>8 DEF vars, BatchInv, Distinct, Older, Before
<1> QED BY <1>1, <1>2, <1>3, <1>4, <1>5, <1>6, <1>7, <1>8 DEF Next, Drive

(* The end of the loop. *)

\* What a run resumes from is at most a step behind the total for each run before it.
OvertimeInv ==
  /\ run \in Nat
  /\ saved.step < Total + run
  /\ phase = "validating" => step + 1 < Total + run
  /\ InLoop => step < Total + run
  /\ \A w \in {saved.actor, saved.critic} : \A i \in DOMAIN w : w[i].step < Total + run
  /\ OvertimeIsBounded

\* There is a step to train.
LEMMA TotalPositive == LoopTypes => Total \in Nat /\ Total >= 1
<1> SUFFICES ASSUME LoopTypes PROVE Total \in Nat /\ Total >= 1
  OBVIOUS
<1>1. /\ config.batches \in Nat /\ config.batches >= 1 /\ config.epochs \in Nat
      /\ config.epochs >= 1 /\ config.total \in Nat
  BY DEF LoopTypes, Config
<1>2. \A m, n \in Nat : m >= 1 /\ n >= 1 => m * n \in Nat /\ m * n >= 1
  OBVIOUS
<1> QED BY <1>1, <1>2 DEF Total

\* That no run trains more than a step at the total or behind it is an invariant.
LEMMA OvertimeStep == LoopTypes /\ OvertimeInv /\ [Next]_vars => OvertimeInv'
<1> SUFFICES ASSUME LoopTypes, OvertimeInv, [Next]_vars PROVE OvertimeInv'
  OBVIOUS
<1>0. Total \in Nat /\ Total >= 1 /\ step \in Nat /\ run \in Nat /\ saved.step \in Nat
  BY TotalPositive DEF LoopTypes, OvertimeInv
<1>1. Total' = Total
  BY DEF Total, Next, Drive, Start, Begin, BeginPass, RunOut, TakeBatch, UpdateCritic,
     UpdateActor, Save, Count, LastValidation, Crash, vars
<1>2. ASSUME NEW w \in Seq(Updates), \A i \in DOMAIN w : w[i].step < Total + run,
             step < Total + run
      PROVE  \A i \in DOMAIN Append(w, Update) : Append(w, Update)[i].step < Total + run
  BY <1>2, Appended, UpdateTyped DEF Update
<1>3. CASE Start
  <2>1. PICK mode \in Modes :
          IF LoadFails(mode)
          THEN phase' = "failed" /\ UNCHANGED <<step, drawn, actor, critic>>
          ELSE /\ phase' = "validating"
               /\ step' = Restored(mode).step /\ drawn' = Restored(mode).drawn
               /\ actor' = Restored(mode).actor /\ critic' = Restored(mode).critic
    BY <1>3 DEF Start
  <2>2. run' = run + 1 /\ UNCHANGED saved
    BY <1>3 DEF Start
  <2>3. \A w \in {actor, critic, saved.actor, saved.critic} :
          \A i \in DOMAIN w : w[i].step < Total + (run + 1)
    <3>1. ASSUME NEW w \in {actor, critic, saved.actor, saved.critic}, NEW i \in DOMAIN w
          PROVE  w[i].step < Total + (run + 1)
      <4>1. w[i].step < Total + run
        BY DEF OvertimeInv, OvertimeIsBounded
      <4>2. w[i] \in Updates
        BY ElementOfSeq DEF LoopTypes
      <4> QED BY <1>0, <4>1, <4>2 DEF Updates
    <3> QED BY <3>1
  <2>4. CASE LoadFails(mode)
    BY <1>0, <1>1, <2>1, <2>2, <2>3, <2>4 DEF OvertimeInv, OvertimeIsBounded, InLoop
  <2>5. CASE ~LoadFails(mode)
    <3>1. Restored(mode) = saved \/ (Restored(mode) = NoCheckpoint /\ NoCheckpoint.step = 0
                                    /\ NoCheckpoint.actor = <<>> /\ NoCheckpoint.critic = <<>>)
      BY DEF Restored, NoCheckpoint
    <3>2. step' + 1 < Total + run'
      BY <1>0, <2>1, <2>2, <2>5, <3>1 DEF OvertimeInv
    <3>3. \A w \in {actor', critic'} : \A i \in DOMAIN w : w[i].step < Total + run'
      BY <2>1, <2>2, <2>3, <2>5, <3>1
    <3>4. phase' = "validating" /\ saved'.step < Total + run' /\ run' \in Nat
      BY <1>0, <2>1, <2>2, <2>5 DEF OvertimeInv
    <3> QED BY <1>1, <2>2, <2>3, <3>2, <3>3, <3>4 DEF OvertimeInv, OvertimeIsBounded, InLoop
  <2> QED BY <2>4, <2>5
<1>4. CASE Begin \/ RunOut \/ BeginPass \/ TakeBatch \/ Count \/ LastValidation \/ Crash
  <2>1. UNCHANGED <<run, saved, actor, critic>>
    BY <1>4 DEF Begin, RunOut, BeginPass, TakeBatch, Count, LastValidation, Crash
  <2>2. phase' # "validating" /\ (InLoop' => step' < Total + run)
    BY <1>0, <1>4 DEF Begin, RunOut, BeginPass, TakeBatch, Count, LastValidation, Crash, Down,
       OvertimeInv, InLoop
  <2> QED BY <1>1, <2>1, <2>2 DEF OvertimeInv, OvertimeIsBounded
<1>5. CASE UpdateCritic \/ UpdateActor
  <2>1. /\ UNCHANGED <<run, saved, step>> /\ InLoop /\ phase' # "validating"
        /\ actor' \in {actor, Append(actor, Update)}
        /\ critic' \in {critic, Append(critic, Update)}
    BY <1>5 DEF UpdateCritic, UpdateActor, InLoop
  <2>2. step < Total + run
    BY <2>1 DEF OvertimeInv
  <2>3. \A w \in {actor', critic'} : \A i \in DOMAIN w : w[i].step < Total + run
    BY <1>2, <2>1, <2>2 DEF OvertimeInv, OvertimeIsBounded, LoopTypes
  <2> QED BY <1>1, <2>1, <2>2, <2>3 DEF OvertimeInv, OvertimeIsBounded
<1>6. CASE Save
  BY <1>0, <1>1, <1>6 DEF Save, OvertimeInv, OvertimeIsBounded, InLoop
<1>7. CASE UNCHANGED vars
  BY <1>1, <1>7 DEF vars, OvertimeInv, OvertimeIsBounded, InLoop
<1> QED BY <1>3, <1>4, <1>5, <1>6, <1>7 DEF Next, Drive

\* A fresh experiment is in order.
LEMMA LoopStarts == Init => LoopTypes /\ StepsInv /\ BatchInv /\ OvertimeInv
<1> SUFFICES ASSUME Init PROVE LoopTypes /\ StepsInv /\ BatchInv /\ OvertimeInv
  OBVIOUS
<1>1. config \in Config /\ config.batches \in Nat /\ config.batches > 0
  BY ConfigsTyped DEF Init, Config
<1>2. LoopTypes
  BY <1>1, EmptySeq DEF Init, LoopTypes, Phases, NoCheckpoint
<1>3. StepsInv
  BY <1>2, SkippedNat DEF Init, StepsInv, InLoop, CriticAt, ActorAt, NoCheckpoint
<1>4. BatchInv
  BY <1>1 DEF Init, BatchInv, NoCheckpoint, Distinct, Older, Before
<1>5. OvertimeInv
  BY <1>2, TotalPositive DEF Init, OvertimeInv, OvertimeIsBounded, InLoop, NoCheckpoint
<1> QED BY <1>2, <1>3, <1>4, <1>5

\* Whatever crashes and resumes, and in whatever mode each run is started: no step is left
\* out and none is taken twice, in the weights and in the checkpoints, and no actor learns
\* before a critic had critic_warmup updates (fit, _save_checkpoint, _load_checkpoint).
THEOREM NoStepTwice == Spec => []StepsOnce
<1> DEFINE Inv == LoopTypes /\ StepsInv
<1>1. Init => Inv
  BY LoopStarts
<1>2. Inv /\ [Next]_vars => Inv'
  BY LoopTypesStep, StepsInvStep
<1>3. Inv => StepsOnce
  <2> SUFFICES ASSUME LoopTypes, StepsInv PROVE StepsOnce
    OBVIOUS
  <2>1. config.warmup \in Nat /\ step \in Nat /\ actor \in Seq(Updates)
    BY DEF LoopTypes, Config
  <2>2. DOMAIN actor = 1..Len(actor) /\ Len(actor) \in Nat /\ (Len(actor) > 0 <=> actor # <<>>)
    BY <2>1, LenProperties, EmptySeq
  <2>3. ASSUME NEW i \in DOMAIN actor
        PROVE  IF i = 1 THEN actor[i].step \in {1, config.warmup}
                        ELSE actor[i].step = actor[i - 1].step + 1
    <3>1. i \in Nat /\ i >= 1 /\ (i # 1 => i - 1 \in DOMAIN actor)
      BY <2>2
    <3>2. \A k \in DOMAIN actor : actor[k].step = k + SkippedByWarmup
      BY DEF StepsInv
    <3>3. actor[i].step = i + SkippedByWarmup
      BY <3>2
    <3>4. i # 1 => actor[i - 1].step = (i - 1) + SkippedByWarmup
      BY <3>1, <3>2
    <3> QED BY <2>1, <3>1, <3>3, <3>4 DEF SkippedByWarmup
  <2>4. ASSUME phase = "pulling"
        PROVE  /\ config.useCritic => Len(critic) = step - 1
               /\ IF step > 1 /\ step > config.warmup
                  THEN actor # <<>> /\ actor[Len(actor)].step = step - 1
                  ELSE actor = <<>>
    <3>1. step >= 1 /\ CriticAt(critic, step - 1) /\ ActorAt(actor, step - 1)
      BY <2>4 DEF StepsInv, InLoop, CriticDone, ActorDone
    <3>2. config.useCritic => Len(critic) = step - 1
      BY <3>1 DEF CriticAt
    <3>3. Len(actor) > 0 => actor[Len(actor)].step = Len(actor) + SkippedByWarmup
      BY <2>2, <3>1 DEF ActorAt
    <3>4. Len(actor) = IF step - 1 > SkippedByWarmup THEN step - 1 - SkippedByWarmup ELSE 0
      BY <3>1 DEF ActorAt
    <3> QED BY <2>1, <2>2, <3>1, <3>2, <3>3, <3>4 DEF SkippedByWarmup
  <2> QED BY <2>3, <2>4 DEF StepsInv, StepsOnce
<1> QED BY <1>1, <1>2, <1>3, PTL DEF Spec

\* With a shuffling sampler no weights are trained twice on one batch: the generator that a
\* checkpoint carries goes on where it was (_create_dataloader, _save_checkpoint,
\* _load_checkpoint).
THEOREM EveryBatchIsNew == Spec => []NoBatchTwice
<1> DEFINE Inv == LoopTypes /\ BatchInv
<1>1. Init => Inv
  BY LoopStarts
<1>2. Inv /\ [Next]_vars => Inv'
  BY LoopTypesStep, BatchInvStep
<1>3. Inv => NoBatchTwice
  BY DEF BatchInv, Distinct, NoBatchTwice
<1> QED BY <1>1, <1>2, <1>3, PTL DEF Spec

\* However often an experiment is resumed, a run takes at most one step at
\* total_training_steps or behind it (fit, _load_checkpoint).
THEOREM NoRunGoesOn == Spec => []OvertimeIsBounded
<1> DEFINE Inv == LoopTypes /\ OvertimeInv
<1>1. Init => Inv
  BY LoopStarts
<1>2. Inv /\ [Next]_vars => Inv'
  BY LoopTypesStep, OvertimeStep
<1>3. Inv => OvertimeIsBounded
  BY DEF OvertimeInv
<1> QED BY <1>1, <1>2, <1>3, PTL DEF Spec
=============================================================================
