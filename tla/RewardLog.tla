----------------------------- MODULE RewardLog ------------------------------
(***************************************************************************)
(* The log of the reward managers (BaseRewardManager): log_sample appends   *)
(* to a buffer in memory, save_data_buffer appends the buffer to a file of  *)
(* JSON lines.  main_task makes two managers, one for training and one for  *)
(* validation, which write to one file when they are made in one second.    *)
(*                                                                         *)
(* A sample is the manager that scored it and its number; what can go wrong *)
(* with it is whether json.dumps takes it (ground_truth is whatever the     *)
(* data set holds).                                                         *)
(***************************************************************************)
EXTENDS Integers, Sequences, SequencesExt

CONSTANTS
  Managers,       \* the reward managers of the driver process
  SaveFrequency,  \* trainer.reward_save_frequency
  MaxBufferSize,  \* trainer.max_buffer_size
  MaxSamples      \* bound on the samples of a manager

ASSUME ManagersGiven == Managers # {}
ASSUME SizesPositive == {SaveFrequency, MaxBufferSize, MaxSamples} \subseteq Nat \ {0}

VARIABLES
  faults,   \* may items be refused and files fail to open or to write?
  files,    \* the rows of each log file
  logFile,  \* current_log_file of each manager
  buffer,   \* data_buffer of each manager
  total,    \* total_samples of each manager
  bad,      \* samples that json.dumps refuses
  life      \* of each manager: it runs, was destroyed, or its process was killed

logVars == <<faults, files, logFile, buffer, total, bad, life>>

Lives == {"running", "destroyed", "killed"}
Samples == Managers \X (1..MaxSamples)
Files == 1..2

\* The timestamps of two managers are those of one second or of two; 1 is the name of
\* the file of one of them.
LogInit ==
  /\ faults \in BOOLEAN
  /\ logFile \in [Managers -> Files] /\ logFile[CHOOSE m \in Managers : TRUE] = 1
  /\ files = [f \in Files |-> <<>>]
  /\ buffer = [m \in Managers |-> <<>>]
  /\ total = [m \in Managers |-> 0]
  /\ bad = {}
  /\ life = [m \in Managers |-> "running"]

-----------------------------------------------------------------------------
(* save_data_buffer on the buffer that a caller has just extended or leaves. *)

\* The rows before the first one that json.dumps refuses; all without one.
Writable(rows, refused) ==
  LET stops == {i \in DOMAIN rows : rows[i] \in refused}
  IN  {n \in 0..Len(rows) : \A i \in stops : n < i}

Longest(ns) == CHOOSE n \in ns : \A k \in ns : k <= n

\* How many rows reach the file: all that can be written, or fewer when opening
\* or writing fails.  The file is closed, and so flushed, in either case; a row that is
\* cut counts as not written.
Written(rows, refused) ==
  LET ns == Writable(rows, refused)
  IN  IF faults THEN ns ELSE {Longest(ns)}

\* The buffer is emptied whatever became of its rows.
SaveAndForget(m, rows, refused) ==
  IF rows = <<>>
  THEN /\ buffer' = [buffer EXCEPT ![m] = rows]
       /\ UNCHANGED files
  ELSE \E n \in Written(rows, refused) :
         /\ files' = [files EXCEPT ![logFile[m]] = @ \o SubSeq(rows, 1, n)]
         /\ buffer' = [buffer EXCEPT ![m] = <<>>]

\* The file is opened to write, not to append.
SaveOver(m, rows, refused) ==
  IF rows = <<>>
  THEN /\ buffer' = [buffer EXCEPT ![m] = rows]
       /\ UNCHANGED files
  ELSE \E n \in Written(rows, refused) :
         /\ files' = [files EXCEPT ![logFile[m]] = SubSeq(rows, 1, n)]
         /\ buffer' = [buffer EXCEPT ![m] = IF n = Len(rows) THEN <<>> ELSE rows]

\* The buffer is emptied only when every row was written: after a failure the
\* rows that reached the file are written again by the next save.
SaveBuffer(m, rows, refused) ==
  IF rows = <<>>
  THEN /\ buffer' = [buffer EXCEPT ![m] = rows]
       /\ UNCHANGED files
  ELSE \E n \in Written(rows, refused) :
         /\ files' = [files EXCEPT ![logFile[m]] = @ \o SubSeq(rows, 1, n)]
         /\ buffer' = [buffer EXCEPT ![m] = IF n = Len(rows) THEN <<>> ELSE rows]

LogDue(n, size) == size >= MaxBufferSize \/ n % SaveFrequency = 0

\* log_sample, at the end of which the buffer may be saved.
LogSample(m) ==
  /\ life[m] = "running" /\ total[m] < MaxSamples
  /\ total' = [total EXCEPT ![m] = @ + 1]
  /\ \E refused \in IF faults THEN BOOLEAN ELSE {FALSE} :
       LET sample == <<m, total[m] + 1>>
           rows == Append(buffer[m], sample)
       IN  /\ bad' = IF refused THEN bad \cup {sample} ELSE bad
           /\ IF LogDue(total[m] + 1, Len(rows))
              THEN SaveBuffer(m, rows, bad')
              ELSE /\ buffer' = [buffer EXCEPT ![m] = rows]
                   /\ UNCHANGED files
  /\ UNCHANGED <<faults, logFile, life>>

\* __del__ saves the rest; what cannot be written is gone with the object.
Destroy(m) ==
  /\ life[m] = "running"
  /\ life' = [life EXCEPT ![m] = "destroyed"]
  /\ \E n \in Written(buffer[m], bad) :
       files' = [files EXCEPT ![logFile[m]] = @ \o SubSeq(buffer[m], 1, n)]
  /\ buffer' = [buffer EXCEPT ![m] = <<>>]
  /\ UNCHANGED <<faults, logFile, total, bad>>

\* The driver is killed: no manager's __del__ runs, and the buffers are gone with the
\* process.
LogCrash ==
  /\ \E m \in Managers : life[m] = "running"
  /\ life' = [m \in Managers |-> IF life[m] = "running" THEN "killed" ELSE life[m]]
  /\ buffer' = [m \in Managers |-> <<>>]
  /\ UNCHANGED <<faults, files, logFile, total, bad>>

LogNext == (\E m \in Managers : LogSample(m) \/ Destroy(m)) \/ LogCrash

LogSpec == LogInit /\ [][LogNext]_logVars

-----------------------------------------------------------------------------

\* The rows of a file that one manager wrote, in the order of the file.
Selected(m, rows) ==
  LET upTo[n \in 0..Len(rows)] ==
        IF n = 0 THEN <<>>
        ELSE IF rows[n][1] = m THEN Append(upTo[n - 1], rows[n])
        ELSE upTo[n - 1]
  IN  upTo[Len(rows)]

RowsOf(m) == Selected(m, files[logFile[m]])
Logged(m) == {m} \X (1..total[m])

\* The samples of a manager that reached its file.
Reached(m) == {sample \in ToSet(files[logFile[m]]) : sample[1] = m}

\* Every variable keeps its type.
LogTypeOK ==
  /\ faults \in BOOLEAN
  /\ files \in [Files -> Seq(Samples)]
  /\ logFile \in [Managers -> Files]
  /\ buffer \in [Managers -> Seq(Samples)]
  /\ total \in [Managers -> 0..MaxSamples]
  /\ bad \subseteq Samples
  /\ life \in [Managers -> Lives]

\* A sample that was logged can still be lost, but never one from the middle: whatever
\* fails, what reached the file are the manager's first samples, without a gap.  As long
\* as the manager lives the others are in its buffer, and a manager that is destroyed
\* leaves some out only when its last save failed or refused a row; those of a driver
\* that was killed are gone (save_data_buffer, __del__).
OnlyTheEndIsLost ==
  \A m \in Managers :
    /\ \E n \in 0..total[m] : Reached(m) = {m} \X (1..n)
    /\ life[m] = "running" \/ (life[m] = "destroyed" /\ ~faults) =>
         Logged(m) \subseteq Reached(m) \cup ToSet(buffer[m])

\* Without failures each manager's rows, then those in its buffer, are its samples, once
\* and in order, even when two managers write to one file; a kill of the driver costs the
\* last of them, and fewer than max_buffer_size.
RowsInOrder ==
  ~faults =>
  \A m \in Managers : \E n \in 0..total[m] :
    /\ RowsOf(m) \o buffer[m] = [i \in 1..n |-> <<m, i>>]
    /\ life[m] # "killed" => n = total[m]
    /\ total[m] - n < MaxBufferSize

=============================================================================
