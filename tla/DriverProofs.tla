---------------------------- MODULE DriverProofs ----------------------------
(***************************************************************************)
(* Proofs about what the driver does besides training: the log of the       *)
(* reward managers and the manager that scores in a pool of processes,      *)
(* which implements it (a zero has a cause, a full score is earned); and    *)
(* the trainer's checkpoints, for every number of ranks, roles, steps and   *)
(* runs.                                                                   *)
(***************************************************************************)
EXTENDS PrimeManager, Checkpoint, SequenceLemmas, FiniteSetTheorems

-----------------------------------------------------------------------------
(* The log. *)

(* How many rows reach the file. *)

\* The longest of finitely many prefixes is one of them.
LEMMA LongestIsOne ==
  ASSUME NEW ns, ns # {}, NEW max \in Nat, ns \subseteq 0..max
  PROVE  Longest(ns) \in ns
<1> DEFINE Left == {max - n : n \in ns}
<1>1. Left \subseteq Nat /\ Left # {}
  <2>1. ASSUME NEW n \in ns PROVE max - n \in Nat
    BY <2>1
  <2>2. PICK n \in ns : TRUE
    OBVIOUS
  <2>3. max - n \in Left
    OBVIOUS
  <2> QED BY <2>1, <2>3
<1>2. PICK x \in Left : \A y \in Left : ~ (<<y, x>> \in OpToRel(<, Nat))
  <2>1. IsWellFoundedOn(OpToRel(<, Nat), Nat)
    BY NatLessThanWellFounded
  <2> HIDE DEF Left
  <2> QED BY <1>1, <2>1, WFMin, Zenon
<1>3. \A y \in Left : x <= y
  <2>1. SUFFICES ASSUME NEW y \in Left, ~ (x <= y) PROVE FALSE
    OBVIOUS
  <2>2. x \in Nat /\ y \in Nat /\ y < x
    BY <1>1, <2>1
  <2>3. <<y, x>> \in OpToRel(<, Nat)
    BY <2>2 DEF OpToRel
  <2> QED BY <1>2, <2>3
<1>4. PICK n \in ns : x = max - n
  OBVIOUS
<1>5. \A k \in ns : k <= n
  <2> SUFFICES ASSUME NEW k \in ns PROVE k <= n
    OBVIOUS
  <2>1. max - n <= max - k
    BY <1>3, <1>4
  <2> QED BY <2>1
<1> HIDE DEF Left
<1> QED BY <1>4, <1>5, Zenon DEF Longest

\* A save writes a prefix of the rows.
LEMMA WrittenIsPrefix ==
  ASSUME NEW rows \in Seq(Samples), NEW refused, NEW n \in Written(rows, refused)
  PROVE  n \in 0..Len(rows)
<1>1. Writable(rows, refused) \subseteq 0..Len(rows)
  BY DEF Writable
<1>2. 0 \in Writable(rows, refused)
  BY DEF Writable
<1>3. Longest(Writable(rows, refused)) \in Writable(rows, refused)
  BY <1>1, <1>2, LongestIsOne
<1> QED BY <1>1, <1>3 DEF Written

(* The log. *)

\* A save keeps the files and the buffers sequences of samples.
LEMMA SaveKeepsTypes ==
  ASSUME LogTypeOK, NEW m \in Managers, NEW rows \in Seq(Samples), NEW refused,
         SaveBuffer(m, rows, refused)
  PROVE  /\ files' \in [Files -> Seq(Samples)]
         /\ buffer' \in [Managers -> Seq(Samples)]
<1>1. files[logFile[m]] \in Seq(Samples)
  BY DEF LogTypeOK
<1>2. CASE rows = <<>>
  BY <1>2 DEF SaveBuffer, LogTypeOK
<1>3. CASE rows # <<>>
  <2>1. PICK n \in Written(rows, refused) :
          /\ files' = [files EXCEPT ![logFile[m]] = @ \o SubSeq(rows, 1, n)]
          /\ buffer' = [buffer EXCEPT ![m] = IF n = Len(rows) THEN <<>> ELSE rows]
    BY <1>3 DEF SaveBuffer
  <2>2. n \in 0..Len(rows)
    BY WrittenIsPrefix
  <2>3. SubSeq(rows, 1, n) \in Seq(Samples)
    BY <2>2, SubSeqProperties
  <2>4. files[logFile[m]] \o SubSeq(rows, 1, n) \in Seq(Samples)
    BY <1>1, <2>3, ConcatProperties
  <2> QED BY <2>1, <2>4 DEF LogTypeOK
<1> QED BY <1>2, <1>3

\* The types of the log are an invariant.
LEMMA LogTypes == LogTypeOK /\ [LogNext]_logVars => LogTypeOK'
<1> SUFFICES ASSUME LogTypeOK, [LogNext]_logVars PROVE LogTypeOK'
  OBVIOUS
<1>1. ASSUME NEW m \in Managers, LogSample(m) PROVE LogTypeOK'
  <2> DEFINE sample == <<m, total[m] + 1>>
             rows == Append(buffer[m], sample)
  <2>1. PICK refused \in BOOLEAN :
          /\ bad' = IF refused THEN bad \cup {sample} ELSE bad
          /\ IF LogDue(total[m] + 1, Len(rows))
             THEN SaveBuffer(m, rows, bad')
             ELSE buffer' = [buffer EXCEPT ![m] = rows] /\ UNCHANGED files
    BY <1>1 DEF LogSample
  <2>2. total[m] + 1 \in 1..MaxSamples
    BY <1>1, SizesPositive DEF LogSample, LogTypeOK
  <2>3. sample \in Samples /\ rows \in Seq(Samples)
    BY <2>2 DEF LogTypeOK, Samples
  <2>4. bad' \subseteq Samples
    BY <2>1, <2>3 DEF LogTypeOK
  <2>5. /\ total' \in [Managers -> 0..MaxSamples]
        /\ UNCHANGED <<faults, logFile, life>>
    BY <1>1, <2>2 DEF LogSample, LogTypeOK
  <2>6. files' \in [Files -> Seq(Samples)] /\ buffer' \in [Managers -> Seq(Samples)]
    <3>1. CASE LogDue(total[m] + 1, Len(rows))
      BY <2>1, <2>3, <3>1, SaveKeepsTypes
    <3>2. CASE ~ LogDue(total[m] + 1, Len(rows))
      BY <2>1, <2>3, <3>2 DEF LogTypeOK
    <3> QED BY <3>1, <3>2
  <2> QED BY <2>4, <2>5, <2>6 DEF LogTypeOK
<1>2. ASSUME NEW m \in Managers, Destroy(m) PROVE LogTypeOK'
  <2>1. PICK n \in Written(buffer[m], bad) :
          files' = [files EXCEPT ![logFile[m]] = @ \o SubSeq(buffer[m], 1, n)]
    BY <1>2 DEF Destroy
  <2>2. buffer[m] \in Seq(Samples) /\ files[logFile[m]] \in Seq(Samples)
    BY DEF LogTypeOK
  <2>3. SubSeq(buffer[m], 1, n) \in Seq(Samples)
    BY <2>2, WrittenIsPrefix, SubSeqProperties
  <2>4. files[logFile[m]] \o SubSeq(buffer[m], 1, n) \in Seq(Samples)
    BY <2>2, <2>3, ConcatProperties
  <2>5. files' \in [Files -> Seq(Samples)]
    BY <2>1, <2>4 DEF LogTypeOK
  <2>6. buffer' \in [Managers -> Seq(Samples)]
    BY <1>2, EmptySeq DEF Destroy, LogTypeOK
  <2> QED BY <1>2, <2>5, <2>6 DEF Destroy, LogTypeOK, Lives
<1>3. CASE LogCrash
  BY <1>3, EmptySeq DEF LogCrash, LogTypeOK, Lives
<1>4. CASE UNCHANGED logVars
  BY <1>4 DEF logVars, LogTypeOK
<1> QED BY <1>1, <1>2, <1>3, <1>4 DEF LogNext

\* What is in a concatenation is what is in its parts.
LEMMA ConcatAsSets ==
  ASSUME NEW S, NEW s \in Seq(S), NEW t \in Seq(S)
  PROVE  ToSet(s \o t) = ToSet(s) \cup ToSet(t)
<1>1. s \o t \in Seq(S) /\ Len(s \o t) = Len(s) + Len(t)
  BY ConcatProperties
<1>2. ASSUME NEW i \in DOMAIN s PROVE s[i] \in ToSet(s \o t)
  <2>1. i \in DOMAIN (s \o t) /\ (s \o t)[i] = s[i]
    BY <1>1, <1>2
  <2> QED BY <2>1 DEF ToSet
<1>3. ASSUME NEW i \in DOMAIN t PROVE t[i] \in ToSet(s \o t)
  <2>1. Len(s) + i \in DOMAIN (s \o t) /\ (s \o t)[Len(s) + i] = t[i]
    BY <1>1, <1>3
  <2> QED BY <2>1 DEF ToSet
<1>4. ASSUME NEW i \in DOMAIN (s \o t) PROVE (s \o t)[i] \in ToSet(s) \cup ToSet(t)
  <2>1. i \in 1..(Len(s) + Len(t)) /\ Len(s) \in Nat /\ Len(t) \in Nat
    BY <1>1, <1>4, LenProperties
  <2>2. CASE i <= Len(s)
    <3>1. i \in DOMAIN s /\ (s \o t)[i] = s[i]
      BY <1>1, <2>1, <2>2
    <3> QED BY <3>1 DEF ToSet
  <2>3. CASE ~ (i <= Len(s))
    <3>1. i - Len(s) \in DOMAIN t /\ (s \o t)[i] = t[i - Len(s)]
      BY <1>1, <2>1, <2>3
    <3> QED BY <3>1 DEF ToSet
  <2> QED BY <2>2, <2>3
<1> QED BY <1>2, <1>3, <1>4 DEF ToSet

\* The rows are the last ones of the manager's first t samples.
LastOnes(m, rows, t) ==
  /\ Len(rows) <= t
  /\ \A i \in DOMAIN rows : rows[i] = <<m, (t - Len(rows)) + i>>

\* The first n of the rows are appended to the manager's file.
WritesPrefix(m, rows, n) ==
  /\ files' = [files EXCEPT ![logFile[m]] = @ \o SubSeq(rows, 1, n)]
  /\ UNCHANGED logFile

\* Writing a prefix of such rows adds the next samples to what reached the file, and adds
\* nothing of another manager's.
LEMMA PrefixReaches ==
  ASSUME LogTypeOK, NEW m \in Managers, NEW t \in Nat, NEW rows \in Seq(Samples),
         LastOnes(m, rows, t), NEW n \in 0..Len(rows), WritesPrefix(m, rows, n)
  PROVE  /\ Reached(m)' = Reached(m) \cup
              ({m} \X ((t - Len(rows) + 1)..(t - Len(rows) + n)))
         /\ \A k \in Managers \ {m} : Reached(k)' = Reached(k)
<1> DEFINE old == files[logFile[m]]
           new == SubSeq(rows, 1, n)
           from == t - Len(rows)
           Added == {m} \X ((from + 1)..(from + n))
<1>1. old \in Seq(Samples)
  BY DEF LogTypeOK
<1>2. /\ Len(rows) \in Nat /\ from \in Nat
      /\ new \in Seq(Samples) /\ Len(new) = n /\ \A i \in 1..n : new[i] = rows[i]
  <2>1. Len(rows) \in Nat
    BY LenProperties
  <2> QED BY <2>1, SubSeqProperties DEF LastOnes
<1> HIDE DEF new, from
<1>3. ToSet(new) = Added
  <2>1. ASSUME NEW i \in 1..n PROVE new[i] = <<m, from + i>>
    <3>1. i \in DOMAIN rows /\ new[i] = rows[i]
      BY <1>2
    <3> QED BY <3>1 DEF LastOnes, from
  <2>2. ASSUME NEW x \in Added PROVE x \in ToSet(new)
    <3>1. PICK j \in (from + 1)..(from + n) : x = <<m, j>>
      OBVIOUS
    <3>2. j - from \in 1..n /\ from + (j - from) = j
      BY <1>2, <3>1
    <3>3. j - from \in DOMAIN new /\ new[j - from] = x
      BY <1>2, <2>1, <3>1, <3>2
    <3> QED BY <3>3 DEF ToSet
  <2>3. ASSUME NEW x \in ToSet(new) PROVE x \in Added
    <3>1. PICK i \in 1..n : x = new[i]
      BY <1>2 DEF ToSet
    <3>2. from + i \in (from + 1)..(from + n)
      BY <1>2
    <3>3. x = <<m, from + i>>
      BY <2>1, <3>1
    <3> QED BY <3>2, <3>3
  <2> QED BY <2>2, <2>3
<1>4. ToSet(old \o new) = ToSet(old) \cup Added
  BY <1>1, <1>2, <1>3, ConcatAsSets
<1>5. files'[logFile[m]] = old \o new
  BY DEF LogTypeOK, WritesPrefix, new
<1>6. \A x \in Added : x[1] = m
  OBVIOUS
<1>7. Reached(m)' = Reached(m) \cup Added
  BY <1>4, <1>5, <1>6 DEF Reached, WritesPrefix
<1>8. ASSUME NEW k \in Managers \ {m} PROVE Reached(k)' = Reached(k)
  <2>1. CASE logFile[k] = logFile[m]
    BY <1>4, <1>5, <1>6, <2>1 DEF Reached, WritesPrefix
  <2>2. CASE logFile[k] # logFile[m]
    BY <2>2 DEF Reached, LogTypeOK, WritesPrefix
  <2> QED BY <2>1, <2>2
<1> QED BY <1>7, <1>8 DEF from

\* Without failures no row is refused and every row of a buffer is written.
NothingFails == ~ faults => bad = {}

\* Of a manager's samples the first n reached its file, and these are all but those in
\* its buffer.
UpTo(m, n) ==
  /\ n \in 0..total[m]
  /\ Reached(m) = {m} \X (1..n)

\* What is kept of each manager's samples.
Kept(m) ==
  /\ LastOnes(m, buffer[m], total[m])
  /\ life[m] # "running" => buffer[m] = <<>>
  /\ \E n : /\ UpTo(m, n)
            /\ life[m] = "running" \/ (life[m] = "destroyed" /\ ~faults) =>
                 n >= total[m] - Len(buffer[m])

LogInv == LogTypeOK /\ NothingFails /\ \A m \in Managers : Kept(m)

\* Without failures all rows of a buffer are written.
LEMMA AllWritten ==
  ASSUME NEW rows \in Seq(Samples), ~ faults, NEW n \in Written(rows, {})
  PROVE  n = Len(rows)
<1> DEFINE ns == Writable(rows, {})
<1>1. Len(rows) \in Nat /\ ns = 0..Len(rows)
  BY LenProperties DEF Writable
<1>2. n = Longest(ns)
  BY DEF Written
<1>3. Longest(ns) \in ns /\ \A k \in ns : k <= Longest(ns)
  <2>1. Len(rows) \in ns /\ \A k \in ns : k <= Len(rows)
    BY <1>1
  <2> HIDE DEF ns
  <2>2. \E j \in ns : \A k \in ns : k <= j
    BY <2>1
  <2> QED BY <2>2, Zenon DEF Longest
<1> HIDE DEF ns
<1> QED BY <1>1, <1>2, <1>3

\* A longer beginning reached the file when rows that continue it, or that are in it
\* already, are written.
LEMMA WritingReaches ==
  ASSUME LogTypeOK, NEW m \in Managers, NEW t \in Nat, NEW rows \in Seq(Samples),
         LastOnes(m, rows, t), NEW n \in 0..Len(rows), WritesPrefix(m, rows, n),
         NEW have \in 0..t, have >= t - Len(rows), Reached(m) = {m} \X (1..have)
  PROVE  \E now \in 0..t : /\ Reached(m)' = {m} \X (1..now)
                           /\ now >= t - Len(rows) + n /\ now >= have
<1> DEFINE from == t - Len(rows)
           now == IF have >= from + n THEN have ELSE from + n
<1>1. Len(rows) \in Nat /\ from \in Nat /\ from + Len(rows) = t
  <2>1. Len(rows) \in Nat
    BY LenProperties
  <2> QED BY <2>1 DEF LastOnes
<1>2. Reached(m)' = ({m} \X (1..have)) \cup ({m} \X ((from + 1)..(from + n)))
  <2>1. Reached(m)' = Reached(m) \cup ({m} \X ((t - Len(rows) + 1)..(t - Len(rows) + n)))
    BY PrefixReaches
  <2> QED BY <2>1
<1> HIDE DEF from
<1>3. have >= from
  BY DEF from
<1>4. (1..have) \cup ((from + 1)..(from + n)) = 1..now
  <2>1. CASE have >= from + n
    BY <1>1, <1>3, <2>1
  <2>2. CASE ~ (have >= from + n)
    BY <1>1, <1>3, <2>2
  <2> QED BY <2>1, <2>2
<1>5. Reached(m)' = {m} \X (1..now)
  BY <1>2, <1>4
<1>6. now \in 0..t /\ now >= from + n /\ now >= have
  BY <1>1
<1> HIDE DEF now
<1> QED BY <1>5, <1>6 DEF from

\* A save keeps what is kept of a manager's first t samples when it is given the last of
\* them, and touches no other manager's.
LEMMA SaveKeeps ==
  ASSUME LogTypeOK, NEW m \in Managers, NEW t \in Nat, NEW rows \in Seq(Samples), NEW refused,
         LastOnes(m, rows, t), SaveBuffer(m, rows, refused), UNCHANGED logFile,
         NEW have \in 0..t, have >= t - Len(rows), Reached(m) = {m} \X (1..have)
  PROVE  /\ LastOnes(m, buffer'[m], t)
         /\ \E now \in 0..t : /\ Reached(m)' = {m} \X (1..now)
                              /\ now >= t - Len(buffer'[m])
         /\ \A k \in Managers \ {m} : Reached(k)' = Reached(k) /\ buffer'[k] = buffer[k]
<1>0. Len(<<>>) = 0 /\ LastOnes(m, <<>>, t)
  BY DEF LastOnes
<1>1. CASE rows = <<>>
  <2>1. buffer' = [buffer EXCEPT ![m] = rows] /\ UNCHANGED files
    BY <1>1 DEF SaveBuffer
  <2>2. \A k \in Managers : Reached(k)' = Reached(k)
    BY <2>1 DEF Reached
  <2>3. buffer'[m] = rows /\ \A k \in Managers \ {m} : buffer'[k] = buffer[k]
    BY <2>1 DEF LogTypeOK
  <2> QED BY <2>2, <2>3
<1>2. CASE rows # <<>>
  <2>1. PICK n \in Written(rows, refused) :
          /\ files' = [files EXCEPT ![logFile[m]] = @ \o SubSeq(rows, 1, n)]
          /\ buffer' = [buffer EXCEPT ![m] = IF n = Len(rows) THEN <<>> ELSE rows]
    BY <1>2 DEF SaveBuffer
  <2>2. n \in 0..Len(rows) /\ Len(rows) \in Nat
    BY WrittenIsPrefix, LenProperties
  <2>3. /\ buffer'[m] = IF n = Len(rows) THEN <<>> ELSE rows
        /\ \A k \in Managers \ {m} : buffer'[k] = buffer[k]
    BY <2>1 DEF LogTypeOK
  <2>8. WritesPrefix(m, rows, n)
    BY <2>1 DEF WritesPrefix
  <2>4. \A k \in Managers \ {m} : Reached(k)' = Reached(k)
    BY <2>2, <2>8, PrefixReaches
  <2>5. PICK now \in 0..t : /\ Reached(m)' = {m} \X (1..now)
                            /\ now >= t - Len(rows) + n /\ now >= have
    BY <2>2, <2>8, WritingReaches
  <2>6. LastOnes(m, buffer'[m], t)
    BY <1>0, <2>3
  <2>7. now >= t - Len(buffer'[m])
    <3>1. CASE n = Len(rows)
      <4>1. Len(buffer'[m]) = 0
        BY <1>0, <2>3, <3>1
      <4> QED BY <2>2, <2>5, <3>1, <4>1
    <3>2. CASE n # Len(rows)
      <4>1. buffer'[m] = rows
        BY <2>3, <3>2
      <4> QED BY <2>2, <2>5, <4>1
    <3> QED BY <3>1, <3>2
  <2> QED BY <2>3, <2>4, <2>5, <2>6, <2>7
<1> QED BY <1>1, <1>2

\* Without failures nothing ever fails.
LEMMA NothingFailsStep == NothingFails /\ [LogNext]_logVars => NothingFails'
<1> SUFFICES ASSUME NothingFails, [LogNext]_logVars PROVE NothingFails'
  OBVIOUS
<1>1. ASSUME NEW m \in Managers, LogSample(m) PROVE NothingFails'
  BY <1>1 DEF LogSample, NothingFails
<1>2. ASSUME NEW m \in Managers, Destroy(m) PROVE NothingFails'
  BY <1>2 DEF Destroy, NothingFails
<1>3. CASE LogCrash
  BY <1>3 DEF LogCrash, NothingFails
<1>4. CASE UNCHANGED logVars
  BY <1>4 DEF logVars, NothingFails
<1> QED BY <1>1, <1>2, <1>3, <1>4 DEF LogNext

\* Every step keeps it.
LEMMA KeptStep == LogInv /\ [LogNext]_logVars => LogInv'
<1> SUFFICES ASSUME LogInv, [LogNext]_logVars PROVE \A k \in Managers : Kept(k)'
  BY LogTypes, NothingFailsStep DEF LogInv
<1>0. LogTypeOK /\ NothingFails /\ \A k \in Managers : Kept(k)
  BY DEF LogInv
<1>1. ASSUME NEW m \in Managers, LogSample(m), NEW k \in Managers PROVE Kept(k)'
  <2> DEFINE t == total[m] + 1
             rows == Append(buffer[m], <<m, t>>)
  <2>1. PICK refused \in BOOLEAN :
          /\ bad' = IF refused THEN bad \cup {<<m, t>>} ELSE bad
          /\ IF LogDue(t, Len(rows))
             THEN SaveBuffer(m, rows, bad')
             ELSE buffer' = [buffer EXCEPT ![m] = rows] /\ UNCHANGED files
    BY <1>1 DEF LogSample
  <2>2. /\ life[m] = "running" /\ total' = [total EXCEPT ![m] = t]
        /\ UNCHANGED <<faults, logFile, life>>
        /\ total[m] \in Nat /\ t \in 1..MaxSamples
    BY <1>0, <1>1, SizesPositive DEF LogSample, LogTypeOK
  <2>3. buffer[m] \in Seq(Samples) /\ <<m, t>> \in Samples /\ Len(buffer[m]) \in Nat
    BY <1>0, <2>2, LenProperties DEF LogTypeOK, Samples
  <2>4. /\ rows \in Seq(Samples) /\ Len(rows) = Len(buffer[m]) + 1
        /\ rows[Len(buffer[m]) + 1] = <<m, t>>
        /\ \A i \in 1..Len(buffer[m]) : rows[i] = buffer[m][i]
    BY <2>3, AppendProperties
  <2> HIDE DEF rows
  <2>5. LastOnes(m, buffer[m], total[m])
    BY <1>0 DEF Kept
  <2>6. LastOnes(m, rows, t)
    <3>1. Len(rows) <= t /\ t - Len(rows) = total[m] - Len(buffer[m])
      BY <2>2, <2>3, <2>4, <2>5 DEF LastOnes
    <3>2. ASSUME NEW i \in DOMAIN rows PROVE rows[i] = <<m, (t - Len(rows)) + i>>
      <4>1. i \in 1..(Len(buffer[m]) + 1)
        BY <2>4
      <4>2. CASE i \in 1..Len(buffer[m])
        BY <2>3, <2>4, <2>5, <3>1, <4>2 DEF LastOnes
      <4>3. CASE i = Len(buffer[m]) + 1
        <5>1. (t - Len(rows)) + i = t
          BY <2>2, <2>3, <2>4, <4>3
        <5> QED BY <2>4, <4>3, <5>1
      <4> QED BY <2>3, <4>1, <4>2, <4>3
    <3> QED BY <3>1, <3>2 DEF LastOnes
  <2>7. PICK n : UpTo(m, n) /\ n >= total[m] - Len(buffer[m])
    BY <1>0, <2>2 DEF Kept
  <2>8. n \in 0..t /\ n >= t - Len(rows) /\ Reached(m) = {m} \X (1..n)
    BY <2>2, <2>3, <2>4, <2>7 DEF UpTo
  <2>9. /\ LastOnes(m, buffer'[m], t)
        /\ \E now \in 0..t : Reached(m)' = {m} \X (1..now) /\ now >= t - Len(buffer'[m])
        /\ \A j \in Managers \ {m} : Reached(j)' = Reached(j) /\ buffer'[j] = buffer[j]
    <3>1. CASE LogDue(t, Len(rows))
      <4>1. SaveBuffer(m, rows, bad') /\ t \in Nat
        BY <2>1, <2>2, <3>1
      <4> HIDE DEF t
      <4> QED BY <1>0, <2>2, <2>4, <2>6, <2>8, <4>1, SaveKeeps
    <3>2. CASE ~ LogDue(t, Len(rows))
      <4>1. buffer' = [buffer EXCEPT ![m] = rows] /\ UNCHANGED files
        BY <2>1, <3>2
      <4>2. buffer'[m] = rows /\ \A j \in Managers \ {m} : buffer'[j] = buffer[j]
        BY <1>0, <4>1 DEF LogTypeOK
      <4>3. \A j \in Managers : Reached(j)' = Reached(j)
        BY <2>2, <4>1 DEF Reached
      <4> QED BY <2>6, <2>8, <4>2, <4>3
    <3> QED BY <3>1, <3>2
  <2>10. total'[m] = t /\ \A j \in Managers \ {m} : total'[j] = total[j]
    BY <1>0, <2>2 DEF LogTypeOK
  <2>11. CASE k = m
    <3> HIDE DEF t
    <3>1. LastOnes(m, buffer'[m], total'[m])
      BY <2>9, <2>10
    <3>2. PICK now \in 0..t : Reached(m)' = {m} \X (1..now) /\ now >= t - Len(buffer'[m])
      BY <2>9
    <3>3. UpTo(m, now)' /\ now >= total'[m] - Len(buffer'[m])
      BY <2>10, <3>2 DEF UpTo
    <3> QED BY <2>2, <2>11, <3>1, <3>3 DEF Kept, LastOnes
  <2>12. CASE k # m
    BY <1>0, <2>2, <2>9, <2>10, <2>12 DEF Kept, LastOnes, UpTo
  <2> QED BY <2>11, <2>12
<1>2. ASSUME NEW m \in Managers, Destroy(m), NEW k \in Managers PROVE Kept(k)'
  <2> DEFINE rows == buffer[m]
             t == total[m]
  <2>1. PICK w \in Written(rows, bad) :
          files' = [files EXCEPT ![logFile[m]] = @ \o SubSeq(rows, 1, w)]
    BY <1>2 DEF Destroy
  <2>2. /\ life[m] = "running" /\ life' = [life EXCEPT ![m] = "destroyed"]
        /\ buffer' = [buffer EXCEPT ![m] = <<>>]
        /\ UNCHANGED <<faults, logFile, total, bad>>
    BY <1>2 DEF Destroy
  <2>3. rows \in Seq(Samples) /\ Len(rows) \in Nat /\ t \in Nat
    BY <1>0, LenProperties DEF LogTypeOK
  <2>4. w \in 0..Len(rows) /\ (~faults => w = Len(rows))
    BY <1>0, <2>3, WrittenIsPrefix, AllWritten DEF NothingFails
  <2>5. PICK n : UpTo(m, n) /\ n >= t - Len(rows)
    BY <1>0, <2>2 DEF Kept
  <2>6. LastOnes(m, rows, t)
    BY <1>0 DEF Kept
  <2>7. n \in 0..t /\ Reached(m) = {m} \X (1..n)
    BY <2>5 DEF UpTo
  <2> HIDE DEF rows, t
  <2>12. WritesPrefix(m, rows, w)
    BY <2>1, <2>2 DEF WritesPrefix
  <2>8. PICK now \in 0..t : /\ Reached(m)' = {m} \X (1..now)
                            /\ now >= t - Len(rows) + w /\ now >= n
    BY <1>0, <2>3, <2>4, <2>5, <2>6, <2>7, <2>12, WritingReaches
  <2>9. \A j \in Managers \ {m} : Reached(j)' = Reached(j)
    BY <1>0, <2>3, <2>4, <2>6, <2>12, PrefixReaches
  <2>10. CASE k = m
    <3>1. buffer'[m] = <<>> /\ Len(buffer'[m]) = 0 /\ life'[m] = "destroyed" /\ total'[m] = t
      BY <1>0, <2>2 DEF LogTypeOK, t
    <3>2. LastOnes(m, buffer'[m], total'[m])
      BY <2>3, <3>1 DEF LastOnes
    <3>3. UpTo(m, now)'
      BY <2>8, <3>1 DEF UpTo
    <3>4. ~faults' => now >= total'[m] - Len(buffer'[m])
      BY <2>2, <2>3, <2>4, <2>8, <3>1
    <3> QED BY <2>10, <3>1, <3>2, <3>3, <3>4 DEF Kept, LastOnes
  <2>11. CASE k # m
    <3>1. buffer'[k] = buffer[k] /\ life'[k] = life[k] /\ total'[k] = total[k]
      BY <1>0, <2>2, <2>11 DEF LogTypeOK
    <3> QED BY <1>0, <2>2, <2>9, <2>11, <3>1 DEF Kept, LastOnes, UpTo
  <2> QED BY <2>10, <2>11
<1>3. ASSUME LogCrash, NEW k \in Managers PROVE Kept(k)'
  <2>1. /\ buffer'[k] = <<>> /\ UNCHANGED <<faults, files, logFile, total>>
        /\ life'[k] = IF life[k] = "running" THEN "killed" ELSE life[k]
    BY <1>3 DEF LogCrash
  <2>2. total[k] \in Nat
    BY <1>0 DEF LogTypeOK
  <2>3. LastOnes(k, buffer'[k], total'[k])
    BY <2>1, <2>2 DEF LastOnes
  <2>4. PICK n : /\ UpTo(k, n)
                 /\ life[k] = "running" \/ (life[k] = "destroyed" /\ ~faults) =>
                      n >= total[k] - Len(buffer[k])
    BY <1>0 DEF Kept
  <2>5. UpTo(k, n)'
    BY <2>1, <2>4 DEF UpTo, Reached
  <2>6. life'[k] # "running"
    BY <2>1
  <2>7. life'[k] = "destroyed" => life[k] = "destroyed" /\ buffer[k] = <<>>
    BY <1>0, <2>1 DEF Kept
  <2> QED BY <2>1, <2>3, <2>4, <2>5, <2>6, <2>7 DEF Kept, LastOnes
<1>4. ASSUME UNCHANGED logVars, NEW k \in Managers PROVE Kept(k)'
  BY <1>0, <1>4 DEF logVars, Kept, LastOnes, UpTo, Reached
<1> QED BY <1>1, <1>2, <1>3, <1>4 DEF LogNext

\* It holds from the start, and with it the types of the log.
LEMMA LogStarts == LogInit => LogInv
<1> SUFFICES ASSUME LogInit PROVE LogInv
  OBVIOUS
<1>1. 0 \in 0..MaxSamples
  BY SizesPositive
<1>2. LogTypeOK
  BY <1>1, EmptySeq DEF LogInit, LogTypeOK, Files, Lives
<1>3. NothingFails
  BY DEF LogInit, NothingFails
<1>4. ASSUME NEW m \in Managers PROVE Kept(m)
  <2>1. /\ buffer[m] = <<>> /\ total[m] = 0 /\ life[m] = "running"
        /\ files[logFile[m]] = <<>>
    BY DEF LogInit
  <2>2. LastOnes(m, buffer[m], total[m])
    BY <2>1 DEF LastOnes
  <2>3. UpTo(m, 0)
    BY <2>1 DEF UpTo, Reached, ToSet
  <2> QED BY <2>1, <2>2, <2>3 DEF Kept
<1> QED BY <1>2, <1>3, <1>4 DEF LogInv

\* What is kept of a manager is that only the end of its samples can be lost.
LEMMA KeptButTheEnd == LogInv => OnlyTheEndIsLost
<1> SUFFICES ASSUME LogInv, NEW m \in Managers
             PROVE  /\ \E n \in 0..total[m] : Reached(m) = {m} \X (1..n)
                    /\ life[m] = "running" \/ (life[m] = "destroyed" /\ ~faults) =>
                         Logged(m) \subseteq Reached(m) \cup ToSet(buffer[m])
  BY DEF OnlyTheEndIsLost
<1>1. PICK n : /\ UpTo(m, n)
               /\ life[m] = "running" \/ (life[m] = "destroyed" /\ ~faults) =>
                    n >= total[m] - Len(buffer[m])
  BY DEF LogInv, Kept
<1>2. n \in 0..total[m] /\ Reached(m) = {m} \X (1..n)
  BY <1>1 DEF UpTo
<1>3. ASSUME n >= total[m] - Len(buffer[m]), NEW x \in Logged(m)
      PROVE  x \in Reached(m) \cup ToSet(buffer[m])
  <2>1. PICK i \in 1..total[m] : x = <<m, i>>
    BY DEF Logged
  <2>2. CASE i <= n
    BY <1>2, <2>1, <2>2
  <2>3. CASE ~ (i <= n)
    <3>1. /\ total[m] \in Nat /\ buffer[m] \in Seq(Samples) /\ Len(buffer[m]) \in Nat
          /\ LastOnes(m, buffer[m], total[m])
      BY LenProperties DEF LogInv, LogTypeOK, Kept
    <3> DEFINE j == i - (total[m] - Len(buffer[m]))
    <3>2. j \in 1..Len(buffer[m]) /\ (total[m] - Len(buffer[m])) + j = i
      BY <1>2, <1>3, <2>3, <3>1
    <3>3. j \in DOMAIN buffer[m] /\ buffer[m][j] = x
      BY <2>1, <3>1, <3>2 DEF LastOnes
    <3> QED BY <3>3 DEF ToSet
  <2> QED BY <1>2, <2>1, <2>2, <2>3
<1> QED BY <1>1, <1>2, <1>3

\* What can be missing of a manager's samples is the end, and of that nothing while the
\* manager lives: whatever fails to be written is left to the next save, with what comes
\* after it.  Only a kill of the driver and a last save that fails cost any
\* (save_data_buffer, __del__).
THEOREM LogKeepsAll == LogSpec => []OnlyTheEndIsLost
<1>1. LogInv /\ [LogNext]_logVars => LogInv'
  BY KeptStep
<1> QED BY <1>1, LogStarts, KeptButTheEnd, PTL DEF LogSpec

-----------------------------------------------------------------------------
(* The rows of one manager, and their order. *)

\* Appending to the second of two sequences appends to both.
LEMMA AppendToConcat ==
  ASSUME NEW a \in Seq(Samples), NEW b \in Seq(Samples), NEW x \in Samples
  PROVE  a \o Append(b, x) = Append(a \o b, x)
<1>1. a \o b \in Seq(Samples) /\ Append(b, x) \in Seq(Samples)
  BY ConcatProperties, AppendProperties
<1> DEFINE c == Append(a \o b, x)
           d == a \o Append(b, x)
<1>2. c \in Seq(Samples) /\ d \in Seq(Samples)
  BY <1>1, ConcatProperties, AppendProperties
<1>3. Len(c) = Len(a) + Len(b) + 1 /\ Len(d) = Len(a) + Len(b) + 1
  BY <1>1, ConcatProperties, AppendProperties
<1>4. ASSUME NEW i \in 1..Len(c) PROVE c[i] = d[i]
  BY <1>1, <1>3
<1> HIDE DEF c, d
<1>5. c = d
  BY <1>2, <1>3, <1>4, SeqEqual
<1> QED BY <1>5 DEF c, d

\* A prefix with the next element is the next prefix.
LEMMA OneMoreElement ==
  ASSUME NEW t \in Seq(Samples), NEW n \in Nat, n + 1 <= Len(t)
  PROVE  /\ SubSeq(t, 1, n) \in Seq(Samples)
         /\ SubSeq(t, 1, n + 1) = Append(SubSeq(t, 1, n), t[n + 1])
<1> DEFINE c == SubSeq(t, 1, n)
           d == SubSeq(t, 1, n + 1)
<1>1. Len(t) \in Nat /\ t[n + 1] \in Samples
  BY LenProperties, ElementOfSeq
<1>2. /\ c \in Seq(Samples) /\ Len(c) = n /\ \A i \in 1..n : c[i] = t[i]
      /\ d \in Seq(Samples) /\ Len(d) = n + 1 /\ \A i \in 1..(n + 1) : d[i] = t[i]
  BY <1>1, SubSeqProperties
<1> HIDE DEF c, d
<1>3. /\ Append(c, t[n + 1]) \in Seq(Samples) /\ Len(Append(c, t[n + 1])) = n + 1
      /\ \A i \in 1..(n + 1) : Append(c, t[n + 1])[i] = t[i]
  BY <1>1, <1>2, AppendProperties
<1>4. d = Append(c, t[n + 1])
  BY <1>2, <1>3, SeqEqual
<1> QED BY <1>2, <1>4 DEF c, d

\* What Selected has of each prefix of the rows.
SelectsUpTo(f, m, rows) ==
  f = [n \in 0..Len(rows) |->
        IF n = 0 THEN <<>>
        ELSE IF rows[n][1] = m THEN Append(f[n - 1], rows[n])
        ELSE f[n - 1]]

\* There is such a function, and Selected is its value for all the rows.
LEMMA SelectedIsLast ==
  ASSUME NEW m, NEW rows \in Seq(Samples)
  PROVE  \E f : SelectsUpTo(f, m, rows) /\ Selected(m, rows) = f[Len(rows)]
<1> DEFINE L == Len(rows)
           Next1(n, seq) == IF rows[n][1] = m THEN Append(seq, rows[n]) ELSE seq
           Upto(f, k) == f = [n \in 0..k |-> IF n = 0 THEN <<>> ELSE Next1(n, f[n - 1])]
           S == {k \in Nat : \E f : Upto(f, k)}
<1>1. L \in Nat
  BY LenProperties
<1>2. 0 \in S
  <2>1. Upto([n \in 0..0 |-> <<>>], 0)
    OBVIOUS
  <2> QED BY <2>1
<1>3. ASSUME NEW k \in S PROVE k + 1 \in S
  <2>1. PICK f : Upto(f, k)
    OBVIOUS
  <2> DEFINE g == [n \in 0..(k + 1) |-> IF n <= k THEN f[n] ELSE Next1(n, f[n - 1])]
  <2>2. ASSUME NEW n \in 0..(k + 1)
        PROVE  g[n] = IF n = 0 THEN <<>> ELSE Next1(n, g[n - 1])
    <3>1. CASE n = 0
      BY <2>1, <3>1
    <3>2. CASE n # 0
      <4>1. n - 1 \in 0..k /\ n - 1 \in 0..(k + 1) /\ n - 1 <= k
        BY <3>2
      <4>2. g[n - 1] = f[n - 1]
        BY <4>1
      <4>3. g[n] = Next1(n, f[n - 1])
        <5> HIDE DEF Next1
        <5>1. CASE n <= k
          BY <2>1, <3>2, <5>1
        <5>2. CASE ~ (n <= k)
          BY <5>2
        <5> QED BY <5>1, <5>2
      <4> HIDE DEF g, Next1
      <4> QED BY <3>2, <4>2, <4>3
    <3> QED BY <3>1, <3>2
  <2>3. Upto(g, k + 1)
    <3>1. g = [n \in 0..(k + 1) |-> g[n]]
      OBVIOUS
    <3> HIDE DEF g, Next1
    <3> QED BY <2>2, <3>1
  <2> HIDE DEF g, Upto
  <2> QED BY <2>3
<1>4. \E f : Upto(f, L)
  <2>1. S \subseteq Nat
    OBVIOUS
  <2>2. S = Nat
    <3> HIDE DEF S
    <3> QED BY <1>2, <1>3, <2>1, AllNumbers, Zenon
  <2> HIDE DEF Upto
  <2> QED BY <1>1, <2>2
<1>5. PICK f : f = CHOOSE g : SelectsUpTo(g, m, rows)
  OBVIOUS
<1>6. SelectsUpTo(f, m, rows)
  <2>1. \E g : SelectsUpTo(g, m, rows)
    BY <1>4 DEF SelectsUpTo
  <2> QED BY <1>5, <2>1, Zenon
<1>7. Selected(m, rows) = f[Len(rows)]
  BY <1>5, Zenon DEF Selected, SelectsUpTo
<1> QED BY <1>6, <1>7

\* All rows are of one manager.
AreOf(k, rows) == \A i \in DOMAIN rows : rows[i][1] = k

\* Rows of one manager that are appended to a file are selected for this manager, in
\* their order, and for no other one.
LEMMA SelectedConcat ==
  ASSUME NEW m \in Managers, NEW k \in Managers,
         NEW s \in Seq(Samples), NEW t \in Seq(Samples), AreOf(k, t)
  PROVE  /\ Selected(m, s) \in Seq(Samples)
         /\ k = m => Selected(m, s \o t) = Selected(m, s) \o t
         /\ k # m => Selected(m, s \o t) = Selected(m, s)
<1> DEFINE whole == s \o t
<1>1. /\ whole \in Seq(Samples)
      /\ Len(whole) = Len(s) + Len(t)
      /\ Len(s) \in Nat /\ Len(t) \in Nat
  BY ConcatProperties, LenProperties
<1>2. /\ \A n \in 1..Len(s) : whole[n] = s[n]
      /\ \A n \in 1..Len(t) : whole[Len(s) + n] = t[n]
  OBVIOUS
<1>3. PICK f : SelectsUpTo(f, m, s) /\ Selected(m, s) = f[Len(s)]
  BY SelectedIsLast
<1>4. PICK g : SelectsUpTo(g, m, whole) /\ Selected(m, whole) = g[Len(whole)]
  <2> HIDE DEF whole
  <2> QED BY <1>1, SelectedIsLast
<1> HIDE DEF whole
<1>5. \A n \in 0..Len(s) : g[n] = f[n] /\ f[n] \in Seq(Samples)
  <2> DEFINE S == {n \in Nat : n <= Len(s) => g[n] = f[n] /\ f[n] \in Seq(Samples)}
  <2>1. 0 \in S
    <3>1. f[0] = <<>> /\ g[0] = <<>>
      BY <1>1, <1>3, <1>4 DEF SelectsUpTo
    <3> QED BY <3>1, EmptySeq
  <2>2. ASSUME NEW n \in S PROVE n + 1 \in S
    <3> SUFFICES ASSUME n + 1 <= Len(s) PROVE g[n + 1] = f[n + 1] /\ f[n + 1] \in Seq(Samples)
      OBVIOUS
    <3>1. g[n] = f[n] /\ f[n] \in Seq(Samples) /\ n \in Nat
      BY <1>1
    <3>2. /\ n + 1 \in 0..Len(s) /\ n + 1 \in 0..Len(whole) /\ n + 1 \in 1..Len(s)
          /\ n + 1 # 0 /\ (n + 1) - 1 = n
      BY <1>1
    <3>3. whole[n + 1] = s[n + 1] /\ s[n + 1] \in Samples
      BY <1>2, <3>2, ElementOfSeq
    <3>4. f[n + 1] = IF s[n + 1][1] = m THEN Append(f[n], s[n + 1]) ELSE f[n]
      BY <1>3, <3>2 DEF SelectsUpTo
    <3>5. g[n + 1] = IF whole[n + 1][1] = m THEN Append(g[n], whole[n + 1]) ELSE g[n]
      BY <1>4, <3>2 DEF SelectsUpTo
    <3>6. g[n + 1] = f[n + 1]
      BY <3>1, <3>3, <3>4, <3>5
    <3>7. f[n + 1] \in Seq(Samples)
      BY <3>1, <3>3, <3>4, AppendProperties
    <3> QED BY <3>6, <3>7
  <2>3. S = Nat
    <3>1. S \subseteq Nat
      OBVIOUS
    <3> HIDE DEF S
    <3> QED BY <2>1, <2>2, <3>1, AllNumbers, Zenon
  <2>4. \A n \in 0..Len(s) : n \in S /\ n <= Len(s)
    BY <1>1, <2>3
  <2> QED BY <2>4
<1>6. Selected(m, s) \in Seq(Samples) /\ Len(s) \in 0..Len(s)
  BY <1>1, <1>3, <1>5
<1>7. ASSUME NEW n \in Nat, n + 1 <= Len(t)
      PROVE  /\ k = m => g[Len(s) + (n + 1)] = Append(g[Len(s) + n], t[n + 1])
             /\ k # m => g[Len(s) + (n + 1)] = g[Len(s) + n]
  <2>1. /\ Len(s) + (n + 1) \in 0..Len(whole) /\ Len(s) + (n + 1) # 0
        /\ (Len(s) + (n + 1)) - 1 = Len(s) + n
        /\ n + 1 \in 1..Len(t)
    BY <1>1, <1>7
  <2>2. whole[Len(s) + (n + 1)] = t[n + 1] /\ t[n + 1][1] = k
    BY <1>2, <2>1 DEF AreOf
  <2>3. g[Len(s) + (n + 1)] =
          IF whole[Len(s) + (n + 1)][1] = m
          THEN Append(g[Len(s) + n], whole[Len(s) + (n + 1)]) ELSE g[Len(s) + n]
    BY <1>4, <2>1 DEF SelectsUpTo
  <2> QED BY <2>2, <2>3
<1>8. CASE k # m
  <2> DEFINE S == {n \in Nat : n <= Len(t) => g[Len(s) + n] = f[Len(s)]}
  <2>1. 0 \in S
    BY <1>1, <1>5, <1>6
  <2>2. ASSUME NEW n \in S PROVE n + 1 \in S
    BY <1>1, <1>7, <1>8
  <2>3. S = Nat
    <3>1. S \subseteq Nat
      OBVIOUS
    <3> HIDE DEF S
    <3> QED BY <2>1, <2>2, <3>1, AllNumbers, Zenon
  <2>4. g[Len(s) + Len(t)] = f[Len(s)]
    <3>1. Len(t) \in S
      <4> HIDE DEF S
      <4> QED BY <1>1, <2>3
    <3>2. Len(t) <= Len(t)
      BY <1>1
    <3> QED BY <3>1, <3>2
  <2> QED BY <1>1, <1>3, <1>4, <1>6, <1>8, <2>4 DEF whole
<1>9. CASE k = m
  <2> DEFINE q == f[Len(s)]
             S == {n \in Nat : n <= Len(t) => g[Len(s) + n] = q \o SubSeq(t, 1, n)}
  <2>0. q \in Seq(Samples)
    BY <1>5, <1>6
  <2> HIDE DEF q
  <2>1. 0 \in S
    <3>1. g[Len(s) + 0] = q
      BY <1>1, <1>5, <1>6 DEF q
    <3>2. q \o SubSeq(t, 1, 0) = q
      BY <2>0
    <3> QED BY <3>1, <3>2
  <2>2. ASSUME NEW n \in S PROVE n + 1 \in S
    <3> SUFFICES ASSUME n + 1 <= Len(t)
                 PROVE  g[Len(s) + (n + 1)] = q \o SubSeq(t, 1, n + 1)
      OBVIOUS
    <3>1. n \in Nat /\ g[Len(s) + n] = q \o SubSeq(t, 1, n)
      BY <1>1
    <3>2. g[Len(s) + (n + 1)] = Append(q \o SubSeq(t, 1, n), t[n + 1])
      BY <1>7, <1>9, <3>1
    <3>3. Append(q \o SubSeq(t, 1, n), t[n + 1]) = q \o SubSeq(t, 1, n + 1)
      <4>1. n \in 0..Len(t) /\ n + 1 \in 1..Len(t)
        BY <1>1, <3>1
      <4>2. SubSeq(t, 1, n) \in Seq(Samples) /\ SubSeq(t, 1, n + 1) = Append(SubSeq(t, 1, n), t[n + 1])
        BY <4>1, OneMoreElement
      <4>3. t[n + 1] \in Samples
        BY <4>1, ElementOfSeq
      <4>4. q \in Seq(Samples) /\ SubSeq(t, 1, n) \in Seq(Samples) /\ t[n + 1] \in Samples
        BY <2>0, <4>2, <4>3
      <4>5. q \o Append(SubSeq(t, 1, n), t[n + 1]) = Append(q \o SubSeq(t, 1, n), t[n + 1])
        BY <4>4, AppendToConcat, Zenon
      <4> QED BY <4>2, <4>5, Zenon
    <3> QED BY <3>2, <3>3
  <2>3. S = Nat
    <3>1. S \subseteq Nat
      OBVIOUS
    <3> HIDE DEF S
    <3> QED BY <2>1, <2>2, <3>1, AllNumbers, Zenon
  <2>4. g[Len(s) + Len(t)] = q \o SubSeq(t, 1, Len(t))
    <3>1. Len(t) \in S
      <4> HIDE DEF S
      <4> QED BY <1>1, <2>3
    <3>2. Len(t) <= Len(t)
      BY <1>1
    <3> QED BY <3>1, <3>2
  <2>5. SubSeq(t, 1, Len(t)) = t
    BY SubSeqFull
  <2> QED BY <1>1, <1>3, <1>4, <1>6, <1>9, <2>4, <2>5 DEF whole, q
<1> QED BY <1>8, <1>9

\* A save that meets no failure writes all the rows and empties the buffer.
LEMMA SaveWritesAll ==
  ASSUME LogTypeOK, NEW m \in Managers, NEW rows \in Seq(Samples), ~ faults,
         SaveBuffer(m, rows, {})
  PROVE  /\ files'[logFile[m]] = files[logFile[m]] \o rows
         /\ \A f \in Files \ {logFile[m]} : files'[f] = files[f]
         /\ buffer' = [buffer EXCEPT ![m] = <<>>]
<1>1. files[logFile[m]] \in Seq(Samples)
  BY DEF LogTypeOK
<1>2. CASE rows = <<>>
  <2>1. files[logFile[m]] \o <<>> = files[logFile[m]]
    BY <1>1
  <2> QED BY <1>2, <2>1 DEF SaveBuffer
<1>3. CASE rows # <<>>
  <2>1. PICK n \in Written(rows, {}) :
          /\ files' = [files EXCEPT ![logFile[m]] = @ \o SubSeq(rows, 1, n)]
          /\ buffer' = [buffer EXCEPT ![m] = IF n = Len(rows) THEN <<>> ELSE rows]
    BY <1>3 DEF SaveBuffer
  <2>2. n = Len(rows)
    BY <2>1, AllWritten
  <2>3. SubSeq(rows, 1, n) = rows
    BY <2>2, SubSeqFull
  <2> QED BY <2>1, <2>2, <2>3 DEF LogTypeOK
<1> QED BY <1>2, <1>3

\* Writing all rows of a manager keeps each manager's rows and adds those of the one that
\* writes.
WritesAll(m, rows) ==
  /\ files'[logFile[m]] = files[logFile[m]] \o rows
  /\ \A f \in Files \ {logFile[m]} : files'[f] = files[f]
  /\ buffer' = [buffer EXCEPT ![m] = <<>>]
  /\ UNCHANGED logFile

LEMMA WriteKeepsOrder ==
  ASSUME LogTypeOK, NEW m \in Managers, NEW rows \in Seq(Samples), WritesAll(m, rows),
         AreOf(m, rows)
  PROVE  /\ RowsOf(m)' \o buffer'[m] = RowsOf(m) \o rows
         /\ buffer'[m] = <<>>
         /\ \A k \in Managers \ {m} : RowsOf(k)' = RowsOf(k) /\ buffer'[k] = buffer[k]
<1> DEFINE old == files[logFile[m]]
<1>1. /\ files'[logFile[m]] = old \o rows
      /\ \A f \in Files \ {logFile[m]} : files'[f] = files[f]
      /\ buffer' = [buffer EXCEPT ![m] = <<>>]
      /\ UNCHANGED logFile
  BY DEF WritesAll
<1>2. old \in Seq(Samples) /\ rows \in Seq(Samples) /\ AreOf(m, rows)
  BY DEF LogTypeOK
<1> HIDE DEF old
<1>3. /\ RowsOf(m)' = RowsOf(m) \o rows
      /\ RowsOf(m) \o rows \in Seq(Samples)
  <2>1. Selected(m, old \o rows) = Selected(m, old) \o rows
    <3>1. m \in Managers
      OBVIOUS
    <3> QED BY <1>2, <3>1, SelectedConcat
  <2>2. Selected(m, old) \in Seq(Samples)
    BY <1>2, SelectedConcat
  <2>3. Selected(m, old) \o rows \in Seq(Samples)
    BY <2>2, ConcatProperties
  <2> QED BY <1>1, <2>1, <2>3 DEF RowsOf, old
<1>4. buffer'[m] = <<>>
  BY <1>1 DEF LogTypeOK
<1>5. RowsOf(m)' \o buffer'[m] = RowsOf(m) \o rows
  BY <1>3, <1>4
<1>6. ASSUME NEW k \in Managers \ {m} PROVE RowsOf(k)' = RowsOf(k) /\ buffer'[k] = buffer[k]
  <2>1. buffer'[k] = buffer[k]
    BY <1>1 DEF LogTypeOK
  <2>2. CASE logFile[k] = logFile[m]
    <3>1. Selected(k, old \o rows) = Selected(k, old)
      <4>1. m # k /\ k \in Managers /\ m \in Managers
        OBVIOUS
      <4> QED BY <1>2, <4>1, SelectedConcat
    <3> QED BY <1>1, <2>1, <2>2, <3>1 DEF RowsOf, old
  <2>3. CASE logFile[k] # logFile[m]
    BY <1>1, <2>1, <2>3 DEF RowsOf, LogTypeOK
  <2> QED BY <2>2, <2>3
<1> QED BY <1>4, <1>5, <1>6

\* The first samples of a manager.
FirstSamples(m, n) == [i \in 1..n |-> <<m, i>>]

\* A manager's rows and its buffer are its first samples, of which a kill of the driver can
\* cost those that one buffer holds.
InOrder(m) ==
  \E n \in 0..total[m] :
    /\ RowsOf(m) \o buffer[m] = FirstSamples(m, n)
    /\ life[m] # "killed" => n = total[m]
    /\ (total[m] - n) + Len(buffer[m]) < MaxBufferSize

OrderInv == LogInv /\ (~faults => \A m \in Managers : InOrder(m))

\* Both parts of a sequence of first samples.
LEMMA PartsInOrder ==
  ASSUME NEW m \in Managers, NEW n \in Nat, NEW a \in Seq(Samples), NEW b \in Seq(Samples),
         a \o b = FirstSamples(m, n)
  PROVE  /\ AreOf(m, b)
         /\ Len(b) <= n
         /\ a \o <<>> = FirstSamples(m, n - Len(b))
<1>1. /\ Len(a) \in Nat /\ Len(b) \in Nat
      /\ a \o b \in Seq(Samples) /\ Len(a \o b) = Len(a) + Len(b)
  BY LenProperties, ConcatProperties
<1>2. a \o b = [i \in 1..n |-> <<m, i>>]
  BY DEF FirstSamples
<1>3. Len(a) + Len(b) = n
  BY <1>1, <1>2
<1>4. ASSUME NEW i \in DOMAIN b PROVE b[i][1] = m
  <2>1. i \in 1..Len(b)
    BY <1>1
  <2>2. Len(a) + i \in 1..n /\ (a \o b)[Len(a) + i] = b[i]
    BY <1>1, <1>3, <2>1, ConcatProperties
  <2>3. b[i] = <<m, Len(a) + i>>
    BY <1>2, <2>2
  <2> QED BY <2>3
<1>5. a = [i \in 1..Len(a) |-> <<m, i>>]
  <2>1. a = [i \in 1..Len(a) |-> a[i]]
    BY <1>1
  <2>2. ASSUME NEW i \in 1..Len(a) PROVE a[i] = <<m, i>>
    <3>1. i \in 1..n /\ (a \o b)[i] = a[i]
      BY <1>1, <1>3, ConcatProperties
    <3> QED BY <1>2, <3>1
  <2> QED BY <2>1, <2>2
<1>6. a \o <<>> = a /\ Len(a) = n - Len(b)
  BY <1>1, <1>3
<1> QED BY <1>1, <1>3, <1>4, <1>5, <1>6 DEF AreOf, FirstSamples

\* A sample after those in order is in order.
LEMMA OneMoreSample ==
  ASSUME NEW m, NEW n \in Nat, NEW a \in Seq(Samples), NEW b \in Seq(Samples),
         a \o b = FirstSamples(m, n), <<m, n + 1>> \in Samples
  PROVE  a \o Append(b, <<m, n + 1>>) = FirstSamples(m, n + 1)
<1> DEFINE x == <<m, n + 1>>
           c == a \o b
<1>1. c \in Seq(Samples) /\ Len(c) = n
  <2>1. c \in Seq(Samples)
    BY ConcatProperties
  <2>2. c = [i \in 1..n |-> <<m, i>>]
    BY DEF FirstSamples
  <2> HIDE DEF c
  <2> QED BY <2>1, <2>2
<1>2. a \o Append(b, x) = Append(c, x)
  <2>1. a \in Seq(Samples) /\ b \in Seq(Samples) /\ x \in Samples
    OBVIOUS
  <2> HIDE DEF x
  <2> QED BY <2>1, AppendToConcat, Zenon DEF c
<1>3. Append(c, x) = [i \in 1..(n + 1) |-> <<m, i>>]
  <2>1. c = [i \in 1..n |-> <<m, i>>]
    BY DEF FirstSamples
  <2> HIDE DEF c
  <2> QED BY <1>1, <2>1
<1> QED BY <1>2, <1>3 DEF FirstSamples

\* The rows of a manager in a file are samples.
LEMMA RowsAreSamples ==
  ASSUME LogTypeOK, NEW m \in Managers
  PROVE  RowsOf(m) \in Seq(Samples) /\ buffer[m] \in Seq(Samples) /\ Len(buffer[m]) \in Nat
<1>1. files[logFile[m]] \in Seq(Samples) /\ buffer[m] \in Seq(Samples) /\ Len(buffer[m]) \in Nat
  BY LenProperties DEF LogTypeOK
<1>2. <<>> \in Seq(Samples) /\ AreOf(m, <<>>)
  BY EmptySeq DEF AreOf
<1> QED BY <1>1, <1>2, SelectedConcat DEF RowsOf

\* No step disturbs the order, as long as nothing fails.
LEMMA OrderStep == OrderInv /\ [LogNext]_logVars => OrderInv'
<1> SUFFICES ASSUME OrderInv, [LogNext]_logVars PROVE OrderInv'
  OBVIOUS
<1>1. faults' = faults
  BY DEF LogNext, LogSample, Destroy, LogCrash, logVars
<1> SUFFICES ASSUME ~ faults, NEW k \in Managers PROVE InOrder(k)'
  BY <1>1, KeptStep DEF OrderInv
<1>2. LogTypeOK /\ bad = {} /\ \A m \in Managers : InOrder(m) /\ Kept(m)
  BY DEF OrderInv, LogInv, NothingFails
<1>3. MaxBufferSize \in Nat \ {0}
  BY SizesPositive
<1>4. ASSUME NEW m \in Managers, LogSample(m) PROVE InOrder(k)'
  <2> DEFINE t == total[m] + 1
             rows == Append(buffer[m], <<m, t>>)
  <2>1. /\ bad' = bad
        /\ IF LogDue(t, Len(rows))
           THEN SaveBuffer(m, rows, bad')
           ELSE buffer' = [buffer EXCEPT ![m] = rows] /\ UNCHANGED files
    BY <1>4 DEF LogSample
  <2>2. /\ life[m] = "running" /\ total' = [total EXCEPT ![m] = t]
        /\ UNCHANGED <<logFile, life>>
        /\ total[m] \in Nat /\ t \in 1..MaxSamples
    BY <1>2, <1>4, SizesPositive DEF LogSample, LogTypeOK
  <2>3. /\ RowsOf(m) \in Seq(Samples) /\ buffer[m] \in Seq(Samples) /\ Len(buffer[m]) \in Nat
        /\ <<m, t>> \in Samples
    BY <1>2, <2>2, RowsAreSamples DEF Samples
  <2>4. RowsOf(m) \o buffer[m] = FirstSamples(m, total[m])
    BY <1>2, <2>2 DEF InOrder
  <2>5. rows \in Seq(Samples) /\ RowsOf(m) \o rows = FirstSamples(m, t)
    <3>1. rows \in Seq(Samples)
      BY <2>3, AppendProperties
    <3>2. RowsOf(m) \o rows = FirstSamples(m, t)
      BY <2>2, <2>3, <2>4, OneMoreSample, Zenon
    <3> QED BY <3>1, <3>2
  <2> HIDE DEF rows
  <2>6. AreOf(m, rows)
    <3>1. t \in Nat
      BY <2>2
    <3> HIDE DEF t
    <3> QED BY <2>3, <2>5, <3>1, PartsInOrder, Zenon
  <2>7. /\ RowsOf(m)' \o buffer'[m] = RowsOf(m) \o rows
        /\ Len(buffer'[m]) < MaxBufferSize
        /\ \A j \in Managers \ {m} : RowsOf(j)' = RowsOf(j) /\ buffer'[j] = buffer[j]
    <3>1. CASE LogDue(t, Len(rows))
      <4>1. SaveBuffer(m, rows, {})
        BY <1>2, <2>1, <3>1
      <4>2. WritesAll(m, rows)
        BY <1>2, <2>2, <2>5, <4>1, SaveWritesAll DEF WritesAll
      <4>3. /\ RowsOf(m)' \o buffer'[m] = RowsOf(m) \o rows
            /\ buffer'[m] = <<>>
            /\ \A j \in Managers \ {m} : RowsOf(j)' = RowsOf(j) /\ buffer'[j] = buffer[j]
        BY <1>2, <2>5, <2>6, <4>2, WriteKeepsOrder
      <4> QED BY <1>3, <4>3
    <3>2. CASE ~ LogDue(t, Len(rows))
      <4>1. buffer' = [buffer EXCEPT ![m] = rows] /\ UNCHANGED files
        BY <2>1, <3>2
      <4>2. buffer'[m] = rows /\ \A j \in Managers \ {m} : buffer'[j] = buffer[j]
        BY <1>2, <4>1 DEF LogTypeOK
      <4>3. \A j \in Managers : RowsOf(j)' = RowsOf(j)
        BY <2>2, <4>1 DEF RowsOf
      <4>4. Len(rows) < MaxBufferSize
        BY <1>3, <2>5, <3>2, LenProperties DEF LogDue
      <4> QED BY <4>2, <4>3, <4>4
    <3> QED BY <3>1, <3>2
  <2>8. total'[m] = t /\ \A j \in Managers \ {m} : total'[j] = total[j]
    BY <1>2, <2>2 DEF LogTypeOK
  <2>9. CASE k = m
    <3>1. /\ RowsOf(k)' \o buffer'[k] = FirstSamples(k, t)
          /\ Len(buffer'[k]) < MaxBufferSize /\ total'[k] = t /\ t \in 0..t /\ t - t = 0
      BY <2>2, <2>5, <2>7, <2>8, <2>9
    <3>2. Len(buffer'[k]) \in Nat
      BY <1>2, LogTypes, LenProperties DEF LogTypeOK
    <3> HIDE DEF t
    <3> QED BY <3>1, <3>2 DEF InOrder
  <2>10. CASE k # m
    <3>1. PICK n \in 0..total[k] :
            /\ RowsOf(k) \o buffer[k] = FirstSamples(k, n)
            /\ life[k] # "killed" => n = total[k]
            /\ (total[k] - n) + Len(buffer[k]) < MaxBufferSize
      BY <1>2 DEF InOrder
    <3>2. RowsOf(k)' = RowsOf(k) /\ buffer'[k] = buffer[k] /\ total'[k] = total[k]
      BY <2>7, <2>8, <2>10
    <3> QED BY <2>2, <3>1, <3>2 DEF InOrder
  <2> QED BY <2>9, <2>10
<1>5. ASSUME NEW m \in Managers, Destroy(m) PROVE InOrder(k)'
  <2> DEFINE rows == buffer[m]
  <2>1. PICK w \in Written(rows, {}) :
          files' = [files EXCEPT ![logFile[m]] = @ \o SubSeq(rows, 1, w)]
    BY <1>2, <1>5 DEF Destroy
  <2>2. /\ life[m] = "running" /\ life' = [life EXCEPT ![m] = "destroyed"]
        /\ buffer' = [buffer EXCEPT ![m] = <<>>] /\ UNCHANGED <<logFile, total>>
    BY <1>5 DEF Destroy
  <2>3. RowsOf(m) \in Seq(Samples) /\ rows \in Seq(Samples) /\ total[m] \in Nat
    BY <1>2, RowsAreSamples DEF LogTypeOK
  <2>4. SubSeq(rows, 1, w) = rows
    BY <2>3, AllWritten, SubSeqFull
  <2>5. RowsOf(m) \o rows = FirstSamples(m, total[m])
    BY <1>2, <2>2 DEF InOrder
  <2>6. AreOf(m, rows)
    BY <2>3, <2>5, PartsInOrder
  <2>7. WritesAll(m, rows)
    BY <1>2, <2>1, <2>2, <2>4 DEF WritesAll, LogTypeOK
  <2>8. /\ RowsOf(m)' \o buffer'[m] = RowsOf(m) \o rows
        /\ buffer'[m] = <<>>
        /\ \A j \in Managers \ {m} : RowsOf(j)' = RowsOf(j) /\ buffer'[j] = buffer[j]
    BY <1>2, <2>3, <2>6, <2>7, WriteKeepsOrder
  <2>9. CASE k = m
    <3>1. /\ RowsOf(k)' \o buffer'[k] = FirstSamples(k, total'[k])
          /\ Len(buffer'[k]) = 0 /\ total'[k] \in 0..total'[k] /\ total'[k] - total'[k] = 0
      BY <2>2, <2>3, <2>5, <2>8, <2>9
    <3> QED BY <1>3, <3>1 DEF InOrder
  <2>10. CASE k # m
    <3>1. PICK n \in 0..total[k] :
            /\ RowsOf(k) \o buffer[k] = FirstSamples(k, n)
            /\ life[k] # "killed" => n = total[k]
            /\ (total[k] - n) + Len(buffer[k]) < MaxBufferSize
      BY <1>2 DEF InOrder
    <3>2. /\ RowsOf(k)' = RowsOf(k) /\ buffer'[k] = buffer[k] /\ total'[k] = total[k]
          /\ life'[k] = life[k]
      BY <1>2, <2>2, <2>8, <2>10 DEF LogTypeOK
    <3> QED BY <3>1, <3>2 DEF InOrder
  <2> QED BY <2>9, <2>10
<1>6. CASE LogCrash
  <2>1. PICK n \in 0..total[k] :
          /\ RowsOf(k) \o buffer[k] = FirstSamples(k, n)
          /\ life[k] # "killed" => n = total[k]
          /\ (total[k] - n) + Len(buffer[k]) < MaxBufferSize
    BY <1>2 DEF InOrder
  <2>2. /\ buffer'[k] = <<>> /\ UNCHANGED <<files, logFile, total>>
        /\ life'[k] = IF life[k] = "running" THEN "killed" ELSE life[k]
    BY <1>6 DEF LogCrash
  <2>3. /\ RowsOf(k) \in Seq(Samples) /\ buffer[k] \in Seq(Samples) /\ Len(buffer[k]) \in Nat
        /\ total[k] \in Nat /\ RowsOf(k)' = RowsOf(k)
    BY <1>2, <2>2, RowsAreSamples DEF LogTypeOK, RowsOf
  <2>4. Len(buffer[k]) <= n /\ RowsOf(k) \o <<>> = FirstSamples(k, n - Len(buffer[k]))
    <3>1. n \in Nat /\ RowsOf(k) \o buffer[k] = FirstSamples(k, n)
      BY <2>1, <2>3
    <3> QED BY <2>3, <3>1, PartsInOrder, Zenon
  <2>5. life'[k] # "killed" => life[k] # "killed" /\ Len(buffer[k]) = 0
    BY <1>2, <2>2 DEF Kept
  <2>6. /\ n - Len(buffer[k]) \in 0..total'[k] /\ Len(buffer'[k]) = 0
        /\ (total'[k] - (n - Len(buffer[k]))) + Len(buffer'[k]) < MaxBufferSize
        /\ life'[k] # "killed" => n - Len(buffer[k]) = total'[k]
    <3> DEFINE L == Len(buffer[k])
               T == total[k]
               K == life[k] # "killed"
    <3>1. /\ n \in 0..T /\ T \in Nat /\ L \in Nat /\ L <= n /\ T - n + L < MaxBufferSize
          /\ K => n = T
          /\ life'[k] # "killed" => K /\ L = 0
      BY <2>1, <2>3, <2>4, <2>5
    <3>2. total'[k] = T /\ Len(buffer'[k]) = 0
      BY <2>2
    <3> HIDE DEF L, T, K
    <3>3. n - L \in 0..T /\ (T - (n - L)) + 0 < MaxBufferSize
      BY <1>3, <3>1
    <3>4. life'[k] # "killed" => n - L = T
      BY <3>1
    <3> QED BY <3>2, <3>3, <3>4 DEF L
  <2> QED BY <2>2, <2>3, <2>4, <2>6 DEF InOrder
<1>7. CASE UNCHANGED logVars
  <2>1. UNCHANGED <<files, logFile, buffer, total, life>> /\ RowsOf(k)' = RowsOf(k) /\ InOrder(k)
    BY <1>2, <1>7 DEF logVars, RowsOf
  <2> QED BY <2>1 DEF InOrder
<1> QED BY <1>4, <1>5, <1>6, <1>7 DEF LogNext

\* The log starts with no rows at all.
LEMMA OrderStarts == LogInit => OrderInv
<1> SUFFICES ASSUME LogInit, NEW m \in Managers PROVE InOrder(m)
  BY LogStarts DEF OrderInv
<1>1. files[logFile[m]] = <<>> /\ buffer[m] = <<>> /\ total[m] = 0
  BY DEF LogInit
<1>2. PICK f : SelectsUpTo(f, m, <<>>) /\ Selected(m, <<>>) = f[Len(<<>>)]
  BY EmptySeq, SelectedIsLast
<1>3. RowsOf(m) = <<>>
  BY <1>1, <1>2 DEF SelectsUpTo, RowsOf
<1>4. RowsOf(m) \o buffer[m] = FirstSamples(m, 0) /\ 0 \in 0..total[m]
  BY <1>1, <1>3 DEF FirstSamples
<1>5. (total[m] - 0) + Len(buffer[m]) < MaxBufferSize
  BY <1>1, SizesPositive
<1> QED BY <1>1, <1>4, <1>5 DEF InOrder

\* As long as no write fails, each manager's rows are its samples, once and in order, those
\* in its file before those in its buffer, whatever the order in which the managers log and
\* save, to one file or to two; a kill of the driver costs the last ones, fewer than
\* max_buffer_size (log_sample, save_data_buffer).
THEOREM LogInOrder == LogSpec => []RowsInOrder
<1>1. OrderInv /\ [LogNext]_logVars => OrderInv'
  BY OrderStep
<1>2. OrderInv => RowsInOrder
  <2> SUFFICES ASSUME OrderInv, ~ faults, NEW m \in Managers
               PROVE  \E n \in 0..total[m] :
                        /\ RowsOf(m) \o buffer[m] = [i \in 1..n |-> <<m, i>>]
                        /\ life[m] # "killed" => n = total[m]
                        /\ total[m] - n < MaxBufferSize
    BY DEF RowsInOrder
  <2>1. PICK n \in 0..total[m] :
          /\ RowsOf(m) \o buffer[m] = FirstSamples(m, n)
          /\ life[m] # "killed" => n = total[m]
          /\ (total[m] - n) + Len(buffer[m]) < MaxBufferSize
    BY DEF OrderInv, InOrder
  <2>2. Len(buffer[m]) \in Nat /\ total[m] \in Nat /\ MaxBufferSize \in Nat
    BY RowsAreSamples, SizesPositive DEF OrderInv, LogInv, LogTypeOK
  <2>3. total[m] - n < MaxBufferSize
    <3> DEFINE L == Len(buffer[m])
               T == total[m]
    <3>1. L \in Nat /\ T \in Nat /\ n \in 0..T /\ (T - n) + L < MaxBufferSize
      BY <2>1, <2>2
    <3> HIDE DEF L, T
    <3>2. T - n < MaxBufferSize
      BY <2>2, <3>1
    <3> QED BY <3>2 DEF T
  <2> QED BY <2>1, <2>3 DEF FirstSamples
<1> QED BY <1>1, <1>2, OrderStarts, PTL DEF LogSpec

(* The manager that scores in a pool. *)

\* The manager of a call is one of the run's: it is chosen by main_task and given a
\* batch by the trainer.
ManagerKnown == manager \in Managers

\* Every call is of a known manager.
LEMMA ManagerStays ==
  /\ RewardInit => ManagerKnown
  /\ ManagerKnown /\ [RewardNext]_rewardVars => ManagerKnown'
<1>1. RewardInit => ManagerKnown
  BY ManagersGiven DEF RewardInit, ManagerKnown
<1>2. ASSUME ManagerKnown, [RewardNext]_rewardVars PROVE ManagerKnown'
  <2>1. ASSUME NEW c \in Completions,
               StartJob(c) \/ CheckStep(c) \/ JoinStep(c) \/ EndJob(c) \/ ProcessDies(c)
        PROVE  ManagerKnown'
    BY <1>2, <2>1 DEF StartJob, CheckStep, JoinStep, EndJob, ProcessDies, ManagerKnown,
         callVars, poolVars
  <2>2. CASE Loop
    BY <1>2, <2>2 DEF Loop, Timeout, Gather, KillProcesses, Close, Score, LogRow, Return,
         ManagerKnown, callVars
  <2>3. CASE Interrupt \/ InterruptClose
    BY <1>2, <2>3 DEF Interrupt, InterruptClose, ManagerKnown, callVars
  <2>4. ASSUME NEW m \in Managers, Call(m) \/ EndRun(m) PROVE ManagerKnown'
    BY <1>2, <2>4 DEF Call, EndRun, ManagerKnown, callVars
  <2>5. CASE Killed
    BY <1>2, <2>5 DEF Killed, ManagerKnown, callVars
  <2>6. CASE UNCHANGED rewardVars
    BY <1>2, <2>6 DEF rewardVars, poolVars, ManagerKnown
  <2> QED BY <1>2, <2>1, <2>2, <2>3, <2>4, <2>5, <2>6 DEF RewardNext
<1> QED BY <1>1, <1>2

\* Every step of a run is a step of the log or none: scoring, its failures and the
\* processes' deaths leave the log alone.
LEMMA StepsAreLogSteps == ManagerKnown /\ [RewardNext]_rewardVars => [LogNext]_logVars
<1> SUFFICES ASSUME ManagerKnown, [RewardNext]_rewardVars PROVE [LogNext]_logVars
  OBVIOUS
<1>1. ASSUME NEW c \in Completions,
             StartJob(c) \/ CheckStep(c) \/ JoinStep(c) \/ EndJob(c) \/ ProcessDies(c)
      PROVE  UNCHANGED logVars
  BY <1>1 DEF StartJob, CheckStep, JoinStep, EndJob, ProcessDies
<1>2. CASE Timeout \/ Gather \/ KillProcesses \/ Close \/ Score \/ Return
  BY <1>2 DEF Timeout, Gather, KillProcesses, Close, Score, Return
<1>3. CASE LogRow
  BY <1>3 DEF LogRow, ManagerKnown, LogNext
<1>4. CASE Interrupt \/ InterruptClose
  BY <1>4 DEF Interrupt, InterruptClose
<1>5. ASSUME NEW m \in Managers, Call(m) PROVE UNCHANGED logVars
  BY <1>5 DEF Call
<1>6. ASSUME NEW m \in Managers, EndRun(m) PROVE LogNext
  BY <1>6 DEF EndRun, LogNext
<1>7. CASE Killed
  BY <1>7 DEF Killed, LogNext
<1>8. CASE UNCHANGED rewardVars
  BY <1>8 DEF rewardVars
<1> QED BY <1>1, <1>2, <1>3, <1>4, <1>5, <1>6, <1>7, <1>8 DEF RewardNext, Loop

\* A run of the reward managers is a behaviour of their log.
THEOREM ImplementsLog == RewardSpec => LogSpec
<1>1. RewardInit => LogInit
  BY DEF RewardInit
<1> QED BY <1>1, ManagerStays, StepsAreLogSteps, PTL DEF RewardSpec, LogSpec

\* In a run of the reward managers only the end of a manager's rows can be missing, and none
\* as long as it lives, whatever scoring, its processes and the file do.
THEOREM RowsAreKept == RewardSpec => []OnlyTheEndIsLost
  BY ImplementsLog, LogKeepsAll, PTL

\* In a run of the reward managers in which nothing fails the rows stay in the order in
\* which they were logged.
THEOREM RowsStayInOrder == RewardSpec => []RowsInOrder
  BY ImplementsLog, LogInOrder, PTL

-----------------------------------------------------------------------------
(* The scores. *)

\* Every variable of compute_score and of its checks keeps its type.
ScoringTypes ==
  /\ scoring \in [Completions -> {"no", "checking", "over"}]
  /\ check \in [Completions -> 0..Sampled]
  /\ child \in [Completions -> ChildStates]
  /\ seen \in [Completions -> Seq(BOOLEAN)]
  /\ result \in [Completions -> Seq(BOOLEAN)]
  /\ described \in [Completions -> BOOLEAN]
  /\ resList \in [Completions -> Seq(BOOLEAN)]
  /\ score \in [Completions -> {"unset", "full", "part", "none"}]
  /\ passed \in [Completions -> SUBSET Nat]

\* The test that the i-th result of the k-th check is about.
TestOf(k, i) == IF k = 0 THEN i ELSE k

\* The results speak of all tests of their check, or the last of them is a failure.
Complete(results, k) ==
  /\ results # <<>>
  /\ Len(results) = NumTests(k) \/ \E i \in DOMAIN results : ~results[i]

\* What is known of the results of one completion, wherever its scoring is.
Known(c) ==
  /\ scoring[c] # "checking" =>
       check[c] = 0 /\ seen[c] = <<>> /\ result[c] = <<>> /\ resList[c] = <<>> /\ ~Alive(c)
  /\ Len(seen[c]) <= NumTests(check[c])
  /\ child[c] = "testing" => Len(seen[c]) < NumTests(check[c])
  /\ child[c] = "answers" => Complete(seen[c], check[c])
  /\ result[c] # <<>> => result[c] = seen[c] /\ Complete(seen[c], check[c]) /\ child[c] # "testing"
  /\ Len(resList[c]) = (IF check[c] = 0 THEN 0 ELSE check[c] - 1)

\* What is known of the tests that passed: a result is true only of a test that passed.
Earned(c) ==
  /\ \A i \in DOMAIN seen[c] : seen[c][i] => TestOf(check[c], i) \in passed[c]
  /\ \A i \in DOMAIN resList[c] : resList[c][i] => i \in passed[c]
  /\ score[c] = "full" => 1..Sampled \subseteq passed[c]
  /\ scoring[c] = "over" => score[c] \in Numbers

ScoringInv == ScoringTypes /\ \A c \in Completions : Known(c) /\ Earned(c)

\* The tests that are checked alone are among the tests, and there is one.
LEMMA SampledBounds == Sampled \in Nat /\ 1 <= Sampled /\ Sampled <= Tests /\ Tests \in Nat
  BY TestsPositive DEF Sampled

\* A function on 1..n is a sequence.
LEMMA FunctionIsSequence ==
  ASSUME NEW S, NEW n \in Nat, NEW f \in [1..n -> S]
  PROVE  f \in Seq(S)
  BY SeqDef

\* A step of one completion's scoring.
ScoringStep(c) == Begin(c) \/ ChildStep(c) \/ Join(c) \/ Leave(c)

\* A completion's step leaves the others' scoring alone.
LEMMA OthersStay ==
  ASSUME ScoringTypes, NEW c \in Completions, ScoringStep(c), NEW d \in Completions, d # c
  PROVE  /\ scoring'[d] = scoring[d] /\ check'[d] = check[d] /\ child'[d] = child[d]
         /\ seen'[d] = seen[d] /\ result'[d] = result[d] /\ resList'[d] = resList[d]
         /\ score'[d] = score[d] /\ passed'[d] = passed[d]
<1>1. CASE Begin(c)
  BY <1>1 DEF Begin, ScoringTypes
<1>2. CASE ChildStep(c)
  BY <1>2 DEF ChildStep, CompileFails, RunTest, Exits, AppendResult, AppendMetadata, ScoringTypes
<1>3. CASE Join(c)
  BY <1>3 DEF Join, EndCheck, ScoringTypes
<1>4. CASE Leave(c)
  BY <1>4 DEF Leave, ScoringTypes
<1> QED BY <1>1, <1>2, <1>3, <1>4 DEF ScoringStep

\* What the process of a check does keeps what is known of its completion.
LEMMA ChildKeeps ==
  ASSUME ScoringInv, NEW c \in Completions, scoring[c] = "checking", ChildStep(c)
  PROVE  ScoringTypes' /\ Known(c)' /\ Earned(c)'
<1> USE DEF ScoringInv, ScoringTypes, ChildStates
<1>0. seen[c] \in Seq(BOOLEAN) /\ resList[c] \in Seq(BOOLEAN) /\ check[c] \in 0..Sampled
  OBVIOUS
<1>1. CASE CompileFails(c)
  <2>1. /\ seen'[c] = <<FALSE>> /\ child'[c] = "answers"
        /\ UNCHANGED <<scoring, check, result, described, resList, score, passed>>
        /\ seen[c] = <<>> /\ child[c] = "testing"
    BY <1>1 DEF CompileFails
  <2>2. ScoringTypes'
    BY <1>1 DEF CompileFails
  <2>3. Len(seen'[c]) = 1 /\ 1 \in DOMAIN seen'[c] /\ ~seen'[c][1] /\ seen'[c] # <<>>
    BY <2>1
  <2>4. 1 <= NumTests(check[c])
    BY SampledBounds DEF NumTests
  <2>5. Known(c)'
    BY <2>1, <2>3, <2>4, <1>0 DEF Known, Complete
  <2>6. \A i \in DOMAIN seen'[c] : ~seen'[c][i]
    <3>1. DOMAIN seen'[c] = 1..1
      BY <2>1
    <3>2. \A i \in 1..1 : i = 1
      OBVIOUS
    <3> QED BY <2>3, <3>1, <3>2
  <2>7. Earned(c)'
    BY <2>1, <2>6 DEF Earned
  <2> QED BY <2>2, <2>5, <2>7
<1>2. CASE RunTest(c)
  <2>1. PICK pass \in BOOLEAN :
          LET results == Append(seen[c], pass)
              test == IF check[c] = 0 THEN Len(results) ELSE check[c]
          IN  /\ seen' = [seen EXCEPT ![c] = results]
              /\ passed' = [passed EXCEPT ![c] = IF pass THEN @ \cup {test} ELSE @]
              /\ child' = [child EXCEPT ![c] =
                   IF pass /\ Len(results) < NumTests(check[c]) THEN "testing" ELSE "answers"]
    BY <1>2 DEF RunTest, Verdicts
  <2> DEFINE results == Append(seen[c], pass)
             n == Len(seen[c])
             test == TestOf(check[c], n + 1)
  <2>2. /\ results \in Seq(BOOLEAN) /\ Len(results) = n + 1 /\ n \in Nat
        /\ results[n + 1] = pass /\ n + 1 \in DOMAIN results
        /\ \A i \in DOMAIN results : i # n + 1 => i \in DOMAIN seen[c] /\ results[i] = seen[c][i]
    BY <1>0, AppendProperties
  <2>3. /\ seen'[c] = results
        /\ passed'[c] = IF pass THEN passed[c] \cup {test} ELSE passed[c]
        /\ child'[c] = IF pass /\ n + 1 < NumTests(check[c]) THEN "testing" ELSE "answers"
        /\ UNCHANGED <<scoring, check, result, described, resList, score>>
        /\ child[c] = "testing"
    BY <1>2, <2>1, <2>2 DEF RunTest, TestOf
  <2>4. test \in Nat
    BY <2>2, <1>0, SampledBounds DEF TestOf
  <2>5. ScoringTypes'
    <3>1. seen' \in [Completions -> Seq(BOOLEAN)] /\ child' \in [Completions -> ChildStates]
      BY <2>1, <2>2
    <3>2. passed' \in [Completions -> SUBSET Nat]
      BY <2>1, <2>2, <2>4 DEF TestOf
    <3> QED BY <3>1, <3>2, <2>3
  <2>6. n + 1 <= NumTests(check[c])
    <3>1. n < NumTests(check[c]) /\ NumTests(check[c]) \in Nat
      BY <2>3, SampledBounds DEF Known, NumTests
    <3> QED BY <3>1, <2>2
  <2>7. child'[c] = "answers" => Complete(results, check[c])
    <3> HIDE DEF results
    <3>1. results # <<>>
      BY <2>2
    <3>2. CASE pass
      <4>1. child'[c] = "answers" => ~ (n + 1 < NumTests(check[c]))
        BY <2>3, <3>2
      <4>2. NumTests(check[c]) \in Nat
        BY SampledBounds DEF NumTests
      <4>3. child'[c] = "answers" => n + 1 = NumTests(check[c])
        BY <2>2, <2>6, <4>1, <4>2
      <4> QED BY <2>2, <3>1, <4>3 DEF Complete
    <3>3. CASE ~pass
      <4>1. ~results[n + 1]
        BY <2>2, <3>3
      <4> QED BY <2>2, <3>1, <4>1 DEF Complete
    <3> QED BY <3>2, <3>3
  <2>8. result[c] = <<>>
    BY <2>3 DEF Known
  <2>9. Known(c)'
    <3>1. child'[c] = "testing" => n + 1 < NumTests(check[c])
      BY <2>3
    <3> HIDE DEF results
    <3> QED BY <2>2, <2>3, <2>6, <2>7, <2>8, <3>1 DEF Known
  <2>10. Earned(c)'
    <3>1. passed[c] \subseteq passed'[c] /\ (pass => test \in passed'[c])
      BY <2>3
    <3>2. ASSUME NEW i \in DOMAIN results, results[i] PROVE TestOf(check[c], i) \in passed'[c]
      <4>1. CASE i = n + 1
        BY <2>2, <3>1, <3>2, <4>1
      <4>2. CASE i # n + 1
        BY <2>2, <3>1, <3>2, <4>2 DEF Earned
      <4> QED BY <4>1, <4>2
    <3> HIDE DEF results
    <3> QED BY <2>3, <3>1, <3>2 DEF Earned
  <2> QED BY <2>5, <2>9, <2>10
<1>3. CASE Exits(c)
  BY <1>3 DEF Exits, Known, Earned, Alive
<1>4. CASE AppendResult(c)
  <2>1. ScoringTypes'
    BY <1>4 DEF AppendResult
  <2>2. /\ result'[c] = seen[c] /\ child'[c] = "describes" /\ child[c] = "answers"
        /\ UNCHANGED <<scoring, check, seen, resList, score, passed>>
    BY <1>4 DEF AppendResult
  <2>3. Known(c)' /\ Earned(c)'
    BY <2>2 DEF Known, Earned
  <2> QED BY <2>1, <2>3
<1>5. CASE AppendMetadata(c)
  BY <1>5 DEF AppendMetadata, Known, Earned, Alive
<1> QED BY <1>1, <1>2, <1>3, <1>4, <1>5 DEF ChildStep

\* The end of a check keeps what is known, and a full score is earned.
LEMMA JoinKeeps ==
  ASSUME ScoringInv, NEW c \in Completions, Join(c)
  PROVE  ScoringTypes' /\ Known(c)' /\ Earned(c)'
<1> USE DEF ScoringInv, ScoringTypes, ChildStates
<1> DEFINE reported == Reported(c)
           whole == check[c] = 0 /\ described[c] /\ \A i \in DOMAIN reported : reported[i]
           list == IF check[c] = 0 THEN <<>> ELSE resList[c] \o reported
           over == whole \/ check[c] = Sampled
<1>1. /\ scoring[c] = "checking"
      /\ scoring' = [scoring EXCEPT ![c] = IF over THEN "over" ELSE @]
      /\ score' = [score EXCEPT ![c] =
           IF whole THEN "full" ELSE IF over THEN Share(list) ELSE @]
      /\ check' = [check EXCEPT ![c] = IF over THEN 0 ELSE @ + 1]
      /\ child' = [child EXCEPT ![c] = IF over THEN "gone" ELSE "testing"]
      /\ resList' = [resList EXCEPT ![c] = IF over THEN <<>> ELSE list]
      /\ seen' = [seen EXCEPT ![c] = <<>>]
      /\ result' = [result EXCEPT ![c] = <<>>]
      /\ described' = [described EXCEPT ![c] = FALSE]
      /\ passed' = passed
  BY DEF Join, EndCheck
<1>2. /\ seen[c] \in Seq(BOOLEAN) /\ result[c] \in Seq(BOOLEAN) /\ resList[c] \in Seq(BOOLEAN)
      /\ check[c] \in 0..Sampled
  OBVIOUS
<1>3. /\ reported \in Seq(BOOLEAN)
      /\ 1 <= Len(reported) /\ Len(reported) <= NumTests(check[c])
      /\ \A i \in DOMAIN reported : reported[i] => TestOf(check[c], i) \in passed[c]
      /\ (\A i \in DOMAIN reported : reported[i]) => Len(reported) = NumTests(check[c])
  <2>1. NumTests(check[c]) \in Nat /\ 1 <= NumTests(check[c])
    BY SampledBounds DEF NumTests
  <2>2. CASE result[c] = <<>>
    <3>1. reported = [i \in 1..NumTests(check[c]) |-> FALSE]
      BY <2>2 DEF Reported
    <3> HIDE DEF reported
    <3>2. reported \in Seq(BOOLEAN) /\ Len(reported) = NumTests(check[c])
      <4>1. reported \in [1..NumTests(check[c]) -> BOOLEAN]
        BY <3>1
      <4>2. reported \in Seq(BOOLEAN)
        BY <2>1, <4>1, FunctionIsSequence
      <4> QED BY <2>1, <4>1, <4>2, LenProperties
    <3>3. \A i \in DOMAIN reported : ~reported[i]
      BY <3>1
    <3> QED BY <2>1, <3>2, <3>3
  <2>3. CASE result[c] # <<>>
    <3>1. reported = seen[c] /\ Complete(seen[c], check[c])
      BY <2>3 DEF Reported, Known
    <3> HIDE DEF reported
    <3>2. Len(seen[c]) <= NumTests(check[c]) /\ seen[c] # <<>>
      BY <3>1 DEF Known, Complete
    <3>3. 1 <= Len(seen[c])
      BY <1>2, <3>2, EmptySeq
    <3>4. \A i \in DOMAIN seen[c] : seen[c][i] => TestOf(check[c], i) \in passed[c]
      BY DEF Earned
    <3>5. (\A i \in DOMAIN seen[c] : seen[c][i]) => Len(seen[c]) = NumTests(check[c])
      BY <3>1 DEF Complete
    <3> QED BY <1>2, <3>1, <3>2, <3>3, <3>4, <3>5
  <2> QED BY <2>2, <2>3
<1> HIDE DEF reported
<1>4. /\ list \in Seq(BOOLEAN)
      /\ Len(list) = check[c]
      /\ \A i \in DOMAIN list : list[i] => i \in passed[c]
  <2>1. CASE check[c] = 0
    BY <2>1
  <2>2. CASE check[c] # 0
    <3>1. Len(resList[c]) = check[c] - 1 /\ Len(reported) = 1 /\ check[c] \in Nat
      <4>1. Len(resList[c]) = (IF check[c] = 0 THEN 0 ELSE check[c] - 1)
        BY DEF Known
      <4>2. NumTests(check[c]) = 1
        BY <2>2 DEF NumTests
      <4>3. Len(reported) \in Nat /\ 1 <= Len(reported) /\ Len(reported) <= 1
        BY <1>3, <4>2
      <4>4. check[c] \in Nat
        BY <1>2, SampledBounds
      <4>5. \A n \in Nat : 1 <= n /\ n <= 1 => n = 1
        OBVIOUS
      <4>6. Len(reported) = 1
        BY <4>3, <4>5, Zenon
      <4> QED BY <2>2, <4>1, <4>4, <4>6
    <3>2. /\ list = resList[c] \o reported
          /\ list \in Seq(BOOLEAN) /\ Len(list) = check[c]
          /\ \A i \in 1..(check[c] - 1) : list[i] = resList[c][i]
          /\ list[check[c]] = reported[1]
      <4>1. list = resList[c] \o reported
        BY <2>2
      <4>2. /\ resList[c] \o reported \in Seq(BOOLEAN)
            /\ Len(resList[c] \o reported) = Len(resList[c]) + Len(reported)
            /\ \A i \in 1..(Len(resList[c]) + Len(reported)) :
                 (resList[c] \o reported)[i] = IF i <= Len(resList[c]) THEN resList[c][i]
                                               ELSE reported[i - Len(resList[c])]
        BY <1>2, <1>3, ConcatProperties
      <4> HIDE DEF list
      <4>3. Len(list) = check[c]
        BY <3>1, <4>1, <4>2
      <4>4. \A i \in 1..(check[c] - 1) : list[i] = resList[c][i]
        BY <3>1, <4>1, <4>2
      <4>5. list[check[c]] = reported[1]
        <5>1. /\ check[c] \in 1..(Len(resList[c]) + Len(reported))
              /\ ~ (check[c] <= Len(resList[c])) /\ check[c] - Len(resList[c]) = 1
          BY <2>2, <3>1
        <5> QED BY <4>1, <4>2, <5>1
      <4> QED BY <4>1, <4>2, <4>3, <4>4, <4>5
    <3> HIDE DEF list
    <3>3. ASSUME NEW i \in DOMAIN list, list[i] PROVE i \in passed[c]
      <4>1. i \in 1..check[c]
        BY <3>2, <3>3
      <4>2. CASE i = check[c]
        BY <1>3, <2>2, <3>1, <3>2, <3>3, <4>2 DEF TestOf
      <4>3. CASE i # check[c]
        BY <1>2, <3>1, <3>2, <3>3, <4>1, <4>3 DEF Earned
      <4> QED BY <4>2, <4>3
    <3> QED BY <3>2, <3>3
  <2> QED BY <2>1, <2>2
<1>5. whole => 1..Sampled \subseteq passed[c]
  <2> SUFFICES ASSUME whole, NEW i \in 1..Sampled PROVE i \in passed[c]
    OBVIOUS
  <2>1. Len(reported) = Tests
    BY <1>3 DEF NumTests
  <2>2. i \in DOMAIN reported /\ TestOf(check[c], i) = i
    BY <1>3, <2>1, SampledBounds DEF TestOf
  <2> QED BY <1>3, <2>2
<1>6. check[c] = Sampled /\ Share(list) = "full" => 1..Sampled \subseteq passed[c]
  <2> SUFFICES ASSUME check[c] = Sampled, Share(list) = "full", NEW i \in 1..Sampled
               PROVE  i \in passed[c]
    OBVIOUS
  <2>1. \A j \in DOMAIN list : list[j]
    BY DEF Share
  <2>2. i \in DOMAIN list
    BY <1>4
  <2> QED BY <1>4, <2>1, <2>2
<1>7. Share(list) \in {"full", "part", "none"}
  BY DEF Share
<1>8. /\ check'[c] = IF over THEN 0 ELSE check[c] + 1
      /\ check'[c] \in 0..Sampled
  BY <1>1, <1>2, SampledBounds
<1> HIDE DEF list, whole
<1>9. ScoringTypes'
  <2>1. resList' \in [Completions -> Seq(BOOLEAN)] /\ check' \in [Completions -> 0..Sampled]
    <3>1. (IF over THEN <<>> ELSE list) \in Seq(BOOLEAN)
      BY <1>4, EmptySeq
    <3>2. (IF over THEN 0 ELSE check[c] + 1) \in 0..Sampled
      BY <1>8
    <3> HIDE DEF over
    <3> QED BY <1>1, <3>1, <3>2
  <2>2. score' \in [Completions -> {"unset", "full", "part", "none"}]
    BY <1>1, <1>7
  <2> QED BY <1>1, <2>1, <2>2
<1>10. Known(c)'
  <2>1. seen'[c] = <<>> /\ result'[c] = <<>> /\ child'[c] \in {"gone", "testing"}
    BY <1>1
  <2>2. NumTests(check'[c]) \in Nat /\ 1 <= NumTests(check'[c])
    BY SampledBounds DEF NumTests
  <2>3. Len(resList'[c]) = (IF check'[c] = 0 THEN 0 ELSE check'[c] - 1)
    BY <1>1, <1>2, <1>4, <1>8
  <2>4. scoring'[c] # "checking" =>
          check'[c] = 0 /\ resList'[c] = <<>> /\ child'[c] = "gone"
    BY <1>1
  <2> QED BY <2>1, <2>2, <2>3, <2>4 DEF Known, Alive
<1>11. Earned(c)'
  <2>1. seen'[c] = <<>> /\ passed' = passed
    BY <1>1
  <2>2. \A i \in DOMAIN resList'[c] : resList'[c][i] => i \in passed[c]
    BY <1>1, <1>4
  <2>3. score'[c] = "full" => 1..Sampled \subseteq passed[c]
    BY <1>1, <1>5, <1>6 DEF Earned
  <2>4. scoring'[c] = "over" => score'[c] \in Numbers
    BY <1>1, <1>7 DEF Numbers
  <2> QED BY <2>1, <2>2, <2>3, <2>4 DEF Earned
<1> QED BY <1>9, <1>10, <1>11

\* A completion's scoring keeps what is known of all completions.
LEMMA ScoringStepKeeps ==
  ASSUME ScoringInv, NEW c \in Completions, ScoringStep(c), ChildStep(c) => scoring[c] = "checking"
  PROVE  ScoringInv'
<1>1. ScoringTypes' /\ Known(c)' /\ Earned(c)'
  <2>1. CASE Begin(c)
    <3>1. seen[c] = <<>> /\ result[c] = <<>> /\ resList[c] = <<>> /\ check[c] = 0
      BY <2>1 DEF Begin, ScoringInv, Known
    <3>2. 0 < NumTests(check[c])
      BY SampledBounds, <3>1 DEF NumTests
    <3>3. ScoringTypes'
      BY <2>1 DEF Begin, ScoringInv, ScoringTypes, ChildStates
    <3>4. /\ scoring'[c] = "checking" /\ child'[c] = "testing"
          /\ UNCHANGED <<check, seen, result, described, resList, score, passed>>
      BY <2>1 DEF Begin, ScoringInv, ScoringTypes
    <3>5. Known(c)'
      BY <3>1, <3>2, <3>4 DEF Known, NumTests, ScoringInv
    <3>6. Earned(c)'
      BY <3>4 DEF Earned, ScoringInv
    <3> QED BY <3>3, <3>5, <3>6
  <2>2. CASE ChildStep(c)
    BY <2>2, ChildKeeps
  <2>3. CASE Join(c)
    BY <2>3, JoinKeeps
  <2>4. CASE Leave(c)
    <3>1. seen[c] = <<>> /\ result[c] = <<>> /\ resList[c] = <<>> /\ check[c] = 0 /\ ~Alive(c)
      BY <2>4 DEF Leave, ScoringInv, Known
    <3>2. ScoringTypes'
      BY <2>4 DEF Leave, ScoringInv, ScoringTypes, ChildStates
    <3>3. /\ scoring'[c] = "no" /\ child'[c] = "none" /\ score'[c] = "unset"
          /\ UNCHANGED <<check, seen, result, described, resList>>
      BY <2>4, <3>1 DEF Leave, ScoringInv, ScoringTypes
    <3>4. Known(c)'
      BY <3>1, <3>3 DEF Known, Alive, ScoringInv
    <3>5. Earned(c)'
      BY <3>1, <3>3 DEF Earned
    <3> QED BY <3>2, <3>4, <3>5
  <2> QED BY <2>1, <2>2, <2>3, <2>4 DEF ScoringStep
<1>2. ASSUME NEW d \in Completions, d # c PROVE Known(d)' /\ Earned(d)'
  BY <1>2, OthersStay DEF ScoringInv, Known, Earned, Alive
<1> QED BY <1>1, <1>2 DEF ScoringInv

\* Before a call scores anything, everything that is known holds.
LEMMA ScoringStarts == ScoringInit => ScoringInv
<1> SUFFICES ASSUME ScoringInit PROVE ScoringInv
  OBVIOUS
<1>1. ScoringTypes
  BY SampledBounds DEF ScoringInit, ScoringTypes, ChildStates
<1>2. ASSUME NEW c \in Completions PROVE Known(c) /\ Earned(c)
  BY <1>2, SampledBounds DEF ScoringInit, Known, Earned, Alive, NumTests
<1> QED BY <1>1, <1>2 DEF ScoringInv

\* What every step of a run does to the scoring of its completions: one of them goes on,
\* all are forgotten with their call, or nothing happens.
LEMMA StepsOfScoring ==
  ASSUME ScoringInv, [RewardNext]_rewardVars
  PROVE  \/ \E c \in Completions :
              ScoringStep(c) /\ (ChildStep(c) => scoring[c] = "checking")
         \/ ScoringInit'
         \/ UNCHANGED scoringVars
<1>1. ASSUME NEW c \in Completions, ChildStep(c) PROVE scoring[c] = "checking"
  <2>1. Alive(c)
    BY <1>1 DEF ChildStep, CompileFails, RunTest, Exits, AppendResult, AppendMetadata, Alive
  <2> QED BY <2>1 DEF ScoringInv, Known
<1>2. Forget => ScoringInit'
  BY DEF Forget, ScoringInit
<1>3. ASSUME NEW c \in Completions,
             StartJob(c) \/ CheckStep(c) \/ JoinStep(c) \/ EndJob(c) \/ ProcessDies(c)
      PROVE  ScoringStep(c) \/ UNCHANGED scoringVars
  BY <1>3 DEF StartJob, CheckStep, JoinStep, EndJob, ProcessDies, ScoringStep
<1>4. CASE Loop
  BY <1>2, <1>4 DEF Loop, Timeout, Gather, KillProcesses, Close, Score, LogRow, Return
<1>5. CASE Interrupt \/ InterruptClose
  BY <1>5 DEF Interrupt, InterruptClose
<1>6. ASSUME NEW m \in Managers, Call(m) \/ EndRun(m)
      PROVE  ScoringInit' \/ UNCHANGED scoringVars
  BY <1>2, <1>6 DEF Call, EndRun
<1>7. CASE Killed
  BY <1>2, <1>7 DEF Killed
<1>8. CASE UNCHANGED rewardVars
  BY <1>8 DEF rewardVars
<1> QED BY <1>1, <1>3, <1>4, <1>5, <1>6, <1>7, <1>8 DEF RewardNext

\* What is known holds from step to step.
LEMMA ScoringInvStep == ScoringInv /\ [RewardNext]_rewardVars => ScoringInv'
<1> SUFFICES ASSUME ScoringInv, [RewardNext]_rewardVars PROVE ScoringInv'
  OBVIOUS
<1>1. ASSUME NEW c \in Completions, ScoringStep(c), ChildStep(c) => scoring[c] = "checking"
      PROVE  ScoringInv'
  BY <1>1, ScoringStepKeeps
<1>2. CASE ScoringInit'
  <2>1. ScoringTypes'
    BY <1>2, SampledBounds DEF ScoringInit, ScoringTypes, ChildStates
  <2>2. ASSUME NEW c \in Completions PROVE Known(c)' /\ Earned(c)'
    BY <1>2, <2>2, SampledBounds DEF ScoringInit, Known, Earned, Alive, NumTests
  <2> QED BY <2>1, <2>2 DEF ScoringInv
<1>3. CASE UNCHANGED scoringVars
  BY <1>3 DEF scoringVars, ScoringInv, ScoringTypes, Known, Earned, Alive, Complete
<1> QED BY <1>1, <1>2, <1>3, StepsOfScoring

(* The scores of a call. *)

\* Jobs and answers keep their types.
PoolTypes == job \in [Completions -> Jobs] /\ answer \in [Completions -> Answers]

\* An answer that is not a number has its cause; nothing is scored before all answers are
\* there, and nothing is left of a call when the next begins.
AnswersHaveCauses ==
  /\ \A c \in Completions :
       /\ answer[c] = "odd" => kind[c] = "odd"
       /\ answer[c] = "None" /\ kind[c] = "tests" => late \/ job[c] = "lost"
  /\ caller \in {"closing", "scoring"} => Gathered
  /\ caller = "idle" =>
       \A c \in Completions : job[c] = "none" /\ answer[c] = "waiting" /\ scores[c] # "zero"

PoolInv == PoolTypes /\ AnswersHaveCauses /\ ZeroHasACause

\* A step of the executor keeps the causes.
LEMMA ExecutorKeeps ==
  ASSUME PoolInv, ScoringInv, NEW c \in Completions,
         StartJob(c) \/ CheckStep(c) \/ JoinStep(c) \/ EndJob(c) \/ ProcessDies(c)
  PROVE  PoolInv'
<1> USE DEF PoolInv, PoolTypes, Jobs, Answers, Numbers
<1>1. CASE StartJob(c)
  BY <1>1 DEF StartJob, AnswersHaveCauses, ZeroHasACause, Gathered, callVars
<1>2. CASE CheckStep(c) \/ JoinStep(c)
  BY <1>2 DEF CheckStep, JoinStep, poolVars, AnswersHaveCauses, ZeroHasACause, Gathered
<1>3. CASE EndJob(c)
  <2>1. AnswerOf(c) \in {"odd", "None"} \cup Numbers
    BY <1>3 DEF EndJob, AnswerOf, Leave, ScoringInv, Earned
  <2>2. /\ AnswerOf(c) = "odd" => kind[c] = "odd"
        /\ kind[c] = "tests" => AnswerOf(c) # "None"
    BY <1>3 DEF EndJob, AnswerOf, Leave, ScoringInv, Earned
  <2>3. /\ job[c] = "running"
        /\ job' = [job EXCEPT ![c] = "over"]
        /\ answer' = IF answer[c] = "waiting" THEN [answer EXCEPT ![c] = AnswerOf(c)] ELSE answer
        /\ UNCHANGED <<kind, late, caller, scores>>
    BY <1>3 DEF EndJob
  <2>4. PoolTypes'
    BY <2>1, <2>3
  <2>5. \A d \in Completions : job[d] = "lost" => job'[d] = "lost"
    BY <2>3
  <2>6. caller # "idle"
    BY <2>3 DEF AnswersHaveCauses
  <2>7. AnswersHaveCauses'
    BY <2>1, <2>2, <2>3, <2>5, <2>6 DEF AnswersHaveCauses, Gathered
  <2>8. ZeroHasACause'
    BY <2>3, <2>5 DEF ZeroHasACause
  <2> QED BY <2>4, <2>7, <2>8
<1>4. CASE ProcessDies(c)
  <2>1. /\ job[c] = "running"
        /\ job' = [d \in Completions |->
                     IF job[d] \in {"queued", "running"} THEN "lost" ELSE job[d]]
        /\ answer' = [d \in Completions |->
                        IF answer[d] = "waiting" /\ job[d] \in {"queued", "running"}
                        THEN "None" ELSE answer[d]]
        /\ UNCHANGED <<kind, late, caller, scores>>
    BY <1>4 DEF ProcessDies
  <2>2. PoolTypes'
    BY <2>1
  <2>3. caller # "idle"
    BY <2>1 DEF AnswersHaveCauses
  <2>4. AnswersHaveCauses'
    BY <2>1, <2>3 DEF AnswersHaveCauses, Gathered
  <2>5. ZeroHasACause'
    BY <2>1 DEF ZeroHasACause
  <2> QED BY <2>2, <2>4, <2>5
<1> QED BY <1>1, <1>2, <1>3, <1>4

\* A step of the event loop, of the trainer or of the run's end keeps the causes.
LEMMA CallerKeeps ==
  ASSUME PoolInv, ScoringInv,
         Loop \/ Interrupt \/ InterruptClose \/ Killed \/ \E m \in Managers : Call(m) \/ EndRun(m)
  PROVE  PoolInv'
<1> USE DEF PoolInv, PoolTypes, Jobs, Answers, Numbers
<1>1. Forget /\ caller' \in {"idle", "interrupted", "deserted", "dead"} => PoolInv'
  BY DEF Forget, AnswersHaveCauses, ZeroHasACause, Gathered
<1>2. CASE Timeout
  <2>1. PICK kept \in SUBSET Queued :
          job' = [c \in Completions |-> IF c \in Queued \ kept THEN "cancelled" ELSE job[c]]
    BY <1>2 DEF Timeout
  <2>2. /\ caller = "gathering" /\ late' = TRUE
        /\ answer' = [c \in Completions |-> IF answer[c] = "waiting" THEN "None" ELSE answer[c]]
        /\ UNCHANGED <<kind, caller, scores>>
    BY <1>2 DEF Timeout
  <2> QED BY <2>1, <2>2 DEF AnswersHaveCauses, ZeroHasACause, Gathered
<1>3. CASE Gather
  BY <1>3 DEF Gather, AnswersHaveCauses, ZeroHasACause, Gathered
<1>4. CASE Close
  BY <1>4 DEF Close, AnswersHaveCauses, ZeroHasACause, Gathered
<1>5. CASE Score
  BY <1>5 DEF Score, AnswersHaveCauses, ZeroHasACause, Gathered
<1>6. CASE LogRow
  BY <1>6 DEF LogRow, AnswersHaveCauses, ZeroHasACause, Gathered
<1>7. CASE Return
  BY <1>1, <1>7 DEF Return
<1>8. CASE Interrupt
  <2>1. PICK kept \in SUBSET Queued :
          job' = [c \in Completions |-> IF c \in Queued \ kept THEN "cancelled" ELSE job[c]]
    BY <1>8 DEF Interrupt
  <2>2. /\ caller = "gathering" /\ caller' = "killing"
        /\ UNCHANGED <<kind, answer, late, scores>>
    BY <1>8 DEF Interrupt
  <2>3. \A c \in Completions : job[c] = "lost" => job'[c] = "lost"
    BY <2>1 DEF Queued
  <2> QED BY <2>1, <2>2, <2>3 DEF AnswersHaveCauses, ZeroHasACause
<1>12. CASE KillProcesses \/ InterruptClose
  BY <1>12 DEF KillProcesses, InterruptClose, AnswersHaveCauses, ZeroHasACause, Gathered
<1>9. ASSUME NEW m \in Managers, Call(m) PROVE PoolInv'
  BY <1>9 DEF Call, AnswersHaveCauses, ZeroHasACause, Gathered
<1>10. ASSUME NEW m \in Managers, EndRun(m) PROVE PoolInv'
  BY <1>1, <1>10 DEF EndRun
<1>11. CASE Killed
  BY <1>1, <1>11 DEF Killed
<1> QED BY <1>2, <1>3, <1>4, <1>5, <1>6, <1>7, <1>8, <1>9, <1>10, <1>11, <1>12 DEF Loop

\* The causes hold from the start.
LEMMA PoolStarts == RewardInit => ScoringInv /\ PoolInv
<1>1. RewardInit => ScoringInv
  BY ScoringStarts DEF RewardInit
<1>2. RewardInit => PoolInv
  BY DEF RewardInit, PoolInv, PoolTypes, Jobs, Answers, Numbers, AnswersHaveCauses, ZeroHasACause
<1> QED BY <1>1, <1>2

\* Every step keeps the causes.
LEMMA PoolStep == ScoringInv /\ PoolInv /\ [RewardNext]_rewardVars => (ScoringInv /\ PoolInv)'
<1> SUFFICES ASSUME ScoringInv, PoolInv, [RewardNext]_rewardVars PROVE PoolInv'
  BY ScoringInvStep
<1>1. CASE RewardNext
  <2>1. CASE \E c \in Completions :
               StartJob(c) \/ CheckStep(c) \/ JoinStep(c) \/ EndJob(c) \/ ProcessDies(c)
    BY <2>1, ExecutorKeeps
  <2>2. CASE \/ Loop \/ Interrupt \/ InterruptClose \/ Killed
             \/ \E m \in Managers : Call(m) \/ EndRun(m)
    BY <2>2, CallerKeeps
  <2> QED BY <1>1, <2>1, <2>2 DEF RewardNext
<1>2. CASE UNCHANGED rewardVars
  BY <1>2 DEF rewardVars, poolVars, PoolInv, PoolTypes, AnswersHaveCauses, ZeroHasACause, Gathered
<1> QED BY <1>1, <1>2

\* No completion is scored 0 for another's failure, but for those the code makes them
\* share: the timeout, the death of a process and a result that cannot be read; and none
\* gets the full score unless it passed every test that is checked, be it in different
\* checks and whatever timeouts, dying processes and interrupts do to them (PrimeRewardManager,
\* prime_code.compute_score).
THEOREM PrimeScoresAreEarned == RewardSpec => []ScoresAreEarned
<1>1. ScoringInv /\ PoolInv => ScoresAreEarned
  BY DEF ScoringInv, Earned, FullScoreIsEarned, PoolInv, ScoresAreEarned
<1> QED BY PoolStarts, PoolStep, <1>1, PTL DEF RewardSpec

(* What is left of a call. *)

\* Only a job that runs its tests, or was lost with the pool, is in the middle of scoring;
\* no job is queued or runs once the call has come to its scores or its processes were
\* killed; and until the timeout only the jobs that were not answered do.
JobInv ==
  /\ \A c \in Completions :
       /\ job[c] # "lost" /\ ~RunsTests(c) => scoring[c] = "no"
       /\ ~late /\ job[c] \in {"queued", "running"} => answer[c] = "waiting" \/ caller = "deserted"
  /\ caller \notin {"gathering", "killing", "closing", "deserted"} => Running \cup Queued = {}
  /\ caller = "deserted" /\ ~late => Running \cup Queued = {}

\* What becomes of the jobs keeps JobInv.
LEMMA JobInvStep == PoolInv /\ ScoringInv /\ JobInv /\ [RewardNext]_rewardVars => JobInv'
<1> SUFFICES ASSUME PoolInv, ScoringInv, JobInv, [RewardNext]_rewardVars PROVE JobInv'
  OBVIOUS
<1> USE DEF JobInv, RunsTests, Running, Queued
<1>0. /\ job \in [Completions -> Jobs]
      /\ scoring \in [Completions -> {"no", "checking", "over"}]
  BY DEF PoolInv, PoolTypes, ScoringInv, ScoringTypes
<1>1. ASSUME NEW c \in Completions, StartJob(c) PROVE JobInv'
  <2>1. /\ job' = [job EXCEPT ![c] = "running"] /\ job[c] = "queued"
        /\ UNCHANGED <<kind, caller, answer, late>>
        /\ kind[c] = "tests" \/ UNCHANGED scoring
        /\ scoring' = scoring \/ scoring' = [scoring EXCEPT ![c] = "checking"]
    BY <1>1 DEF StartJob, Begin, scoringVars
  <2> QED BY <1>0, <2>1
<1>2. ASSUME NEW c \in Completions, CheckStep(c) PROVE JobInv'
  BY <1>2 DEF CheckStep, poolVars, ChildStep, CompileFails, RunTest, Exits, AppendResult,
       AppendMetadata
<1>3. ASSUME NEW c \in Completions, JoinStep(c) PROVE JobInv'
  <2>1. /\ job[c] = "running" /\ kind[c] = "tests" /\ UNCHANGED <<job, kind, caller, answer, late>>
        /\ \A d \in Completions \ {c} : scoring'[d] = scoring[d]
    BY <1>0, <1>3 DEF JoinStep, poolVars, Join, EndCheck
  <2> QED BY <1>0, <2>1
<1>4. ASSUME NEW c \in Completions, EndJob(c) PROVE JobInv'
  <2>1. /\ job[c] = "running" /\ job' = [job EXCEPT ![c] = "over"]
        /\ UNCHANGED <<kind, caller, late>> /\ \A d \in Completions \ {c} : answer'[d] = answer[d]
        /\ IF kind[c] = "tests" THEN scoring' = [scoring EXCEPT ![c] = "no"]
           ELSE UNCHANGED scoring
    BY <1>0, <1>4 DEF EndJob, Leave, scoringVars
  <2> QED BY <1>0, <2>1
<1>5. ASSUME NEW c \in Completions, ProcessDies(c) PROVE JobInv'
  <2>1. /\ UNCHANGED <<kind, caller, late, scoring>>
        /\ job' = [d \in Completions |->
                     IF job[d] \in {"queued", "running"} THEN "lost" ELSE job[d]]
    BY <1>5 DEF ProcessDies, scoringVars
  <2> QED BY <1>0, <2>1
<1>6. Forget => JobInv'
  BY DEF Forget
<1>7. CASE Timeout
  <2>1. PICK kept \in SUBSET Queued :
          job' = [c \in Completions |-> IF c \in Queued \ kept THEN "cancelled" ELSE job[c]]
    BY <1>7 DEF Timeout
  <2>2. caller = "gathering" /\ late' /\ UNCHANGED <<kind, caller, scoring>>
    BY <1>7 DEF Timeout, scoringVars
  <2> QED BY <1>0, <2>1, <2>2
<1>8. CASE Gather \/ Close \/ Score \/ LogRow
  BY <1>8 DEF Gather, Close, Score, LogRow, scoringVars
<1>9. CASE KillProcesses
  <2>1. /\ UNCHANGED <<kind, answer, late, scoring>>
        /\ job' = [c \in Completions |->
                     IF job[c] \in {"queued", "running"} THEN "lost" ELSE job[c]]
    BY <1>9 DEF KillProcesses, scoringVars
  <2> QED BY <1>0, <2>1
<1>13. CASE Interrupt
  <2>1. PICK kept \in SUBSET Queued :
          job' = [c \in Completions |-> IF c \in Queued \ kept THEN "cancelled" ELSE job[c]]
    BY <1>13 DEF Interrupt
  <2>2. /\ caller = "gathering" /\ caller' = "killing"
        /\ UNCHANGED <<kind, answer, late, scoring>>
    BY <1>13 DEF Interrupt, scoringVars
  <2> QED BY <1>0, <2>1, <2>2
<1>14. CASE InterruptClose
  <2>1. /\ caller = "closing" /\ caller' = "deserted"
        /\ UNCHANGED <<kind, job, answer, late, scoring>>
    BY <1>14 DEF InterruptClose, scoringVars
  <2>2. Gathered
    BY <2>1 DEF PoolInv, AnswersHaveCauses
  <2>3. ~late => Running \cup Queued = {}
    BY <2>1, <2>2 DEF Gathered
  <2> QED BY <2>1, <2>3
<1>10. ASSUME NEW m \in Managers, Call(m) PROVE JobInv'
  <2>1. \A c \in Completions : scoring[c] = "no" /\ answer[c] = "waiting"
    BY <1>10 DEF Call, PoolInv, AnswersHaveCauses
  <2> QED BY <1>10, <2>1 DEF Call, scoringVars
<1>11. CASE UNCHANGED rewardVars
  BY <1>11 DEF rewardVars, poolVars, scoringVars
<1>12. (Return \/ Killed \/ \E m \in Managers : EndRun(m)) => JobInv'
  BY <1>6 DEF Return, Killed, EndRun
<1> QED BY <1>1, <1>2, <1>3, <1>4, <1>5, <1>7, <1>8, <1>9, <1>10, <1>11, <1>12, <1>13, <1>14
  DEF RewardNext, Loop

\* When a call's rows are scored, or it was interrupted while they were awaited, none of its
\* processes still scores and none runs a program, but for those that were torn down with the
\* pool: whatever timeouts left running was waited for, or killed.  An interrupt of that wait
\* itself leaves jobs running, and only those that the timeout had given up (the executor's
\* with statement, p.kill()).
THEOREM PoolIsQuiet == RewardSpec => []NothingLeftScoring
<1> DEFINE Inv == ScoringInv /\ PoolInv /\ JobInv
<1>1. RewardInit => Inv
  BY PoolStarts DEF RewardInit, ScoringInit, JobInv, Running, Queued
<1>2. Inv /\ [RewardNext]_rewardVars => Inv'
  BY PoolStep, JobInvStep
<1>3. Inv => NothingLeftScoring
  <2> SUFFICES ASSUME Inv, caller \in {"scoring", "logging", "interrupted"}
               PROVE  Running = {} /\ \A c \in Completions : job[c] # "lost" => ~Alive(c)
    BY DEF NothingLeftScoring, JobInv
  <2>1. Running = {}
    BY DEF JobInv
  <2>2. \A c \in Completions : ~RunsTests(c)
    BY <2>1 DEF Running, RunsTests
  <2> QED BY <2>1, <2>2 DEF JobInv, ScoringInv, Known
<1> QED BY <1>1, <1>2, <1>3, PTL DEF RewardSpec

USE DEF Absent, Torn

-----------------------------------------------------------------------------
(* Type correctness. *)

\* A run stops when its counter reaches Total, but every run trains at least one
\* step, behind the last checkpoint of the runs before it.
StepsBounded ==
  /\ phase \notin Down => run >= 1 /\ step >= 1 /\ step <= Total + run - 1
  /\ step <= Total + run
  /\ \A s \in Steps : data[s] \in Runs => s <= Total + run - 1

TypeInv == TypeOK /\ StepsBounded

\* The initial state is well typed: no run, no file.
LEMMA InitTyped == Init => TypeInv
BY RolesNat, FreqNat, TotalNat, RunsNat
   DEF Init, TypeInv, TypeOK, StepsBounded, Phases, Down, RankStates, All, Roles,
       Runs, Steps

\* One step of the loop keeps the counter in bounds.
LEMMA AdvanceTyped ==
  TypeInv /\ phase \notin Down /\ Advance /\ run' = run
    => /\ phase' \in Phases /\ step' \in 0..(Total + MaxRuns)
       /\ phase' \notin Down => step' >= 1 /\ step' <= Total + run - 1
       /\ step' <= Total + run
BY TotalNat, RunsNat DEF TypeInv, TypeOK, StepsBounded, Advance, Phases, Down

\* Every step of the specification keeps the types.
LEMMA StepTyped == TypeInv /\ [Next]_vars => TypeInv'
<1> SUFFICES ASSUME TypeInv, [Next]_vars PROVE TypeInv'
  OBVIOUS
<1> USE RolesNat, FreqNat, TotalNat, RunsNat, RankZeroIsRank, ModesKnown
<1>0. /\ 0 \notin Runs /\ -1 \notin Runs
      /\ All("idle") \in [Ranks -> RankStates]
      /\ All("removing") \in [Ranks -> RankStates]
  BY DEF Runs, All, RankStates
<1>1. CASE Start
  <2>0. PICK mode \in Modes : \E s \in ResumeFrom(mode) :
          IF CanResume(s) THEN phase' = "training" /\ step' = s + 1
                          ELSE phase' = "failed" /\ step' = step
    BY <1>1 DEF Start
  <2>1. PICK s \in ResumeFrom(mode) :
          IF CanResume(s) THEN phase' = "training" /\ step' = s + 1
                          ELSE phase' = "failed" /\ step' = step
    BY <2>0
  <2>2. run' = run + 1 /\ run' \in 1..MaxRuns /\ run \in 0..MaxRuns
    BY <1>1 DEF Start, TypeInv, TypeOK
  <2>3. CanResume(s) => s \in Nat /\ s <= Total + run - 1
    BY <2>2 DEF CanResume, Loadable, TypeInv, StepsBounded, Steps
  <2>4. /\ phase' \in Phases
        /\ phase' \notin Down => step' >= 1 /\ step' <= Total + run' - 1
        /\ step' \in 0..(Total + MaxRuns)
        /\ step' <= Total + run'
    <3>1. CASE CanResume(s)
      <4>1. phase' = "training" /\ step' = s + 1
        BY <2>1, <3>1
      <4>2. s \in Nat /\ s <= Total + run - 1
        BY <2>3, <3>1
      <4> QED BY <2>2, <4>1, <4>2 DEF Phases
    <3>2. CASE ~CanResume(s)
      <4>1. phase' = "failed" /\ step' = step
        BY <2>1, <3>2
      <4> QED BY <2>2, <4>1 DEF Phases, Down, TypeInv, TypeOK, StepsBounded
    <3> QED BY <3>1, <3>2
  <2>5. prev' \in [Roles -> [Ranks -> {0} \cup Steps]]
    BY <1>1 DEF Start, All
  <2>6. role' \in Roles
    BY <1>1 DEF Start, Roles
  <2> QED BY <1>0, <1>1, <2>2, <2>4, <2>5, <2>6
       DEF Start, disk, TypeInv, TypeOK, StepsBounded, Down, Phases, Steps
<1>2. CASE Crash
  BY <1>2 DEF Crash, disk, TypeInv, TypeOK, StepsBounded, Down, Phases
<1>3. CASE Train
  BY <1>3, AdvanceTyped DEF Train, disk, TypeInv, TypeOK, StepsBounded, Down
<1>4. CASE BeginSave
  BY <1>0, <1>4 DEF BeginSave, disk, TypeInv, TypeOK, StepsBounded, Down, Phases, Roles
<1>5. CASE RoleSaved
  BY <1>0, <1>5 DEF RoleSaved, disk, TypeInv, TypeOK, StepsBounded, Down, Phases, Roles
<1>6. CASE OpenData
  <2>1. data' \in [Steps -> {Absent, Torn} \cup Runs]
    BY <1>6 DEF OpenData, TypeInv, TypeOK
  <2>2. \A s \in Steps : data'[s] \in Runs => data[s] \in Runs
    BY <1>0, <1>6 DEF OpenData, TypeInv, TypeOK
  <2> QED BY <1>6, <2>1, <2>2
       DEF OpenData, TypeInv, TypeOK, StepsBounded, Down, Phases
<1>7. CASE CloseData
  <2>1. step \in Steps /\ run \in Runs
    BY <1>7 DEF CloseData, TypeInv, TypeOK, StepsBounded, Down, Steps, Runs
  <2>2. data' \in [Steps -> {Absent, Torn} \cup Runs]
    BY <1>7, <2>1 DEF CloseData, TypeInv, TypeOK
  <2>3. \A s \in Steps : data'[s] \in Runs => s <= Total + run - 1
    BY <1>7 DEF CloseData, TypeInv, TypeOK, StepsBounded, Down
  <2> QED BY <1>7, <2>2, <2>3
       DEF CloseData, TypeInv, TypeOK, StepsBounded, Down, Phases
<1>8. CASE OpenTracker
  BY <1>8 DEF OpenTracker, TypeInv, TypeOK, StepsBounded, Down, Phases
<1>9. CASE CloseTracker
  <2>1. step \in Steps /\ phase \notin Down
    BY <1>9 DEF CloseTracker, TypeInv, TypeOK, StepsBounded, Down, Steps
  <2> QED BY <1>9, <2>1, AdvanceTyped
       DEF CloseTracker, TypeInv, TypeOK, StepsBounded, Down
<1>10. ASSUME NEW r \in Ranks, RemoveFile(r) PROVE TypeInv'
  <2>1. shard' \in [Steps \X Roles \X Ranks -> {Absent, Torn} \cup Runs]
    BY <1>10 DEF RemoveFile, TypeInv, TypeOK
  <2> QED BY <1>10, <2>1 DEF RemoveFile, TypeInv, TypeOK, StepsBounded
<1>11. ASSUME NEW r \in Ranks,
              MakeDir(r) \/ PassSecond(r) \/ Describe(r)
       PROVE TypeInv'
  <2>1. rpc' \in [Ranks -> RankStates]
    BY <1>11 DEF MakeDir, PassSecond, Describe, Move, TypeInv, TypeOK, RankStates
  <2> QED BY <1>11, <2>1
       DEF MakeDir, PassSecond, Describe, Move, disk, TypeInv, TypeOK, StepsBounded
<1>12. ASSUME NEW r \in Ranks, OpenShard(r) \/ CloseShard(r) PROVE TypeInv'
  <2>1. rpc' \in [Ranks -> RankStates]
    BY <1>12 DEF OpenShard, CloseShard, Move, TypeInv, TypeOK, RankStates
  <2>2. run \in Runs
    BY <1>12 DEF OpenShard, CloseShard, Move, TypeInv, TypeOK, StepsBounded, Down, Runs
  <2>3. shard' \in [Steps \X Roles \X Ranks -> {Absent, Torn} \cup Runs]
    BY <1>12, <2>2 DEF OpenShard, CloseShard, TypeInv, TypeOK
  <2> QED BY <1>12, <2>1, <2>3
       DEF OpenShard, CloseShard, Move, TypeInv, TypeOK, StepsBounded
<1>13. ASSUME NEW r \in Ranks, PassThird(r) PROVE TypeInv'
  <2>1. rpc' \in [Ranks -> RankStates]
    BY <1>13 DEF PassThird, Move, TypeInv, TypeOK, RankStates
  <2>2. step \in Steps
    BY <1>13 DEF PassThird, Move, TypeInv, TypeOK, StepsBounded, Down, Steps
  <2>3. prev' \in [Roles -> [Ranks -> {0} \cup Steps]]
    BY <1>13, <2>2 DEF PassThird, TypeInv, TypeOK
  <2> QED BY <1>13, <2>1, <2>3 DEF PassThird, Move, disk, TypeInv, TypeOK, StepsBounded
<1>14. CASE UNCHANGED vars
  BY <1>14 DEF vars, TypeInv, TypeOK, StepsBounded
<1> QED BY <1>1, <1>2, <1>3, <1>4, <1>5, <1>6, <1>7, <1>8, <1>9, <1>10, <1>11, <1>12,
           <1>13, <1>14
     DEF Next, DriverStep, RankStep

\* Whatever crashes and restarts, the program's state and its disk keep their types,
\* and the step counter stays within the bound of the specification.
THEOREM TypeCorrect == Spec => []TypeOK
<1>1. Spec => []TypeInv
  BY InitTyped, StepTyped, PTL DEF Spec
<1>2. TypeInv => TypeOK
  BY DEF TypeInv
<1> QED BY <1>1, <1>2, PTL

-----------------------------------------------------------------------------
(* A save in progress, in every mode. *)

Saving == {"saving", "savingData", "closingData", "tracking", "closingTracker"}
ShardsSaved == {"savingData", "closingData", "tracking", "closingTracker"}
AfterWrite == {"written", "describing", "described", "done"}

\* A folder that is about to be removed is older than the one being saved.
PrevIsOlder ==
  /\ phase = "training" => \A o \in Roles, r \in Ranks : prev[o][r] < step
  /\ phase = "saving" =>
       \A o \in Roles, r \in Ranks :
         prev[o][r] < step \/ o < role \/ (o = role /\ rpc[r] = "done")
  /\ phase \in Saving => \A o \in Roles, r \in Ranks : prev[o][r] <= step

\* The roles before the current one are saved, and of the current one the ranks
\* that have come to the second barrier.
ShardsInv ==
  /\ phase = "saving" =>
       /\ \A o \in Roles, r \in Ranks : o < role => shard[<<step, o, r>>] = run
       /\ \A r \in Ranks : rpc[r] \in AfterWrite => shard[<<step, role, r>>] = run
       /\ (\E r \in Ranks : rpc[r] \in AfterWrite \ {"written"}) => At(AfterWrite)
  /\ phase \in ShardsSaved =>
       \A o \in Roles, r \in Ranks : shard[<<step, o, r>>] = run
  /\ phase \in {"tracking", "closingTracker"} => data[step] = run

SaveInv ==
  /\ phase \in Saving => SaveDue
  /\ PrevIsOlder
  /\ ShardsInv

\* Every step of the specification keeps the account of the save in progress.
LEMMA StepSaves == TypeInv /\ SaveInv /\ [Next]_vars => SaveInv'
<1> SUFFICES ASSUME TypeInv, SaveInv, [Next]_vars PROVE SaveInv'
  OBVIOUS
<1> USE DEF SaveInv, PrevIsOlder, ShardsInv, Saving, ShardsSaved, AfterWrite
<1>0. /\ step \in Int /\ run \in Int /\ role \in Roles /\ Roles \subseteq Int
      /\ phase \notin Down => step \in Steps /\ run \in Runs
      /\ \A o \in Roles, r \in Ranks : prev[o][r] \in Int
  BY RolesNat, TotalNat, RunsNat
     DEF TypeInv, TypeOK, StepsBounded, Steps, Runs, Roles, Down
<1>1. CASE Start
  <2>1. phase' = "failed" \/ phase' = "training"
    BY <1>1 DEF Start
  <2>2. \A o \in Roles, r \in Ranks : prev'[o][r] = 0
    BY <1>1 DEF Start, All
  <2>3. phase' = "training" => step' >= 1
    BY StepTyped, <1>0 DEF TypeInv, StepsBounded, Down
  <2>4. step' \in Int
    BY StepTyped, TotalNat, RunsNat DEF TypeInv, TypeOK
  <2> QED BY <2>1, <2>2, <2>3, <2>4
<1>2. CASE Crash
  BY <1>2 DEF Crash
<1>3. CASE Train
  <2>1. step' = step + 1 /\ phase' \in {"finished", "training"} /\ prev' = prev
    BY <1>3 DEF Train, Advance
  <2> QED BY <1>0, <1>3, <2>1 DEF Train
<1>4. CASE BeginSave
  <2>1. rpc' = [r \in Ranks |-> "removing"] /\ role' = 1
    BY <1>4 DEF BeginSave, All
  <2>2. \A o \in Roles : ~(o < role')
    BY <2>1, RolesNat DEF Roles
  <2> QED BY <1>0, <1>4, <2>1, <2>2 DEF BeginSave, SaveDue, disk
<1>5. CASE RoleSaved
  <2>1. \A r \in Ranks : rpc[r] = "done"
    BY <1>5 DEF RoleSaved, At
  <2>2. \A o \in Roles, r \in Ranks : o <= role => shard[<<step, o, r>>] = run
    BY <1>0, <1>5, <2>1 DEF RoleSaved
  <2>3. CASE role < NRoles
    <3>1. /\ role' = role + 1 /\ phase' = "saving"
          /\ rpc' = [r \in Ranks |-> "removing"]
      BY <1>5, <2>3 DEF RoleSaved, All
    <3>2. \A o \in Roles, r \in Ranks : prev[o][r] < step \/ o < role'
      BY <1>0, <1>5, <3>1 DEF RoleSaved
    <3>3. \A o \in Roles : o < role' => o <= role
      BY <1>0, <3>1
    <3> QED BY <1>0, <1>5, <2>2, <3>1, <3>2, <3>3 DEF RoleSaved, SaveDue, disk
  <2>4. CASE ~(role < NRoles)
    <3>1. phase' = "savingData"
      BY <1>5, <2>4 DEF RoleSaved
    <3>2. \A o \in Roles : o <= role
      BY <2>4, <1>0, RolesNat DEF Roles
    <3> QED BY <1>0, <1>5, <2>2, <3>1, <3>2 DEF RoleSaved, SaveDue, disk
  <2> QED BY <2>3, <2>4
<1>6. CASE OpenData
  BY <1>6 DEF OpenData, SaveDue
<1>7. CASE CloseData
  BY <1>0, <1>7 DEF CloseData, SaveDue, TypeInv, TypeOK, Down
<1>8. CASE OpenTracker
  BY <1>8 DEF OpenTracker, SaveDue
<1>9. CASE CloseTracker
  <2>1. step' = step + 1 /\ phase' \in {"finished", "training"} /\ prev' = prev
    BY <1>9 DEF CloseTracker, Advance
  <2> QED BY <1>0, <1>9, <2>1 DEF CloseTracker
<1>10. ASSUME NEW r \in Ranks, RemoveFile(r) PROVE SaveInv'
  <2>1. PICK q \in Previous(r) :
          shard' = [shard EXCEPT ![<<prev[role][r], role, q>>] = Absent]
    BY <1>10 DEF RemoveFile
  <2>2. prev[role][r] < step
    BY <1>0, <1>10 DEF RemoveFile
  <2>3. \A o \in Roles, p \in Ranks : shard'[<<step, o, p>>] = shard[<<step, o, p>>]
    BY <1>0, <2>1, <2>2 DEF TypeInv, TypeOK
  <2> QED BY <1>0, <1>10, <2>3 DEF RemoveFile, SaveDue, At
<1>11. ASSUME NEW r \in Ranks, MakeDir(r) PROVE SaveInv'
  <2>1. /\ rpc' = [rpc EXCEPT ![r] = "made"] /\ rpc[r] = "removing"
        /\ rpc \in [Ranks -> RankStates]
    BY <1>11 DEF MakeDir, Move, TypeInv, TypeOK
  <2> QED BY <1>0, <1>11, <2>1 DEF MakeDir, Move, SaveDue, At, disk
<1>12. ASSUME NEW r \in Ranks, OpenShard(r) PROVE SaveInv'
  <2>1. /\ rpc' = [rpc EXCEPT ![r] = "writing"] /\ rpc[r] = "made"
        /\ rpc \in [Ranks -> RankStates]
    BY <1>12 DEF OpenShard, Move, TypeInv, TypeOK
  <2>2. \A o \in Roles, q \in Ranks : o # role \/ q # r =>
          shard'[<<step, o, q>>] = shard[<<step, o, q>>]
    BY <1>0, <1>12 DEF OpenShard, TypeInv, TypeOK
  <2> QED BY <1>0, <1>12, <2>1, <2>2 DEF OpenShard, Move, SaveDue, At
<1>13. ASSUME NEW r \in Ranks, CloseShard(r) PROVE SaveInv'
  <2>1. /\ rpc' = [rpc EXCEPT ![r] = "written"] /\ rpc[r] = "writing"
        /\ rpc \in [Ranks -> RankStates]
    BY <1>13 DEF CloseShard, Move, TypeInv, TypeOK
  <2>2. /\ \A o \in Roles, q \in Ranks : o # role \/ q # r =>
              shard'[<<step, o, q>>] = shard[<<step, o, q>>]
        /\ shard'[<<step, role, r>>] = run
    BY <1>0, <1>13 DEF CloseShard, Move, TypeInv, TypeOK, Down
  <2> QED BY <1>0, <1>13, <2>1, <2>2 DEF CloseShard, Move, SaveDue, At
<1>14. ASSUME NEW r \in Ranks, PassSecond(r) PROVE SaveInv'
  <2>1. /\ rpc' = [rpc EXCEPT ![r] = IF r = Rank0 THEN "describing" ELSE "described"]
        /\ rpc[r] = "written" /\ At(AfterWrite)
        /\ rpc \in [Ranks -> RankStates]
    BY <1>14 DEF PassSecond, Move, TypeInv, TypeOK
  <2> QED BY <1>0, <1>14, <2>1 DEF PassSecond, Move, SaveDue, At, disk
<1>15. ASSUME NEW r \in Ranks, Describe(r) PROVE SaveInv'
  <2>1. /\ rpc' = [rpc EXCEPT ![r] = "described"] /\ rpc[r] = "describing"
        /\ rpc \in [Ranks -> RankStates]
    BY <1>15 DEF Describe, Move, TypeInv, TypeOK
  <2> QED BY <1>0, <1>15, <2>1 DEF Describe, Move, SaveDue, At, disk
<1>16. ASSUME NEW r \in Ranks, PassThird(r) PROVE SaveInv'
  <2>1. /\ rpc' = [rpc EXCEPT ![r] = "done"] /\ rpc[r] = "described"
        /\ rpc \in [Ranks -> RankStates]
        /\ prev' = [prev EXCEPT ![role][r] = step]
    BY <1>16 DEF PassThird, Move, TypeInv, TypeOK
  <2>2. \A o \in Roles, q \in Ranks :
          prev'[o][q] = IF o = role /\ q = r THEN step ELSE prev[o][q]
    BY <2>1 DEF TypeInv, TypeOK
  <2> QED BY <1>0, <1>16, <2>1, <2>2 DEF PassThird, Move, SaveDue, At, disk
<1>17. CASE UNCHANGED vars
  BY <1>17 DEF vars, SaveDue, At
<1> QED BY <1>1, <1>2, <1>3, <1>4, <1>5, <1>6, <1>7, <1>8, <1>9, <1>10, <1>11, <1>12,
           <1>13, <1>14, <1>15, <1>16, <1>17
     DEF Next, DriverStep, RankStep

\* Before the first run no save is in progress.
LEMMA InitSaves == Init => SaveInv
BY DEF Init, SaveInv, PrevIsOlder, ShardsInv, Saving, ShardsSaved

\* Types and the account of the save in progress hold in every behaviour.
LEMMA SavesInvariant == Spec => [](TypeInv /\ SaveInv)
BY InitTyped, StepTyped, InitSaves, StepSaves, PTL DEF Spec

\* The huggingface folder of a role is only written when every rank's shards are
\* complete, in whatever order the ranks get through the barriers.
THEOREM DescribedWhole == Spec => []DescribedIsWhole
<1>1. TypeInv /\ SaveInv => DescribedIsWhole
  BY DEF TypeInv, TypeOK, SaveInv, ShardsInv, DescribedIsWhole, At, AfterWrite
<1> QED BY <1>1, SavesInvariant, PTL

\* When the tracker is about to name a step, its checkpoint is complete and all of
\* it was written by the run that names it, whatever earlier runs left on the disk.
THEOREM SavedByThisRun == Spec => []SavedIsThisRun
<1>1. TypeInv /\ SaveInv => SavedIsThisRun
  BY DEF SaveInv, ShardsInv, ShardsSaved, SavedIsThisRun
<1> QED BY <1>1, SavesInvariant, PTL

-----------------------------------------------------------------------------
(* Runs that all resume automatically. *)

\* The tracker is behind the run that trains, the checkpoint it names is of one
\* piece if it is whole, and it is whole between two saves.
AutoInv ==
  /\ phase \notin Down => tracker < step
  /\ tracker \in Steps /\ Loadable(tracker) =>
       \A o \in Roles, r \in Ranks : shard[<<tracker, o, r>>] = data[tracker]
  /\ phase = "training" => CanResume(tracker)

\* A step that leaves the tracked checkpoint and the tracker alone.
LEMMA TrackedUnchanged ==
  ASSUME TypeInv, tracker' = tracker,
         tracker \in Steps => data'[tracker] = data[tracker],
         \A o \in Roles, r \in Ranks :
           tracker \in Steps => shard'[<<tracker, o, r>>] = shard[<<tracker, o, r>>]
  PROVE  CanResume(tracker)' <=> CanResume(tracker)
BY DEF CanResume, Loadable, TypeInv, TypeOK

\* The files of the checkpoint being taken are not those the tracker names.
LEMMA SavingIsAhead ==
  ASSUME TypeInv, AutoInv, phase \notin Down
  PROVE  tracker # step /\ step \in Steps
BY RolesNat, TotalNat, RunsNat
   DEF TypeInv, TypeOK, StepsBounded, AutoInv, Steps, Down

\* With automatic resume every step keeps the tracked checkpoint of one run, and
\* loadable outside a due save.
LEMMA StepAuto ==
  ASSUME Modes \subseteq {"auto"}, TypeInv, SaveInv, AutoInv, [Next]_vars
  PROVE  AutoInv'
<1>1. CASE Start
  <2>1. \E s \in {tracker} :
          IF CanResume(s) THEN phase' = "training" /\ step' = s + 1
                          ELSE phase' = "failed" /\ step' = step
    BY <1>1 DEF Start, ResumeFrom
  <2>2. UNCHANGED disk /\ run' = run + 1
    BY <1>1 DEF Start
  <2>3. CASE CanResume(tracker)
    <3>1. phase' = "training" /\ step' = tracker + 1
      BY <2>1, <2>3
    <3>2. tracker \in Int
      BY <2>3 DEF CanResume, Steps
    <3> QED BY <2>2, <2>3, <3>1, <3>2
         DEF AutoInv, disk, CanResume, Loadable, Down
  <2>4. CASE ~CanResume(tracker)
    <3>1. phase' = "failed"
      BY <2>1, <2>4
    <3> QED BY <2>2, <3>1 DEF AutoInv, disk, CanResume, Loadable, Down
  <2> QED BY <2>3, <2>4
<1>2. CASE Crash
  BY <1>2 DEF Crash, AutoInv, disk, Loadable, CanResume, Down
<1>3. CASE Train
  <2>1. step' = step + 1 /\ step \in Int /\ tracker \in Int /\ phase \notin Down
    BY <1>3 DEF Train, Advance, TypeInv, TypeOK, Steps, Down
  <2>2. tracker < step'
    BY <2>1 DEF AutoInv
  <2> QED BY <1>3, <2>2 DEF Train, AutoInv, disk, Loadable, CanResume
<1>4. CASE BeginSave
  BY <1>4 DEF BeginSave, AutoInv, disk, Loadable, Down
<1>5. CASE RoleSaved
  BY <1>5 DEF RoleSaved, AutoInv, disk, Loadable, Down
<1>6. ASSUME OpenData \/ CloseData PROVE AutoInv'
  <2>1. tracker # step /\ phase \notin Down
    BY <1>6, SavingIsAhead DEF OpenData, CloseData, Down
  <2>2. tracker \in Steps => data'[tracker] = data[tracker]
    BY <1>6, <2>1 DEF OpenData, CloseData, TypeInv, TypeOK
  <2> QED BY <1>6, <2>1, <2>2 DEF OpenData, CloseData, AutoInv, Loadable
<1>7. CASE OpenTracker
  <2>1. -1 \notin Steps /\ step >= 1
    BY <1>7 DEF OpenTracker, TypeInv, StepsBounded, Down, Steps
  <2> QED BY <1>7, <2>1 DEF OpenTracker, AutoInv, TypeInv, TypeOK
<1>8. CASE CloseTracker
  <2>1. step \in Steps /\ run \in Runs
    BY <1>8 DEF CloseTracker, TypeInv, TypeOK, StepsBounded, Down, Steps, Runs
  <2>2. data[step] = run /\ \A o \in Roles, r \in Ranks : shard[<<step, o, r>>] = run
    BY <1>8 DEF CloseTracker, SaveInv, ShardsInv, ShardsSaved
  <2>3. Loadable(step)
    BY <2>1, <2>2 DEF Loadable
  <2>4. tracker' = step /\ step' = step + 1 /\ UNCHANGED <<shard, data>>
    BY <1>8 DEF CloseTracker, Advance
  <2>5. tracker' < step'
    BY <2>1, <2>4 DEF Steps
  <2> QED BY <2>1, <2>2, <2>3, <2>4, <2>5 DEF AutoInv, CanResume, Loadable
<1>9. ASSUME NEW r \in Ranks, RemoveFile(r) PROVE AutoInv'
  <2>1. PICK q \in Ranks :
          shard' = [shard EXCEPT ![<<prev[role][r], role, q>>] = Absent]
    BY <1>9 DEF RemoveFile, Previous
  <2>2. 0 \notin Runs
    BY DEF Runs
  <2>3. \A f \in Steps \X Roles \X Ranks : shard'[f] \in Runs => shard'[f] = shard[f]
    BY <2>1, <2>2 DEF TypeInv, TypeOK
  <2>4. tracker' = tracker /\ data' = data /\ phase' = phase /\ step' = step
        /\ phase # "training"
    BY <1>9 DEF RemoveFile
  <2> QED BY <2>3, <2>4 DEF AutoInv, Loadable
<1>10. ASSUME NEW r \in Ranks, OpenShard(r) \/ CloseShard(r) PROVE AutoInv'
  <2>1. tracker # step /\ phase = "saving"
    BY <1>10, SavingIsAhead DEF OpenShard, CloseShard, Move, Down
  <2>2. \A o \in Roles, q \in Ranks :
          tracker \in Steps => shard'[<<tracker, o, q>>] = shard[<<tracker, o, q>>]
    BY <1>10, <2>1 DEF OpenShard, CloseShard, TypeInv, TypeOK
  <2> QED BY <1>10, <2>1, <2>2 DEF OpenShard, CloseShard, AutoInv, Loadable
<1>11. ASSUME NEW r \in Ranks,
              MakeDir(r) \/ PassSecond(r) \/ Describe(r) \/ PassThird(r)
       PROVE AutoInv'
  BY <1>11 DEF MakeDir, PassSecond, Describe, PassThird, Move, AutoInv, disk, Loadable,
               CanResume
<1>12. CASE UNCHANGED vars
  BY <1>12 DEF vars, AutoInv, Loadable, CanResume
<1> QED BY <1>1, <1>2, <1>3, <1>4, <1>5, <1>6, <1>7, <1>8, <1>9, <1>10, <1>11, <1>12
     DEF Next, DriverStep, RankStep

\* With automatic resume that holds in every behaviour.
LEMMA AutoInvariant ==
  ASSUME Modes \subseteq {"auto"}
  PROVE  Spec => [](TypeInv /\ SaveInv /\ AutoInv)
<1>1. Init => AutoInv
  BY DEF Init, AutoInv, Down, CanResume, Steps
<1>2. TypeInv /\ SaveInv /\ AutoInv /\ [Next]_vars => AutoInv'
  BY StepAuto
<1> QED BY <1>1, <1>2, InitTyped, StepTyped, InitSaves, StepSaves, PTL DEF Spec

\* As long as runs resume automatically, a checkpoint that loads was written by one
\* run: crashes in the middle of saves never leave one of mixed origin.
THEOREM OneRunLoads ==
  ASSUME Modes \subseteq {"auto"}
  PROVE  Spec => []LoadsOneRun
<1>1. TypeInv /\ AutoInv => LoadsOneRun
  <2> SUFFICES ASSUME TypeInv, AutoInv, tracker \in Steps, Loadable(tracker)
               PROVE  Cardinality(Writers(tracker)) = 1
    BY DEF LoadsOneRun
  <2>1. \A o \in Roles, r \in Ranks : shard[<<tracker, o, r>>] = data[tracker]
    BY DEF AutoInv
  <2>2. \A f \in {tracker} \X Roles \X Ranks : shard[f] = data[tracker]
    BY <2>1
  <2>3. Writers(tracker) = {data[tracker]}
    BY <2>2 DEF Writers
  <2> QED BY <2>3, FS_Singleton
<1> QED BY <1>1, AutoInvariant, PTL

\* As long as runs resume automatically, a crash between two saves can always be
\* recovered from: the tracker names a complete checkpoint, or there is none yet.
THEOREM RestartableWhileTraining ==
  ASSUME Modes \subseteq {"auto"}
  PROVE  Spec => []TrackedWhileTraining
<1>1. AutoInv => TrackedWhileTraining
  BY DEF AutoInv, TrackedWhileTraining
<1> QED BY <1>1, AutoInvariant, PTL

-----------------------------------------------------------------------------
(* The checkpoints implement DurableProgress. *)

\* What the checkpoint loses it loses in a due save, and only a whole one counts.
LEMMA StepRefines ==
  ASSUME Modes \subseteq {"auto"}, TypeInv, SaveInv, AutoInv, [Next]_vars
  PROVE  [Progress!Next]_<<phase \notin Down, step, Durable>>
<1> USE DEF Lost
<1>0. tracker \in Int /\ step \in Int
  BY DEF TypeInv, TypeOK, Steps
<1>1. CASE Start
  <2>1. \E s \in {tracker} :
          IF CanResume(s) THEN phase' = "training" /\ step' = s + 1
                          ELSE phase' = "failed" /\ step' = step
    BY <1>1 DEF Start, ResumeFrom
  <2>2. phase \in Down /\ UNCHANGED disk
    BY <1>1 DEF Start, Down
  <2>3. Durable' = Durable
    BY <2>2 DEF disk, Durable, CanResume, Loadable
  <2>4. CASE CanResume(tracker)
    <3>1. phase' = "training" /\ step' = tracker + 1 /\ Durable = tracker
      BY <2>1, <2>4 DEF Durable
    <3>2. tracker # -1
      BY <2>4 DEF CanResume, Steps
    <3> QED BY <2>2, <2>3, <3>1, <3>2 DEF Progress!Next, Progress!Start, Down
  <2>5. CASE ~CanResume(tracker)
    <3>1. phase' = "failed" /\ step' = step
      BY <2>1, <2>5
    <3> QED BY <2>2, <2>3, <3>1 DEF Down
  <2> QED BY <2>4, <2>5
<1>2. CASE Crash
  <2>1. Durable' = Durable
    BY <1>2 DEF Crash, disk, Durable, CanResume, Loadable
  <2> QED BY <1>2, <2>1 DEF Crash, Progress!Next, Progress!Stop, Down
<1>3. CASE Train
  <2>1. Durable' = Durable
    BY <1>3 DEF Train, disk, Durable, CanResume, Loadable
  <2> QED BY <1>3, <2>1
       DEF Train, Advance, SaveDue, Progress!Next, Progress!Train, Progress!SaveDue, Down
<1>4. ASSUME BeginSave \/ RoleSaved \/ \E r \in Ranks :
               MakeDir(r) \/ PassSecond(r) \/ Describe(r) \/ PassThird(r)
      PROVE  UNCHANGED <<phase \notin Down, step, Durable>>
  <2>1. UNCHANGED disk /\ step' = step /\ phase \notin Down /\ phase' \notin Down
    BY <1>4 DEF BeginSave, RoleSaved, MakeDir, PassSecond, Describe, PassThird, Move,
                disk, Down
  <2> QED BY <2>1 DEF disk, Durable, CanResume, Loadable
<1>5. ASSUME OpenData \/ CloseData PROVE UNCHANGED <<phase \notin Down, step, Durable>>
  <2>1. /\ tracker # step /\ tracker' = tracker /\ shard' = shard
        /\ step' = step /\ phase \notin Down /\ phase' \notin Down
    BY <1>5, SavingIsAhead DEF OpenData, CloseData, Down
  <2>2. tracker \in Steps => data'[tracker] = data[tracker]
    BY <1>5, <2>1 DEF OpenData, CloseData, TypeInv, TypeOK
  <2>3. CanResume(tracker)' <=> CanResume(tracker)
    BY <2>1, <2>2, TrackedUnchanged
  <2> QED BY <2>1, <2>3 DEF Durable
<1>6. CASE OpenTracker
  <2>1. ~CanResume(tracker)' /\ tracker' = -1
    BY <1>6 DEF OpenTracker, CanResume, Steps
  <2>2. Durable' = Lost
    BY <2>1 DEF Durable
  <2> QED BY <1>6, <2>2
       DEF OpenTracker, SaveInv, Saving, SaveDue, Progress!Next, Progress!Expose,
           Progress!SaveDue, Down
<1>7. CASE CloseTracker
  <2>1. CanResume(tracker)' /\ tracker' = step
    <3>1. step \in Steps /\ run \in Runs
      BY <1>7 DEF CloseTracker, TypeInv, TypeOK, StepsBounded, Down, Steps, Runs
    <3>2. data[step] = run /\ \A o \in Roles, r \in Ranks : shard[<<step, o, r>>] = run
      BY <1>7 DEF CloseTracker, SaveInv, ShardsInv, ShardsSaved
    <3> QED BY <1>7, <3>1, <3>2 DEF CloseTracker, CanResume, Loadable
  <2>2. Durable' = step
    BY <2>1 DEF Durable
  <2> QED BY <1>7, <2>2
       DEF CloseTracker, Advance, SaveInv, Saving, SaveDue, Progress!Next,
           Progress!Commit, Progress!SaveDue, Down
<1>8. ASSUME NEW r \in Ranks, RemoveFile(r)
      PROVE [Progress!Next]_<<phase \notin Down, step, Durable>>
  <2>1. PICK q \in Ranks :
          shard' = [shard EXCEPT ![<<prev[role][r], role, q>>] = Absent]
    BY <1>8 DEF RemoveFile, Previous
  <2>2. 0 \notin Runs
    BY DEF Runs
  <2>3. \A f \in Steps \X Roles \X Ranks : shard'[f] \in Runs => shard[f] \in Runs
    BY <2>1, <2>2 DEF TypeInv, TypeOK
  <2>4. /\ tracker' = tracker /\ data' = data /\ phase' = phase /\ step' = step
        /\ phase = "saving"
    BY <1>8 DEF RemoveFile
  <2>5. CanResume(tracker)' => CanResume(tracker)
    BY <2>3, <2>4 DEF CanResume, Loadable
  <2>6. Durable' = Durable \/ Durable' = Lost
    BY <2>4, <2>5 DEF Durable
  <2> QED BY <2>4, <2>6
       DEF SaveInv, Saving, SaveDue, Progress!Next, Progress!Expose, Progress!SaveDue,
           Down
<1>9. ASSUME NEW r \in Ranks, OpenShard(r) \/ CloseShard(r)
      PROVE UNCHANGED <<phase \notin Down, step, Durable>>
  <2>1. /\ tracker # step /\ tracker' = tracker /\ data' = data
        /\ step' = step /\ phase' = phase
    BY <1>9, SavingIsAhead DEF OpenShard, CloseShard, Move, Down
  <2>2. \A o \in Roles, q \in Ranks :
          tracker \in Steps => shard'[<<tracker, o, q>>] = shard[<<tracker, o, q>>]
    BY <1>9, <2>1 DEF OpenShard, CloseShard, TypeInv, TypeOK
  <2>3. CanResume(tracker)' <=> CanResume(tracker)
    BY <2>1, <2>2, TrackedUnchanged
  <2> QED BY <2>1, <2>3 DEF Durable
<1>10. CASE UNCHANGED vars
  BY <1>10 DEF vars, Durable, CanResume, Loadable
<1> QED BY <1>1, <1>2, <1>3, <1>4, <1>5, <1>6, <1>7, <1>8, <1>9, <1>10
     DEF Next, DriverStep, RankStep

\* With automatic resume, the driver, the ranks and the disk together do what
\* DurableProgress says: they commit a step as one action, resume behind the last one
\* committed, and can lose it in no other place than a save that is due.
THEOREM ImplementsProgress ==
  ASSUME Modes \subseteq {"auto"}
  PROVE  Spec => IsDurableProgress
<1>1. Init => Progress!Init
  BY DEF Init, Progress!Init, Durable, CanResume, Down
<1>2. TypeInv /\ SaveInv /\ AutoInv /\ [Next]_vars
        => [Progress!Next]_<<phase \notin Down, step, Durable>>
  BY StepRefines
<1> QED BY <1>1, <1>2, AutoInvariant, PTL DEF Spec, IsDurableProgress, Progress!Spec
=============================================================================
