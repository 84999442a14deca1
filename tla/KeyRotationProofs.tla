-------------------------- MODULE KeyRotationProofs --------------------------
(***************************************************************************)
(* What holds of KeyRotation for every number of files, sub-tasks,         *)
(* rotations, writes, restarts and faults.                                 *)
(***************************************************************************)
EXTENDS KeyRotation, FiniteSetTheorems, TLAPS

USE CountsAssumption, LimitsAssumption DEF CountsAssumption, LimitsAssumption

-----------------------------------------------------------------------------
(* The operators of the model.                                              *)

\* There are as many files as are counted, and as many sub-tasks.
LEMMA FilesAreFinite ==
  /\ IsFiniteSet(Files) /\ Cardinality(Files) = FileCount
  /\ IsFiniteSet(Threads) /\ Cardinality(Threads) = MaxThreads
<1>1. IsFiniteSet(1 .. FileCount) /\ Cardinality(1 .. FileCount) = FileCount
  <2>1. IsFiniteSet(1 .. FileCount)
        /\ Cardinality(1 .. FileCount) = IF 1 > FileCount THEN 0 ELSE FileCount - 1 + 1
    BY FS_Interval
  <2> QED
    BY <2>1
<1>2. IsFiniteSet(0 .. MaxThreads - 1) /\ Cardinality(0 .. MaxThreads - 1) = MaxThreads
  <2>1. MaxThreads - 1 \in Int /\ 0 \in Int
    OBVIOUS
  <2>2. IsFiniteSet(0 .. MaxThreads - 1)
        /\ Cardinality(0 .. MaxThreads - 1)
             = IF 0 > MaxThreads - 1 THEN 0 ELSE (MaxThreads - 1) - 0 + 1
    BY <2>1, FS_Interval
  <2> QED
    BY <2>2
<1> QED
  BY <1>1, <1>2 DEF Files, Threads

\* The listing has every older file once.
LEMMA ListingIsComplete ==
  /\ Older \in Seq(OlderFiles) /\ Older \in Seq(Files)
  /\ Len(Older) \in 0 .. FileCount
  /\ \A a, b \in 1 .. Len(Older) : Older[a] = Older[b] => a = b
  /\ \A f \in OlderFiles : \E k \in 1 .. Len(Older) : Older[k] = f
<1> DEFINE n == Cardinality(OlderFiles)
<1>1. OlderFiles \in SUBSET Files
  BY DEF OlderFiles
<1>2. IsFiniteSet(OlderFiles) /\ n \in Nat /\ n <= FileCount
  BY <1>1, FilesAreFinite, FS_Subset, FS_CardinalityType
<1>3. \E g \in [1 .. n -> OlderFiles] : IsInjective(g)
  <2>1. PICK g : g \in Bijection(1 .. n, OlderFiles)
    BY <1>2, FS_CardinalityType DEF ExistsBijection
  <2>2. g \in [1 .. n -> OlderFiles] /\ IsInjective(g)
    BY <2>1 DEF Bijection, Injection, IsInjective
  <2> QED
    BY <2>2
<1>4. Older \in [1 .. n -> OlderFiles] /\ IsInjective(Older)
  BY <1>3 DEF Older, SetToSeq
<1>5. Older \in Seq(OlderFiles) /\ Len(Older) = n
  BY <1>2, <1>4
<1>6. Older \in Seq(Files)
  BY <1>1, <1>5
<1>7. \A a, b \in 1 .. n : Older[a] = Older[b] => a = b
  BY <1>4 DEF IsInjective
<1>8. \A f \in OlderFiles : \E k \in 1 .. n : Older[k] = f
  <2>1. Older \in Injection(1 .. n, OlderFiles)
    BY <1>4, <1>7 DEF Injection
  <2>2. Cardinality(1 .. n) = n
    BY <1>2, FS_Interval
  <2>3. Older \in Surjection(1 .. n, OlderFiles)
    BY <1>2, <2>1, <2>2, FS_Injection
  <2> QED
    BY <2>3 DEF Surjection
<1> QED
  BY <1>2, <1>5, <1>6, <1>7, <1>8

\* There is always a vector that nothing of a file mentions.
LEMMA FreshIvIsFresh ==
  ASSUME NEW f
  PROVE  FreshIv(f) \in Ivs /\ FreshIv(f) \notin IvsOf(f)
<1> DEFINE Places == 0 .. MaxThreads + 3
           g == [i \in Places |-> IF i < MaxThreads THEN task[i].buf.iv
                                  ELSE IF i = MaxThreads THEN disk[f].iv
                                  ELSE IF i = MaxThreads + 1 THEN row[f].iv
                                  ELSE IF i = MaxThreads + 2 THEN object[f].iv
                                  ELSE writer.buf.iv]
           T == {g[i] : i \in Places}
<1>1. IsFiniteSet(Places) /\ Cardinality(Places) = MaxThreads + 4
      /\ IsFiniteSet(Ivs) /\ Cardinality(Ivs) = MaxThreads + 5
  <2>1. 0 \in Int /\ MaxThreads + 3 \in Int /\ MaxThreads + 4 \in Int
    OBVIOUS
  <2>2. /\ IsFiniteSet(0 .. MaxThreads + 3)
        /\ Cardinality(0 .. MaxThreads + 3)
             = IF 0 > MaxThreads + 3 THEN 0 ELSE (MaxThreads + 3) - 0 + 1
    BY <2>1, FS_Interval
  <2>3. /\ IsFiniteSet(0 .. MaxThreads + 4)
        /\ Cardinality(0 .. MaxThreads + 4)
             = IF 0 > MaxThreads + 4 THEN 0 ELSE (MaxThreads + 4) - 0 + 1
    BY <2>1, FS_Interval
  <2> QED
    BY <2>2, <2>3 DEF Ivs
<1>2. IvsOf(f) \subseteq T
  <2>1. /\ MaxThreads \in Places /\ MaxThreads + 1 \in Places /\ MaxThreads + 2 \in Places
        /\ MaxThreads + 3 \in Places /\ \A j \in Threads : j \in Places /\ j < MaxThreads
    BY DEF Threads
  <2>2. \A j \in Threads : g[j] = task[j].buf.iv
    BY <2>1
  <2>3. /\ g[MaxThreads] = disk[f].iv /\ g[MaxThreads + 1] = row[f].iv
        /\ g[MaxThreads + 2] = object[f].iv /\ g[MaxThreads + 3] = writer.buf.iv
    BY <2>1
  <2> HIDE DEF g
  <2>4. disk[f].iv \in T /\ row[f].iv \in T /\ object[f].iv \in T /\ writer.buf.iv \in T
    BY <2>1, <2>3
  <2>5. \A j \in Threads : task[j].buf.iv \in T
    BY <2>1, <2>2
  <2> QED
    BY <2>4, <2>5 DEF IvsOf
<1>3. g \in Surjection(Places, T)
  BY DEF Surjection
<1> HIDE DEF g, T, Places
<1>4. IsFiniteSet(T) /\ Cardinality(T) <= MaxThreads + 4 /\ Cardinality(T) \in Nat
  BY <1>1, <1>3, FS_Surjection, FS_CardinalityType
<1>5. ~(Ivs \subseteq T)
  <2>1. SUFFICES ASSUME Ivs \in SUBSET T PROVE FALSE
    OBVIOUS
  <2>2. Cardinality(Ivs) <= Cardinality(T)
    BY <1>4, <2>1, FS_Subset
  <2> QED
    BY <1>1, <1>4, <2>2
<1>6. \E i \in Ivs : i \notin IvsOf(f)
  BY <1>2, <1>5
<1> QED
  BY <1>6 DEF FreshIv

\* The ranges of the sub-tasks lie within the list.
LEMMA RangesLieWithin ==
  ASSUME NEW total \in 2 .. FileCount, NEW i \in Threads
  PROVE  LET t == SubTask(i, total) IN
         /\ t.pc \in {"off", "load"} /\ t.at \in 0 .. FileCount /\ t.end \in 0 .. FileCount
         /\ t.buf = [key |-> 1, iv |-> 0]
         /\ t = [pc |-> t.pc, at |-> t.at, end |-> t.end, buf |-> t.buf]
         /\ t.pc # "off" => t.at < t.end /\ t.end <= total
<1> DEFINE n == ThreadCount(total)
           q == total \div n
           m == total % n
<1>1. n \in Nat /\ n > 0 /\ n <= MaxThreads /\ n <= total
  <2>1. total \div 2 \in Nat /\ total \div 2 >= 1 /\ total \div 2 <= total
    OBVIOUS
  <2> QED
    BY <2>1 DEF ThreadCount
<1>2. q \in Nat /\ m \in 0 .. n - 1 /\ total = n * q + m /\ q >= 1
  <2>1. q \in Nat /\ m \in 0 .. n - 1 /\ total = n * q + m
    BY <1>1
  <2>2. q # 0
    BY <1>1, <2>1
  <2> QED
    BY <2>1, <2>2
<1>3. CASE i < n
  <2>1. SubTask(i, total) = [pc |-> "load", at |-> i * q, end |-> RangeEnd(i, total),
                             buf |-> [key |-> 1, iv |-> 0]]
    BY <1>3 DEF SubTask, Off
  <2>2. RangeEnd(i, total) = (i + 1) * q + (IF i < m THEN 1 ELSE 0)
    BY DEF RangeEnd
  <2> HIDE DEF n, q, m
  <2>3. i \in Nat
    BY DEF Threads
  <2>4. i * q \in Nat /\ (i + 1) * q = i * q + q
    BY <1>2, <2>3
  <2>5. (i + 1) * q + (IF i < m THEN 1 ELSE 0) <= total
    <3>1. CASE i < m
      <4>1. i + 2 <= n
        BY <1>1, <1>2, <2>3, <3>1
      <4>2. (i + 2) * q <= n * q
        BY <1>1, <1>2, <2>3, <4>1
      <4>3. (i + 2) * q = (i + 1) * q + q
        BY <1>2, <2>3
      <4> QED
        BY <1>1, <1>2, <2>3, <2>4, <3>1, <4>2, <4>3
    <3>2. CASE ~(i < m)
      <4>1. (i + 1) * q <= n * q
        BY <1>1, <1>2, <1>3, <2>3
      <4> QED
        BY <1>1, <1>2, <2>3, <2>4, <3>2, <4>1
    <3> QED
      BY <3>1, <3>2
  <2> QED
    BY <1>2, <2>1, <2>2, <2>4, <2>5
<1>4. CASE ~(i < n)
  <2>1. SubTask(i, total) = Off
    BY <1>4 DEF SubTask
  <2> QED
    BY <2>1 DEF Off
<1> QED
  BY <1>3, <1>4

\* Unless the files divide unevenly, the ranges leave no file out and share none.
LEMMA RangesDivide ==
  ASSUME NEW total \in 2 .. FileCount, ~Uneven(total)
  PROVE  /\ \A k \in 1 .. total : \E i \in Threads :
               LET t == SubTask(i, total) IN t.pc = "load" /\ t.at < k /\ k <= t.end
         /\ \A i, j \in Threads :
               i # j /\ SubTask(i, total).pc # "off" /\ SubTask(j, total).pc # "off" =>
                  \/ SubTask(i, total).end <= SubTask(j, total).at
                  \/ SubTask(j, total).end <= SubTask(i, total).at
<1> DEFINE n == ThreadCount(total)
           q == total \div n
<1>1. n \in Nat /\ n > 0 /\ n <= MaxThreads /\ n <= total
  <2>1. total \div 2 \in Nat /\ total \div 2 >= 1 /\ total \div 2 <= total
    OBVIOUS
  <2> QED
    BY <2>1 DEF ThreadCount
<1>2. q \in Nat /\ total = n * q /\ q >= 1
  <2>1. total % n = 0
    BY DEF Uneven
  <2>2. q \in Nat /\ total = n * q
    BY <1>1, <2>1
  <2>3. q # 0
    BY <1>1, <2>2
  <2> QED
    BY <2>2, <2>3
<1>3. \A i \in Threads : i < n =>
         SubTask(i, total) = [pc |-> "load", at |-> i * q, end |-> (i + 1) * q,
                              buf |-> [key |-> 1, iv |-> 0]]
  <2> SUFFICES ASSUME NEW i \in Threads, i < n
               PROVE  SubTask(i, total) = [pc |-> "load", at |-> i * q, end |-> (i + 1) * q,
                                           buf |-> [key |-> 1, iv |-> 0]]
    OBVIOUS
  <2>1. RangeEnd(i, total) = (i + 1) * q
    <3>1. ~(i < total % n)
      BY DEF Uneven, Threads
    <3>2. (i + 1) * q + 0 = (i + 1) * q
      BY <1>2 DEF Threads
    <3> QED
      BY <3>1, <3>2 DEF RangeEnd
  <2> QED
    BY <2>1 DEF SubTask, Off
<1>4. \A i \in Threads : ~(i < n) => SubTask(i, total).pc = "off"
  BY DEF SubTask, Off
<1> HIDE DEF n, q
<1>5. ASSUME NEW k \in 1 .. total
      PROVE  \E i \in Threads :
                LET t == SubTask(i, total) IN t.pc = "load" /\ t.at < k /\ k <= t.end
  <2> DEFINE i == (k - 1) \div q
             r == (k - 1) % q
  <2>1. i \in Nat /\ r \in 0 .. q - 1 /\ k - 1 = q * i + r
    BY <1>2
  <2> HIDE DEF i, r
  <2>2. i * q < k /\ k <= (i + 1) * q
    <3>1. i * q = q * i /\ (i + 1) * q = q * i + q /\ q * i \in Nat
      BY <1>2, <2>1
    <3> QED
      BY <1>2, <2>1, <3>1
  <2>3. i < n
    <3> SUFFICES ASSUME n <= i PROVE FALSE
      BY <1>1, <2>1
    <3>1. n * q <= i * q
      BY <1>1, <1>2, <2>1
    <3>2. i * q \in Nat /\ n * q \in Nat
      BY <1>1, <1>2, <2>1
    <3> QED
      BY <1>2, <2>2, <3>1, <3>2
  <2>4. i \in Threads
    BY <1>1, <2>1, <2>3 DEF Threads
  <2> QED
    BY <1>3, <2>2, <2>3, <2>4
<1>6. ASSUME NEW i \in Threads, NEW j \in Threads, i < j, j < n
      PROVE  SubTask(i, total).end <= SubTask(j, total).at
  <2>1. i \in Nat /\ j \in Nat /\ i + 1 <= j
    BY <1>6 DEF Threads
  <2>2. (i + 1) * q <= j * q
    BY <1>2, <2>1
  <2>3. i < n
    BY <1>1, <1>6, <2>1
  <2> QED
    BY <1>3, <1>6, <2>2, <2>3
<1>7. \A i, j \in Threads :
         i # j /\ SubTask(i, total).pc # "off" /\ SubTask(j, total).pc # "off" =>
            \/ SubTask(i, total).end <= SubTask(j, total).at
            \/ SubTask(j, total).end <= SubTask(i, total).at
  <2> SUFFICES ASSUME NEW i \in Threads, NEW j \in Threads, i # j,
                      SubTask(i, total).pc # "off", SubTask(j, total).pc # "off"
               PROVE  \/ SubTask(i, total).end <= SubTask(j, total).at
                      \/ SubTask(j, total).end <= SubTask(i, total).at
    OBVIOUS
  <2>1. i < n /\ j < n
    BY <1>4
  <2>2. i < j \/ j < i
    BY DEF Threads
  <2> QED
    BY <1>6, <2>1, <2>2
<1> QED
  BY <1>5, <1>7

-----------------------------------------------------------------------------
(* Type correctness.                                                        *)

\* A key can be made for a preparation that has not made it yet, and no version is ahead of the
\* keys made: what keeps both counters within their bounds.
NewKeyFits  == prep = "swap" => made <= MaxRotations
VersionFits == dbVersion + (IF prep = "store" THEN 1 ELSE 0) <= made

\* The range of a sub-task that has not ended lies within the list and has files left.
RangesFit ==
  \A j \in Threads : task[j].pc # "off" => task[j].at < task[j].end /\ task[j].end <= Len(listed)

\* Sub-tasks run only between BeginRun and processFutures.
OffBetween == run # "rotate" => \A j \in Threads : task[j].pc = "off"

WriterFits == writer.pc # "idle" => writer.file \in Files

TypeInv == TypeOK /\ NewKeyFits /\ VersionFits /\ RangesFit /\ OffBetween /\ WriterFits

\* The parts of the state that are records are records of these sets.
LEMMA StartTypes ==
  /\ 1 \in Keys /\ 1 \in Versions /\ 0 \in Ivs
  /\ Off \in SubTasks /\ Idle \in Writers /\ NoObjects \in [Files -> FileRow]
BY DEF Keys, Versions, Ivs, Off, SubTasks, Idle, Writers, NoObjects, FileRow, Ciphertext

LEMMA InitTypes == Init => TypeInv
<1> SUFFICES ASSUME Init PROVE TypeInv
  OBVIOUS
<1>1. disk \in [Files -> Ciphertext] /\ row \in [Files -> FileRow]
  BY StartTypes DEF Init, Ciphertext, FileRow
<1>2. task \in [Threads -> SubTasks] /\ \A j \in Threads : task[j].pc = "off"
  BY StartTypes DEF Init, Off
<1>3. writer \in Writers /\ writer.pc = "idle"
  BY StartTypes DEF Init, Idle
<1>4. TypeOK
  <2>1. listed \in Seq(Files) /\ object \in [Files -> FileRow]
    BY StartTypes DEF Init
  <2>2. restarts \in 0 .. MaxRestarts /\ faults \in 0 .. MaxFaults /\ writes \in 0 .. MaxWrites
    BY DEF Init
  <2>3. /\ key = 1 /\ old = NoKey /\ version = 1 /\ rotating = FALSE /\ made = 1 /\ dbKey = 1
        /\ dbVersion = 1 /\ dbOld = NoKey /\ prep = "idle" /\ run = "idle" /\ dead = FALSE
        /\ harm = {}
    BY DEF Init
  <2> QED
    BY <1>1, <1>2, <1>3, <2>1, <2>2, <2>3, StartTypes DEF TypeOK
<1>5. NewKeyFits /\ VersionFits
  <2>1. prep = "idle" /\ dbVersion = 1 /\ made = 1
    BY DEF Init
  <2> QED
    BY <2>1 DEF NewKeyFits, VersionFits
<1> QED
  BY <1>2, <1>3, <1>4, <1>5 DEF TypeInv, RangesFit, OffBetween, WriterFits

\* The file that a sub-task is at.
LEMMA FileOfIsFile ==
  ASSUME TypeInv, NEW j \in Threads, task[j].pc # "off"
  PROVE  /\ FileOf(j) \in Files
         /\ task[j] \in SubTasks /\ task[j].at \in Nat /\ task[j].end \in Nat
         /\ task[j].at + 1 \in 1 .. Len(listed)
<1>1. task[j] \in SubTasks /\ task[j].at \in Nat /\ task[j].end \in Nat
  BY DEF TypeInv, TypeOK, SubTasks
<1>2. task[j].at < task[j].end /\ task[j].end <= Len(listed)
  BY DEF TypeInv, RangesFit
<1>3. listed \in Seq(Files)
  BY DEF TypeInv, TypeOK
<1> QED
  BY <1>1, <1>2, <1>3 DEF FileOf

\* The steps of the preparation keep the types.
LEMMA PrepareTypes ==
  ASSUME TypeInv, PrepareCheck \/ PrepareStep
  PROVE  TypeInv'
<1> USE DEF PrepareFrame, NoFault, counts, memory, keyRow, runVars
<1>1. TypeOK /\ NewKeyFits /\ VersionFits
  BY DEF TypeInv
<1>2. /\ (RangesFit /\ OffBetween /\ WriterFits)'
      /\ UNCHANGED <<disk, row, run, listed, object, task, writer, dead>>
  <2>1. UNCHANGED <<disk, row, run, listed, object, task, writer, dead>>
    BY DEF PrepareCheck, PrepareStep, PrepareSwap, PrepareStore, PreparePublish
  <2> QED
    BY <2>1 DEF TypeInv, RangesFit, OffBetween, WriterFits
<1>3. CASE PrepareCheck
  <2>1. TypeOK'
    BY <1>1, <1>2, <1>3 DEF TypeOK, PrepareCheck
  <2>2. NewKeyFits' /\ VersionFits'
    BY <1>1, <1>3 DEF PrepareCheck, NewKeyFits, VersionFits
  <2> QED
    BY <1>2, <2>1, <2>2 DEF TypeInv
<1>4. CASE PrepareSwap
  <2>1. made \in Keys /\ made <= MaxRotations /\ dbVersion \in Versions
    BY <1>1, <1>4 DEF TypeOK, NewKeyFits, PrepareSwap
  <2>2. made + 1 \in Keys
    BY <2>1 DEF Keys
  <2>3. TypeOK'
    BY <1>1, <1>2, <1>4, <2>2 DEF TypeOK, PrepareSwap
  <2>4. NewKeyFits' /\ VersionFits'
    BY <1>1, <1>4, <2>1 DEF PrepareSwap, NewKeyFits, VersionFits, Keys, Versions
  <2> QED
    BY <1>2, <2>3, <2>4 DEF TypeInv
<1>5. CASE PrepareStore
  <2>1. made \in Keys /\ dbVersion \in Versions /\ dbVersion + 1 <= made
    BY <1>1, <1>5 DEF TypeOK, VersionFits, PrepareStore
  <2>2. NextVersion \in Versions /\ NextVersion <= made
    BY <2>1 DEF Keys, Versions, NextVersion
  <2>3. CASE dbOld' = dbKey /\ dbKey' = key /\ dbVersion' = NextVersion /\ prep' = "publish"
             /\ NoFault
    <3>1. TypeOK'
      BY <1>1, <1>2, <1>5, <2>2, <2>3 DEF TypeOK, PrepareStore
    <3>2. NewKeyFits' /\ VersionFits'
      BY <1>5, <2>1, <2>2, <2>3 DEF PrepareStore, NewKeyFits, VersionFits, Keys, Versions
    <3> QED
      BY <1>2, <3>1, <3>2 DEF TypeInv
  <2>4. CASE Fault /\ prep' = "idle" /\ UNCHANGED keyRow
    <3>1. TypeOK'
      BY <1>1, <1>2, <1>5, <2>4 DEF TypeOK, PrepareStore, Fault
    <3>2. NewKeyFits' /\ VersionFits'
      BY <1>5, <2>1, <2>4 DEF PrepareStore, NewKeyFits, VersionFits, Keys, Versions
    <3> QED
      BY <1>2, <3>1, <3>2 DEF TypeInv
  <2> QED
    BY <1>5, <2>3, <2>4 DEF PrepareStore
<1>6. CASE PreparePublish
  <2>1. TypeOK'
    BY <1>1, <1>2, <1>6 DEF TypeOK, PreparePublish
  <2>2. NewKeyFits' /\ VersionFits'
    BY <1>1, <1>6 DEF PreparePublish, NewKeyFits, VersionFits
  <2> QED
    BY <1>2, <2>1, <2>2 DEF TypeInv
<1> QED
  BY <1>3, <1>4, <1>5, <1>6 DEF PrepareStep

\* A sub-task moves on with its range.
LEMMA MovesOn ==
  ASSUME NEW j \in Threads, task \in [Threads -> SubTasks], NEW pc, NEW b
  PROVE  LET t == [pc |-> pc, at |-> task[j].at, end |-> task[j].end, buf |-> b] IN
         /\ [task EXCEPT ![j].pc = pc, ![j].buf = b] = [task EXCEPT ![j] = t]
         /\ b = task[j].buf => [task EXCEPT ![j].pc = pc] = [task EXCEPT ![j] = t]
<1> DEFINE r == task[j]
           one == [task EXCEPT ![j].pc = pc]
           t == [pc |-> pc, at |-> r.at, end |-> r.end, buf |-> b]
<1>1. r \in SubTasks
  OBVIOUS
<1>2. r = [pc |-> r.pc, at |-> r.at, end |-> r.end, buf |-> r.buf]
  BY <1>1 DEF SubTasks
<1>3. one = [task EXCEPT ![j] = [r EXCEPT !.pc = pc]]
      /\ [task EXCEPT ![j].pc = pc, ![j].buf = b] = [one EXCEPT ![j].buf = b]
  OBVIOUS
<1> HIDE DEF r, one
<1>4. [r EXCEPT !.pc = pc] = [pc |-> pc, at |-> r.at, end |-> r.end, buf |-> r.buf]
  BY <1>2
<1>5. one = [task EXCEPT ![j] = [pc |-> pc, at |-> r.at, end |-> r.end, buf |-> r.buf]]
  BY <1>3, <1>4
<1>6. one[j] = [pc |-> pc, at |-> r.at, end |-> r.end, buf |-> r.buf]
  BY <1>5
<1>7. [one[j] EXCEPT !.buf = b] = t
  BY <1>6
<1>8. [one EXCEPT ![j].buf = b] = [one EXCEPT ![j] = t]
  BY <1>7
<1>9. [one EXCEPT ![j] = t] = [task EXCEPT ![j] = t]
  BY <1>5
<1> QED
  BY <1>3, <1>5, <1>8, <1>9 DEF r

\* The steps of a sub-task keep the types.
LEMMA TaskTypes ==
  ASSUME TypeInv, NEW j \in Threads, TaskStep(j) \/ TaskFails(j)
  PROVE  TypeInv'
<1> USE DEF TaskFrame, RunFrame, NoFault, counts, memory, keyRow
<1> DEFINE f == FileOf(j)
<1>1. TypeOK /\ NewKeyFits /\ VersionFits /\ RangesFit /\ OffBetween /\ WriterFits
  BY DEF TypeInv
<1>2. /\ task[j].pc # "off"
      /\ UNCHANGED <<key, old, version, rotating, dbKey, dbVersion, dbOld, run, listed, dead,
                     made, prep, writer, restarts, writes>>
  BY DEF TaskStep, LoadFile, WriteFile, SaveRow, TaskFails, Fault
<1>3. /\ f \in Files /\ task[j] \in SubTasks /\ task[j].at \in Nat /\ task[j].end \in Nat
      /\ task[j].at < task[j].end
  BY <1>1, <1>2, FileOfIsFile DEF RangesFit
<1> HIDE DEF f
<1>4. run = "rotate"
  BY <1>1, <1>2 DEF OffBetween
<1>5. ASSUME NEW t, task' = [task EXCEPT ![j] = t], t \in SubTasks,
             t.pc # "off" => t.at < t.end /\ t.end = task[j].end,
             disk' \in [Files -> Ciphertext], row' \in [Files -> FileRow],
             object' \in [Files -> FileRow],
             faults' \in 0 .. MaxFaults,
             harm' \in SUBSET {"restart", "torn", "fault", "overlap", "clash", "mislabelled", "uneven"}
      PROVE  TypeInv'
  <2>1. task' \in [Threads -> SubTasks] /\ task'[j] = t
        /\ \A i \in Threads : i # j => task'[i] = task[i]
    BY <1>1, <1>5 DEF TypeOK
  <2>2. TypeOK'
    BY <1>1, <1>2, <1>5, <2>1 DEF TypeOK
  <2>3. RangesFit'
    BY <1>1, <1>2, <1>5, <2>1 DEF RangesFit
  <2>4. (NewKeyFits /\ VersionFits /\ OffBetween /\ WriterFits)'
    BY <1>1, <1>2, <1>4 DEF NewKeyFits, VersionFits, OffBetween, WriterFits
  <2> QED
    BY <2>2, <2>3, <2>4 DEF TypeInv
<1>6. Off \in SubTasks /\ Off.pc = "off"
  BY StartTypes DEF Off
<1>7. /\ disk \in [Files -> Ciphertext] /\ row \in [Files -> FileRow]
      /\ object \in [Files -> FileRow] /\ faults \in 0 .. MaxFaults
      /\ harm \in SUBSET {"restart", "torn", "fault", "overlap", "clash", "mislabelled", "uneven"}
      /\ key \in Keys /\ version \in Versions /\ task \in [Threads -> SubTasks]
  BY <1>1 DEF TypeOK
<1>8. CASE LoadFile(j)
  <2>1. FreshIv(f) \in Ivs
    BY FreshIvIsFresh
  <2> DEFINE fresh == [key |-> key, iv |-> FreshIv(f)]
             kept == [pc |-> "write", at |-> task[j].at, end |-> task[j].end, buf |-> disk[f]]
             made1 == [pc |-> "write", at |-> task[j].at, end |-> task[j].end, buf |-> fresh]
  <2>2. fresh \in Ciphertext /\ disk[f] \in Ciphertext /\ fresh.iv = FreshIv(f)
    BY <1>3, <1>7, <2>1 DEF Ciphertext
  <2>3. \/ task' = [task EXCEPT ![j].pc = "write", ![j].buf = disk[f]] /\ UNCHANGED object
        \/ /\ task' = [task EXCEPT ![j].pc = "write", ![j].buf = fresh]
           /\ object' = [object EXCEPT ![f] = [version |-> version, iv |-> FreshIv(f)]]
        \/ Give(j) /\ UNCHANGED object
    BY <1>8, <2>2 DEF LoadFile, f
  <2> HIDE DEF fresh
  <2>5. /\ kept \in SubTasks /\ kept.at < kept.end /\ kept.end = task[j].end
        /\ made1 \in SubTasks /\ made1.at < made1.end /\ made1.end = task[j].end
    BY <1>3, <2>2 DEF SubTasks
  <2>6. UNCHANGED <<disk, row, faults, harm>>
    BY <1>8 DEF LoadFile
  <2>7. CASE task' = [task EXCEPT ![j].pc = "write", ![j].buf = disk[f]] /\ UNCHANGED object
    <3>1. task' = [task EXCEPT ![j] = kept]
      BY <1>7, <2>7, MovesOn
    <3> HIDE DEF kept
    <3> QED
      BY <1>5, <1>7, <2>5, <2>6, <2>7, <3>1
  <2>8. CASE /\ task' = [task EXCEPT ![j].pc = "write", ![j].buf = fresh]
             /\ object' = [object EXCEPT ![f] = [version |-> version, iv |-> FreshIv(f)]]
    <3>1. task' = [task EXCEPT ![j] = made1]
      BY <1>7, <2>8, MovesOn
    <3>2. object' \in [Files -> FileRow]
      BY <1>3, <1>7, <2>1, <2>8 DEF FileRow
    <3> HIDE DEF made1
    <3> QED
      BY <1>5, <1>7, <2>5, <2>6, <3>1, <3>2
  <2>9. CASE Give(j) /\ UNCHANGED object
    BY <1>5, <1>6, <1>7, <2>6, <2>9 DEF Give
  <2> QED
    BY <2>3, <2>7, <2>8, <2>9
<1>9. CASE WriteFile(j)
  <2> DEFINE t == [pc |-> "save", at |-> task[j].at, end |-> task[j].end, buf |-> task[j].buf]
  <2>1. task[j] = [pc |-> task[j].pc, at |-> task[j].at, end |-> task[j].end, buf |-> task[j].buf]
        /\ t \in SubTasks /\ task[j].buf \in Ciphertext /\ t.at < t.end /\ t.end = task[j].end
    BY <1>3 DEF SubTasks
  <2>2. task' = [task EXCEPT ![j] = t]
    BY <1>7, <1>9, MovesOn DEF WriteFile
  <2>3. disk' \in [Files -> Ciphertext] /\ UNCHANGED <<row, object, faults, harm>>
    BY <1>3, <1>7, <1>9, <2>1 DEF WriteFile
  <2> HIDE DEF t
  <2> QED
    BY <1>5, <1>7, <2>1, <2>2, <2>3
<1>10. CASE SaveRow(j)
  <2> DEFINE t == [pc |-> "load", at |-> task[j].at + 1, end |-> task[j].end, buf |-> task[j].buf]
  <2>1. row' \in [Files -> FileRow] /\ UNCHANGED <<disk, object, faults, harm>>
    BY <1>3, <1>7, <1>10 DEF SaveRow, Saved, f
  <2>2. CASE task[j].at + 1 = task[j].end
    BY <1>5, <1>6, <1>7, <1>10, <2>1, <2>2 DEF Give, SaveRow
  <2>3. CASE task[j].at + 1 # task[j].end
    <3>1. task[j] = [pc |-> task[j].pc, at |-> task[j].at, end |-> task[j].end,
                     buf |-> task[j].buf]
          /\ task[j].at \in 0 .. FileCount /\ task[j].end \in 0 .. FileCount
          /\ task[j].buf \in Ciphertext
      BY <1>3 DEF SubTasks
    <3>2. task[j].at + 1 \in 0 .. FileCount /\ task[j].at + 1 < task[j].end
      BY <1>3, <2>3, <3>1
    <3>3. t \in SubTasks
      BY <3>1, <3>2 DEF SubTasks
    <3>4. task' = [task EXCEPT ![j] = t]
      BY <1>7, <1>10, <2>3, <3>1 DEF SaveRow
    <3> QED
      BY <1>5, <1>7, <2>1, <3>2, <3>3, <3>4
  <2> QED
    BY <2>2, <2>3
<1>11. CASE TaskFails(j)
  <2>1. /\ task' = [task EXCEPT ![j] = Off] /\ UNCHANGED <<disk, row, object>>
        /\ faults' \in 0 .. MaxFaults /\ harm' = harm \cup {"fault"}
    BY <1>7, <1>11 DEF TaskFails, Give, Fault
  <2> QED
    BY <1>5, <1>6, <1>7, <2>1
<1> QED
  BY <1>8, <1>9, <1>10, <1>11 DEF TaskStep

\* The steps of a run that are not of its sub-tasks keep the types.
LEMMA RunTypes ==
  ASSUME TypeInv, BeginRun \/ FinishStep
  PROVE  TypeInv'
<1> USE DEF RunFrame, NoFault, counts, memory, keyRow, runVars
<1>1. TypeOK /\ NewKeyFits /\ VersionFits /\ RangesFit /\ OffBetween /\ WriterFits
  BY DEF TypeInv
<1>2. CASE BeginRun
  <2> DEFINE total == Len(Older)
  <2>1. /\ UNCHANGED <<key, old, version, rotating, made, dbKey, dbVersion, dbOld, disk, row, prep,
                       writer, restarts, faults, writes>>
        /\ harm' = harm \cup (IF writer.pc # "idle" THEN {"clash"} ELSE {})
                        \cup (IF Uneven(total) THEN {"uneven"} ELSE {})
        /\ \/ total = 0 /\ run' = "clear" /\ UNCHANGED <<listed, object, task, dead>>
           \/ total = 1 /\ dead' = TRUE /\ UNCHANGED <<run, listed, object, task>>
           \/ /\ total > 1 /\ run' = "rotate" /\ listed' = Older /\ object' = row
              /\ task' = [i \in Threads |-> SubTask(i, total)]
              /\ UNCHANGED dead
        /\ run = "idle"
    BY <1>2 DEF BeginRun
  <2>2. harm' \subseteq {"restart", "torn", "fault", "overlap", "clash", "mislabelled", "uneven"}
    BY <1>1, <2>1 DEF TypeOK
  <2>3. (NewKeyFits /\ VersionFits /\ WriterFits)'
    BY <1>1, <2>1 DEF NewKeyFits, VersionFits, WriterFits
  <2>4. total \in 0 .. FileCount /\ Older \in Seq(Files)
    BY ListingIsComplete
  <2> HIDE DEF total
  <2>5. CASE total = 0 /\ run' = "clear" /\ UNCHANGED <<listed, object, task, dead>>
    <3>1. TypeOK'
      BY <1>1, <2>1, <2>2, <2>5 DEF TypeOK
    <3>2. RangesFit' /\ OffBetween'
      BY <1>1, <2>1, <2>5 DEF RangesFit, OffBetween
    <3> QED
      BY <2>3, <3>1, <3>2 DEF TypeInv
  <2>6. CASE total = 1 /\ dead' = TRUE /\ UNCHANGED <<run, listed, object, task>>
    <3>1. TypeOK'
      BY <1>1, <2>1, <2>2, <2>6 DEF TypeOK
    <3>2. RangesFit' /\ OffBetween'
      BY <1>1, <2>6 DEF RangesFit, OffBetween
    <3> QED
      BY <2>3, <3>1, <3>2 DEF TypeInv
  <2>7. CASE /\ total > 1 /\ run' = "rotate" /\ listed' = Older /\ object' = row
             /\ task' = [i \in Threads |-> SubTask(i, total)]
             /\ UNCHANGED dead
    <3>1. total \in 2 .. FileCount
      BY <2>4, <2>7
    <3>2. \A i \in Threads : /\ SubTask(i, total) \in SubTasks
                             /\ SubTask(i, total).pc # "off" =>
                                  /\ SubTask(i, total).at < SubTask(i, total).end
                                  /\ SubTask(i, total).end <= total
      <4> SUFFICES ASSUME NEW i \in Threads
                   PROVE  /\ SubTask(i, total) \in SubTasks
                          /\ SubTask(i, total).pc # "off" =>
                                  /\ SubTask(i, total).at < SubTask(i, total).end
                                  /\ SubTask(i, total).end <= total
        OBVIOUS
      <4> DEFINE t == SubTask(i, total)
      <4>1. /\ t.pc \in {"off", "load"} /\ t.at \in 0 .. FileCount /\ t.end \in 0 .. FileCount
            /\ t.buf = [key |-> 1, iv |-> 0]
            /\ t = [pc |-> t.pc, at |-> t.at, end |-> t.end, buf |-> t.buf]
            /\ t.pc # "off" => t.at < t.end /\ t.end <= total
        BY <3>1, RangesLieWithin
      <4>2. [key |-> 1, iv |-> 0] \in Ciphertext
        BY StartTypes DEF Ciphertext
      <4> HIDE DEF t
      <4>3. t \in SubTasks
        BY <4>1, <4>2 DEF SubTasks
      <4> QED
        BY <4>1, <4>3 DEF t
    <3>3. TypeOK'
      BY <1>1, <2>1, <2>2, <2>4, <2>7, <3>2 DEF TypeOK
    <3>4. RangesFit' /\ OffBetween'
      BY <2>7, <3>2 DEF RangesFit, OffBetween, total
    <3> QED
      BY <2>3, <3>3, <3>4 DEF TypeInv
  <2> QED
    BY <2>1, <2>5, <2>6, <2>7
<1>3. CASE ProcessFutures
  <2>1. UNCHANGED <<key, old, version, rotating, made, dbKey, dbVersion, dbOld, disk, row, prep,
                    listed, object, task, writer, dead, restarts, faults, writes, harm>>
        /\ run' = "clear" /\ FuturesDone
    BY <1>3 DEF ProcessFutures
  <2>2. TypeOK'
    BY <1>1, <2>1 DEF TypeOK
  <2>3. (NewKeyFits /\ VersionFits /\ RangesFit /\ OffBetween /\ WriterFits)'
    BY <1>1, <2>1 DEF NewKeyFits, VersionFits, RangesFit, OffBetween, WriterFits, FuturesDone
  <2> QED
    BY <2>2, <2>3 DEF TypeInv
<1>4. CASE FinishClear \/ FinishMark \/ FinishPublish
  <2>1. /\ UNCHANGED <<key, version, made, dbKey, dbVersion, disk, row, task, prep, writer, dead,
                       restarts, writes>>
        /\ run # "rotate" /\ run' \in {"idle", "mark", "publish"}
        /\ old' \in {old, NoKey} /\ dbOld' \in {dbOld, NoKey} /\ rotating' \in {rotating, FALSE}
    BY <1>4 DEF FinishClear, FinishMark, FinishPublish, FinishFrame, Fault, Completed
  <2>2. /\ faults' \in 0 .. MaxFaults
        /\ harm' \subseteq {"restart", "torn", "fault", "overlap", "clash", "mislabelled", "uneven"}
    <3>1. UNCHANGED <<faults, harm>> \/ Fault
      BY <1>4 DEF FinishClear, FinishMark, FinishPublish
    <3>2. faults \in 0 .. MaxFaults
          /\ harm \subseteq {"restart", "torn", "fault", "overlap", "clash", "mislabelled", "uneven"}
      BY <1>1 DEF TypeOK
    <3>3. CASE Fault
      BY <3>2, <3>3 DEF Fault
    <3> QED
      BY <3>1, <3>2, <3>3
  <2>3. \/ listed' = <<>> /\ object' = NoObjects
        \/ UNCHANGED <<listed, object>>
    BY <1>4 DEF FinishClear, FinishMark, FinishPublish, FinishFrame
  <2>4. listed' \in Seq(Files) /\ object' \in [Files -> FileRow]
    <3>1. listed \in Seq(Files) /\ object \in [Files -> FileRow]
      BY <1>1 DEF TypeOK
    <3>2. <<>> \in Seq(Files)
      OBVIOUS
    <3> QED
      BY <2>3, <3>1, <3>2, StartTypes
  <2>5. TypeOK'
    <3>1. old' \in Keys \cup {NoKey} /\ dbOld' \in Keys \cup {NoKey}
      BY <1>1, <2>1 DEF TypeOK
    <3>2. rotating' \in BOOLEAN
      BY <1>1, <2>1 DEF TypeOK
    <3>3. run' \in {"idle", "rotate", "clear", "mark", "publish"}
      BY <2>1
    <3> QED
      BY <1>1, <2>1, <2>2, <2>4, <3>1, <3>2, <3>3 DEF TypeOK
  <2>6. (NewKeyFits /\ VersionFits /\ WriterFits)'
    BY <1>1, <2>1 DEF NewKeyFits, VersionFits, WriterFits
  <2>7. \A j \in Threads : task[j].pc = "off"
    BY <1>1, <2>1 DEF OffBetween
  <2>8. RangesFit' /\ OffBetween'
    BY <2>1, <2>7 DEF RangesFit, OffBetween
  <2> QED
    BY <2>5, <2>6, <2>8 DEF TypeInv
<1> QED
  BY <1>2, <1>3, <1>4 DEF FinishStep

\* The steps of createFile keep the types.
LEMMA WriterTypes ==
  ASSUME TypeInv, WriteContents \/ WriteRow \/ (\E f \in Files : WriteBegins(f))
  PROVE  TypeInv'
<1> USE DEF WriterFrame, Clash, counts, memory, keyRow, runVars
<1>1. TypeOK /\ NewKeyFits /\ VersionFits /\ RangesFit /\ OffBetween /\ WriterFits
  BY DEF TypeInv
<1>2. UNCHANGED <<key, old, version, rotating, made, dbKey, dbVersion, dbOld, prep, run, listed,
                  object, task, dead, restarts, faults>>
  BY DEF WriteContents, WriteRow, WriteBegins
<1>3. harm' \subseteq {"restart", "torn", "fault", "overlap", "clash", "mislabelled", "uneven"}
  <2>1. \A h : h \in harm' => h \in harm \cup {"clash", "mislabelled"}
    BY DEF WriteContents, WriteRow, WriteBegins
  <2> QED
    BY <1>1, <2>1 DEF TypeOK
<1>4. (NewKeyFits /\ VersionFits /\ RangesFit /\ OffBetween)'
  BY <1>1, <1>2 DEF NewKeyFits, VersionFits, RangesFit, OffBetween
<1>5. ASSUME disk' \in [Files -> Ciphertext], row' \in [Files -> FileRow], writer' \in Writers,
             writer'.pc # "idle" => writer'.file \in Files, writes' \in 0 .. MaxWrites
      PROVE  TypeInv'
  <2>1. TypeOK'
    BY <1>1, <1>2, <1>3, <1>5 DEF TypeOK
  <2>2. WriterFits'
    BY <1>5 DEF WriterFits
  <2> QED
    BY <1>4, <2>1, <2>2 DEF TypeInv
<1>6. /\ disk \in [Files -> Ciphertext] /\ row \in [Files -> FileRow] /\ writer \in Writers
      /\ writes \in 0 .. MaxWrites /\ key \in Keys
  BY <1>1 DEF TypeOK
<1>7. /\ writer.file \in 0 .. FileCount /\ writer.buf \in Ciphertext /\ writer.buf.iv \in Ivs
      /\ writer = [pc |-> writer.pc, file |-> writer.file, buf |-> writer.buf]
  BY <1>6 DEF Writers, Ciphertext
<1>8. ASSUME NEW f \in Files, WriteBegins(f) PROVE TypeInv'
  <2>1. [key |-> key, iv |-> FreshIv(f)] \in Ciphertext
    BY <1>6, FreshIvIsFresh DEF Ciphertext
  <2>2. writer' \in Writers /\ writer'.file = f
    BY <1>8, <2>1 DEF WriteBegins, Writers, Files
  <2>3. writes' \in 0 .. MaxWrites /\ UNCHANGED <<disk, row>>
    BY <1>6, <1>8 DEF WriteBegins
  <2> QED
    BY <1>5, <1>6, <2>2, <2>3
<1>9. CASE WriteContents
  <2>1. writer.file \in Files
    BY <1>1, <1>9 DEF WriteContents, WriterFits
  <2>2. writer' \in Writers /\ writer'.file = writer.file
    BY <1>7, <1>9 DEF WriteContents, Writers
  <2>3. disk' \in [Files -> Ciphertext] /\ UNCHANGED <<row, writes>>
    BY <1>6, <1>7, <1>9, <2>1 DEF WriteContents
  <2> QED
    BY <1>5, <1>6, <2>1, <2>2, <2>3
<1>10. CASE WriteRow
  <2>1. writer.file \in Files
    BY <1>1, <1>10 DEF WriteRow, WriterFits
  <2>2. PICK v \in {row[writer.file].version, 1} :
           row' = [row EXCEPT ![writer.file] = [version |-> v, iv |-> writer.buf.iv]]
    BY <1>10 DEF WriteRow
  <2>3. v \in Versions
    BY <1>6, <2>1, StartTypes DEF FileRow
  <2>4. [version |-> v, iv |-> writer.buf.iv] \in FileRow
    BY <1>7, <2>3 DEF FileRow
  <2>5. row' \in [Files -> FileRow]
    BY <1>6, <2>2, <2>4
  <2>6. writer' \in Writers /\ writer'.pc = "idle" /\ UNCHANGED <<disk, writes>>
    BY <1>10, StartTypes DEF WriteRow, Idle
  <2> QED
    BY <1>5, <1>6, <2>5, <2>6
<1> QED
  BY <1>8, <1>9, <1>10

\* A restart keeps the types.
LEMMA RestartTypes ==
  ASSUME TypeInv, Restart
  PROVE  TypeInv'
<1>1. TypeOK /\ VersionFits
  BY DEF TypeInv
<1>2. /\ UNCHANGED <<made, dbKey, dbVersion, dbOld, disk, row, faults, writes>>
      /\ restarts' \in 0 .. MaxRestarts /\ prep' = "idle" /\ run' = "idle" /\ listed' = <<>>
      /\ object' = NoObjects /\ writer' = Idle /\ dead' = FALSE
      /\ task' = [j \in Threads |-> Off]
      /\ key' = dbKey /\ version' = dbVersion /\ old' = dbOld /\ rotating' = (dbOld # NoKey)
  BY <1>1 DEF Restart, TypeOK, keyRow
<1>3. harm' \subseteq {"restart", "torn", "fault", "overlap", "clash", "mislabelled", "uneven"}
  BY <1>1 DEF Restart, TypeOK
<1>4. rotating' \in BOOLEAN /\ listed' \in Seq(Files) /\ task' \in [Threads -> SubTasks]
      /\ object' \in [Files -> FileRow] /\ writer' \in Writers
  BY <1>2, StartTypes
<1>5. TypeOK'
  BY <1>1, <1>2, <1>3, <1>4 DEF TypeOK
<1>6. NewKeyFits'
  BY <1>2 DEF NewKeyFits
<1>7. VersionFits'
  <2>1. dbVersion \in Versions /\ made \in Keys /\ dbVersion <= made
    BY <1>1 DEF TypeOK, VersionFits, Versions, Keys
  <2> QED
    BY <1>2, <2>1 DEF VersionFits, Versions
<1>8. (RangesFit /\ OffBetween /\ WriterFits)'
  BY <1>2 DEF RangesFit, OffBetween, WriterFits, Off, Idle
<1> QED
  BY <1>5, <1>6, <1>7, <1>8 DEF TypeInv

LEMMA NextTypes == TypeInv /\ [Next]_vars => TypeInv'
<1> SUFFICES ASSUME TypeInv, [Next]_vars PROVE TypeInv'
  OBVIOUS
<1>1. CASE Next
  BY <1>1, RestartTypes, PrepareTypes, RunTypes, TaskTypes, WriterTypes DEF Next
<1>2. CASE UNCHANGED vars
  BY <1>2 DEF vars, memory, keyRow, runVars, counts, TypeInv, TypeOK, NewKeyFits, VersionFits,
              RangesFit, OffBetween, WriterFits
<1> QED
  BY <1>1, <1>2

\* Keys, versions, vectors and sub-tasks stay within the sets they are taken from: no rotation
\* runs out of keys half way, no fresh vector fails to exist, and no sub-task reads past the
\* list, whatever fails and whenever the daemon restarts.
THEOREM TypeCorrect == Spec => []TypeOK
<1>1. Spec => []TypeInv
  BY InitTypes, NextTypes, PTL DEF Spec
<1>2. TypeInv => TypeOK
  BY DEF TypeInv
<1> QED
  BY <1>1, <1>2, PTL

-----------------------------------------------------------------------------
(* The order of a rotation.                                                 *)

\* What may go wrong with the files of a vault.
Harms == {"fault", "torn", "clash", "mislabelled", "uneven"}

\* What the members of EncryptionManager say, against the rows of the keys.
MemoryKnows ==
  /\ prep \in {"idle", "swap"} => key = dbKey /\ version = dbVersion
  /\ prep \in {"swap", "store"} => dbOld = NoKey
  /\ prep = "store" => old = dbKey
  /\ prep = "publish" => key = dbKey /\ old = dbOld /\ dbOld # NoKey
  /\ rotating => \/ run = "publish"
                 \/ prep = "idle" /\ dbOld # NoKey /\ (run = "mark" \/ old = dbOld)
  /\ run \in {"rotate", "clear", "mark"} => rotating

\* What is on the disk opens with the key that the version in the row stands for.
Fits(f) == Opens(IF row[f].version = dbVersion THEN dbKey ELSE dbOld, row[f].iv, f)

WriterAlone == writer.pc # "idle" => run = "idle"

RowVersions ==
  \A f \in Files : \/ row[f].version = dbVersion
                   \/ dbOld # NoKey /\ row[f].version = dbVersion - 1

FilesFit == \A f \in Files : Rewriting(f) \/ Fits(f)

\* Until the row is saved its vector is not the one that is written.
WriterHolds ==
  writer.pc # "idle" => /\ writer.buf.iv # row[writer.file].iv
                        /\ writer.pc = "save" => disk[writer.file] = writer.buf

FileOrder == WriterAlone /\ RowVersions /\ FilesFit /\ WriterHolds

\* Sub-task j still has the k-th file of the list before it.
Pending(j, k) == task[j].pc # "off" /\ task[j].at < k /\ k <= task[j].end

ListedOnce ==
  run = "rotate" => \A a, b \in 1 .. Len(listed) : listed[a] = listed[b] => a = b

RangesApart ==
  \A i, j \in Threads : i # j /\ task[i].pc # "off" /\ task[j].pc # "off" =>
     task[i].end <= task[j].at \/ task[j].end <= task[i].at

OldArePending ==
  run = "rotate" =>
     \A f \in Files : \/ row[f].version = dbVersion
                      \/ \E j \in Threads, k \in 1 .. Len(listed) : Pending(j, k) /\ listed[k] = f

PendingAreOld ==
  \A j \in Threads, k \in 1 .. Len(listed) :
     Pending(j, k) => /\ row[listed[k]].version # dbVersion
                      /\ task[j].pc = "load" \/ k # task[j].at + 1 =>
                           object[listed[k]] = row[listed[k]]

TaskHolds ==
  \A j \in Threads : task[j].pc \in {"write", "save"} =>
     /\ task[j].buf.key = dbKey
     /\ object[FileOf(j)] = [version |-> dbVersion, iv |-> task[j].buf.iv]
     /\ task[j].buf.iv # row[FileOf(j)].iv
     /\ task[j].pc = "save" => disk[FileOf(j)] = task[j].buf

TaskOrder == ListedOnce /\ RangesApart /\ OldArePending /\ PendingAreOld /\ TaskHolds

\* Once the sub-tasks are through, no row has the old version.
AllNew == run \in {"clear", "mark"} => \A f \in Files : row[f].version = dbVersion

Order == MemoryKnows /\ FileOrder /\ TaskOrder /\ AllNew

\* No rotation is prepared while another one is finishing.
OneAtATime ==
  /\ run = "publish" => prep = "idle" /\ dbOld = NoKey
  /\ prep = "idle" /\ dbOld # NoKey => rotating

RotInv ==
  /\ TypeInv
  /\ Unless(Harms) => Order
  /\ Unless(Harms \cup {"overlap"}) => OneAtATime

\* What has gone wrong is not forgotten.
LEMMA HarmStays ==
  ASSUME [Next]_vars
  PROVE  /\ harm \subseteq harm'
         /\ Unless(Harms)' => Unless(Harms)
         /\ Unless(Harms \cup {"overlap"})' => Unless(Harms \cup {"overlap"})
<1>1. harm \subseteq harm'
  <2>1. CASE Restart
    BY <2>1 DEF Restart
  <2>2. CASE PrepareCheck \/ PrepareStep \/ BeginRun \/ FinishStep
    BY <2>2 DEF PrepareCheck, PrepareStep, PrepareSwap, PrepareStore, PreparePublish, BeginRun,
                FinishStep, ProcessFutures, FinishClear, FinishMark, FinishPublish, NoFault, Fault
  <2>3. ASSUME NEW j \in Threads, TaskStep(j) \/ TaskFails(j) PROVE harm \subseteq harm'
    BY <2>3 DEF TaskStep, LoadFile, WriteFile, SaveRow, TaskFails, NoFault, Fault
  <2>4. CASE WriteContents \/ WriteRow \/ \E f \in Files : WriteBegins(f)
    BY <2>4 DEF WriteContents, WriteRow, WriteBegins, Clash
  <2>5. CASE UNCHANGED vars
    BY <2>5 DEF vars
  <2> QED
    BY <2>1, <2>2, <2>3, <2>4, <2>5 DEF Next
<1> QED
  BY <1>1 DEF Unless

\* While sub-tasks do not run, there is nothing to say of them.
LEMMA NobodyRuns ==
  ASSUME TypeInv', run' # "rotate"
  PROVE  TaskOrder'
<1>1. \A j \in Threads : task'[j].pc = "off"
  BY DEF TypeInv, OffBetween
<1> QED
  BY <1>1 DEF TaskOrder, ListedOnce, RangesApart, OldArePending, PendingAreOld, Pending, TaskHolds

\* A step that leaves the files, the run and the keys of the database alone leaves the order of
\* the files and of the sub-tasks.
LEMMA FilesStay ==
  ASSUME UNCHANGED <<dbKey, dbVersion, dbOld, disk, row, run, listed, object, task, writer>>
  PROVE  /\ FileOrder => FileOrder'
         /\ TaskOrder => TaskOrder'
         /\ AllNew => AllNew'
<1>1. \A f : Rewriting(f)' <=> Rewriting(f)
  BY DEF Rewriting, FileOf
<1>2. FileOrder => FileOrder'
  BY <1>1 DEF FileOrder, WriterAlone, RowVersions, FilesFit, Fits, Opens, WriterHolds
<1>3. TaskOrder => TaskOrder'
  BY DEF TaskOrder, ListedOnce, RangesApart, OldArePending, PendingAreOld, Pending, TaskHolds, FileOf
<1> QED
  BY <1>2, <1>3 DEF AllNew

\* While a run rotates the members of EncryptionManager agree with the database.
LEMMA RotatingKnows ==
  ASSUME TypeInv, Order, run \in {"rotate", "clear", "mark"}
  PROVE  /\ rotating /\ prep = "idle" /\ dbOld # NoKey /\ key = dbKey /\ version = dbVersion
         /\ run # "mark" => old = dbOld
         /\ writer.pc = "idle"
BY DEF Order, MemoryKnows, FileOrder, WriterAlone

\* Between rotations the rows have one version only, and nobody rewrites a file for a key.
LEMMA TasksOff ==
  ASSUME TypeInv, run # "rotate"
  PROVE  \A f : Rewriting(f) <=> writer.pc = "save" /\ writer.file = f
BY DEF TypeInv, OffBetween, Rewriting

\* The preparation keeps the order.
LEMMA PrepareOrder ==
  ASSUME TypeInv, TypeInv', Order, PrepareCheck \/ PrepareStep, Unless(Harms)'
  PROVE  Order'
<1> USE DEF PrepareFrame, NoFault, counts, memory, keyRow, runVars
<1>1. MemoryKnows /\ FileOrder /\ TaskOrder /\ AllNew
  BY DEF Order
<1>2. CASE PrepareCheck
  <2>1. UNCHANGED <<key, old, version, rotating, dbKey, dbVersion, dbOld, disk, row, run, listed,
                    object, task, writer>>
        /\ prep = "idle" /\ prep' = "swap" /\ dbOld = NoKey
    BY <1>2 DEF PrepareCheck
  <2>2. MemoryKnows'
    BY <1>1, <2>1 DEF MemoryKnows
  <2> QED
    BY <1>1, <2>1, <2>2, FilesStay DEF Order
<1>3. CASE PrepareSwap
  <2>1. UNCHANGED <<version, rotating, dbKey, dbVersion, dbOld, disk, row, run, listed, object,
                    task, writer>>
        /\ prep = "swap" /\ prep' = "store" /\ old' = key
    BY <1>3 DEF PrepareSwap
  <2>2. MemoryKnows'
    BY <1>1, <2>1 DEF MemoryKnows
  <2> QED
    BY <1>1, <2>1, <2>2, FilesStay DEF Order
<1>4. CASE PrepareStore
  <2>1. ~Fault
    BY DEF Unless, Harms, Fault
  <2>2. UNCHANGED <<key, old, version, rotating, disk, row, run, listed, object, task, writer>>
        /\ prep = "store" /\ prep' = "publish" /\ dbOld' = dbKey /\ dbKey' = key
        /\ dbVersion' = dbVersion + 1
    BY <1>4, <2>1 DEF PrepareStore, NextVersion
  <2>3. dbKey # NoKey /\ dbVersion \in Int /\ dbOld = NoKey /\ old = dbKey
    BY <1>1, <2>2 DEF TypeInv, TypeOK, Keys, NoKey, Versions, MemoryKnows
  <2>4. run \notin {"rotate", "clear", "mark"}
    BY <1>1, <2>2 DEF MemoryKnows
  <2>5. MemoryKnows'
    BY <1>1, <2>2, <2>3, <2>4 DEF MemoryKnows
  <2>6. \A f \in Files : row[f].version = dbVersion
    BY <1>1, <2>3 DEF FileOrder, RowVersions
  <2>7. RowVersions'
    BY <2>2, <2>3, <2>6 DEF RowVersions
  <2>8. \A f \in Files : Fits(f) => Fits(f)'
    <3>1. dbVersion # dbVersion + 1
      BY <2>3
    <3> QED
      BY <2>2, <2>6, <3>1 DEF Fits, Opens
  <2>9. \A f \in Files : Rewriting(f) => Rewriting(f)'
    BY <2>2 DEF Rewriting, FileOf
  <2>10. FilesFit'
    BY <1>1, <2>8, <2>9 DEF FileOrder, FilesFit
  <2>11. (WriterAlone /\ WriterHolds)'
    BY <1>1, <2>2 DEF FileOrder, WriterAlone, WriterHolds
  <2>12. AllNew' /\ TaskOrder'
    BY <2>2, <2>4, NobodyRuns DEF AllNew
  <2> QED
    BY <2>5, <2>7, <2>10, <2>11, <2>12 DEF Order, FileOrder
<1>5. CASE PreparePublish
  <2>1. UNCHANGED <<key, old, dbKey, dbVersion, dbOld, disk, row, run, listed, object, task, writer>>
        /\ prep = "publish" /\ prep' = "idle" /\ version' = dbVersion /\ rotating' = TRUE
    BY <1>5 DEF PreparePublish
  <2>2. MemoryKnows'
    BY <1>1, <2>1 DEF MemoryKnows
  <2> QED
    BY <1>1, <2>1, <2>2, FilesStay DEF Order
<1> QED
  BY <1>2, <1>3, <1>4, <1>5 DEF PrepareStep

\* The stage begins: every file with the old version is in the range of one sub-task.
LEMMA BeginOrder ==
  ASSUME TypeInv, TypeInv', Order, BeginRun, Unless(Harms)'
  PROVE  Order'
<1> USE DEF RunFrame, NoFault, counts, memory, keyRow, runVars
<1> DEFINE total == Len(Older)
<1>1. MemoryKnows /\ FileOrder /\ TaskOrder /\ AllNew
  BY DEF Order
<1>2. /\ UNCHANGED <<key, old, version, rotating, dbKey, dbVersion, dbOld, disk, row, prep, writer>>
      /\ run = "idle" /\ rotating
      /\ harm' = harm \cup (IF writer.pc # "idle" THEN {"clash"} ELSE {})
                      \cup (IF Uneven(total) THEN {"uneven"} ELSE {})
      /\ \/ total = 0 /\ run' = "clear"
         \/ total = 1 /\ UNCHANGED <<run, listed, object, task>>
         \/ /\ total > 1 /\ run' = "rotate" /\ listed' = Older /\ object' = row
            /\ task' = [i \in Threads |-> SubTask(i, total)]
  BY DEF BeginRun
<1>3. writer.pc = "idle" /\ ~Uneven(total)
  BY <1>2 DEF Unless, Harms
<1>4. prep = "idle" /\ dbOld # NoKey /\ old = dbOld /\ key = dbKey /\ version = dbVersion
  BY <1>1, <1>2 DEF MemoryKnows
<1>5. MemoryKnows'
  BY <1>1, <1>2, <1>4 DEF MemoryKnows
<1>6. /\ total \in 0 .. FileCount
      /\ Older \in Seq(OlderFiles)
      /\ \A a, b \in 1 .. total : Older[a] = Older[b] => a = b
      /\ \A f \in OlderFiles : \E k \in 1 .. total : Older[k] = f
  BY ListingIsComplete
<1>7. \A f \in Files : f \in OlderFiles <=> row[f].version # dbVersion
  <2>1. dbVersion \in Int /\ \A f \in Files : row[f].version \in Int
    BY DEF TypeInv, TypeOK, Versions, FileRow
  <2>2. \A f \in Files : row[f].version = dbVersion \/ row[f].version = dbVersion - 1
    BY <1>1 DEF FileOrder, RowVersions
  <2> QED
    BY <1>4, <2>1, <2>2 DEF OlderFiles
<1>8. \A f \in Files : Fits(f)
  BY <1>1, <1>2, <1>3, TasksOff DEF FileOrder, FilesFit
<1> HIDE DEF total
<1>9. FileOrder'
  <2>1. (WriterAlone /\ RowVersions /\ WriterHolds)'
    BY <1>1, <1>2, <1>3 DEF FileOrder, WriterAlone, RowVersions, WriterHolds
  <2>2. FilesFit'
    BY <1>2, <1>8 DEF FilesFit, Fits, Opens
  <2> QED
    BY <2>1, <2>2 DEF FileOrder
<1>10. CASE total = 0 /\ run' = "clear"
  <2>1. \A f \in Files : row[f].version = dbVersion
    BY <1>6, <1>7, <1>10
  <2>2. AllNew' /\ TaskOrder'
    BY <1>2, <1>10, <2>1, NobodyRuns DEF AllNew
  <2> QED
    BY <1>5, <1>9, <2>2 DEF Order
<1>11. CASE total = 1 /\ UNCHANGED <<run, listed, object, task>>
  <2>1. TaskOrder' /\ AllNew'
    BY <1>1, <1>2, <1>11, FilesStay
  <2> QED
    BY <1>5, <1>9, <2>1 DEF Order
<1>12. CASE /\ total > 1 /\ run' = "rotate" /\ listed' = Older /\ object' = row
            /\ task' = [i \in Threads |-> SubTask(i, total)]
  <2>1. total \in 2 .. FileCount
    BY <1>6, <1>12
  <2>2. \A i \in Threads : task'[i] = SubTask(i, total) /\ task'[i].pc \in {"off", "load"}
    <3>1. \A i \in Threads : SubTask(i, total).pc \in {"off", "load"}
      BY <2>1, RangesLieWithin
    <3> QED
      BY <1>12, <3>1
  <2>3. Len(listed') = total
    BY <1>12 DEF total
  <2>4. ListedOnce'
    BY <1>6, <1>12, <2>3 DEF ListedOnce
  <2>5. RangesApart'
    <3>1. \A i, j \in Threads :
             i # j /\ SubTask(i, total).pc # "off" /\ SubTask(j, total).pc # "off" =>
                \/ SubTask(i, total).end <= SubTask(j, total).at
                \/ SubTask(j, total).end <= SubTask(i, total).at
      BY <1>3, <2>1, RangesDivide
    <3> QED
      BY <2>2, <3>1 DEF RangesApart
  <2>6. OldArePending'
    <3> SUFFICES ASSUME NEW f \in Files, row[f].version # dbVersion
                 PROVE  \E j \in Threads, k \in 1 .. Len(listed') :
                           Pending(j, k)' /\ listed'[k] = f
      BY <1>2 DEF OldArePending
    <3>1. PICK k \in 1 .. total : Older[k] = f
      BY <1>6, <1>7
    <3>2. \A l \in 1 .. total : \E i \in Threads :
             LET t == SubTask(i, total) IN t.pc = "load" /\ t.at < l /\ l <= t.end
      BY <1>3, <2>1, RangesDivide
    <3>3. PICK j \in Threads : /\ SubTask(j, total).pc = "load"
                               /\ SubTask(j, total).at < k /\ k <= SubTask(j, total).end
      BY <3>1, <3>2
    <3>4. Pending(j, k)'
      BY <2>2, <3>3 DEF Pending
    <3> QED
      BY <1>12, <2>3, <3>1, <3>4
  <2>7. PendingAreOld'
    <3>1. \A k \in 1 .. total : Older[k] \in OlderFiles /\ Older[k] \in Files
      BY <1>6 DEF total, OlderFiles
    <3> QED
      BY <1>2, <1>7, <1>12, <2>2, <2>3, <3>1 DEF PendingAreOld
  <2>8. TaskHolds'
    BY <2>2 DEF TaskHolds
  <2>9. AllNew'
    BY <1>12 DEF AllNew
  <2> QED
    BY <1>5, <1>9, <2>4, <2>5, <2>6, <2>7, <2>8, <2>9 DEF Order, TaskOrder
<1> QED
  BY <1>2, <1>10, <1>11, <1>12

\* The end of the stage: nothing is pending, so nothing is old; only then does the old key go.
LEMMA FinishOrder ==
  ASSUME TypeInv, TypeInv', Order, FinishStep, Unless(Harms)'
  PROVE  Order'
<1> USE DEF RunFrame, NoFault, counts, memory, keyRow, runVars
<1>1. MemoryKnows /\ FileOrder /\ TaskOrder /\ AllNew
  BY DEF Order
<1>2. /\ UNCHANGED <<key, version, dbKey, dbVersion, disk, row, task, prep, writer>>
      /\ run # "idle" /\ run' # "rotate" /\ writer.pc = "idle"
  BY <1>1 DEF FinishStep, ProcessFutures, FinishClear, FinishMark, FinishPublish, FinishFrame,
              FileOrder, WriterAlone
<1>3. TaskOrder'
  BY <1>2, NobodyRuns
<1>4. \A j \in Threads : task[j].pc = "off"
  BY DEF FinishStep, ProcessFutures, FuturesDone, FinishClear, FinishMark, FinishPublish, TypeInv,
         OffBetween
<1>5. \A f \in Files : Fits(f)
  BY <1>1, <1>2, <1>4 DEF FileOrder, FilesFit, Rewriting
<1>6. (WriterAlone /\ WriterHolds)'
  BY <1>2 DEF WriterAlone, WriterHolds
<1>7. ASSUME dbOld' = dbOld PROVE RowVersions' /\ FilesFit'
  BY <1>1, <1>2, <1>5, <1>7 DEF FileOrder, RowVersions, FilesFit, Fits, Opens
<1>8. CASE ProcessFutures
  <2>1. UNCHANGED <<old, rotating, dbOld>> /\ run = "rotate" /\ run' = "clear"
    BY <1>8 DEF ProcessFutures
  <2>2. MemoryKnows'
    BY <1>1, <1>2, <2>1 DEF MemoryKnows
  <2>3. \A f \in Files : row[f].version = dbVersion
    BY <1>1, <1>4, <2>1 DEF TaskOrder, OldArePending, Pending
  <2>4. AllNew'
    BY <1>2, <2>3 DEF AllNew
  <2> QED
    BY <1>3, <1>6, <1>7, <2>1, <2>2, <2>4 DEF Order, FileOrder
<1>9. CASE FinishClear
  <2>1. dbOld # NoKey /\ rotating /\ prep = "idle"
    BY <1>9, RotatingKnows DEF FinishClear
  <2>2. UNCHANGED <<rotating, dbOld>> /\ run = "clear" /\ run' = "mark"
    BY <1>9, <2>1 DEF FinishClear
  <2>3. MemoryKnows'
    BY <1>1, <1>2, <2>1, <2>2 DEF MemoryKnows
  <2>4. AllNew'
    BY <1>1, <1>2, <2>2 DEF AllNew
  <2> QED
    BY <1>3, <1>6, <1>7, <2>2, <2>3, <2>4 DEF Order, FileOrder
<1>10. CASE FinishMark
  <2>1. rotating /\ prep = "idle"
    BY <1>10, RotatingKnows DEF FinishMark
  <2>2. ~Fault
    BY DEF Unless, Harms, Fault
  <2>3. UNCHANGED <<old, rotating>> /\ run = "mark" /\ run' = "publish" /\ dbOld' = NoKey
    BY <1>10, <2>2 DEF FinishMark, Completed
  <2>4. \A f \in Files : row[f].version = dbVersion
    BY <1>1, <2>3 DEF AllNew
  <2>5. MemoryKnows'
    BY <1>1, <1>2, <2>1, <2>3 DEF MemoryKnows
  <2>6. RowVersions' /\ FilesFit'
    BY <1>2, <1>5, <2>4 DEF RowVersions, FilesFit, Fits, Opens
  <2>7. AllNew'
    BY <2>3 DEF AllNew
  <2> QED
    BY <1>3, <1>6, <2>5, <2>6, <2>7 DEF Order, FileOrder
<1>11. CASE FinishPublish
  <2>1. UNCHANGED <<old, dbOld>> /\ run' = "idle" /\ rotating' = FALSE
    BY <1>11 DEF FinishPublish
  <2>2. MemoryKnows'
    BY <1>1, <1>2, <2>1 DEF MemoryKnows
  <2>3. AllNew'
    BY <2>1 DEF AllNew
  <2> QED
    BY <1>3, <1>6, <1>7, <2>1, <2>2, <2>3 DEF Order, FileOrder
<1> QED
  BY <1>8, <1>9, <1>10, <1>11 DEF FinishStep

\* createFile keeps the order as long as it does not meet a run and gives the row a version that
\* its key has.
LEMMA WriterOrder ==
  ASSUME TypeInv, TypeInv', Order, Unless(Harms)',
         WriteContents \/ WriteRow \/ \E f \in Files : WriteBegins(f)
  PROVE  Order'
<1> USE DEF WriterFrame, Clash, counts, memory, keyRow, runVars
<1>1. MemoryKnows /\ FileOrder /\ TaskOrder /\ AllNew
  BY DEF Order
<1>2. /\ UNCHANGED <<key, old, version, rotating, dbKey, dbVersion, dbOld, prep, run, listed,
                     object, task>>
      /\ run = "idle"
  BY DEF WriteContents, WriteRow, WriteBegins, Unless, Harms
<1>3. MemoryKnows' /\ TaskOrder' /\ AllNew' /\ WriterAlone'
  BY <1>1, <1>2, NobodyRuns DEF MemoryKnows, AllNew, WriterAlone
<1>4. \A f : (Rewriting(f) <=> writer.pc = "save" /\ writer.file = f)
  BY <1>2, TasksOff
<1>5. \A f : (Rewriting(f)' <=> writer'.pc = "save" /\ writer'.file = f)
  BY <1>2 DEF TypeInv, OffBetween, Rewriting
<1>6. /\ row \in [Files -> FileRow] /\ disk \in [Files -> Ciphertext] /\ writer \in Writers
      /\ dbVersion \in Versions /\ dbKey \in Keys /\ dbOld \in Keys \cup {NoKey}
  BY DEF TypeInv, TypeOK
<1>7. ASSUME NEW f \in Files, WriteBegins(f) PROVE FileOrder'
  <2>1. /\ UNCHANGED <<disk, row>> /\ writer.pc = "idle"
        /\ writer' = [pc |-> "write", file |-> f, buf |-> [key |-> key, iv |-> FreshIv(f)]]
    BY <1>7 DEF WriteBegins
  <2>2. FreshIv(f) # row[f].iv
    BY FreshIvIsFresh DEF IvsOf
  <2>3. RowVersions' /\ WriterHolds'
    BY <1>1, <1>2, <2>1, <2>2 DEF FileOrder, RowVersions, WriterHolds
  <2>4. FilesFit'
    BY <1>1, <1>2, <1>4, <2>1 DEF FileOrder, FilesFit, Fits, Opens
  <2> QED
    BY <1>3, <2>3, <2>4 DEF FileOrder
<1>8. CASE WriteContents
  <2>1. /\ writer.pc = "write" /\ writer'.pc = "save" /\ writer'.file = writer.file
        /\ writer'.buf = writer.buf
        /\ disk' = [disk EXCEPT ![writer.file] = writer.buf] /\ UNCHANGED row
    BY <1>6, <1>8 DEF WriteContents, Writers
  <2>2. writer.file \in Files
    BY <2>1 DEF TypeInv, WriterFits
  <2>3. disk'[writer.file] = writer.buf /\ \A f \in Files : f # writer.file => disk'[f] = disk[f]
    BY <1>6, <2>1, <2>2
  <2>4. RowVersions' /\ WriterHolds'
    BY <1>1, <1>2, <2>1, <2>3 DEF FileOrder, RowVersions, WriterHolds
  <2>5. \A f \in Files : f # writer.file => Fits(f)'
    BY <1>1, <1>2, <1>4, <2>1, <2>3 DEF FileOrder, FilesFit, Fits, Opens
  <2>6. FilesFit'
    BY <1>5, <2>1, <2>5 DEF FilesFit
  <2> QED
    BY <1>3, <2>4, <2>6 DEF Order, FileOrder
<1>9. CASE WriteRow
  <2>1. writer.pc = "save" /\ writer' = Idle /\ UNCHANGED disk
    BY <1>9 DEF WriteRow
  <2>2. PICK f \in Files : f = writer.file
    BY <2>1 DEF TypeInv, WriterFits
  <2>3. PICK v \in {row[f].version, 1} :
           /\ row' = [row EXCEPT ![f] = [version |-> v, iv |-> writer.buf.iv]]
           /\ harm' = harm \cup (IF run # "idle" THEN {"clash"} ELSE {})
                           \cup (IF v # VersionOf(writer.buf.key) THEN {"mislabelled"} ELSE {})
    BY <1>9, <2>2 DEF WriteRow
  <2>4. v = VersionOf(writer.buf.key)
    BY <2>3 DEF Unless, Harms
  <2>5. v \in Versions /\ v # 0 /\ writer.buf.key \in Keys /\ writer.buf.key # NoKey
    <3>1. row[f].version \in Versions
      BY <1>6, <2>2 DEF FileRow
    <3>2. writer.buf.key \in Keys
      BY <1>6 DEF Writers, Ciphertext
    <3> QED
      BY <3>1, <3>2 DEF Versions, Keys, NoKey
  <2>6. \/ v = dbVersion /\ writer.buf.key = dbKey
        \/ v = dbVersion - 1 /\ writer.buf.key = dbOld /\ dbOld # NoKey
    BY <2>4, <2>5 DEF VersionOf
  <2>7. disk[f] = writer.buf
    BY <1>1, <2>1, <2>2 DEF FileOrder, WriterHolds
  <2>8. /\ row'[f].version = v /\ row'[f].iv = writer.buf.iv
        /\ \A g \in Files : g # f => row'[g] = row[g]
    BY <1>6, <2>3
  <2>9. RowVersions'
    BY <1>1, <1>2, <2>6, <2>8 DEF FileOrder, RowVersions
  <2>10. Fits(f)'
    <3>1. dbVersion # dbVersion - 1
      BY <1>6 DEF Versions
    <3> QED
      BY <1>2, <2>1, <2>6, <2>7, <2>8, <3>1 DEF Fits, Opens
  <2>11. \A g \in Files : g # f => Fits(g)'
    BY <1>1, <1>2, <1>4, <2>1, <2>2, <2>8 DEF FileOrder, FilesFit, Fits, Opens
  <2>12. FilesFit'
    BY <2>10, <2>11 DEF FilesFit
  <2>13. WriterHolds'
    BY <2>1 DEF WriterHolds, Idle
  <2> QED
    BY <1>3, <2>9, <2>12, <2>13 DEF Order, FileOrder
<1> QED
  BY <1>3, <1>7, <1>8, <1>9 DEF Order

\* A restart finds a row for whatever is on the disk unless it tears a file from its row.
LEMMA RestartOrder ==
  ASSUME TypeInv, TypeInv', Order, Restart, Unless(Harms)'
  PROVE  Order'
<1>1. MemoryKnows /\ FileOrder /\ TaskOrder /\ AllNew
  BY DEF Order
<1>2. /\ UNCHANGED <<dbKey, dbVersion, dbOld, disk, row>>
      /\ key' = dbKey /\ version' = dbVersion /\ old' = dbOld /\ rotating' = (dbOld # NoKey)
      /\ prep' = "idle" /\ run' = "idle" /\ writer' = Idle
  BY DEF Restart, keyRow
<1>3. \A f \in Files : disk[f].iv = row[f].iv
  BY DEF Restart, Unless, Harms, Torn
<1>4. \A f \in Files : ~Rewriting(f)
  <2>1. ASSUME NEW f \in Files, NEW j \in Threads, task[j].pc = "save", FileOf(j) = f
        PROVE  FALSE
    BY <1>1, <1>3, <2>1 DEF TaskOrder, TaskHolds
  <2>2. ASSUME NEW f \in Files, writer.pc = "save", writer.file = f
        PROVE  FALSE
    BY <1>1, <1>3, <2>2 DEF FileOrder, WriterHolds
  <2> QED
    BY <2>1, <2>2 DEF Rewriting
<1>5. MemoryKnows'
  BY <1>2 DEF MemoryKnows
<1>6. RowVersions'
  BY <1>1, <1>2 DEF FileOrder, RowVersions
<1>7. FilesFit'
  BY <1>1, <1>2, <1>4 DEF FileOrder, FilesFit, Fits, Opens
<1>8. (WriterAlone /\ WriterHolds)'
  BY <1>2 DEF WriterAlone, WriterHolds, Idle
<1>9. TaskOrder' /\ AllNew'
  BY <1>2, NobodyRuns DEF AllNew
<1> QED
  BY <1>5, <1>6, <1>7, <1>8, <1>9 DEF Order, FileOrder

\* No two sub-tasks are at the same file, and none has its file once more before it.
LEMMA FilesApart ==
  ASSUME TypeInv, TaskOrder, NEW j \in Threads, task[j].pc # "off"
  PROVE  /\ Pending(j, task[j].at + 1)
         /\ \A i \in Threads, k \in 1 .. Len(listed) :
               Pending(i, k) /\ (i # j \/ k # task[j].at + 1) => listed[k] # FileOf(j)
         /\ \A i \in Threads : i # j /\ task[i].pc # "off" => FileOf(i) # FileOf(j)
<1>1. \A i \in Threads : task[i].pc # "off" =>
         /\ task[i].at \in Nat /\ task[i].end \in Nat /\ task[i].at < task[i].end
         /\ task[i].at + 1 \in 1 .. Len(listed)
  BY FileOfIsFile DEF TypeInv, RangesFit
<1>2. run = "rotate"
  BY DEF TypeInv, OffBetween
<1>3. \A i \in Threads : task[i].pc # "off" => Pending(i, task[i].at + 1)
  BY <1>1 DEF Pending
<1>4. \A i \in Threads, k \in 1 .. Len(listed) :
         Pending(i, k) /\ (i # j \/ k # task[j].at + 1) => k # task[j].at + 1
  <2> SUFFICES ASSUME NEW i \in Threads, NEW k \in 1 .. Len(listed), Pending(i, k), i # j
               PROVE  k # task[j].at + 1
    OBVIOUS
  <2>1. task[i].end <= task[j].at \/ task[j].end <= task[i].at
    BY DEF TaskOrder, RangesApart, Pending
  <2>2. task[i].at < k /\ k <= task[i].end /\ task[i].pc # "off"
    BY DEF Pending
  <2>3. /\ task[i].at \in Nat /\ task[i].end \in Nat
        /\ task[j].at \in Nat /\ task[j].end \in Nat /\ task[j].at < task[j].end
    BY <1>1, <2>2
  <2> QED
    BY <2>1, <2>2, <2>3
<1>5. \A i \in Threads, k \in 1 .. Len(listed) :
         Pending(i, k) /\ (i # j \/ k # task[j].at + 1) => listed[k] # FileOf(j)
  BY <1>1, <1>2, <1>4 DEF TaskOrder, ListedOnce, FileOf
<1>6. \A i \in Threads : i # j /\ task[i].pc # "off" => FileOf(i) # FileOf(j)
  BY <1>1, <1>3, <1>5 DEF FileOf
<1> QED
  BY <1>3, <1>5, <1>6

\* What a step of sub-task j leaves: the other sub-tasks, and their files.
LEMMA OthersStay ==
  ASSUME TypeInv, TypeInv', Order, NEW j \in Threads, TaskStep(j)
  PROVE  /\ UNCHANGED <<key, old, version, rotating, dbKey, dbVersion, dbOld, prep, run, listed,
                        writer, harm>>
         /\ task[j].pc # "off" /\ run = "rotate" /\ writer.pc = "idle"
         /\ \A i \in Threads : i # j => task'[i] = task[i]
         /\ \A f \in Files : f # FileOf(j) =>
               disk'[f] = disk[f] /\ row'[f] = row[f] /\ object'[f] = object[f]
         /\ MemoryKnows' /\ WriterAlone' /\ WriterHolds' /\ ListedOnce' /\ AllNew'
<1>1. /\ UNCHANGED <<key, old, version, rotating, dbKey, dbVersion, dbOld, prep, run, listed,
                     writer, harm>>
      /\ task[j].pc # "off"
  BY DEF TaskStep, LoadFile, WriteFile, SaveRow, TaskFrame, RunFrame, NoFault, memory, keyRow
<1>2. run = "rotate"
  BY <1>1 DEF TypeInv, OffBetween
<1>3. writer.pc = "idle"
  BY <1>2 DEF Order, FileOrder, WriterAlone
<1>4. task \in [Threads -> SubTasks] /\ disk \in [Files -> Ciphertext]
      /\ row \in [Files -> FileRow] /\ object \in [Files -> FileRow]
  BY DEF TypeInv, TypeOK
<1>5. \A i \in Threads : i # j => task'[i] = task[i]
  <2>1. task' = [task EXCEPT ![j] = task'[j]]
    BY <1>4 DEF TaskStep, LoadFile, WriteFile, SaveRow, Give
  <2> QED
    BY <1>4, <2>1
<1>6. \A f \in Files : f # FileOf(j) =>
         disk'[f] = disk[f] /\ row'[f] = row[f] /\ object'[f] = object[f]
  BY <1>4 DEF TaskStep, LoadFile, WriteFile, SaveRow
<1>7. MemoryKnows' /\ WriterAlone' /\ WriterHolds' /\ ListedOnce' /\ AllNew'
  BY <1>1, <1>2, <1>3
     DEF Order, MemoryKnows, FileOrder, WriterAlone, WriterHolds, TaskOrder, ListedOnce, AllNew
<1> QED
  BY <1>1, <1>2, <1>3, <1>5, <1>6, <1>7

\* A file that the sub-task has still to rewrite is opened with the old key and becomes one with
\* the new key.
LEMMA LoadOpens ==
  ASSUME TypeInv, TypeInv', Order, NEW j \in Threads, LoadFile(j)
  PROVE  LET f == FileOf(j) IN
         /\ task' = [task EXCEPT ![j].pc = "write",
                                 ![j].buf = [key |-> dbKey, iv |-> FreshIv(f)]]
         /\ object' = [object EXCEPT ![f] = [version |-> dbVersion, iv |-> FreshIv(f)]]
         /\ row[f].version # dbVersion
<1> DEFINE f == FileOf(j)
<1>1. task[j].pc = "load" /\ run = "rotate"
  BY DEF LoadFile, TypeInv, OffBetween
<1>2. f \in Files /\ task[j].at + 1 \in 1 .. Len(listed)
  BY <1>1, FileOfIsFile
<1>3. TaskOrder /\ FileOrder
  BY DEF Order
<1>4. Pending(j, task[j].at + 1)
  BY <1>1, <1>3, FilesApart
<1>5. row[f].version # dbVersion /\ object[f] = row[f]
  BY <1>1, <1>2, <1>3, <1>4 DEF TaskOrder, PendingAreOld, FileOf
<1>6. rotating /\ key = dbKey /\ version = dbVersion /\ old = dbOld /\ writer.pc = "idle"
  BY <1>1, RotatingKnows
<1>7. ~Rewriting(f)
  <2>1. \A i \in Threads : task[i].pc = "save" => FileOf(i) # f
    BY <1>1, <1>3, FilesApart
  <2> QED
    BY <1>6, <2>1 DEF Rewriting
<1>8. Opens(old, object[f].iv, f)
  BY <1>2, <1>3, <1>5, <1>6, <1>7 DEF FileOrder, FilesFit, Fits
<1>9. object[f].version # version
  BY <1>5, <1>6
<1> QED
  BY <1>5, <1>6, <1>8, <1>9 DEF LoadFile

\* A step of a sub-task keeps the order: its file is old until its row is saved, and new from
\* then on.
LEMMA TaskStepOrder ==
  ASSUME TypeInv, TypeInv', Order, NEW j \in Threads, TaskStep(j)
  PROVE  Order'
<1>1. TaskOrder /\ FileOrder /\ MemoryKnows
  BY DEF Order
<1>2. /\ UNCHANGED <<key, old, version, rotating, dbKey, dbVersion, dbOld, prep, run, listed,
                     writer, harm>>
      /\ task[j].pc # "off" /\ run = "rotate" /\ writer.pc = "idle"
      /\ \A i \in Threads : i # j => task'[i] = task[i]
      /\ \A f \in Files : f # FileOf(j) =>
            disk'[f] = disk[f] /\ row'[f] = row[f] /\ object'[f] = object[f]
      /\ MemoryKnows' /\ WriterAlone' /\ WriterHolds' /\ ListedOnce' /\ AllNew'
  BY OthersStay
<1>3. PICK f : f = FileOf(j)
  OBVIOUS
<1>4. f \in Files /\ task[j].at \in Nat /\ task[j].end \in Nat
      /\ task[j].at + 1 \in 1 .. Len(listed) /\ f = listed[task[j].at + 1]
  BY <1>2, <1>3, FileOfIsFile DEF FileOf
<1>5. task[j].at < task[j].end
  BY <1>2 DEF TypeInv, RangesFit
<1>6. /\ Pending(j, task[j].at + 1)
      /\ \A i \in Threads, k \in 1 .. Len(listed) :
            Pending(i, k) /\ (i # j \/ k # task[j].at + 1) => listed[k] # f
      /\ \A i \in Threads : i # j /\ task[i].pc # "off" => FileOf(i) # f
  BY <1>1, <1>2, <1>3, FilesApart
<1>7. /\ task \in [Threads -> SubTasks] /\ disk \in [Files -> Ciphertext]
      /\ row \in [Files -> FileRow] /\ object \in [Files -> FileRow]
      /\ listed \in Seq(Files)
      /\ \A i \in Threads : task[i].pc # "off" => FileOf(i) \in Files
      /\ dbVersion \in Int
  BY FileOfIsFile DEF TypeInv, TypeOK, Versions
<1>8. \A i \in Threads : i # j => FileOf(i)' = FileOf(i) /\ \A k : Pending(i, k)' <=> Pending(i, k)
  BY <1>2 DEF FileOf, Pending
<1>9. \A i \in Threads, k \in 1 .. Len(listed) :
         Pending(i, k) /\ (i # j \/ k # task[j].at + 1) =>
            row'[listed[k]] = row[listed[k]] /\ object'[listed[k]] = object[listed[k]]
  <2>1. \A k \in 1 .. Len(listed) : listed[k] \in Files
    BY <1>7
  <2> QED
    BY <1>2, <1>3, <1>6, <2>1
<1>10. \A i \in Threads : i # j /\ task[i].pc # "off" =>
          /\ disk'[FileOf(i)] = disk[FileOf(i)] /\ row'[FileOf(i)] = row[FileOf(i)]
          /\ object'[FileOf(i)] = object[FileOf(i)]
  BY <1>2, <1>3, <1>6, <1>7
<1>11. ASSUME \/ task'[j].pc = "off"
              \/ task'[j].at \in Nat /\ task'[j].at >= task[j].at /\ task'[j].end = task[j].end
       PROVE  RangesApart'
  <2> SUFFICES ASSUME NEW i \in Threads, NEW l \in Threads, i # l,
                      task'[i].pc # "off", task'[l].pc # "off"
               PROVE  task'[i].end <= task'[l].at \/ task'[l].end <= task'[i].at
    BY DEF RangesApart
  <2>1. task[i].pc # "off" /\ task[l].pc # "off"
    BY <1>2
  <2>2. task[i].end <= task[l].at \/ task[l].end <= task[i].at
    BY <1>1, <2>1 DEF TaskOrder, RangesApart
  <2>3. /\ task[i].at \in Nat /\ task[i].end \in Nat /\ task[l].at \in Nat /\ task[l].end \in Nat
    BY <2>1, FileOfIsFile
  <2>4. /\ task'[i].at \in Nat /\ task'[i].at >= task[i].at /\ task'[i].end = task[i].end
    BY <1>2, <1>11, <2>3
  <2>5. /\ task'[l].at \in Nat /\ task'[l].at >= task[l].at /\ task'[l].end = task[l].end
    BY <1>2, <1>11, <2>3
  <2> QED
    BY <2>2, <2>3, <2>4, <2>5
<1>12. ASSUME \A g \in Files : g # f => row'[g].version = row[g].version,
              \/ row'[f].version = dbVersion
              \/ dbOld # NoKey /\ row'[f].version = dbVersion - 1
       PROVE  RowVersions'
  BY <1>1, <1>2, <1>12 DEF FileOrder, RowVersions
<1>13. ASSUME NEW g \in Files, g # f, Rewriting(g) \/ Fits(g)
       PROVE  (Rewriting(g) \/ Fits(g))'
  <2>1. CASE Rewriting(g)
    <3>1. PICK i \in Threads : task[i].pc = "save" /\ FileOf(i) = g
      BY <1>2, <2>1 DEF Rewriting
    <3>2. i # j
      BY <1>3, <1>13, <3>1
    <3>3. task'[i].pc = "save" /\ FileOf(i)' = g
      BY <1>2, <1>8, <3>1, <3>2
    <3> QED
      BY <3>3 DEF Rewriting
  <2>2. CASE Fits(g)
    BY <1>2, <1>3, <1>13, <2>2 DEF Fits, Opens
  <2> QED
    BY <1>13, <2>1, <2>2
<1>14. ASSUME (Rewriting(f) \/ Fits(f))' PROVE FilesFit'
  BY <1>1, <1>13, <1>14 DEF FileOrder, FilesFit
<1>15. ASSUME task'[j].pc \in {"write", "save"} =>
                 /\ task'[j].buf.key = dbKey
                 /\ FileOf(j)' = f /\ object'[f] = [version |-> dbVersion, iv |-> task'[j].buf.iv]
                 /\ task'[j].buf.iv # row'[f].iv
                 /\ task'[j].pc = "save" => disk'[f] = task'[j].buf
       PROVE  TaskHolds'
  <2> SUFFICES ASSUME NEW i \in Threads, task'[i].pc \in {"write", "save"}
               PROVE  /\ task'[i].buf.key = dbKey'
                      /\ object'[FileOf(i)'] = [version |-> dbVersion', iv |-> task'[i].buf.iv]
                      /\ task'[i].buf.iv # row'[FileOf(i)'].iv
                      /\ task'[i].pc = "save" => disk'[FileOf(i)'] = task'[i].buf
    BY DEF TaskHolds
  <2>1. CASE i = j
    BY <1>2, <1>15, <2>1
  <2>2. CASE i # j
    <3>1. task'[i] = task[i] /\ FileOf(i)' = FileOf(i) /\ task[i].pc # "off"
      BY <1>2, <1>8, <2>2
    <3>2. /\ task[i].buf.key = dbKey
          /\ object[FileOf(i)] = [version |-> dbVersion, iv |-> task[i].buf.iv]
          /\ task[i].buf.iv # row[FileOf(i)].iv
          /\ task[i].pc = "save" => disk[FileOf(i)] = task[i].buf
      BY <1>1, <3>1 DEF TaskOrder, TaskHolds
    <3> QED
      BY <1>2, <1>10, <2>2, <3>1, <3>2
  <2> QED
    BY <2>1, <2>2
<1>16. CASE LoadFile(j)
  <2>1. /\ task' = [task EXCEPT ![j].pc = "write", ![j].buf = [key |-> dbKey, iv |-> FreshIv(f)]]
        /\ object' = [object EXCEPT ![f] = [version |-> dbVersion, iv |-> FreshIv(f)]]
        /\ UNCHANGED <<disk, row>> /\ task[j].pc = "load"
    BY <1>3, <1>16, LoadOpens DEF LoadFile
  <2>2. /\ task'[j].pc = "write" /\ task'[j].at = task[j].at /\ task'[j].end = task[j].end
        /\ task'[j].buf = [key |-> dbKey, iv |-> FreshIv(f)]
    <3>1. task' = [task EXCEPT ![j] = [pc |-> "write", at |-> task[j].at, end |-> task[j].end,
                                       buf |-> [key |-> dbKey, iv |-> FreshIv(f)]]]
      BY <1>7, <2>1, MovesOn
    <3> QED
      BY <1>7, <3>1
  <2>3. FileOf(j)' = f /\ object'[f] = [version |-> dbVersion, iv |-> FreshIv(f)]
    BY <1>2, <1>3, <1>4, <1>7, <2>1, <2>2 DEF FileOf
  <2>4. FreshIv(f) # row[f].iv
    BY FreshIvIsFresh DEF IvsOf
  <2>5. TaskHolds'
    <3>1. /\ task'[j].buf.key = dbKey /\ task'[j].buf.iv = FreshIv(f) /\ task'[j].pc # "save"
          /\ row'[f].iv = row[f].iv
      BY <2>1, <2>2
    <3> QED
      BY <1>15, <2>3, <2>4, <3>1
  <2>6. RangesApart' /\ RowVersions'
    <3>1. RangesApart'
      BY <1>4, <1>11, <2>2
    <3>2. RowVersions'
      BY <1>1, <1>2, <2>1 DEF FileOrder, RowVersions
    <3> QED
      BY <3>1, <3>2
  <2>7. \A i \in Threads, k \in 1 .. Len(listed) : Pending(i, k)' <=> Pending(i, k)
    BY <1>2, <2>2 DEF Pending
  <2>8. OldArePending'
    BY <1>1, <1>2, <2>1, <2>7 DEF TaskOrder, OldArePending
  <2>9. PendingAreOld'
    <3> SUFFICES ASSUME NEW i \in Threads, NEW k \in 1 .. Len(listed), Pending(i, k)
                 PROVE  /\ row[listed[k]].version # dbVersion
                        /\ task'[i].pc = "load" \/ k # task'[i].at + 1 =>
                              object'[listed[k]] = row[listed[k]]
      <4>1. row' = row /\ listed' = listed /\ dbVersion' = dbVersion
        BY <1>2, <2>1
      <4> QED
        BY <2>7, <4>1 DEF PendingAreOld
    <3>1. /\ row[listed[k]].version # dbVersion
          /\ task[i].pc = "load" \/ k # task[i].at + 1 => object[listed[k]] = row[listed[k]]
      BY <1>1 DEF TaskOrder, PendingAreOld
    <3>2. CASE i # j \/ k # task[j].at + 1
      <4>1. object'[listed[k]] = object[listed[k]]
        BY <1>9, <3>2
      <4> QED
        BY <1>2, <2>1, <2>2, <3>1, <3>2, <4>1
    <3>3. CASE i = j /\ k = task[j].at + 1
      BY <2>2, <3>1, <3>3
    <3> QED
      BY <3>2, <3>3
  <2>10. ~(\E i \in Threads : task[i].pc = "save" /\ FileOf(i) = f)
    BY <1>6, <2>1
  <2>11. Fits(f)
    BY <1>1, <1>2, <1>4, <2>10 DEF FileOrder, FilesFit, Rewriting
  <2>12. FilesFit'
    <3>1. Fits(f)'
      BY <1>2, <2>1, <2>11 DEF Fits, Opens
    <3> QED
      BY <1>14, <3>1
  <2> QED
    BY <1>2, <2>5, <2>6, <2>8, <2>9, <2>12 DEF Order, FileOrder, TaskOrder
<1>17. CASE WriteFile(j)
  <2>1. /\ task' = [task EXCEPT ![j].pc = "save"] /\ disk' = [disk EXCEPT ![f] = task[j].buf]
        /\ UNCHANGED <<row, object>> /\ task[j].pc = "write"
    BY <1>3, <1>17 DEF WriteFile
  <2>2. /\ task'[j].pc = "save" /\ task'[j].at = task[j].at /\ task'[j].end = task[j].end
        /\ task'[j].buf = task[j].buf
    <3>1. task' = [task EXCEPT ![j] = [pc |-> "save", at |-> task[j].at, end |-> task[j].end,
                                       buf |-> task[j].buf]]
      BY <1>7, <2>1, MovesOn
    <3> QED
      BY <1>7, <3>1
  <2>3. FileOf(j)' = f /\ disk'[f] = task[j].buf
    BY <1>2, <1>3, <1>4, <1>7, <2>1, <2>2 DEF FileOf
  <2>4. TaskHolds'
    <3>1. /\ task[j].buf.key = dbKey
          /\ object[f] = [version |-> dbVersion, iv |-> task[j].buf.iv]
          /\ task[j].buf.iv # row[f].iv
      BY <1>1, <1>3, <2>1 DEF TaskOrder, TaskHolds
    <3> QED
      BY <1>15, <2>1, <2>2, <2>3, <3>1
  <2>5. RangesApart' /\ RowVersions'
    <3>1. RangesApart'
      BY <1>4, <1>11, <2>2
    <3>2. RowVersions'
      BY <1>1, <1>2, <2>1 DEF FileOrder, RowVersions
    <3> QED
      BY <3>1, <3>2
  <2>6. \A i \in Threads, k \in 1 .. Len(listed) : Pending(i, k)' <=> Pending(i, k)
    BY <1>2, <2>2 DEF Pending
  <2>7. OldArePending'
    BY <1>1, <1>2, <2>1, <2>6 DEF TaskOrder, OldArePending
  <2>8. \A i \in Threads : task'[i].at = task[i].at /\ (task'[i].pc = "load" => task[i].pc = "load")
    BY <1>2, <2>2
  <2>9. PendingAreOld'
    BY <1>1, <1>2, <2>1, <2>6, <2>8 DEF TaskOrder, PendingAreOld
  <2>10. Rewriting(f)'
    BY <2>2, <2>3 DEF Rewriting
  <2>11. FilesFit'
    BY <1>14, <2>10
  <2> QED
    BY <1>2, <2>4, <2>5, <2>7, <2>9, <2>11 DEF Order, FileOrder, TaskOrder
<1>18. CASE SaveRow(j)
  <2>1. /\ row' = [row EXCEPT ![f] = object[f]] /\ UNCHANGED <<disk, object>>
        /\ task[j].pc = "save"
    BY <1>3, <1>18 DEF SaveRow, Saved
  <2>2. \/ task[j].at + 1 = task[j].end /\ task'[j].pc = "off"
        \/ /\ task[j].at + 1 # task[j].end /\ task'[j].pc = "load"
           /\ task'[j].at = task[j].at + 1 /\ task'[j].end = task[j].end
    <3>1. CASE task[j].at + 1 = task[j].end
      BY <1>7, <1>18, <3>1 DEF SaveRow, Give, Off
    <3>2. CASE task[j].at + 1 # task[j].end
      <4>1. task' = [task EXCEPT ![j].pc = "load", ![j].at = task[j].at + 1]
        BY <1>7, <1>18, <3>2 DEF SaveRow
      <4>2. task[j] \in SubTasks
        BY <1>7
      <4> QED
        BY <1>7, <3>2, <4>1, <4>2 DEF SubTasks
    <3> QED
      BY <3>1, <3>2
  <2>3. /\ task[j].buf.key = dbKey
        /\ object[f] = [version |-> dbVersion, iv |-> task[j].buf.iv]
        /\ disk[f] = task[j].buf
    BY <1>1, <1>3, <2>1 DEF TaskOrder, TaskHolds
  <2>4. row'[f].version = dbVersion /\ row'[f].iv = task[j].buf.iv
    BY <1>4, <1>7, <2>1, <2>3
  <2>5. TaskHolds'
    BY <1>15, <2>2
  <2>6. RangesApart'
    BY <1>4, <1>11, <2>2
  <2>7. RowVersions'
    BY <1>2, <1>3, <1>12, <2>4
  <2>8. \A i \in Threads, k \in 1 .. Len(listed) :
           Pending(i, k)' <=> Pending(i, k) /\ (i # j \/ k # task[j].at + 1)
    <3>1. ASSUME NEW k \in 1 .. Len(listed)
          PROVE  Pending(j, k)' <=> Pending(j, k) /\ k # task[j].at + 1
      <4>1. k \in Int
        OBVIOUS
      <4>2. CASE task[j].at + 1 = task[j].end /\ task'[j].pc = "off"
        <5>1. ~ Pending(j, k)'
          BY <4>2 DEF Pending
        <5>2. Pending(j, k) => k = task[j].at + 1
          BY <1>4, <4>1, <4>2 DEF Pending
        <5> QED
          BY <5>1, <5>2
      <4>3. CASE /\ task[j].at + 1 # task[j].end /\ task'[j].pc = "load"
                 /\ task'[j].at = task[j].at + 1 /\ task'[j].end = task[j].end
        <5>1. Pending(j, k)' <=> task[j].at + 1 < k /\ k <= task[j].end
          BY <1>2, <4>3 DEF Pending
        <5>2. Pending(j, k) <=> task[j].at < k /\ k <= task[j].end
          BY <1>2 DEF Pending
        <5>3. task[j].at + 1 < k <=> task[j].at < k /\ k # task[j].at + 1
          BY <1>4, <4>1
        <5> QED
          BY <5>1, <5>2, <5>3
      <4> QED
        BY <2>2, <4>2, <4>3
    <3> QED
      BY <1>8, <3>1
  <2>9. OldArePending'
    <3> SUFFICES ASSUME NEW g \in Files, row'[g].version # dbVersion
                 PROVE  \E i \in Threads, k \in 1 .. Len(listed) : Pending(i, k)' /\ listed[k] = g
      BY <1>2 DEF OldArePending
    <3>1. g # f /\ row[g].version # dbVersion
      BY <1>2, <1>3, <2>4
    <3>2. PICK i \in Threads, k \in 1 .. Len(listed) : Pending(i, k) /\ listed[k] = g
      BY <1>1, <1>2, <3>1 DEF TaskOrder, OldArePending
    <3>3. i # j \/ k # task[j].at + 1
      BY <1>4, <3>1, <3>2
    <3> QED
      BY <2>8, <3>2, <3>3
  <2>10. PendingAreOld'
    <3> SUFFICES ASSUME NEW i \in Threads, NEW k \in 1 .. Len(listed), Pending(i, k)'
                 PROVE  /\ row'[listed[k]].version # dbVersion
                        /\ task'[i].pc = "load" \/ k # task'[i].at + 1 =>
                              object'[listed[k]] = row'[listed[k]]
      BY <1>2 DEF PendingAreOld
    <3>1. Pending(i, k) /\ (i # j \/ k # task[j].at + 1)
      BY <2>8
    <3>2. row'[listed[k]] = row[listed[k]] /\ object'[listed[k]] = object[listed[k]]
      BY <1>9, <3>1
    <3>3. /\ row[listed[k]].version # dbVersion
          /\ task[i].pc = "load" \/ k # task[i].at + 1 => object[listed[k]] = row[listed[k]]
      BY <1>1, <3>1 DEF TaskOrder, PendingAreOld
    <3>4. i # j => task'[i] = task[i]
      BY <1>2
    <3> QED
      BY <3>1, <3>2, <3>3, <3>4
  <2>11. FilesFit'
    <3>1. Fits(f)'
      BY <1>2, <2>1, <2>3, <2>4 DEF Fits, Opens
    <3> QED
      BY <1>14, <3>1
  <2> QED
    BY <1>2, <2>5, <2>6, <2>7, <2>9, <2>10, <2>11 DEF Order, FileOrder, TaskOrder
<1> QED
  BY <1>16, <1>17, <1>18 DEF TaskStep

\* Every step that does no harm keeps the order.
LEMMA NextOrder ==
  ASSUME TypeInv, TypeInv', Order, [Next]_vars, Unless(Harms)'
  PROVE  Order'
<1>1. CASE Next
  <2>1. \A j \in Threads : ~TaskFails(j)
    BY DEF TaskFails, Fault, Unless, Harms
  <2> QED
    BY <1>1, <2>1, RestartOrder, PrepareOrder, BeginOrder, FinishOrder, TaskStepOrder, WriterOrder
       DEF Next
<1>2. CASE UNCHANGED vars
  <2>1. MemoryKnows'
    BY <1>2 DEF Order, vars, memory, keyRow, runVars, counts, MemoryKnows
  <2> QED
    BY <1>2, <2>1, FilesStay DEF Order, vars, memory, keyRow, runVars, counts
<1> QED
  BY <1>1, <1>2

\* Every step that does no harm and prepares no rotation while one is finishing keeps the
\* rotations one at a time.
LEMMA NextOneAtATime ==
  ASSUME TypeInv, Order, OneAtATime, [Next]_vars, Unless(Harms \cup {"overlap"})'
  PROVE  OneAtATime'
<1> USE DEF NoFault, counts, memory, keyRow, runVars
<1>1. MemoryKnows
  BY DEF Order
<1>2. ~Fault /\ \A j \in Threads : ~TaskFails(j)
  BY DEF TaskFails, Fault, Unless, Harms
<1>3. CASE Restart
  BY <1>3 DEF Restart, OneAtATime
<1>4. CASE PrepareCheck
  <2>1. run # "publish"
    BY <1>4 DEF PrepareCheck, Unless
  <2> QED
    BY <1>4, <2>1 DEF PrepareCheck, PrepareFrame, OneAtATime
<1>5. CASE PrepareStep
  BY <1>1, <1>2, <1>5 DEF PrepareStep, PrepareSwap, PrepareStore, PreparePublish, PrepareFrame,
                          OneAtATime, MemoryKnows
<1>6. CASE BeginRun
  BY <1>6 DEF BeginRun, RunFrame, OneAtATime
<1>7. CASE ProcessFutures \/ FinishClear
  BY <1>7 DEF ProcessFutures, FinishClear, FinishFrame, RunFrame, OneAtATime
<1>8. CASE FinishMark
  <2>1. prep = "idle" /\ rotating
    BY <1>1, <1>8 DEF FinishMark, MemoryKnows
  <2>2. dbOld' = NoKey /\ prep' = prep
    BY <1>2, <1>8 DEF FinishMark, Completed, FinishFrame, RunFrame
  <2> QED
    BY <2>1, <2>2 DEF OneAtATime
<1>9. CASE FinishPublish
  BY <1>9 DEF FinishPublish, FinishFrame, RunFrame, OneAtATime
<1>10. ASSUME NEW j \in Threads, TaskStep(j) PROVE OneAtATime'
  BY <1>10 DEF TaskStep, LoadFile, WriteFile, SaveRow, TaskFrame, RunFrame, OneAtATime
<1>11. CASE WriteContents \/ WriteRow \/ \E f \in Files : WriteBegins(f)
  BY <1>11 DEF WriteContents, WriteRow, WriteBegins, WriterFrame, OneAtATime
<1>12. CASE UNCHANGED vars
  BY <1>12 DEF vars, OneAtATime
<1> QED
  BY <1>2, <1>3, <1>4, <1>5, <1>6, <1>7, <1>8, <1>9, <1>10, <1>11, <1>12 DEF Next, FinishStep

LEMMA InitOrder == Init => Order /\ OneAtATime
<1> SUFFICES ASSUME Init PROVE Order /\ OneAtATime
  OBVIOUS
<1>1. /\ key = 1 /\ old = NoKey /\ version = 1 /\ rotating = FALSE /\ dbKey = 1 /\ dbVersion = 1
      /\ dbOld = NoKey /\ prep = "idle" /\ run = "idle" /\ writer.pc = "idle"
  BY DEF Init, Idle
<1>2. \A j \in Threads : task[j].pc = "off"
  BY DEF Init, Off
<1>3. \A f \in Files : row[f] = [version |-> 1, iv |-> 0] /\ disk[f] = [key |-> 1, iv |-> 0]
  BY DEF Init
<1>4. MemoryKnows /\ AllNew /\ OneAtATime
  BY <1>1 DEF MemoryKnows, AllNew, OneAtATime
<1>5. FileOrder
  BY <1>1, <1>3 DEF FileOrder, WriterAlone, RowVersions, FilesFit, Fits, Opens, WriterHolds
<1>6. TaskOrder
  BY <1>1, <1>2 DEF TaskOrder, ListedOnce, RangesApart, OldArePending, PendingAreOld, Pending,
                    TaskHolds
<1> QED
  BY <1>4, <1>5, <1>6 DEF Order

LEMMA RotInvHolds == Spec => []RotInv
<1>1. Init => RotInv
  BY InitTypes, InitOrder DEF RotInv
<1>2. RotInv /\ [Next]_vars => RotInv'
  <2> SUFFICES ASSUME RotInv, [Next]_vars PROVE RotInv'
    OBVIOUS
  <2>1. TypeInv /\ TypeInv'
    BY NextTypes DEF RotInv
  <2>2. ASSUME Unless(Harms)' PROVE Order'
    BY <2>1, <2>2, HarmStays, NextOrder DEF RotInv
  <2>3. ASSUME Unless(Harms \cup {"overlap"})' PROVE OneAtATime'
    <3>1. Unless(Harms \cup {"overlap"}) /\ Unless(Harms)
      BY <2>3, HarmStays DEF Unless
    <3> QED
      BY <2>1, <2>3, <3>1, NextOneAtATime DEF RotInv
  <2> QED
    BY <2>1, <2>2, <2>3 DEF RotInv
<1> QED
  BY <1>1, <1>2, PTL DEF Spec

\* No file is lost: as long as no step failed, no restart hit a file between its rewriting and
\* its row, no createFile met a run or left a version that its key does not have, and the files
\* divided evenly among the sub-tasks, the rows of the database open every file that is not in
\* the middle of being rewritten, for any number of files, threads, rotations and restarts.
THEOREM NoFileIsLostCorrect == Spec => []NoFileIsLost
<1>1. RotInv => NoFileIsLost
  <2> SUFFICES ASSUME RotInv, Unless(Harms), NEW f \in Files, ~Rewriting(f)
               PROVE  Recoverable(f)
    BY DEF NoFileIsLost, Harms
  <2>1. FileOrder /\ TypeOK
    BY DEF RotInv, Order, TypeInv
  <2>2. Fits(f) /\ (row[f].version = dbVersion \/ (dbOld # NoKey /\ row[f].version = dbVersion - 1))
    BY <2>1 DEF FileOrder, FilesFit, RowVersions
  <2>3. dbVersion # dbVersion - 1
    BY <2>1 DEF TypeOK, Versions
  <2> QED
    BY <2>2, <2>3 DEF Recoverable, Fits
<1> QED
  BY <1>1, RotInvHolds, PTL

\* Readers are served throughout a rotation, outside the two windows in which the members of
\* EncryptionManager disagree, unless a rotation was prepared while another one was finishing.
THEOREM ReadableCorrect == Spec => []ReadableOutsideWindows
<1>1. RotInv => ReadableOutsideWindows
  <2> SUFFICES ASSUME RotInv, Unless(Harms \cup {"overlap"}), Quiet, NEW f \in Files, ~Rewriting(f)
               PROVE  Readable(f)
    BY DEF ReadableOutsideWindows, Harms
  <2>1. FileOrder /\ MemoryKnows /\ OneAtATime /\ TypeOK
    BY DEF RotInv, Order, TypeInv, Unless
  <2>2. Fits(f) /\ (row[f].version = dbVersion \/ (dbOld # NoKey /\ row[f].version = dbVersion - 1))
    BY <2>1 DEF FileOrder, FilesFit, RowVersions
  <2>3. dbVersion # dbVersion - 1
    BY <2>1 DEF TypeOK, Versions
  <2>4. key = dbKey /\ version = dbVersion
    BY <2>1 DEF Quiet, MemoryKnows
  <2>5. CASE rotating
    <3>1. dbOld # NoKey /\ old = dbOld
      BY <2>1, <2>5 DEF Quiet, MemoryKnows
    <3> QED
      BY <2>2, <2>3, <2>4, <2>5, <3>1 DEF Readable, Fits
  <2>6. CASE ~rotating
    <3>1. dbOld = NoKey
      BY <2>1, <2>6 DEF Quiet, MemoryKnows, OneAtATime
    <3> QED
      BY <2>2, <2>4, <2>6, <3>1 DEF Readable, Fits
  <2> QED
    BY <2>5, <2>6
<1> QED
  BY <1>1, RotInvHolds, PTL

\* finish_key_rotation lets go of the trashed key only when every file and every row has the
\* new one.
THEOREM FinishedMeansRotatedCorrect == Spec => FinishedMeansRotated
<1>1. ASSUME RotInv, [Next]_vars, dbOld # NoKey, dbOld' = NoKey, Unless(Harms)
      PROVE  \A f \in Files : row[f].version = dbVersion /\ disk[f].key = dbKey
  <2>1. Order /\ TypeInv /\ dbKey # NoKey
    BY <1>1 DEF RotInv, TypeInv, TypeOK, Keys, NoKey
  <2>2. run = "mark"
    <3>1. dbOld' # dbOld
      BY <1>1
    <3>2. ~PrepareStore
      BY <1>1, <2>1, <3>1 DEF PrepareStore, keyRow
    <3>3. ~Restart /\ ~PrepareCheck /\ ~PrepareSwap /\ ~PreparePublish /\ ~BeginRun
          /\ ~ProcessFutures /\ ~FinishClear /\ ~FinishPublish
      BY <3>1 DEF Restart, PrepareCheck, PrepareSwap, PreparePublish, BeginRun, ProcessFutures,
                  FinishClear, FinishPublish, keyRow
    <3>4. \A j \in Threads : ~TaskStep(j) /\ ~TaskFails(j)
      BY <3>1 DEF TaskStep, LoadFile, WriteFile, SaveRow, TaskFails, TaskFrame, keyRow
    <3>5. ~WriteContents /\ ~WriteRow /\ \A f \in Files : ~WriteBegins(f)
      BY <3>1 DEF WriteContents, WriteRow, WriteBegins, WriterFrame, keyRow
    <3>6. ~UNCHANGED vars
      BY <3>1 DEF vars, keyRow
    <3>7. FinishMark
      BY <1>1, <3>2, <3>3, <3>4, <3>5, <3>6 DEF Next, PrepareStep, FinishStep
    <3> QED
      BY <3>7 DEF FinishMark
  <2>3. \A f \in Files : row[f].version = dbVersion
    BY <2>1, <2>2 DEF Order, AllNew
  <2>4. writer.pc = "idle"
    BY <2>1, <2>2, RotatingKnows
  <2>5. \A f \in Files : Fits(f)
    BY <2>1, <2>2, <2>4, TasksOff DEF Order, FileOrder, FilesFit
  <2> QED
    BY <2>3, <2>5 DEF Fits, Opens
<1>2. RotInv /\ [Next]_vars =>
        [dbOld # NoKey /\ dbOld' = NoKey
           /\ Unless({"fault", "torn", "clash", "mislabelled", "uneven"}) =>
         \A f \in Files : row[f].version = dbVersion /\ disk[f].key = dbKey]_vars
  BY <1>1 DEF Harms
<1> QED
  BY <1>2, RotInvHolds, PTL DEF Spec, FinishedMeansRotated
===============================================================================
