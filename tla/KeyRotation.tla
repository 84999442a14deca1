------------------------------ MODULE KeyRotation ------------------------------
(***************************************************************************)
(* Rotation of the encryption key of one local vault: EncryptionManager    *)
(* (prepare_key_rotation, finish_key_rotation, load_key), the stage        *)
(* handleVaultKeyRotation of a sync run with the RotateKey sub-tasks it    *)
(* spreads over the sync pool, the rows of the database they rely on, and  *)
(* Filesystem::createFile, which writes files meanwhile.                   *)
(*                                                                         *)
(* A key is the number of its making.  A ciphertext is the key and the     *)
(* initialisation vector it was made with: a read needs both.  A fresh     *)
(* vector is one that nothing which belongs to the file still mentions.    *)
(***************************************************************************)
EXTENDS Integers, FiniteSets, Sequences, SequencesExt

CONSTANTS FileCount,    \* files of the vault, all written before the first rotation
          MaxThreads,   \* std::thread::hardware_concurrency()
          MaxRotations, MaxRestarts, MaxFaults, MaxWrites,  \* bounds
          MaxCommands     \* rotations and writes together

ASSUME CountsAssumption == FileCount \in Nat /\ MaxThreads \in Nat \ {0}
ASSUME LimitsAssumption == /\ MaxRotations \in Nat /\ MaxRestarts \in Nat
                           /\ MaxFaults \in Nat /\ MaxWrites \in Nat
                           /\ MaxCommands \in Nat

Files   == 1..FileCount
Threads == 0..MaxThreads - 1
NoKey   == 0
Keys    == 1..MaxRotations + 1
Ivs     == 0..MaxThreads + 4  \* one more than can be in use for a file

VARIABLES key, old, version, rotating,  \* the members of EncryptionManager
          made,                         \* keys generated so far
          dbKey, dbVersion,             \* the row of vault_keys
          dbOld,                        \* the trashed key whose rotation is pending, or NoKey
          disk,                         \* the ciphertext in every backing file
          row,                          \* version and iv in every row of files
          prep,                         \* where `vault keys rotate` is
          run, listed, object, task,    \* the run, the files it lists, their File objects, its sub-tasks
          writer,                       \* where createFile is
          dead,                         \* the process has died of an arithmetic exception
          restarts, faults, writes,
          harm                          \* what has gone wrong so far

memory == <<key, old, version, rotating>>
keyRow == <<dbKey, dbVersion, dbOld>>
runVars == <<run, listed, object, task>>
counts == <<restarts, faults, writes>>
vars == <<memory, made, keyRow, disk, row, prep, runVars, writer, dead, counts, harm>>

Versions == 1..MaxRotations + 1

Ciphertext == [key : Keys, iv : Ivs]
FileRow    == [version : Versions, iv : Ivs]
SubTasks   == [pc : {"off", "load", "write", "save"}, at : 0..FileCount, end : 0..FileCount,
               buf : Ciphertext]
Writers    == [pc : {"idle", "write", "save"}, file : 0..FileCount, buf : Ciphertext]
Off  == [pc |-> "off", at |-> 0, end |-> 0, buf |-> [key |-> 1, iv |-> 0]]
Idle == [pc |-> "idle", file |-> 0, buf |-> [key |-> 1, iv |-> 0]]
NoObjects == [f \in Files |-> [version |-> 1, iv |-> 0]]

TypeOK ==
  /\ key \in Keys /\ old \in Keys \cup {NoKey} /\ made \in Keys /\ rotating \in BOOLEAN
  /\ version \in Versions /\ dbVersion \in Versions
  /\ dbKey \in Keys /\ dbOld \in Keys \cup {NoKey}
  /\ disk \in [Files -> Ciphertext]
  /\ row \in [Files -> FileRow] /\ object \in [Files -> FileRow]
  /\ prep \in {"idle", "swap", "store", "publish"}
  /\ run \in {"idle", "rotate", "clear", "mark", "publish"}
  /\ listed \in Seq(Files)
  /\ task \in [Threads -> SubTasks] /\ writer \in Writers
  /\ dead \in BOOLEAN
  /\ restarts \in 0..MaxRestarts /\ faults \in 0..MaxFaults /\ writes \in 0..MaxWrites
  /\ harm \subseteq {"restart", "torn", "fault", "overlap", "clash", "mislabelled", "uneven"}

\* The vault has its first key, version 1, and every file is written with it.
Init ==
  /\ key = 1 /\ old = NoKey /\ version = 1 /\ rotating = FALSE /\ made = 1
  /\ dbKey = 1 /\ dbVersion = 1 /\ dbOld = NoKey
  /\ disk = [f \in Files |-> [key |-> 1, iv |-> 0]]
  /\ row = [f \in Files |-> [version |-> 1, iv |-> 0]]
  /\ prep = "idle" /\ run = "idle" /\ listed = <<>> /\ object = NoObjects
  /\ task = [j \in Threads |-> Off] /\ writer = Idle /\ dead = FALSE
  /\ restarts = 0 /\ faults = 0 /\ writes = 0 /\ harm = {}

Fault == /\ faults < MaxFaults /\ faults' = faults + 1 /\ harm' = harm \cup {"fault"}
         /\ UNCHANGED <<restarts, writes>>

\* A write and the rotation stage of a run meet.
Clash(meets) == harm' = IF meets THEN harm \cup {"clash"} ELSE harm
NoFault == UNCHANGED <<counts, harm>>

-------------------------------------------------------------------------------
(* prepare_key_rotation, called by `vault keys rotate`.                    *)

PrepareFrame == UNCHANGED <<disk, row, runVars, writer, dead>>

\* A rotation that the database says is pending refuses another one.
PrepareCheck ==
  /\ prep = "idle" /\ dbOld = NoKey /\ made <= MaxRotations
  /\ made + writes <= MaxCommands
  /\ prep' = "swap"
  /\ harm' = IF run = "publish" THEN harm \cup {"overlap"} ELSE harm
  /\ UNCHANGED <<memory, made, keyRow, counts>> /\ PrepareFrame

\* The new key is in memory before anything else knows of it.
PrepareSwap ==
  /\ prep = "swap" /\ prep' = "store"
  /\ old' = key /\ key' = made + 1 /\ made' = made + 1
  /\ UNCHANGED <<version, rotating, keyRow>> /\ NoFault /\ PrepareFrame

NextVersion == dbVersion + 1

\* rotate_vault_key: the old row is trashed, the new one takes its place, in one statement.
PrepareStore ==
  /\ prep = "store"
  /\ \/ /\ dbOld' = dbKey /\ dbKey' = key /\ dbVersion' = NextVersion
        /\ prep' = "publish" /\ NoFault
     \/ Fault /\ prep' = "idle" /\ UNCHANGED keyRow
  /\ UNCHANGED <<memory, made>> /\ PrepareFrame

PreparePublish ==
  /\ prep = "publish" /\ prep' = "idle"
  /\ version' = dbVersion /\ rotating' = TRUE
  /\ UNCHANGED <<key, old, made, keyRow>> /\ NoFault /\ PrepareFrame

-------------------------------------------------------------------------------
(* handleVaultKeyRotation.                                                 *)

RunFrame == UNCHANGED <<made, prep, writer>>

\* getTaskOperationRanges, for total files.
ThreadCount(total) == IF total \div 2 < MaxThreads THEN total \div 2 ELSE MaxThreads

\* Slip: the range ends one file early.
ShortEnd(i, total) == (i + 1) * (total \div ThreadCount(total)) - 1

RangeEnd(i, total) == (i + 1) * (total \div ThreadCount(total))
                      + (IF i < total % ThreadCount(total) THEN 1 ELSE 0)

SubTask(i, total) == IF i < ThreadCount(total)
                     THEN [Off EXCEPT !.pc = "load", !.at = i * (total \div ThreadCount(total)),
                                      !.end = RangeEnd(i, total)]
                     ELSE Off

\* Ranges leave no file out and share none only if the files divide evenly among the sub-tasks.
Uneven(total) == total > 1 /\ total % ThreadCount(total) # 0

\* The files whose row has an older version than the key in memory; the query has no order.
OlderFiles == {f \in Files : row[f].version < version}
Older == SetToSeq(OlderFiles)

\* While a rotation is in progress the stage lists the older files and starts its sub-tasks.
\* For a single file the number of threads is zero, and it is divided by.
BeginRun ==
  /\ run = "idle" /\ rotating
  /\ LET total == Len(Older)
     IN /\ \/ total = 0 /\ run' = "clear" /\ UNCHANGED <<listed, object, task, dead>>
           \/ total = 1 /\ dead' = TRUE /\ UNCHANGED runVars
           \/ /\ total > 1 /\ run' = "rotate" /\ listed' = Older /\ object' = row
              /\ task' = [i \in Threads |-> SubTask(i, total)]
              /\ UNCHANGED dead
        /\ harm' = harm \cup (IF writer.pc # "idle" THEN {"clash"} ELSE {})
                        \cup (IF Uneven(total) THEN {"uneven"} ELSE {})
  /\ UNCHANGED <<memory, keyRow, disk, row, counts>> /\ RunFrame

FileOf(j) == listed[task[j].at + 1]

IvsOf(f) == {disk[f].iv, row[f].iv, object[f].iv}
            \cup {task[j].buf.iv : j \in {i \in Threads : task[i].pc # "off"}} \cup {writer.buf.iv}
FreshIv(f) == CHOOSE i \in Ivs : i \notin IvsOf(f)

\* Does key k open what is on the disk for f, with initialisation vector iv?
Opens(k, iv, f) == disk[f].key = k /\ disk[f].iv = iv

TaskFrame == UNCHANGED <<memory, keyRow, run, listed, dead>> /\ RunFrame

\* An exception ends the sub-task and with it the rest of its range.
Give(j) == task' = [task EXCEPT ![j] = Off]

\* rotateDecryptEncrypt: what is current stays, all else is opened with the old key.  An
\* authentication error is an exception.
LoadFile(j) ==
  /\ task[j].pc = "load"
  /\ LET f == FileOf(j)
         fresh == [key |-> key, iv |-> FreshIv(f)]
     IN \/ /\ object[f].version = version
           /\ task' = [task EXCEPT ![j].pc = "write", ![j].buf = disk[f]]
           /\ UNCHANGED object
        \/ /\ object[f].version # version /\ rotating /\ Opens(old, object[f].iv, f)
           /\ task' = [task EXCEPT ![j].pc = "write", ![j].buf = fresh]
           /\ object' = [object EXCEPT ![f] = [version |-> version, iv |-> fresh.iv]]
        \/ /\ object[f].version # version /\ ~(rotating /\ Opens(old, object[f].iv, f))
           /\ Give(j) /\ UNCHANGED object
  /\ UNCHANGED <<disk, row>> /\ NoFault /\ TaskFrame

\* The backing file is overwritten.
WriteFile(j) ==
  /\ task[j].pc = "write"
  /\ disk' = [disk EXCEPT ![FileOf(j)] = task[j].buf]
  /\ task' = [task EXCEPT ![j].pc = "save"]
  /\ UNCHANGED <<row, object>> /\ NoFault /\ TaskFrame

\* Slip: only the vector is saved, as by createFile.
SavedIvOnly(f) == [row[f] EXCEPT !.iv = object[f].iv]

Saved(f) == object[f]

\* setEncryptionIVAndVersion; then the next file of the range, or the end of the sub-task.
SaveRow(j) ==
  /\ task[j].pc = "save"
  /\ row' = [row EXCEPT ![FileOf(j)] = Saved(FileOf(j))]
  /\ IF task[j].at + 1 = task[j].end
     THEN Give(j)
     ELSE task' = [task EXCEPT ![j].pc = "load", ![j].at = @ + 1]
  /\ UNCHANGED <<disk, object>> /\ NoFault /\ TaskFrame

\* A read, a write or a query of a sub-task throws: an empty file, for one, has no vector.
TaskFails(j) ==
  /\ task[j].pc # "off" /\ Fault /\ Give(j)
  /\ UNCHANGED <<disk, row, object>> /\ TaskFrame

\* Slip: the sub-tasks are not waited for.
NotWaited == TRUE

FuturesDone == \A j \in Threads : task[j].pc = "off"

\* processFutures: failed sub-tasks are logged, and the rotation is finished all the same.
ProcessFutures ==
  /\ run = "rotate" /\ FuturesDone
  /\ run' = "clear"
  /\ UNCHANGED <<memory, keyRow, disk, row, listed, object, task, dead>> /\ NoFault /\ RunFrame

\* The list of the files goes with the run that made it, or with the last sub-task.
FinishFrame == /\ UNCHANGED <<key, version, disk, row, task, dead>> /\ RunFrame
               /\ IF run' = "idle" /\ FuturesDone THEN listed' = <<>> /\ object' = NoObjects
                                                 ELSE UNCHANGED <<listed, object>>

\* finish_key_rotation, with a rotation pending in the database: the old key leaves memory,
FinishClear ==
  /\ run = "clear"
  /\ IF dbOld = NoKey THEN run' = "idle" /\ UNCHANGED old
                      ELSE run' = "mark" /\ old' = NoKey
  /\ UNCHANGED <<rotating, keyRow>> /\ NoFault /\ FinishFrame

\* Slip: the trashed key stays pending.
LeavePending == dbOld

Completed == NoKey

\* then the database, or the query fails and the run swallows the exception,
FinishMark ==
  /\ run = "mark"
  /\ \/ dbOld' = Completed /\ run' = "publish" /\ NoFault
     \/ Fault /\ run' = "idle" /\ UNCHANGED dbOld
  /\ UNCHANGED <<old, rotating, dbKey, dbVersion>> /\ FinishFrame

\* and at last the flag goes down.
FinishPublish ==
  /\ run = "publish" /\ run' = "idle" /\ rotating' = FALSE
  /\ UNCHANGED <<old, keyRow>> /\ NoFault /\ FinishFrame

-------------------------------------------------------------------------------
(* Filesystem::createFile with contents, and a restart of the daemon.      *)

WriterFrame == UNCHANGED <<memory, made, keyRow, prep, runVars, dead>>

WriteBegins(f) ==
  /\ writer.pc = "idle" /\ writes < MaxWrites
  /\ made + writes + (IF prep = "swap" THEN 1 ELSE 0) <= MaxCommands
  /\ writer' = [pc |-> "write", file |-> f, buf |-> [key |-> key, iv |-> FreshIv(f)]]
  /\ writes' = writes + 1 /\ Clash(run # "idle")
  /\ UNCHANGED <<disk, row, restarts, faults>> /\ WriterFrame

WriteContents ==
  /\ writer.pc = "write" /\ writer' = [writer EXCEPT !.pc = "save"]
  /\ disk' = [disk EXCEPT ![writer.file] = writer.buf]
  /\ Clash(run # "idle")
  /\ UNCHANGED <<row, counts>> /\ WriterFrame

\* The version that the database has for a key, if it has the key.
VersionOf(k) == IF k = dbKey THEN dbVersion ELSE IF k = dbOld THEN dbVersion - 1 ELSE 0

\* updateFile saves the vector but not the version; upsertFile makes a new row, whose version
\* is the default of the column, 1.
WriteRow ==
  /\ writer.pc = "save" /\ writer' = Idle
  /\ \E v \in {row[writer.file].version, 1} :
       /\ row' = [row EXCEPT ![writer.file] = [version |-> v, iv |-> writer.buf.iv]]
       /\ harm' = harm \cup (IF run # "idle" THEN {"clash"} ELSE {})
                       \cup (IF v # VersionOf(writer.buf.key) THEN {"mislabelled"} ELSE {})
  /\ UNCHANGED <<disk, counts>> /\ WriterFrame

Torn(f) == disk[f].iv # row[f].iv

\* The daemon stops anywhere and starts again: load_key reads the rows of the keys.
Restart ==
  /\ restarts < MaxRestarts /\ restarts' = restarts + 1
  /\ key' = dbKey /\ version' = dbVersion /\ old' = dbOld /\ rotating' = (dbOld # NoKey)
  /\ prep' = "idle" /\ run' = "idle" /\ listed' = <<>> /\ object' = NoObjects
  /\ task' = [j \in Threads |-> Off] /\ writer' = Idle /\ dead' = FALSE
  /\ harm' = harm \cup {"restart"} \cup (IF \E f \in Files : Torn(f) THEN {"torn"} ELSE {})
  /\ UNCHANGED <<made, keyRow, disk, row, faults, writes>>

TaskStep(j) == LoadFile(j) \/ WriteFile(j) \/ SaveRow(j)
FinishStep  == ProcessFutures \/ FinishClear \/ FinishMark \/ FinishPublish
PrepareStep == PrepareSwap \/ PrepareStore \/ PreparePublish

Next == \/ Restart
        \/ /\ ~dead
           /\ \/ PrepareCheck \/ PrepareStep \/ BeginRun \/ FinishStep
              \/ \E j \in Threads : TaskStep(j) \/ TaskFails(j)
              \/ WriteContents \/ WriteRow \/ \E f \in Files : WriteBegins(f)

Spec == Init /\ [][Next]_vars

\* The command that prepares goes on, every sync run of the vault comes to this stage and is
\* followed by another one, and so do the workers of the pool.
Fairness == /\ WF_vars(~dead /\ PrepareStep)
            /\ WF_vars(~dead /\ BeginRun) /\ WF_vars(~dead /\ FinishStep)
            /\ \A j \in Threads : WF_vars(~dead /\ TaskStep(j))

FairSpec == Spec /\ Fairness

-------------------------------------------------------------------------------
(* Properties.                                                             *)

\* EncryptionManager::decrypt of what is on the disk, with the version and the vector in the row.
Readable(f) ==
  IF rotating
  THEN old # NoKey /\ Opens(IF row[f].version = version - 1 THEN old ELSE key, row[f].iv, f)
  ELSE row[f].version = version /\ Opens(key, row[f].iv, f)

\* The same for a daemon that would be started now.
Recoverable(f) ==
  IF dbOld # NoKey
  THEN Opens(IF row[f].version = dbVersion - 1 THEN dbOld ELSE dbKey, row[f].iv, f)
  ELSE row[f].version = dbVersion /\ Opens(dbKey, row[f].iv, f)

\* A step is between the contents of a file and its row.
Rewriting(f) == \/ \E j \in Threads : task[j].pc = "save" /\ FileOf(j) = f
                \/ writer.pc = "save" /\ writer.file = f

Unless(harms) == harm \cap harms = {}

\* No file is lost: whatever the database says of keys and versions opens every file that is
\* not in the middle of being rewritten, through any number of rotations and restarts, as long
\* as no step failed, no restart hit a file between its rewriting and its row, no createFile met
\* the rotation of a run or left a version in the row that its key does not have, and no list
\* of files was divided unevenly among the sub-tasks.
NoFileIsLost ==
  Unless({"fault", "torn", "clash", "mislabelled", "uneven"}) =>
    \A f \in Files : Rewriting(f) \/ Recoverable(f)

\* Outside the two windows in which the members of EncryptionManager disagree, the swap of the
\* keys to the publishing of the version, and the clearing of the old key to that of the flag.
Quiet == prep \in {"idle", "swap"} /\ run \notin {"mark", "publish"}

\* Readers are served throughout a rotation, and fail only inside the two windows.
ReadableOutsideWindows ==
  Unless({"fault", "torn", "overlap", "clash", "mislabelled", "uneven"}) /\ Quiet =>
    \A f \in Files : Rewriting(f) \/ Readable(f)

\* The same with nothing held against createFile: a file written after, or during, a rotation
\* can be read.
WritesStayReadable ==
  Unless({"fault", "torn", "overlap", "uneven"}) /\ Quiet => \A f \in Files : Rewriting(f) \/ Readable(f)

\* A rotation is finished only when no file needs the old key any more.
FinishedMeansRotated ==
  [][dbOld # NoKey /\ dbOld' = NoKey /\ Unless({"fault", "torn", "clash", "mislabelled", "uneven"}) =>
       \A f \in Files : row[f].version = dbVersion /\ disk[f].key = dbKey]_vars

\* A rotation that is stored comes to its end, unless something failed or was restarted, or it
\* was prepared while the one before it was finishing.
RotationEnds == dbOld # NoKey ~> dbOld = NoKey \/ harm # {}

===============================================================================
