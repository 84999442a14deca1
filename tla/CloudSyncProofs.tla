--------------------------- MODULE CloudSyncProofs ---------------------------
(***************************************************************************)
(* What holds of CloudSync for any files, contents, policies, edits and    *)
(* failures: the types, that the phases of a plan are disjoint, that the   *)
(* last copy of a file goes only on purpose, and what a run makes of a     *)
(* file nobody else touches.                                               *)
(***************************************************************************)
EXTENDS CloudSync, TLAPS

\* The files whose listed row is current have a row, and a listing is looked
\* at by the uploads only.
FreshIsLocal == \A f \in fresh : Local(f)
FreshEnds == pc # "Upload" => fresh = {}

\* Between two runs and while a run lists there are no sub-tasks.
NoTaskBetween == pc \in {"idle", "index"} => todo = {}

\* The sub-tasks of the two phases that remove objects are those they were
\* given, and the second has some only for a mirror of the vault.
PurgesTheTrash == pc = "purge" => todo \subseteq trashed
DeletesThePlan == pc = "DeleteRemote" => todo \subseteq plan["DeleteRemote"]
LeftoversOfAMirror == plan["DeleteRemote"] # {} => Mirrors({"KeepLocal"})

RunInv ==
    /\ TypeOK
    /\ FreshIsLocal /\ FreshEnds /\ NoTaskBetween
    /\ PurgesTheTrash /\ DeletesThePlan /\ LeftoversOfAMirror
    /\ OneActionPerFile

-----------------------------------------------------------------------------
\* Planner::build gives each type of action its own files, and removes
\* objects only for a mirror of the vault.
LEMMA BuildFits ==
    ASSUME NEW rows \in SUBSET Files, NEW listed \in SUBSET Files
    PROVE  /\ Build(rows, listed) \in [Actions -> SUBSET Files]
           /\ \A a, b \in Actions :
                 a # b => Build(rows, listed)[a] \cap Build(rows, listed)[b] = {}
           /\ Build(rows, listed)["DeleteRemote"] # {} => Mirrors({"KeepLocal"})
<1> DEFINE both(a) == {f \in rows \cap listed : Decision(f) = a}
           onlyIf(wanted, files) == IF wanted THEN files ELSE {}
           B == Build(rows, listed)
<1>1. /\ B \in [Actions -> SUBSET Files]
      /\ B["Upload"] = both("Upload") \cup onlyIf(UploadLocalOnly, rows \ listed)
      /\ B["Download"] = both("Download") \cup onlyIf(DownloadRemoteOnly, listed \ rows)
      /\ B["DeleteRemote"] = onlyIf(DeleteRemoteLeftovers, listed \ rows)
      /\ B["DeleteLocal"] = onlyIf(DeleteLocalLeftovers, rows \ listed)
  BY DEF Build, Actions
<1>2. ~ (UploadLocalOnly /\ DeleteLocalLeftovers)
  BY DEF UploadLocalOnly, DeleteLocalLeftovers, Mirrors
<1>3. ~ (DownloadRemoteOnly /\ DeleteRemoteLeftovers)
  BY DEF DownloadRemoteOnly, DeleteRemoteLeftovers
<1>4. both("Upload") \cap both("Download") = {}
  OBVIOUS
<1>5. ASSUME NEW a \in Actions, NEW b \in Actions, a # b
      PROVE  B[a] \cap B[b] = {}
  <2> HIDE DEF B
  <2> QED BY <1>1, <1>2, <1>3, <1>4, <1>5 DEF Actions
<1>6. B["DeleteRemote"] # {} => Mirrors({"KeepLocal"})
  BY <1>1 DEF DeleteRemoteLeftovers
<1> QED BY <1>1, <1>5, <1>6

-----------------------------------------------------------------------------
\* The part of TypeOK that is about the sub-tasks.
TasksOK ==
    /\ todo \subseteq Files
    /\ stage \in [Files -> {"start", "sealing", "saving", "returning"}]
    /\ buffer \in [Files -> {None} \cup Bodies]
    /\ \A f \in Files : f \notin todo => stage[f] = "start"
    /\ \A f \in Files : buffer[f] # None <=> stage[f] \in {"saving", "returning"}

RemoteOK == remote \in [Files -> {None} \cup Objects]
LocalOK == local \in [Files -> {None} \cup Rows]
NewerOK == newer \in [Files -> {"local", "remote", "same"}]

LEMMA TouchedTyped ==
    ASSUME NewerOK, NEW f \in Files, NEW side \in {"local", "remote"},
           NEW l, NEW r, Touched(f, side, l, r)
    PROVE  NewerOK'
BY DEF Touched, NewerOK

LEMMA PutTyped ==
    ASSUME RemoteOK, NewerOK, NEW f \in Files, NEW body \in Bodies, NEW form \in Forms,
           Put(f, body, form)
    PROVE  RemoteOK' /\ NewerOK' /\ Remote(f)'
<1>1. [body |-> body, form |-> form] \in Objects
  BY DEF Objects
<1>2. RemoteOK' /\ remote'[f] # None
  BY <1>1, CloudAssumption DEF Put, RemoteOK
<1>3. NewerOK'
  BY TouchedTyped DEF Put
<1> QED BY <1>2, <1>3 DEF Remote

LEMMA EraseTyped ==
    ASSUME RemoteOK, NewerOK, NEW f \in Files, Erase(f)
    PROVE  RemoteOK' /\ NewerOK'
BY DEF Erase, RemoteOK, NewerOK

\* However a sub-task ends, nothing is left of it.
LEMMA EndTyped ==
    ASSUME TasksOK, NEW f \in Files, End(f)
    PROVE  TasksOK'
BY DEF End, TasksOK

\* A phase begins when no sub-task is left over.
LEMMA EnterTyped ==
    ASSUME TasksOK, todo = {}, NEW phase, NEW tasks \in SUBSET Files, Enter(phase, tasks)
    PROVE  TasksOK' /\ pc' = phase
BY DEF Enter, TasksOK

\* What a download has received is a plaintext or garble.
LEMMA ReceivedTyped ==
    ASSUME RemoteOK, NEW f \in Files
    PROVE  Received(f) \in {None} \cup Bodies
<1>1. CASE ~ Remote(f)
  BY <1>1 DEF Received, Bodies
<1>2. CASE Remote(f)
  <2>1. remote[f].body \in Bodies /\ remote[f].form \in Forms
    BY <1>2 DEF RemoteOK, Remote, Objects
  <2> QED BY <1>2, <2>1 DEF Received, Bodies, Forms
<1> QED BY <1>1, <1>2

LEMMA TypeParts ==
    TypeOK <=> /\ TasksOK /\ RemoteOK /\ LocalOK /\ NewerOK
               /\ mode \in Modes
               /\ pc \in Phases \cup {"idle"}
               /\ plan \in [Actions -> SUBSET Files]
               /\ trashed \subseteq Files /\ barred \subseteq Files
               /\ fresh \subseteq Files /\ quiet \subseteq Files /\ gone \subseteq Files
               /\ edits \in 0..MaxEdits /\ faults \in 0..MaxFaults
BY DEF TypeOK, TasksOK, RemoteOK, LocalOK, NewerOK

-----------------------------------------------------------------------------
LEMMA InitTyped == Init => TypeOK
<1> SUFFICES ASSUME Init PROVE TypeOK
  OBVIOUS
<1>1. RemoteOK
  <2>1. [body : Contents, form : {"plain"}] \subseteq Objects
    BY DEF Objects, Bodies, Forms
  <2> QED BY <2>1 DEF Init, RemoteOK
<1>2. LocalOK /\ NewerOK
  BY DEF Init, LocalOK, NewerOK
<1>3. TasksOK
  BY DEF Init, TasksOK
<1>4. mode \in Modes /\ pc \in Phases \cup {"idle"} /\ plan \in [Actions -> SUBSET Files]
  BY DEF Init, NoPlan
<1>5. /\ trashed \subseteq Files /\ barred \subseteq Files
      /\ fresh \subseteq Files /\ quiet \subseteq Files /\ gone \subseteq Files
      /\ edits \in 0..MaxEdits /\ faults \in 0..MaxFaults
  BY CloudAssumption DEF Init
<1> QED BY <1>1, <1>2, <1>3, <1>4, <1>5, TypeParts

\* No step of a run, of a user or of another client leaves the types.
LEMMA StepTyped == RunInv /\ [Next]_vars => TypeOK'
<1> SUFFICES ASSUME RunInv, [Next]_vars PROVE TypeOK'
  OBVIOUS
<1> DEFINE Rest ==
      /\ mode \in Modes
      /\ pc \in Phases \cup {"idle"}
      /\ plan \in [Actions -> SUBSET Files]
      /\ trashed \subseteq Files /\ barred \subseteq Files
      /\ fresh \subseteq Files /\ quiet \subseteq Files /\ gone \subseteq Files
      /\ edits \in 0..MaxEdits /\ faults \in 0..MaxFaults
<1>t. TasksOK /\ RemoteOK /\ LocalOK /\ NewerOK /\ Rest
  BY TypeParts DEF RunInv
<1> SUFFICES TasksOK' /\ RemoteOK' /\ LocalOK' /\ NewerOK' /\ Rest'
  BY TypeParts, PTL
<1> USE DEF vault, run, history
<1>1. CASE StartRun
  <2>1. TasksOK' /\ pc' = "purge"
    BY <1>t, <1>1, EnterTyped DEF StartRun, RunInv, NoTaskBetween
  <2> QED BY <1>t, <1>1, <2>1 DEF StartRun, RemoteOK, LocalOK, NewerOK, Phases
<1>2. CASE Index
  <2> PICK listed \in SUBSET {f \in Files : Remote(f)} :
        LET missed == {f \in Files : Remote(f)} \ listed
            rows == {f \in Files : Local(f)}
        IN  /\ faults' = IF missed = {} THEN faults ELSE faults + 1
            /\ faults' <= MaxFaults
            /\ quiet' = quiet \ missed
            /\ plan' = Build(rows, listed)
            /\ fresh' = rows
            /\ Enter("Upload", plan'["Upload"])
    BY <1>2 DEF Index
  <2>1. plan' \in [Actions -> SUBSET Files]
    BY BuildFits
  <2>2. TasksOK' /\ pc' = "Upload"
    <3>1. todo = {} /\ plan'["Upload"] \in SUBSET Files
      BY <1>2, <2>1 DEF Index, RunInv, NoTaskBetween, Actions
    <3> QED BY <1>t, <3>1, EnterTyped
  <2>3. faults' \in 0..MaxFaults
    BY <1>t, CloudAssumption
  <2>4. mode' \in Modes /\ pc' \in Phases \cup {"idle"} /\ edits' \in 0..MaxEdits
    BY <1>t, <1>2, <2>2 DEF Index, Phases, Actions
  <2>5. /\ trashed' \subseteq Files /\ barred' \subseteq Files
        /\ fresh' \subseteq Files /\ quiet' \subseteq Files /\ gone' \subseteq Files
    BY <1>t, <1>2 DEF Index
  <2>6. RemoteOK' /\ LocalOK' /\ NewerOK'
    BY <1>t, <1>2 DEF Index, RemoteOK, LocalOK, NewerOK
  <2> QED BY <2>1, <2>2, <2>3, <2>4, <2>5, <2>6
<1>3. CASE NextPhase
  <2>1. \E phase \in Phases \cup {"idle"}, tasks \in SUBSET Files : Enter(phase, tasks)
    BY <1>t, <1>3 DEF NextPhase, Phases, Actions
  <2>2. TasksOK' /\ pc' \in Phases \cup {"idle"}
    BY <1>t, <1>3, <2>1, EnterTyped DEF NextPhase
  <2>3. plan' \in [Actions -> SUBSET Files]
    BY <1>t, <1>3 DEF NextPhase, NoPlan
  <2>4. RemoteOK' /\ LocalOK' /\ NewerOK'
    BY <1>t, <1>3 DEF NextPhase, RemoteOK, LocalOK, NewerOK
  <2> QED BY <1>t, <1>3, <2>2, <2>3, <2>4 DEF NextPhase
<1>4. ASSUME NEW f \in Files, Purge(f)
      PROVE  TasksOK' /\ RemoteOK' /\ LocalOK' /\ NewerOK' /\ Rest'
  <2>1. TasksOK'
    BY <1>t, <1>4, EndTyped DEF Purge
  <2>2. RemoteOK' /\ NewerOK'
    BY <1>t, <1>4, EraseTyped, CloudAssumption DEF Purge
  <2> QED BY <1>t, <1>4, <2>1, <2>2 DEF Purge, LocalOK
<1>5. ASSUME NEW f \in Files, Upload(f)
      PROVE  TasksOK' /\ RemoteOK' /\ LocalOK' /\ NewerOK' /\ Rest'
  <2>1. f \in fresh => local[f].body \in Bodies
    BY <1>t DEF RunInv, FreshIsLocal, Local, LocalOK, Rows
  <2>2. RemoteOK' /\ NewerOK'
    BY <1>t, <1>5, <2>1, PutTyped DEF Upload, Forms, RemoteOK, NewerOK
  <2>3. TasksOK'
    <3>1. CASE End(f)
      BY <1>t, <3>1, EndTyped
    <3>2. CASE Advance(f, "sealing") /\ UNCHANGED buffer
      BY <1>t, <1>5, <3>2 DEF Upload, At, Advance, TasksOK
    <3> QED BY <1>5, <3>1, <3>2 DEF Upload
  <2> QED BY <1>t, <1>5, <2>2, <2>3 DEF Upload, LocalOK
<1>6. ASSUME NEW f \in Files, Seal(f)
      PROVE  TasksOK' /\ RemoteOK' /\ LocalOK' /\ NewerOK' /\ Rest'
  <2>1. TasksOK'
    BY <1>t, <1>6, EndTyped DEF Seal
  <2>2. RemoteOK' /\ NewerOK'
    <3>1. CASE ~ Remote(f)
      BY <1>t, <1>6, <3>1 DEF Seal, RemoteOK, NewerOK
    <3>2. CASE Remote(f)
      <4> DEFINE form == IF remote[f].form = "bare" THEN "sealed" ELSE "broken"
      <4>1. remote[f].body \in Bodies /\ form \in Forms
        BY <1>t, <3>2 DEF Remote, RemoteOK, Objects, Forms
      <4>2. Put(f, remote[f].body, form)
        BY <1>6, <3>2 DEF Seal
      <4> HIDE DEF form
      <4> QED BY <1>t, <4>1, <4>2, PutTyped
    <3> QED BY <3>1, <3>2
  <2> QED BY <1>t, <1>6, <2>1, <2>2 DEF Seal, LocalOK
<1>7. ASSUME NEW f \in Files, Download(f)
      PROVE  TasksOK' /\ RemoteOK' /\ LocalOK' /\ NewerOK' /\ Rest'
  <2>1. TasksOK'
    <3>1. CASE End(f)
      BY <1>t, <3>1, EndTyped
    <3>2. CASE /\ Received(f) # None
               /\ buffer' = [buffer EXCEPT ![f] = Received(f)]
               /\ Advance(f, "saving")
      BY <1>t, <1>7, <3>2, ReceivedTyped DEF Download, At, Advance, TasksOK
    <3> QED BY <1>7, <3>1, <3>2 DEF Download
  <2> QED BY <1>t, <1>7, <2>1 DEF Download, RemoteOK, LocalOK, NewerOK
<1>8. ASSUME NEW f \in Files, Save(f)
      PROVE  TasksOK' /\ RemoteOK' /\ LocalOK' /\ NewerOK' /\ Rest'
  <2>1. TasksOK'
    <3>1. CASE End(f)
      BY <1>t, <3>1, EndTyped
    <3>2. CASE Advance(f, "returning") /\ UNCHANGED buffer
      BY <1>t, <1>8, <3>2 DEF Save, At, Advance, TasksOK
    <3> QED BY <1>8, <3>1, <3>2 DEF Save
  <2>2. buffer[f] \in Bodies
    BY <1>t, <1>8 DEF Save, At, TasksOK
  <2>3. [body |-> buffer[f], size |-> Size[buffer[f]]] \in Rows
    BY <2>2, CloudAssumption DEF Rows
  <2>4. LocalOK'
    BY <1>t, <1>8, <2>3 DEF Save, LocalOK
  <2>5. NewerOK'
    BY <1>t, <1>8, TouchedTyped DEF Save, NewerOK
  <2> QED BY <1>t, <1>8, <2>1, <2>4, <2>5 DEF Save, RemoteOK
<1>9. ASSUME NEW f \in Files, Return(f)
      PROVE  TasksOK' /\ RemoteOK' /\ LocalOK' /\ NewerOK' /\ Rest'
  <2>1. TasksOK'
    BY <1>t, <1>9, EndTyped DEF Return
  <2>2. buffer[f] \in Bodies
    BY <1>t, <1>9 DEF Return, At, TasksOK
  <2>3. RemoteOK' /\ NewerOK'
    BY <1>t, <1>9, <2>2, PutTyped DEF Return, Forms
  <2> QED BY <1>t, <1>9, <2>1, <2>3 DEF Return, LocalOK
<1>10. ASSUME NEW f \in Files, DeleteRemote(f)
       PROVE  TasksOK' /\ RemoteOK' /\ LocalOK' /\ NewerOK' /\ Rest'
  <2>1. TasksOK'
    BY <1>t, <1>10, EndTyped DEF DeleteRemote
  <2>2. RemoteOK' /\ NewerOK'
    BY <1>t, <1>10, EraseTyped DEF DeleteRemote
  <2> QED BY <1>t, <1>10, <2>1, <2>2 DEF DeleteRemote, LocalOK
<1>11. ASSUME NEW f \in Files, DeleteLocal(f)
       PROVE  TasksOK' /\ RemoteOK' /\ LocalOK' /\ NewerOK' /\ Rest'
  <2>1. TasksOK'
    BY <1>t, <1>11, EndTyped DEF DeleteLocal
  <2> QED BY <1>t, <1>11, <2>1 DEF DeleteLocal, RemoteOK, LocalOK, NewerOK
<1>12. ASSUME NEW f \in Files, FailTask(f)
       PROVE  TasksOK' /\ RemoteOK' /\ LocalOK' /\ NewerOK' /\ Rest'
  <2>1. TasksOK'
    BY <1>t, <1>12, EndTyped DEF FailTask
  <2>2. faults' \in 0..MaxFaults
    BY <1>t, <1>12, CloudAssumption DEF FailTask, Fault
  <2> QED BY <1>t, <1>12, <2>1, <2>2 DEF FailTask, RemoteOK, LocalOK, NewerOK
<1>13. ASSUME NEW f \in Files, ErrorAnswer(f)
       PROVE  TasksOK' /\ RemoteOK' /\ LocalOK' /\ NewerOK' /\ Rest'
  <2>1. TasksOK'
    BY <1>t, <1>13, CloudAssumption DEF ErrorAnswer, At, Advance, TasksOK, Bodies
  <2>2. faults' \in 0..MaxFaults
    BY <1>t, <1>13, CloudAssumption DEF ErrorAnswer, Fault
  <2> QED BY <1>t, <1>13, <2>1, <2>2 DEF ErrorAnswer, RemoteOK, LocalOK, NewerOK
<1>14. CASE Abandon
  <2>1. TasksOK'
    BY <1>14 DEF Abandon, TasksOK
  <2>2. faults' \in 0..MaxFaults
    BY <1>t, <1>14, CloudAssumption DEF Abandon, Fault
  <2> QED BY <1>t, <1>14, <2>1, <2>2 DEF Abandon, NoPlan, RemoteOK, LocalOK, NewerOK
<1>15. ASSUME NEW f \in Files, Edit(f)
       PROVE  /\ TasksOK' /\ edits' \in 0..MaxEdits /\ quiet' \subseteq Files
              /\ mode' \in Modes /\ pc' \in Phases \cup {"idle"}
              /\ plan' \in [Actions -> SUBSET Files]
              /\ gone' \subseteq Files /\ faults' \in 0..MaxFaults
  <2>1. edits' \in 0..MaxEdits
    BY <1>t, <1>15, CloudAssumption DEF Edit
  <2> QED BY <1>t, <1>15, <2>1 DEF Edit, TasksOK
<1>16. ASSUME NEW f \in Files, NEW c \in Contents, CreateLocal(f, c)
       PROVE  TasksOK' /\ RemoteOK' /\ LocalOK' /\ NewerOK' /\ Rest'
  <2>1. [body |-> c, size |-> Size[c] + Tag] \in Rows
    BY CloudAssumption DEF Rows, Bodies
  <2>2. LocalOK'
    BY <1>t, <1>16, <2>1 DEF CreateLocal, LocalOK
  <2>3. NewerOK'
    BY <1>t, <1>16, TouchedTyped DEF CreateLocal
  <2> QED BY <1>t, <1>15, <1>16, <2>2, <2>3 DEF CreateLocal, RemoteOK
<1>17. ASSUME NEW f \in Files, TrashLocal(f)
       PROVE  TasksOK' /\ RemoteOK' /\ LocalOK' /\ NewerOK' /\ Rest'
  <2>1. trashed' \subseteq Files /\ barred' \subseteq Files /\ fresh' \subseteq Files
    BY <1>t, <1>17 DEF TrashLocal
  <2>2. RemoteOK' /\ LocalOK' /\ NewerOK'
    BY <1>t, <1>17 DEF TrashLocal, RemoteOK, LocalOK, NewerOK
  <2> QED BY <1>15, <1>17, <2>1, <2>2 DEF TrashLocal
<1>18. ASSUME NEW f \in Files, NEW c \in Contents, RemoteWrite(f, c)
       PROVE  TasksOK' /\ RemoteOK' /\ LocalOK' /\ NewerOK' /\ Rest'
  <2>1. RemoteOK' /\ NewerOK'
    BY <1>t, <1>18, PutTyped DEF RemoteWrite, Bodies, Forms
  <2> QED BY <1>t, <1>15, <1>18, <2>1 DEF RemoteWrite, LocalOK
<1>19. ASSUME NEW f \in Files, RemoteDelete(f)
       PROVE  TasksOK' /\ RemoteOK' /\ LocalOK' /\ NewerOK' /\ Rest'
  <2>1. RemoteOK' /\ NewerOK'
    BY <1>t, <1>19, EraseTyped DEF RemoteDelete
  <2> QED BY <1>t, <1>15, <1>19, <2>1 DEF RemoteDelete, LocalOK
<1>20. CASE UNCHANGED vars
  BY <1>t, <1>20 DEF vars, TasksOK, RemoteOK, LocalOK, NewerOK
<1> QED
  BY <1>1, <1>2, <1>3, <1>4, <1>5, <1>6, <1>7, <1>8, <1>9, <1>10, <1>11, <1>12,
     <1>13, <1>14, <1>16, <1>17, <1>18, <1>19, <1>20 DEF Next, RunStep, Task

-----------------------------------------------------------------------------
\* A plan is disjoint, and removes objects only for a mirror of the vault,
\* from the step that builds it to the step that drops it.
LEMMA StepKeepsPlan ==
    RunInv /\ [Next]_vars => OneActionPerFile' /\ LeftoversOfAMirror' /\ mode' = mode
<1> SUFFICES ASSUME RunInv, [Next]_vars
             PROVE  OneActionPerFile' /\ LeftoversOfAMirror' /\ mode' = mode
  OBVIOUS
<1>1. mode' = mode
  BY DEF Next, RunStep, Task, StartRun, Index, NextPhase, Purge, Upload, Seal, Download,
         Save, Return, DeleteRemote, DeleteLocal, FailTask, ErrorAnswer, Abandon, Edit,
         CreateLocal, TrashLocal, RemoteWrite, RemoteDelete, vars
<1>2. \/ plan' = plan
      \/ plan' = NoPlan
      \/ \E rows, listed \in SUBSET Files : plan' = Build(rows, listed)
  <2>1. CASE Index
    <3>1. PICK listed \in SUBSET {f \in Files : Remote(f)} :
            plan' = Build({f \in Files : Local(f)}, listed)
      BY <2>1 DEF Index
    <3> QED BY <3>1
  <2>2. CASE ~ Index
    BY <2>2 DEF Next, RunStep, Task, StartRun, NextPhase, Purge, Upload, Seal, Download,
         Save, Return, DeleteRemote, DeleteLocal, FailTask, ErrorAnswer, Abandon, Edit,
         CreateLocal, TrashLocal, RemoteWrite, RemoteDelete, vars, run
  <2> QED BY <2>1, <2>2
<1>3. CASE plan' = plan
  BY <1>1, <1>3 DEF RunInv, OneActionPerFile, LeftoversOfAMirror, Mirrors
<1>4. CASE plan' = NoPlan
  BY <1>1, <1>4 DEF NoPlan, OneActionPerFile, LeftoversOfAMirror, Actions
<1>5. CASE \E rows, listed \in SUBSET Files : plan' = Build(rows, listed)
  <2>1. /\ OneActionPerFile'
        /\ plan'["DeleteRemote"] # {} => Mirrors({"KeepLocal"})
    BY <1>5, BuildFits DEF OneActionPerFile
  <2> QED BY <1>1, <2>1 DEF LeftoversOfAMirror, Mirrors
<1> QED BY <1>1, <1>2, <1>3, <1>4, <1>5

\* The sub-tasks of a phase are those it was given, whoever ends them.
LEMMA StepKeepsPhase ==
    RunInv /\ [Next]_vars =>
      NoTaskBetween' /\ PurgesTheTrash' /\ DeletesThePlan' /\ FreshIsLocal' /\ FreshEnds'
<1> SUFFICES ASSUME RunInv, [Next]_vars
             PROVE  NoTaskBetween' /\ PurgesTheTrash' /\ DeletesThePlan'
                    /\ FreshIsLocal' /\ FreshEnds'
  OBVIOUS
<1> DEFINE Phase == NoTaskBetween /\ PurgesTheTrash /\ DeletesThePlan
           Fresh == FreshIsLocal /\ FreshEnds
<1> USE DEF vault, run, history, NoTaskBetween, PurgesTheTrash, DeletesThePlan,
            FreshIsLocal, FreshEnds, Local
<1>t. Phase /\ Fresh
  BY DEF RunInv
<1>1. CASE StartRun
  BY <1>t, <1>1 DEF StartRun, Enter
<1>2. CASE Index
  BY <1>t, <1>2 DEF Index, Enter
<1>3. CASE NextPhase
  BY <1>t, <1>3 DEF NextPhase, Enter
<1>4. ASSUME NEW f \in Files, Task(f)
      PROVE  Phase' /\ Fresh'
  <2>1. UNCHANGED <<pc, plan, trashed, fresh>> /\ todo' \subseteq todo
    BY <1>4 DEF Task, Purge, Upload, Seal, Download, Save, Return, DeleteRemote,
                DeleteLocal, End, Advance
  <2>2. local' = local \/ pc = "Download"
    BY <1>4 DEF Task, Purge, Upload, Seal, Download, Save, Return, DeleteRemote,
                DeleteLocal, At
  <2> QED BY <1>t, <2>1, <2>2
<1>5. ASSUME NEW f \in Files, FailTask(f) \/ ErrorAnswer(f)
      PROVE  Phase' /\ Fresh'
  BY <1>t, <1>5 DEF FailTask, ErrorAnswer, End, Advance
<1>6. CASE Abandon
  BY <1>t, <1>6 DEF Abandon
<1>7. ASSUME NEW f \in Files, NEW c \in Contents, CreateLocal(f, c)
      PROVE  Phase' /\ Fresh'
  <2>1. f \notin fresh
    BY <1>t, <1>7 DEF CreateLocal
  <2>2. \A g \in Files \ {f} : local'[g] = local[g]
    BY <1>7 DEF RunInv, TypeOK, CreateLocal
  <2>3. fresh \subseteq Files
    BY DEF RunInv, TypeOK
  <2> QED BY <1>t, <1>7, <2>1, <2>2, <2>3 DEF CreateLocal, Edit
<1>8. ASSUME NEW f \in Files, TrashLocal(f)
      PROVE  Phase' /\ Fresh'
  <2>1. \A g \in Files \ {f} : local'[g] = local[g]
    BY <1>8 DEF RunInv, TypeOK, TrashLocal
  <2>2. fresh \subseteq Files
    BY DEF RunInv, TypeOK
  <2> QED BY <1>t, <1>8, <2>1, <2>2 DEF TrashLocal, Edit
<1>9. ASSUME NEW f \in Files, RemoteDelete(f) \/ \E c \in Contents : RemoteWrite(f, c)
      PROVE  Phase' /\ Fresh'
  BY <1>t, <1>9 DEF RemoteDelete, RemoteWrite, Edit
<1>10. CASE UNCHANGED vars
  BY <1>t, <1>10 DEF vars
<1> QED
  BY <1>1, <1>2, <1>3, <1>4, <1>5, <1>6, <1>7, <1>8, <1>9, <1>10 DEF Next, RunStep

-----------------------------------------------------------------------------
\* Every reachable state satisfies the inductive invariant of a run: the
\* listings, the plan and the sub-tasks of the phase fit together.
THEOREM RunInvariant == Spec => []RunInv
<1>1. Init => RunInv
  <2>1. Init => TypeOK
    BY InitTyped
  <2>2. Init => FreshIsLocal /\ FreshEnds /\ NoTaskBetween /\ PurgesTheTrash
                /\ DeletesThePlan /\ LeftoversOfAMirror /\ OneActionPerFile
    BY DEF Init, NoPlan, Actions, FreshIsLocal, FreshEnds, NoTaskBetween, PurgesTheTrash,
           DeletesThePlan, LeftoversOfAMirror, OneActionPerFile
  <2> QED BY <2>1, <2>2 DEF RunInv
<1>2. RunInv /\ [Next]_vars => RunInv'
  BY StepTyped, StepKeepsPlan, StepKeepsPhase DEF RunInv
<1> QED BY <1>1, <1>2, PTL DEF Spec

\* The state of a run keeps its types, and only a sub-task of the phase has
\* begun (Executor, Upload, Download).
THEOREM TypeCorrect == Spec => []TypeOK
<1>1. RunInv => TypeOK
  BY DEF RunInv
<1> QED BY <1>1, RunInvariant, PTL

\* No run has a file in two phases of its plan, whatever the strategy, the
\* conflict policy and the listings (Planner::build, RemotePolicy).
THEOREM PhasesAreDisjoint == Spec => []OneActionPerFile
<1>1. RunInv => OneActionPerFile
  BY DEF RunInv
<1> QED BY <1>1, RunInvariant, PTL

-----------------------------------------------------------------------------
\* Only three actions take an object away, and only a user takes a row away.
LEMMA WhoErases ==
    ASSUME RunInv, [Next]_vars, edits' = edits, NEW f \in Files, ~ Absent(f), Absent(f)'
    PROVE  \E g \in Files : \/ Purge(g) /\ PurgeKey[g] = f
                            \/ DeleteRemote(g) /\ g = f
<1> USE DEF vault, run, history
<1>t. TypeOK
  BY DEF RunInv
<1>1. edits \in Nat
  BY <1>t, CloudAssumption DEF TypeOK
<1>2. \A g \in Files : ~ Edit(g)
  BY <1>1 DEF Edit
<1>3. \A g \in Files :
        ~ (TrashLocal(g) \/ RemoteDelete(g) \/ \E c \in Contents : CreateLocal(g, c) \/ RemoteWrite(g, c))
  BY <1>2 DEF CreateLocal, TrashLocal, RemoteWrite, RemoteDelete
<1>4. ASSUME NEW g \in Files, NEW body \in Bodies, NEW form \in Forms, Put(g, body, form)
      PROVE  \A h \in Files : Remote(h) => Remote(h)'
  <2>1. [body |-> body, form |-> form] # None
    BY <1>4, CloudAssumption DEF Objects
  <2> QED BY <1>t, <1>4, <2>1 DEF Put, Remote, TypeOK
<1> DEFINE Kept == /\ \A h \in Files : Remote(h) => Remote(h)'
                   /\ \A h \in Files : Local(h) => Local(h)'
<1>5. ~ Kept
  BY DEF Absent
<1>6. ASSUME UNCHANGED <<local, remote>> PROVE Kept
  BY <1>6 DEF Local, Remote
<1>7. ASSUME NEW g \in Files, Task(g), ~ Purge(g), ~ DeleteRemote(g)
      PROVE  Kept
  <2>1. CASE Upload(g)
    <3>1. g \in fresh => local[g].body \in Bodies
      BY <1>t DEF RunInv, FreshIsLocal, Local, TypeOK, Rows
    <3> QED BY <1>4, <2>1, <3>1 DEF Upload, Forms, Local, Remote
  <2>2. CASE Seal(g)
    <3> DEFINE form == IF remote[g].form = "bare" THEN "sealed" ELSE "broken"
    <3>1. UNCHANGED remote \/ (Remote(g) /\ Put(g, remote[g].body, form))
      BY <2>2 DEF Seal
    <3>2. Remote(g) => remote[g].body \in Bodies /\ form \in Forms
      BY <1>t DEF Remote, TypeOK, Objects, Forms
    <3> HIDE DEF form
    <3>3. \A h \in Files : Remote(h) => Remote(h)'
      BY <1>4, <3>1, <3>2 DEF Remote
    <3> QED BY <2>2, <3>3 DEF Seal, Local
  <2>3. CASE Save(g)
    <3>1. buffer[g] \in Bodies
      BY <1>t, <2>3 DEF Save, At, TypeOK
    <3>2. [body |-> buffer[g], size |-> Size[buffer[g]]] # None
      BY <3>1, CloudAssumption DEF Rows
    <3> QED BY <1>t, <2>3, <3>2 DEF Save, Local, Remote, TypeOK
  <2>4. CASE Return(g)
    <3>1. buffer[g] \in Bodies
      BY <1>t, <2>4 DEF Return, At, TypeOK
    <3> QED BY <1>4, <2>4, <3>1 DEF Return, Forms, Local
  <2>5. CASE Download(g) \/ DeleteLocal(g)
    BY <1>6, <2>5 DEF Download, DeleteLocal
  <2> QED BY <1>7, <2>1, <2>2, <2>3, <2>4, <2>5 DEF Task
<1>8. \A g \in Files : ~ (FailTask(g) \/ ErrorAnswer(g))
  BY <1>5, <1>6 DEF FailTask, ErrorAnswer
<1>9. ~ (StartRun \/ Index \/ NextPhase \/ Abandon \/ UNCHANGED vars)
  BY <1>5, <1>6 DEF StartRun, Index, NextPhase, Abandon, vars
<1>10. PICK g \in Files : Task(g)
  BY <1>3, <1>8, <1>9 DEF Next, RunStep
<1>11. Purge(g) \/ DeleteRemote(g)
  BY <1>5, <1>7, <1>10
<1>12. ASSUME NEW h \in Files, Erase(h), UNCHANGED local
       PROVE  h = f
  BY <1>t, <1>12 DEF Erase, Absent, Local, Remote, TypeOK
<1> QED BY <1>11, <1>12, CloudAssumption DEF Purge, DeleteRemote

\* A step removes the last copy of a file only for a path of the trash, or as
\* a leftover of a mirror of the vault.
LEMMA LastCopyStep ==
    ASSUME RunInv, [Next]_vars, NEW f \in Files,
           ~ Absent(f), Absent(f)', edits' = edits
    PROVE  \/ pc = "purge" /\ \E g \in trashed : PurgeKey[g] = f
           \/ pc = "DeleteRemote" /\ Mirrors({"KeepLocal"})
<1>1. PICK g \in Files : \/ Purge(g) /\ PurgeKey[g] = f
                         \/ DeleteRemote(g) /\ g = f
  BY WhoErases
<1>2. CASE Purge(g) /\ PurgeKey[g] = f
  BY <1>2 DEF Purge, At, RunInv, PurgesTheTrash
<1>3. CASE DeleteRemote(g)
  BY <1>3 DEF DeleteRemote, At, RunInv, DeletesThePlan, LeftoversOfAMirror
<1> QED BY <1>1, <1>2, <1>3

\* Whatever fails and whoever writes meanwhile, a run removes the last copy of
\* a file only for a path of the trash or for a mirror of the vault (Delete,
\* Executor).
THEOREM LastCopyIsKeptHolds == Spec => LastCopyIsKept
<1>1. RunInv /\ [Next]_vars =>
        [\A f \in Files :
           (~ Absent(f) /\ Absent(f)' /\ edits' = edits) =>
              \/ pc = "purge" /\ \E g \in trashed : PurgeKey[g] = f
              \/ pc = "DeleteRemote" /\ Mirrors({"KeepLocal"})]_vars
  BY LastCopyStep
<1> QED BY <1>1, RunInvariant, PTL DEF Spec, LastCopyIsKept

-----------------------------------------------------------------------------
(* What a run makes of a file nobody else touches.                          *)

Reconciled(f) == \/ Agree(f)
                 \/ LeftToTheUser(f) \/ NoYounger(f) \/ NotMirrored(f)
                 \/ CannotOpen(f) \/ CannotCreate(f) \/ CannotDelete(f)

\* There is a plan from the listing to the end of the run, and the sub-tasks of a phase are its.
PlanOfTheRun == /\ pc \notin Actions => plan = NoPlan
                /\ pc \in Actions => todo \subseteq plan[pc]

\* The phases that change something, and those that come before each of them.
Changing == {"Upload", "Download", "DeleteRemote"}
Before(a) == CASE a = "Upload" -> {}
               [] a = "Download" -> {"Upload"}
               [] a = "DeleteRemote" -> {"Upload", "Download"}

\* The plan has something for f that has not been done yet.
Awaits(a, f) == f \in plan[a] /\ (pc \in Before(a) \/ (pc = a /\ f \in todo))

\* A file to upload has its row, and what is being sealed is its ciphertext.
UploadsTheRow(f) == Awaits("Upload", f) =>
    /\ stage[f] = "start" => f \in fresh
    /\ stage[f] = "sealing" => InBoth(f) /\ remote[f] = [body |-> local[f].body, form |-> "bare"]

\* A file to download has its object, and what goes back is what has been saved.
DownloadsTheObject(f) == Awaits("Download", f) =>
    /\ Remote(f) /\ (Local(f) \/ DownloadRemoteOnly)
    /\ stage[f] = "returning" => Local(f) /\ local[f].body = buffer[f]

\* An object to delete has no row.
DeletesTheLeftover(f) == Awaits("DeleteRemote", f) => ~ Local(f)

\* Whatever awaits nothing is as the run leaves it.
IsSettled(f) ==
    pc \in Actions \cup {"idle"} /\ (\A a \in Changing : ~ Awaits(a, f)) => Reconciled(f)

Fits(f) == UploadsTheRow(f) /\ DownloadsTheObject(f) /\ DeletesTheLeftover(f) /\ IsSettled(f)

\* A file of the top directory that is in the trash is gone once it is purged, and is no longer
\* in any plan.
StaysGone(f) ==
    f \in gone /\ PurgeKey[f] = f =>
        /\ ~ Local(f) /\ (Remote(f) => pc = "purge" /\ f \in todo)
        /\ \A a \in Actions : f \notin plan[a]

FileInv == PlanOfTheRun /\ \A f \in quiet : Fits(f) /\ StaysGone(f)

LEMMA InitFiles == Init => FileInv
BY DEF Init, FileInv, PlanOfTheRun, Actions

\* What Planner::build gives one file, and that it leaves apart only what it means to.
LEMMA BuildDecides ==
    ASSUME TypeOK, NEW f \in Files, NEW listed \in SUBSET Files, f \in listed <=> Remote(f),
           NEW B, B = Build({g \in Files : Local(g)}, listed)
    PROVE  /\ f \in B["Upload"] => Local(f)
           /\ f \in B["Download"] => Remote(f) /\ (Local(f) \/ DownloadRemoteOnly)
           /\ f \in B["DeleteRemote"] => ~ Local(f)
           /\ (\A a \in Changing : f \notin B[a]) => Reconciled(f)
           /\ Absent(f) => \A a \in Actions : f \notin B[a]
<1>1. /\ f \in B["Upload"] <=>
            (InBoth(f) /\ Decision(f) = "Upload") \/ (Local(f) /\ ~ Remote(f) /\ UploadLocalOnly)
      /\ f \in B["Download"] <=>
            (InBoth(f) /\ Decision(f) = "Download") \/ (~ Local(f) /\ Remote(f) /\ DownloadRemoteOnly)
      /\ f \in B["DeleteRemote"] <=> ~ Local(f) /\ Remote(f) /\ DeleteRemoteLeftovers
      /\ f \in B["DeleteLocal"] <=> Local(f) /\ ~ Remote(f) /\ DeleteLocalLeftovers
  <2> DEFINE rows == {g \in Files : Local(g)}
             both(a) == {g \in rows \cap listed : Decision(g) = a}
             onlyIf(wanted, files) == IF wanted THEN files ELSE {}
  <2>1. /\ B["Upload"] = both("Upload") \cup onlyIf(UploadLocalOnly, rows \ listed)
        /\ B["Download"] = both("Download") \cup onlyIf(DownloadRemoteOnly, listed \ rows)
        /\ B["DeleteRemote"] = onlyIf(DeleteRemoteLeftovers, listed \ rows)
        /\ B["DeleteLocal"] = onlyIf(DeleteLocalLeftovers, rows \ listed)
    BY DEF Build, Actions
  <2>2. f \in rows <=> Local(f)
    OBVIOUS
  <2>3. f \in both("Upload") <=> InBoth(f) /\ Decision(f) = "Upload"
    BY <2>2 DEF InBoth
  <2>4. f \in both("Download") <=> InBoth(f) /\ Decision(f) = "Download"
    BY <2>2 DEF InBoth
  <2>5. \A wanted \in BOOLEAN : \A files \in SUBSET Files :
          f \in onlyIf(wanted, files) <=> wanted /\ f \in files
    OBVIOUS
  <2>6. /\ UploadLocalOnly \in BOOLEAN /\ DownloadRemoteOnly \in BOOLEAN
        /\ DeleteRemoteLeftovers \in BOOLEAN /\ DeleteLocalLeftovers \in BOOLEAN
    BY DEF UploadLocalOnly, DownloadRemoteOnly, DeleteRemoteLeftovers, DeleteLocalLeftovers, Mirrors
  <2>r. rows \in SUBSET Files /\ listed \in SUBSET Files
    OBVIOUS
  <2> HIDE DEF rows, both, onlyIf
  <2>7. f \in B["Upload"] <=>
            (InBoth(f) /\ Decision(f) = "Upload") \/ (Local(f) /\ ~ Remote(f) /\ UploadLocalOnly)
    BY <2>r, <2>1, <2>2, <2>3, <2>5, <2>6
  <2>8. f \in B["Download"] <=>
            (InBoth(f) /\ Decision(f) = "Download") \/ (~ Local(f) /\ Remote(f) /\ DownloadRemoteOnly)
    BY <2>r, <2>1, <2>2, <2>4, <2>5, <2>6
  <2>9. f \in B["DeleteRemote"] <=> ~ Local(f) /\ Remote(f) /\ DeleteRemoteLeftovers
    BY <2>r, <2>1, <2>2, <2>5, <2>6
  <2>10. f \in B["DeleteLocal"] <=> Local(f) /\ ~ Remote(f) /\ DeleteLocalLeftovers
    BY <2>r, <2>1, <2>2, <2>5, <2>6
  <2> QED
    BY <2>7, <2>8, <2>9, <2>10
<1>2. mode.strategy \in Strategies /\ mode.policy \in Policies
      /\ newer[f] \in {"local", "remote", "same"}
  BY CloudAssumption DEF TypeOK, AllModes
<1>3. ASSUME \A a \in Changing : f \notin B[a]
      PROVE  Reconciled(f)
  <2>1. f \notin B["Upload"] /\ f \notin B["Download"] /\ f \notin B["DeleteRemote"]
    BY <1>3 DEF Changing
  <2>2. CASE InBoth(f)
    <3>1. Decision(f) # "Upload" /\ Decision(f) # "Download"
      BY <1>1, <2>1, <2>2, Zenon
    <3>2. CASE Conflict(f)
      <4>1. mode.policy = "Ask"
        BY <1>2, <3>1, <3>2 DEF Decision, ResolveConflict, Policies
      <4> QED
        BY <2>2, <3>2, <4>1 DEF Reconciled, LeftToTheUser
    <3>3. CASE ~ Conflict(f)
      <4>1. \/ newer[f] = "same" \/ mode.strategy = "Cache"
            \/ mode.policy = "Ask" /\ Mirrors(Policies)
        BY <1>2, <3>1, <3>3 DEF Decision, DecideForBoth, ByTime, Mirrors, Policies, Strategies
      <4> QED
        BY <2>2, <3>3, <4>1 DEF Reconciled, LeftToTheUser, NoYounger
    <3> QED
      BY <3>2, <3>3
  <2>3. CASE Absent(f)
    <3>1. Agree(f)
      BY <2>3 DEF Agree, Absent, Local, Remote
    <3> QED
      BY <3>1 DEF Reconciled
  <2>4. CASE Local(f) /\ ~ Remote(f)
    <3>1. ~ UploadLocalOnly
      BY <1>1, <2>1, <2>4
    <3>2. mode.strategy = "Mirror" /\ mode.policy \in Policies \ {"KeepLocal"}
      BY <1>2, <3>1 DEF UploadLocalOnly, Mirrors
    <3> QED
      BY <2>4, <3>2 DEF Reconciled, NotMirrored, CannotDelete, DeleteLocalLeftovers, Mirrors, Policies
  <2>5. CASE ~ Local(f) /\ Remote(f)
    BY <1>1, <2>1, <2>5 DEF DownloadRemoteOnly, DeleteRemoteLeftovers
  <2> QED
    BY <2>2, <2>3, <2>4, <2>5 DEF InBoth, Absent
<1> QED
  BY <1>1, <1>3 DEF InBoth, Absent, Actions

\* A step that leaves a file, and what the run still has to do to it, alone.
LEMMA UntouchedFits ==
    ASSUME NEW f \in Files, Fits(f), mode' = mode, local'[f] = local[f], remote'[f] = remote[f],
           newer'[f] = newer[f], f \in barred' <=> f \in barred,
           pc' \in Actions \cup {"idle"} => pc \in Actions \cup {"idle"},
           \A a \in Changing : Awaits(a, f)' <=> Awaits(a, f),
           Awaits("Upload", f) /\ f \in fresh => f \in fresh',
           (\E a \in Changing : Awaits(a, f)) => stage'[f] = stage[f] /\ buffer'[f] = buffer[f]
    PROVE  Fits(f)'
<1>1. (Local(f)' <=> Local(f)) /\ (Remote(f)' <=> Remote(f))
  BY DEF Local, Remote
<1>2. (InBoth(f)' <=> InBoth(f)) /\ (DownloadRemoteOnly' <=> DownloadRemoteOnly)
  BY <1>1 DEF InBoth, DownloadRemoteOnly, Mirrors
<1>3. Reconciled(f) => Reconciled(f)'
  <2>1. Conflict(f)' <=> Conflict(f)
    BY DEF Conflict, RemoteSize
  <2>2. \A p \in {Policies, {"KeepLocal"}, {"KeepRemote"}, {"KeepNewest", "Ask"}} :
          Mirrors(p)' <=> Mirrors(p)
    BY DEF Mirrors, Policies
  <2>3. LeftToTheUser(f) => LeftToTheUser(f)'
    BY <1>2, <2>1, <2>2 DEF LeftToTheUser
  <2>4. NoYounger(f) => NoYounger(f)'
    BY <1>2, <2>1 DEF NoYounger
  <2>5. NotMirrored(f) => NotMirrored(f)'
    BY <1>1, <2>2 DEF NotMirrored
  <2>6. CannotOpen(f) => CannotOpen(f)'
    BY <1>1 DEF CannotOpen
  <2>7. CannotCreate(f) => CannotCreate(f)'
    BY <1>1, <1>2 DEF CannotCreate
  <2>8. Agree(f) => Agree(f)'
    BY DEF Agree, Local, Remote
  <2>9. CannotDelete(f) => CannotDelete(f)'
    BY <1>1, <2>2 DEF CannotDelete, DeleteLocalLeftovers
  <2> QED
    BY <2>3, <2>4, <2>5, <2>6, <2>7, <2>8, <2>9 DEF Reconciled
<1>4. UploadsTheRow(f)' /\ DownloadsTheObject(f)' /\ DeletesTheLeftover(f)'
  BY <1>1, <1>2 DEF Fits, UploadsTheRow, DownloadsTheObject, DeletesTheLeftover, Changing
<1>5. IsSettled(f)'
  BY <1>3 DEF Fits, IsSettled
<1> QED
  BY <1>4, <1>5 DEF Fits

-----------------------------------------------------------------------------
(* One lemma for each kind of step: it leaves the file alone, it goes on   *)
(* with a sub-task of the file, or it ends that sub-task.                  *)

\* A step that leaves the file and its sub-task alone.
LEMMA ElsewhereFits ==
    ASSUME NEW f \in Files, Fits(f), StaysGone(f), UNCHANGED <<mode, pc, plan, gone>>,
           local'[f] = local[f], remote'[f] = remote[f], newer'[f] = newer[f],
           f \in barred' <=> f \in barred, f \in fresh' <=> f \in fresh,
           f \in todo' <=> f \in todo, stage'[f] = stage[f], buffer'[f] = buffer[f]
    PROVE  Fits(f)' /\ StaysGone(f)'
<1>1. \A a \in Changing : Awaits(a, f)' <=> Awaits(a, f)
  BY DEF Awaits, Before
<1>2. Fits(f)'
  BY <1>1, UntouchedFits
<1>3. StaysGone(f)'
  BY DEF StaysGone, Local, Remote
<1> QED
  BY <1>2, <1>3

\* A file with a sub-task that changes something is in the plan for it, and for nothing else.
LEMMA OwnTask ==
    ASSUME RunInv, PlanOfTheRun, NEW f \in Files, StaysGone(f), pc \in Changing, f \in todo
    PROVE  /\ f \in plan[pc] /\ Awaits(pc, f)
           /\ \A a \in Changing \ {pc} : f \notin plan[a]
           /\ ~ (f \in gone /\ PurgeKey[f] = f)
<1>1. pc \in Actions /\ Changing \subseteq Actions
  BY DEF Changing, Actions
<1>2. f \in plan[pc]
  BY <1>1 DEF PlanOfTheRun
<1>3. \A a \in Changing \ {pc} : f \notin plan[a]
  BY <1>1, <1>2 DEF RunInv, OneActionPerFile
<1>4. ~ (f \in gone /\ PurgeKey[f] = f)
  BY <1>1, <1>2 DEF StaysGone
<1> QED
  BY <1>2, <1>3, <1>4 DEF Awaits

\* The sub-task of a file goes on: the file still awaits it.
LEMMA AdvancedFits ==
    ASSUME RunInv, PlanOfTheRun, NEW f \in Files, StaysGone(f), pc \in Changing, f \in todo,
           UNCHANGED <<pc, plan, gone, todo>>,
           pc = "Upload" => UploadsTheRow(f)',
           pc = "Download" => DownloadsTheObject(f)',
           pc # "DeleteRemote"
    PROVE  Fits(f)' /\ StaysGone(f)'
<1>1. /\ f \in plan[pc] /\ Awaits(pc, f)
      /\ \A a \in Changing \ {pc} : f \notin plan[a]
      /\ ~ (f \in gone /\ PurgeKey[f] = f)
  BY OwnTask
<1>2. StaysGone(f)'
  BY <1>1 DEF StaysGone
<1>3. \A a \in Changing : Awaits(a, f)' <=> a = pc
  BY <1>1 DEF Awaits
<1>4. IsSettled(f)'
  BY <1>3 DEF IsSettled
<1>5. UploadsTheRow(f)' /\ DownloadsTheObject(f)' /\ DeletesTheLeftover(f)'
  BY <1>3 DEF UploadsTheRow, DownloadsTheObject, DeletesTheLeftover, Changing
<1> QED
  BY <1>2, <1>4, <1>5 DEF Fits

\* The sub-task of a file has ended: the file awaits nothing any more.
LEMMA EndedFits ==
    ASSUME RunInv, PlanOfTheRun, NEW f \in Files, StaysGone(f), pc \in Changing, f \in todo,
           UNCHANGED <<pc, plan, gone>>, End(f), Reconciled(f)'
    PROVE  Fits(f)' /\ StaysGone(f)'
<1>1. /\ \A a \in Changing \ {pc} : f \notin plan[a]
      /\ ~ (f \in gone /\ PurgeKey[f] = f)
  BY OwnTask
<1>2. StaysGone(f)'
  BY <1>1 DEF StaysGone
<1>3. \A a \in Changing : ~ Awaits(a, f)'
  BY <1>1 DEF Awaits, End, Changing, Before
<1>4. IsSettled(f)'
  BY DEF IsSettled
<1>5. UploadsTheRow(f)' /\ DownloadsTheObject(f)' /\ DeletesTheLeftover(f)'
  BY <1>3 DEF UploadsTheRow, DownloadsTheObject, DeletesTheLeftover, Changing
<1> QED
  BY <1>2, <1>4, <1>5 DEF Fits

-----------------------------------------------------------------------------
\* The sub-tasks of a phase are in the plan, from the listing to the end of the run.
LEMMA StepKeepsPlanOfTheRun ==
    ASSUME RunInv, PlanOfTheRun, [Next]_vars
    PROVE  PlanOfTheRun'
<1> USE DEF vault, run, history, PlanOfTheRun
<1>1. CASE StartRun
  BY <1>1 DEF StartRun, Enter, Actions
<1>2. CASE Index
  BY <1>2 DEF Index, Enter, Actions
<1>3. CASE NextPhase
  BY <1>3 DEF NextPhase, Enter, Actions
<1>4. CASE Abandon
  BY <1>4 DEF Abandon, Actions
<1>5. CASE UNCHANGED <<pc, plan>> /\ todo' \subseteq todo
  BY <1>5
<1>6. ASSUME NEW g \in Files, Task(g) \/ FailTask(g) \/ ErrorAnswer(g)
      PROVE  UNCHANGED <<pc, plan>> /\ todo' \subseteq todo
  BY <1>6 DEF Task, Purge, Upload, Seal, Download, Save, Return, DeleteRemote, DeleteLocal,
              FailTask, ErrorAnswer, End, Advance
<1>7. ASSUME NEW g \in Files,
             TrashLocal(g) \/ RemoteDelete(g) \/ \E c \in Contents : CreateLocal(g, c) \/ RemoteWrite(g, c)
      PROVE  UNCHANGED <<pc, plan>> /\ todo' \subseteq todo
  BY <1>7 DEF TrashLocal, RemoteDelete, CreateLocal, RemoteWrite, Edit
<1>8. CASE UNCHANGED vars
  BY <1>8 DEF vars
<1> QED
  BY <1>1, <1>2, <1>3, <1>4, <1>5, <1>6, <1>7, <1>8 DEF Next, RunStep

\* Between two runs the plan is empty: what is in the trash without a row is to be purged.
LEMMA StartFits ==
    ASSUME RunInv, PlanOfTheRun, StartRun, NEW f \in Files
    PROVE  Fits(f)' /\ StaysGone(f)'
<1> USE DEF vault, run, history
<1>1. plan' = NoPlan /\ pc' = "purge" /\ todo' = trashed
  BY DEF StartRun, Enter, PlanOfTheRun, Actions
<1>2. \A a \in Actions : f \notin plan'[a]
  BY <1>1 DEF NoPlan
<1>3. \A a \in Changing : ~ Awaits(a, f)'
  BY <1>2 DEF Awaits, Changing, Actions
<1>4. Fits(f)'
  BY <1>1, <1>3 DEF Fits, UploadsTheRow, DownloadsTheObject, DeletesTheLeftover, IsSettled,
                    Changing, Actions
<1>5. StaysGone(f)'
  BY <1>1, <1>2 DEF StartRun, StaysGone, Local
<1> QED
  BY <1>4, <1>5

\* The listing decides what the run does with a file nobody else touches.
LEMMA IndexFits ==
    ASSUME RunInv, FileInv, Index, NEW f \in quiet'
    PROVE  Fits(f)' /\ StaysGone(f)'
<1> USE DEF vault, run, history
<1>1. PICK listed \in SUBSET {g \in Files : Remote(g)} :
        LET missed == {g \in Files : Remote(g)} \ listed
            rows == {g \in Files : Local(g)}
        IN  /\ faults' = IF missed = {} THEN faults ELSE faults + 1
            /\ faults' <= MaxFaults
            /\ quiet' = quiet \ missed
            /\ plan' = Build(rows, listed)
            /\ fresh' = rows
            /\ Enter("Upload", plan'["Upload"])
  BY DEF Index
<1>2. f \in Files /\ f \in quiet /\ listed \in SUBSET Files /\ (f \in listed <=> Remote(f))
  BY <1>1 DEF RunInv, TypeOK
<1>3. plan' = Build({g \in Files : Local(g)}, listed)
  BY <1>1
<1>4. UNCHANGED <<mode, local, remote, newer, barred, gone>> /\ pc = "index"
  BY DEF Index
<1>5. pc' = "Upload" /\ todo' = plan'["Upload"] /\ (f \in fresh' <=> Local(f))
  BY <1>1, <1>2 DEF Enter
<1>6. stage'[f] = "start"
  BY <1>1, <1>2, <1>4 DEF Enter, RunInv, TypeOK, NoTaskBetween
<1>7. /\ f \in plan'["Upload"] => Local(f)
      /\ f \in plan'["Download"] => Remote(f) /\ (Local(f) \/ DownloadRemoteOnly)
      /\ f \in plan'["DeleteRemote"] => ~ Local(f)
      /\ (\A a \in Changing : f \notin plan'[a]) => Reconciled(f)
      /\ Absent(f) => \A a \in Actions : f \notin plan'[a]
  BY <1>2, <1>3, BuildDecides DEF RunInv
<1>8. (Local(f)' <=> Local(f)) /\ (Remote(f)' <=> Remote(f))
      /\ (DownloadRemoteOnly' <=> DownloadRemoteOnly) /\ (Reconciled(f) => Reconciled(f)')
  BY <1>4 DEF Local, Remote, DownloadRemoteOnly, Mirrors, Reconciled, Agree, LeftToTheUser,
       NoYounger, NotMirrored, CannotOpen, CannotCreate, CannotDelete, InBoth, Conflict, RemoteSize,
       DeleteLocalLeftovers
<1>9. \A a \in Changing : Awaits(a, f)' <=> f \in plan'[a]
  BY <1>5 DEF Awaits, Changing, Before
<1>10. UploadsTheRow(f)' /\ DownloadsTheObject(f)' /\ DeletesTheLeftover(f)'
  BY <1>5, <1>6, <1>7, <1>8, <1>9
     DEF UploadsTheRow, DownloadsTheObject, DeletesTheLeftover, Changing
<1>11. IsSettled(f)'
  BY <1>7, <1>8, <1>9 DEF IsSettled
<1>12. StaysGone(f)'
  <2>1. f \in gone /\ PurgeKey[f] = f => Absent(f)
    BY <1>2, <1>4 DEF FileInv, StaysGone, Absent
  <2> QED
    BY <1>4, <1>7, <1>8, <2>1 DEF StaysGone, Absent
<1> QED
  BY <1>10, <1>11, <1>12 DEF Fits

\* When a phase has ended nothing is left to do but what the later ones do.
LEMMA PhaseFits ==
    ASSUME RunInv, FileInv, NextPhase, NEW f \in quiet
    PROVE  Fits(f)' /\ StaysGone(f)'
<1> USE DEF vault, run, history
<1>1. f \in Files /\ Fits(f) /\ StaysGone(f) /\ PlanOfTheRun
  BY DEF RunInv, TypeOK, FileInv
<1>2. \A a \in Changing : Awaits(a, f)' <=> Awaits(a, f)
  BY <1>1 DEF NextPhase, Enter, Awaits, Changing, Before, PlanOfTheRun, NoPlan, Actions
<1>3. pc' \in Actions \cup {"idle"} => pc \in Actions \cup {"idle"}
  BY DEF NextPhase, Enter, Actions
<1>4. Awaits("Upload", f) => pc # "Upload"
  BY DEF NextPhase, Awaits, Before
<1>5. Awaits("Upload", f) /\ f \in fresh => f \in fresh'
  BY <1>4 DEF NextPhase
<1>6. Fits(f)'
  BY <1>1, <1>2, <1>3, <1>5, UntouchedFits DEF NextPhase, Enter
<1>7. StaysGone(f)'
  BY <1>1 DEF NextPhase, Enter, StaysGone, Local, Remote, NoPlan, Actions
<1> QED
  BY <1>6, <1>7

\* A purge takes the object of a file in the trash before any plan is made.
LEMMA PurgeFits ==
    ASSUME RunInv, FileInv, NEW g \in Files, Purge(g), NEW f \in quiet
    PROVE  Fits(f)' /\ StaysGone(f)'
<1> USE DEF vault, run, history
<1>1. f \in Files /\ StaysGone(f) /\ PlanOfTheRun
  BY DEF RunInv, TypeOK, FileInv
<1>2. pc = "purge" /\ pc' = "purge" /\ plan' = NoPlan
  BY <1>1 DEF Purge, At, PlanOfTheRun, Actions
<1>3. \A a \in Actions : f \notin plan'[a]
  BY <1>2 DEF NoPlan
<1>4. \A a \in Changing : ~ Awaits(a, f)'
  BY <1>3 DEF Awaits, Changing, Actions
<1>5. Fits(f)'
  BY <1>2, <1>4 DEF Fits, UploadsTheRow, DownloadsTheObject, DeletesTheLeftover, IsSettled,
                    Changing, Actions
<1>6. ASSUME f \in gone, PurgeKey[f] = f
      PROVE  ~ Local(f)' /\ (Remote(f)' => f \in todo')
  <2>1. ~ Local(f)' /\ (Remote(f) => f \in todo)
    BY <1>1, <1>6 DEF StaysGone, Purge, Local
  <2>2. Remote(f)' => Remote(f) /\ f # g
    BY <1>1, <1>6, CloudAssumption DEF Purge, Erase, Remote, RunInv, TypeOK
  <2> QED
    BY <2>1, <2>2 DEF Purge, End
<1>7. StaysGone(f)'
  BY <1>2, <1>3, <1>6 DEF StaysGone, Purge
<1> QED
  BY <1>5, <1>7

-----------------------------------------------------------------------------
\* The sub-task of another file leaves a file alone, but for a purge.
LEMMA OtherTaskFits ==
    ASSUME RunInv, FileInv, NEW g \in Files, Task(g), ~ Purge(g), NEW f \in quiet, f # g
    PROVE  Fits(f)' /\ StaysGone(f)'
<1> USE DEF vault, run, history
<1>1. f \in Files /\ Fits(f) /\ StaysGone(f) /\ TypeOK
  BY DEF RunInv, TypeOK, FileInv
<1>2. UNCHANGED <<mode, pc, plan, gone, barred, fresh>>
  BY DEF Task, Upload, Seal, Download, Save, Return, DeleteRemote, DeleteLocal
<1>3. (f \in todo' <=> f \in todo) /\ stage'[f] = stage[f] /\ buffer'[f] = buffer[f]
  <2>1. ASSUME End(g)
        PROVE  (f \in todo' <=> f \in todo) /\ stage'[f] = stage[f] /\ buffer'[f] = buffer[f]
    BY <1>1, <2>1 DEF End, TypeOK
  <2>2. ASSUME NEW s, Advance(g, s) PROVE todo' = todo /\ stage'[f] = stage[f]
    BY <1>1, <2>2 DEF Advance, TypeOK
  <2>3. End(g) \/ \E s : Advance(g, s) /\ buffer'[f] = buffer[f]
    BY <1>1 DEF Task, Upload, Seal, Download, Save, Return, DeleteRemote, DeleteLocal, TypeOK
  <2> QED
    BY <2>1, <2>2, <2>3
<1>4. local'[f] = local[f]
  BY <1>1 DEF Task, Upload, Seal, Download, Save, Return, DeleteRemote, DeleteLocal, TypeOK
<1>5. remote'[f] = remote[f]
  BY <1>1 DEF Task, Upload, Seal, Download, Save, Return, DeleteRemote, DeleteLocal, Put, Erase,
              TypeOK
<1>6. newer'[f] = newer[f]
  BY <1>1 DEF Task, Upload, Seal, Download, Save, Return, DeleteRemote, DeleteLocal, Put, Erase,
              Touched, TypeOK
<1> QED
  BY <1>1, <1>2, <1>3, <1>4, <1>5, <1>6, ElsewhereFits

\* Both copies have the same plaintext.
LEMMA AgreesThen ==
    ASSUME NEW f \in Files, Local(f)', Remote(f)', local'[f].body = remote'[f].body
    PROVE  Reconciled(f)'
BY DEF Reconciled, Agree, Local, Remote

LEMMA PutWrites ==
    ASSUME TypeOK, NEW f \in Files, NEW body \in Bodies, NEW form \in Forms, Put(f, body, form)
    PROVE  Remote(f)' /\ remote'[f] = [body |-> body, form |-> form]
BY CloudAssumption DEF Put, Remote, TypeOK, Objects

\* An upload leaves the two copies alike, sealed or on the way to it.
LEMMA UploadFits ==
    ASSUME RunInv, FileInv, NEW f \in quiet, Upload(f) \/ Seal(f)
    PROVE  Fits(f)' /\ StaysGone(f)'
<1> USE DEF vault, run, history
<1>1. f \in Files /\ UploadsTheRow(f) /\ StaysGone(f) /\ PlanOfTheRun /\ TypeOK
  BY DEF RunInv, TypeOK, FileInv, Fits
<1>2. pc = "Upload" /\ pc \in Changing /\ f \in todo /\ UNCHANGED <<pc, plan, gone, local>>
  BY DEF Upload, Seal, At, Changing
<1>3. Awaits("Upload", f)
  BY <1>1, <1>2, OwnTask
<1>4. CASE Upload(f)
  <2>1. f \in fresh /\ stage[f] = "start"
    BY <1>1, <1>3, <1>4 DEF UploadsTheRow, Upload, At
  <2>2. Local(f) /\ local[f].body \in Bodies
    BY <1>1, <2>1 DEF RunInv, FreshIsLocal, Local, TypeOK, Rows
  <2>3. Local(f)' /\ local'[f].body = local[f].body
    BY <1>2, <2>2 DEF Local
  <2>4. CASE Put(f, local[f].body, "plain") /\ End(f)
    <3>1. Remote(f)' /\ remote'[f] = [body |-> local[f].body, form |-> "plain"]
      BY <1>1, <2>2, <2>4, PutWrites DEF Forms
    <3>2. Reconciled(f)'
      BY <1>1, <2>3, <3>1, AgreesThen
    <3> QED
      BY <1>1, <1>2, <2>4, <3>2, EndedFits
  <2>5. CASE Put(f, local[f].body, "bare") /\ Advance(f, "sealing")
    <3>1. Remote(f)' /\ remote'[f] = [body |-> local[f].body, form |-> "bare"]
      BY <1>1, <2>2, <2>5, PutWrites DEF Forms
    <3>2. stage'[f] = "sealing" /\ todo' = todo
      BY <1>1, <2>5 DEF Advance, TypeOK
    <3>3. UploadsTheRow(f)'
      BY <1>2, <2>3, <3>1, <3>2 DEF UploadsTheRow, InBoth
    <3> QED
      BY <1>1, <1>2, <3>2, <3>3, AdvancedFits
  <2> QED
    BY <1>4, <2>1, <2>4, <2>5 DEF Upload
<1>5. CASE Seal(f)
  <2>1. InBoth(f) /\ remote[f] = [body |-> local[f].body, form |-> "bare"]
    BY <1>1, <1>3, <1>5 DEF UploadsTheRow, Seal, At
  <2>2. Put(f, local[f].body, "sealed") /\ End(f)
    BY <1>5, <2>1 DEF Seal, InBoth
  <2>3. local[f].body \in Bodies
    BY <1>1, <2>1 DEF InBoth, Local, TypeOK, Rows
  <2>4. Remote(f)' /\ remote'[f] = [body |-> local[f].body, form |-> "sealed"]
    BY <1>1, <2>2, <2>3, PutWrites DEF Forms
  <2>5. Local(f)' /\ local'[f].body = local[f].body
    BY <1>2, <2>1 DEF InBoth, Local
  <2>6. Reconciled(f)'
    BY <1>1, <2>4, <2>5, AgreesThen
  <2> QED
    BY <1>1, <1>2, <2>2, <2>6, EndedFits
<1> QED
  BY <1>4, <1>5

\* A download that is not refused is saved, and what has been saved goes back.
LEMMA DownloadFits ==
    ASSUME RunInv, FileInv, NEW f \in quiet, Download(f) \/ Save(f) \/ Return(f)
    PROVE  Fits(f)' /\ StaysGone(f)'
<1> USE DEF vault, run, history
<1>1. f \in Files /\ DownloadsTheObject(f) /\ StaysGone(f) /\ PlanOfTheRun /\ TypeOK
  BY DEF RunInv, TypeOK, FileInv, Fits
<1>2. pc = "Download" /\ pc \in Changing /\ f \in todo /\ UNCHANGED <<mode, pc, plan, gone, barred>>
  BY DEF Download, Save, Return, At, Changing
<1>3. Awaits("Download", f)
  BY <1>1, <1>2, OwnTask
<1>4. Remote(f) /\ (Local(f) \/ DownloadRemoteOnly)
  BY <1>1, <1>3 DEF DownloadsTheObject
<1>5. DownloadRemoteOnly' <=> DownloadRemoteOnly
  BY <1>2 DEF DownloadRemoteOnly, Mirrors
<1>6. CASE Download(f)
  <2>1. (Remote(f)' <=> Remote(f)) /\ (Local(f)' <=> Local(f)) /\ remote' = remote
    BY <1>6 DEF Download, Remote, Local
  <2>2. CASE Received(f) # None /\ Advance(f, "saving")
    <3>1. stage'[f] = "saving" /\ todo' = todo
      BY <1>1, <2>2 DEF Advance, TypeOK
    <3>2. DownloadsTheObject(f)'
      BY <1>4, <1>5, <2>1, <3>1 DEF DownloadsTheObject
    <3> QED
      BY <1>1, <1>2, <3>1, <3>2, AdvancedFits
  <2>3. CASE Received(f) = None /\ End(f)
    <3>1. remote[f].body \in Bodies /\ remote[f].form \in Forms
      BY <1>1, <1>4 DEF Remote, TypeOK, Objects
    <3>2. remote[f].form = "broken"
      BY <1>4, <2>3, <3>1, CloudAssumption DEF Received, Forms, Bodies
    <3>3. Reconciled(f)'
      BY <1>4, <2>1, <3>2 DEF Reconciled, CannotOpen
    <3> QED
      BY <1>1, <1>2, <2>3, <3>3, EndedFits
  <2> QED
    BY <1>6, <2>2, <2>3 DEF Download
<1>7. CASE Save(f)
  <2>1. (Remote(f)' <=> Remote(f)) /\ remote' = remote
    BY <1>7 DEF Save, Remote
  <2>2. CASE ~ Local(f) /\ f \in barred /\ End(f) /\ UNCHANGED local
    <3>1. CannotCreate(f)'
      BY <1>2, <1>4, <1>5, <2>1, <2>2 DEF CannotCreate, Local
    <3> QED
      BY <1>1, <1>2, <2>2, <3>1, EndedFits DEF Reconciled
  <2>3. CASE /\ local' = [local EXCEPT ![f] = [body |-> buffer[f], size |-> Size[buffer[f]]]]
             /\ Advance(f, "returning")
             /\ UNCHANGED buffer
    <3>1. buffer[f] \in Bodies
      BY <1>1, <1>7 DEF Save, At, TypeOK
    <3>2. [body |-> buffer[f], size |-> Size[buffer[f]]] # None
      BY <3>1, CloudAssumption DEF Rows
    <3>3. Local(f)' /\ local'[f].body = buffer'[f]
      BY <1>1, <2>3, <3>2 DEF Local, TypeOK
    <3>4. DownloadsTheObject(f)'
      BY <1>4, <2>1, <3>3 DEF DownloadsTheObject
    <3> QED
      BY <1>1, <1>2, <2>3, <3>4, AdvancedFits DEF Advance
  <2> QED
    BY <1>7, <2>2, <2>3 DEF Save
<1>8. CASE Return(f)
  <2>1. Local(f) /\ local[f].body = buffer[f] /\ buffer[f] \in Bodies
    BY <1>1, <1>3, <1>8 DEF DownloadsTheObject, Return, At, TypeOK
  <2>2. Remote(f)' /\ remote'[f].body = buffer[f]
    <3>1. PICK form \in Forms : Put(f, buffer[f], form)
      BY <1>8 DEF Return, Forms
    <3>2. Remote(f)' /\ remote'[f] = [body |-> buffer[f], form |-> form]
      BY <1>1, <2>1, <3>1, PutWrites
    <3> QED
      BY <3>2
  <2>3. Local(f)' /\ local'[f].body = buffer[f]
    BY <1>8, <2>1 DEF Return, Local
  <2>4. Reconciled(f)'
    BY <1>1, <2>2, <2>3, AgreesThen
  <2> QED
    BY <1>1, <1>2, <1>8, <2>4, EndedFits DEF Return
<1> QED
  BY <1>6, <1>7, <1>8

\* A leftover has no row, and now no object; a local leftover stays as it was.
LEMMA DeleteFits ==
    ASSUME RunInv, FileInv, NEW f \in quiet, DeleteRemote(f) \/ DeleteLocal(f)
    PROVE  Fits(f)' /\ StaysGone(f)'
<1> USE DEF vault, run, history
<1>1. f \in Files /\ Fits(f) /\ StaysGone(f) /\ PlanOfTheRun /\ TypeOK
  BY DEF RunInv, TypeOK, FileInv
<1>2. CASE DeleteRemote(f)
  <2>1. pc = "DeleteRemote" /\ pc \in Changing /\ f \in todo
        /\ UNCHANGED <<mode, pc, plan, gone, local>>
    BY <1>2 DEF DeleteRemote, At, Changing
  <2>2. ~ Local(f)
    BY <1>1, <2>1, OwnTask DEF Fits, DeletesTheLeftover
  <2>3. ~ Local(f)' /\ ~ Remote(f)'
    BY <1>1, <1>2, <2>1, <2>2 DEF DeleteRemote, Erase, Local, Remote, TypeOK
  <2>4. Reconciled(f)'
    BY <2>3 DEF Reconciled, Agree, Local, Remote
  <2> QED
    BY <1>1, <1>2, <2>1, <2>4, EndedFits DEF DeleteRemote
<1>3. CASE DeleteLocal(f)
  <2>1. pc = "DeleteLocal" /\ stage[f] = "start" /\ End(f) /\ f \in todo
        /\ UNCHANGED <<mode, pc, plan, gone, local, remote, newer, barred, fresh>>
    BY <1>3 DEF DeleteLocal, At
  <2>2. \A a \in Changing : Awaits(a, f)' <=> Awaits(a, f)
    BY <2>1 DEF Awaits, Changing, Before
  <2>3. stage'[f] = stage[f]
    BY <1>1, <2>1 DEF End, TypeOK
  <2>4. buffer'[f] = buffer[f]
    BY <1>1, <2>1 DEF End, TypeOK
  <2>5. Fits(f)'
    BY <1>1, <2>1, <2>2, <2>3, <2>4, UntouchedFits
  <2>6. StaysGone(f)'
    BY <1>1, <2>1 DEF StaysGone, Local, Remote
  <2> QED
    BY <2>5, <2>6
<1> QED
  BY <1>2, <1>3

\* A failure, a user or another client that touches a file is noted, and leaves
\* the other files alone.
LEMMA TouchFits ==
    ASSUME RunInv, FileInv, NEW g \in Files, NEW f \in quiet',
           \/ FailTask(g) \/ ErrorAnswer(g) \/ TrashLocal(g) \/ RemoteDelete(g)
           \/ \E c \in Contents : CreateLocal(g, c) \/ RemoteWrite(g, c)
    PROVE  Fits(f)' /\ StaysGone(f)'
<1> USE DEF vault, run, history
<1>1. f \in quiet /\ f # g
  BY DEF FailTask, ErrorAnswer, TrashLocal, RemoteDelete, CreateLocal, RemoteWrite, Edit
<1>2. f \in Files /\ Fits(f) /\ StaysGone(f) /\ TypeOK
  BY <1>1 DEF RunInv, TypeOK, FileInv
<1>3. UNCHANGED <<mode, pc, plan, gone>>
  BY DEF FailTask, ErrorAnswer, TrashLocal, RemoteDelete, CreateLocal, RemoteWrite, Edit
<1>4. CASE FailTask(g) \/ ErrorAnswer(g)
  <2>1. UNCHANGED <<local, remote, newer, barred, fresh>>
    BY <1>4 DEF FailTask, ErrorAnswer
  <2>2. (f \in todo' <=> f \in todo) /\ stage'[f] = stage[f] /\ buffer'[f] = buffer[f]
    BY <1>1, <1>2, <1>4 DEF FailTask, ErrorAnswer, End, Advance, TypeOK
  <2> QED
    BY <1>2, <1>3, <2>1, <2>2, ElsewhereFits
<1>5. CASE ~ (FailTask(g) \/ ErrorAnswer(g))
  <2>1. UNCHANGED <<todo, stage, buffer>>
    BY <1>5 DEF TrashLocal, RemoteDelete, CreateLocal, RemoteWrite, Edit
  <2>2. (f \in barred' <=> f \in barred) /\ (f \in fresh' <=> f \in fresh)
    BY <1>1, <1>5 DEF TrashLocal, RemoteDelete, CreateLocal, RemoteWrite
  <2>3. local'[f] = local[f] /\ remote'[f] = remote[f]
    BY <1>1, <1>2, <1>5 DEF TrashLocal, RemoteDelete, CreateLocal, RemoteWrite, Put, Erase, TypeOK
  <2>4. newer'[f] = newer[f]
    BY <1>1, <1>2, <1>5
       DEF TrashLocal, RemoteDelete, CreateLocal, RemoteWrite, Put, Erase, Touched, TypeOK
  <2> QED
    BY <1>2, <1>3, <2>1, <2>2, <2>3, <2>4, ElsewhereFits
<1> QED
  BY <1>4, <1>5

LEMMA StepKeepsFiles == RunInv /\ FileInv /\ [Next]_vars => FileInv'
<1> SUFFICES ASSUME RunInv, FileInv, [Next]_vars PROVE FileInv'
  OBVIOUS
<1>0. PlanOfTheRun'
  BY StepKeepsPlanOfTheRun DEF FileInv
<1> SUFFICES ASSUME NEW f \in quiet' PROVE Fits(f)' /\ StaysGone(f)'
  BY <1>0 DEF FileInv
<1> USE DEF vault, run, history
<1>1. CASE StartRun
  <2>1. f \in Files
    BY <1>1 DEF StartRun
  <2> QED
    BY <1>1, <2>1, StartFits DEF FileInv
<1>2. CASE Index
  BY <1>2, IndexFits
<1>3. CASE NextPhase
  BY <1>3, PhaseFits DEF NextPhase
<1>4. ASSUME NEW g \in Files, Task(g)
      PROVE  Fits(f)' /\ StaysGone(f)'
  <2>1. f \in quiet
    BY <1>4 DEF Task, Purge, Upload, Seal, Download, Save, Return, DeleteRemote, DeleteLocal
  <2>2. CASE Purge(g)
    BY <2>1, <2>2, PurgeFits
  <2>3. CASE ~ Purge(g) /\ f # g
    BY <1>4, <2>1, <2>3, OtherTaskFits
  <2>4. CASE ~ Purge(g) /\ f = g
    BY <1>4, <2>1, <2>4, UploadFits, DownloadFits, DeleteFits DEF Task
  <2> QED
    BY <2>2, <2>3, <2>4
<1>5. ASSUME NEW g \in Files, FailTask(g) \/ ErrorAnswer(g) \/ TrashLocal(g) \/ RemoteDelete(g)
      PROVE  Fits(f)' /\ StaysGone(f)'
  BY <1>5, TouchFits
<1>6. ASSUME NEW g \in Files, NEW c \in Contents, CreateLocal(g, c) \/ RemoteWrite(g, c)
      PROVE  Fits(f)' /\ StaysGone(f)'
  BY <1>6, TouchFits
<1>7. CASE Abandon
  BY <1>7 DEF Abandon
<1>8. CASE UNCHANGED vars
  <2>1. f \in Files /\ f \in quiet /\ Fits(f) /\ StaysGone(f)
    BY <1>8 DEF vars, RunInv, TypeOK, FileInv
  <2> QED
    BY <1>8, <2>1, ElsewhereFits DEF vars
<1> QED
  BY <1>1, <1>2, <1>3, <1>4, <1>5, <1>6, <1>7, <1>8 DEF Next, RunStep

\* Every reachable state satisfies the invariant of the files nobody else touches.
THEOREM FileInvariant == Spec => []FileInv
<1>1. Init => FileInv
  BY InitFiles
<1>2. RunInv /\ FileInv /\ [Next]_vars => FileInv'
  BY StepKeepsFiles
<1> QED
  BY <1>1, <1>2, RunInvariant, PTL DEF Spec

\* A run leaves the two copies of a file nobody else touched with the same
\* contents, or apart for a reason the policy or the file gives, whatever happens
\* to the other files (Planner::build, Upload, Download, Delete).
THEOREM RunReconcilesHolds == Spec => []RunReconciles
<1>1. RunInv /\ FileInv => RunReconciles
  <2> SUFFICES ASSUME RunInv, FileInv, pc = "idle", NEW f \in quiet PROVE Reconciled(f)
    BY DEF RunReconciles, Reconciled
  <2>1. f \in Files /\ IsSettled(f) /\ plan = NoPlan
    BY DEF FileInv, Fits, PlanOfTheRun, Actions, RunInv, TypeOK
  <2>2. \A a \in Changing : ~ Awaits(a, f)
    BY <2>1 DEF Awaits, NoPlan, Changing, Actions
  <2> QED
    BY <2>1, <2>2 DEF IsSettled
<1> QED
  BY <1>1, FileInvariant, RunInvariant, PTL

\* A file deleted in the top directory is gone on both sides after a run that
\* nobody disturbs, whatever the policy (removeTrashedFiles, Planner::build).
THEOREM TopFilesStayDeletedHolds == Spec => []TopFilesStayDeleted
<1>1. FileInv => TopFilesStayDeleted
  BY DEF FileInv, StaysGone, TopFilesStayDeleted, Absent
<1> QED
  BY <1>1, FileInvariant, PTL

=============================================================================
