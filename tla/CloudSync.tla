------------------------------ MODULE CloudSync ------------------------------
(***************************************************************************)
(* One synchronisation run after another of an S3 vault: sync/Cloud.cpp    *)
(* with its Planner, Executor and RemotePolicy, the sub-tasks Upload,      *)
(* Download and Delete, and the CloudEngine calls they make.               *)
(*                                                                         *)
(* A file has a local copy (the row and the encrypted backing file) and a  *)
(* remote copy (the object in the bucket).  While a run goes through its   *)
(* phases, users create and delete files in the vault, other clients of    *)
(* the bucket write and delete objects, requests fail, and the daemon may  *)
(* stop.  The sub-tasks of a phase run side by side; a phase starts when   *)
(* the one before it has ended (Executor.cpp:16).                          *)
(*                                                                         *)
(* Abstractions.  A plaintext is an element of Contents; what is left when *)
(* a ciphertext, or the body of an HTTP error, is taken for one is Garble. *)
(* Of the two times of a file only their order is kept (newer).  The local *)
(* and the remote listing are one step with the plan: an edit of the       *)
(* bucket between them is like one after both, an edit of the vault like   *)
(* one before both.  Pending moves and key rotation, the other shared      *)
(* operations of a run, are left to KeyRotation.                           *)
(***************************************************************************)
EXTENDS Naturals, FiniteSets

CONSTANTS
    Files,      \* the paths of the vault
    Contents,   \* the plaintexts users and other clients write
    Garble,     \* bytes that are no user's plaintext
    None,       \* no copy
    Size,       \* the length of a plaintext
    Tag,        \* what encryption adds to the length
    PurgeKey,   \* the object deleted for a file in the trash
    Modes,      \* the policies a vault may be configured with
    MaxEdits,   \* bound on the edits of users and of other clients
    MaxFaults   \* bound on failures

Bodies == Contents \cup {Garble}

Forms == {"plain",   \* the plaintext, not flagged as encrypted
          "sealed",  \* the ciphertext with the vector that opens it
          "bare",    \* the ciphertext without the flag
          "broken"}  \* the plaintext, flagged as encrypted

Rows == [body : Bodies, size : Nat]
Objects == [body : Bodies, form : Forms]

Strategies == {"Cache", "Sync", "Mirror"}
Policies == {"KeepLocal", "KeepRemote", "KeepNewest", "Ask"}
AllModes == [strategy : Strategies, policy : Policies, seals : BOOLEAN]

ASSUME CloudAssumption ==
    /\ None \notin Bodies \cup Rows \cup Objects
    /\ Garble \notin Contents
    /\ Size \in [Bodies -> Nat]
    /\ Tag \in Nat \ {0}
    /\ PurgeKey \in [Files -> Files]
    /\ Modes \subseteq AllModes
    /\ MaxEdits \in Nat /\ MaxFaults \in Nat

VARIABLES
    mode,     \* strategy, conflict policy and encrypt_upstream of the vault
    local,    \* the row of each file: its plaintext and its size_bytes
    remote,   \* each object: its plaintext and its form
    newer,    \* the copy with the later updated_at
    trashed,  \* the paths in files_trashed
    barred,   \* the files createFile cannot create
    pc,       \* the phase of the run
    plan,     \* the files of each type of action
    todo,     \* the sub-tasks of the phase that have not ended
    stage,    \* how far each sub-task is
    buffer,   \* what a download has received
    fresh,    \* the files whose listed row is still the current one
    quiet,    \* history: nobody else touched the file since the run began
    gone,     \* history: in the trash and without a row when the run began
    edits, faults

vault == <<local, trashed, barred>>
run == <<pc, plan, todo, stage, buffer, fresh>>
history == <<quiet, gone>>
vars == <<mode, vault, remote, newer, run, history, edits, faults>>

Actions == {"Upload", "Download", "DeleteRemote", "DeleteLocal"}
Local(f) == local[f] # None
Remote(f) == remote[f] # None

\* The size the bucket lists for an object.
RemoteSize(f) ==
    Size[remote[f].body] + (IF remote[f].form \in {"sealed", "bare"} THEN Tag ELSE 0)

\* The copy that is now the younger one, or as young to the second.
Touched(f, side, l, r) ==
    \E w \in IF l[f] # None /\ r[f] # None THEN {side, "same"} ELSE {"same"} :
        newer' = [newer EXCEPT ![f] = w]

-----------------------------------------------------------------------------
(***************************************************************************)
(* RemotePolicy: what the strategy and the conflict policy decide.         *)
(***************************************************************************)
Mirrors(p) == mode.strategy = "Mirror" /\ mode.policy \in p

\* Mutants: a mirror of the vault that also downloads (RemotePolicy.cpp:70), and
\* leftovers deleted whatever the strategy (RemotePolicy.cpp:104).
AlwaysDownload == TRUE
LeftoversOfAnyStrategy == mode.policy = "KeepLocal"

DownloadRemoteOnly == ~ Mirrors({"KeepLocal"})
UploadLocalOnly == mode.strategy # "Mirror" \/ Mirrors({"KeepLocal"})
DeleteRemoteLeftovers == Mirrors({"KeepLocal"})
DeleteLocalLeftovers == Mirrors({"KeepRemote"})

\* The listing has no hash: only the size can tell two contents apart.
Conflict(f) == local[f].size # RemoteSize(f)

ResolveConflict(f) ==
    CASE mode.policy = "Ask" -> "Skip"
      [] mode.policy = "KeepLocal" -> "Upload"
      [] mode.policy = "KeepRemote" -> "Download"
      [] mode.policy = "KeepNewest" -> IF newer[f] = "local" THEN "Upload" ELSE "Download"

\* Mutant: the second comparison of times is missing (RemotePolicy.cpp:162).
UploadsOnly(f) == IF newer[f] = "local" THEN "Upload" ELSE "Skip"

ByTime(f) == CASE newer[f] = "local" -> "Upload"
               [] newer[f] = "remote" -> "Download"
               [] newer[f] = "same" -> "Skip"

DecideForBoth(f) ==
    CASE mode.strategy = "Cache" -> IF newer[f] = "remote" THEN "Download" ELSE "Skip"
      [] mode.strategy = "Sync" -> ByTime(f)
      [] Mirrors({"KeepLocal"}) -> "Upload"
      [] Mirrors({"KeepRemote"}) -> "Download"
      [] Mirrors({"KeepNewest"}) -> ByTime(f)
      [] Mirrors({"Ask"}) -> "Skip"

Decision(f) == IF Conflict(f) THEN ResolveConflict(f) ELSE DecideForBoth(f)

\* Planner::build for the files that have a row and the objects listed.
Build(rows, listed) ==
    LET both(a) == {f \in rows \cap listed : Decision(f) = a}
        onlyIf(wanted, files) == IF wanted THEN files ELSE {}
    IN  [a \in Actions |->
           CASE a = "Upload" -> both(a) \cup onlyIf(UploadLocalOnly, rows \ listed)
             [] a = "Download" -> both(a) \cup onlyIf(DownloadRemoteOnly, listed \ rows)
             [] a = "DeleteRemote" -> onlyIf(DeleteRemoteLeftovers, listed \ rows)
             [] a = "DeleteLocal" -> onlyIf(DeleteLocalLeftovers, rows \ listed)]

-----------------------------------------------------------------------------
(***************************************************************************)
(* The phases of a run.                                                    *)
(***************************************************************************)
Phases == {"purge", "index"} \cup Actions
NoPlan == [a \in Actions |-> {}]

Enter(phase, tasks) ==
    /\ pc' = phase
    /\ todo' = tasks
    /\ UNCHANGED <<stage, buffer>>

\* removeTrashedFiles takes every path of the trash: nothing marks a trashed
\* file as deleted, so a path stays there for good.
StartRun ==
    /\ pc = "idle"
    /\ Enter("purge", trashed)
    /\ quiet' = Files
    /\ gone' = {f \in trashed : ~ Local(f)}
    /\ UNCHANGED <<mode, vault, remote, newer, plan, fresh, edits, faults>>

\* initBins and Planner::build.  listObjects does not throw: a failed page is
\* a listing without its objects.
Index ==
    /\ pc = "index"
    /\ \E listed \in SUBSET {f \in Files : Remote(f)} :
         LET missed == {f \in Files : Remote(f)} \ listed
             rows == {f \in Files : Local(f)}
         IN  /\ faults' = IF missed = {} THEN faults ELSE faults + 1
             /\ faults' <= MaxFaults
             /\ quiet' = quiet \ missed
             /\ plan' = Build(rows, listed)
             /\ fresh' = rows
             /\ Enter("Upload", plan'["Upload"])
    /\ UNCHANGED <<mode, vault, remote, newer, gone, edits>>

\* The barrier between two phases; after the last one clearBins and shutdown.
NextPhase ==
    /\ todo = {}
    /\ \/ pc = "purge" /\ Enter("index", {}) /\ UNCHANGED plan
       \/ pc = "Upload" /\ Enter("Download", plan["Download"]) /\ UNCHANGED plan
       \/ pc = "Download" /\ Enter("DeleteRemote", plan["DeleteRemote"]) /\ UNCHANGED plan
       \/ pc = "DeleteRemote" /\ Enter("DeleteLocal", plan["DeleteLocal"]) /\ UNCHANGED plan
       \/ pc = "DeleteLocal" /\ Enter("idle", {}) /\ plan' = NoPlan
    /\ fresh' = IF pc = "Upload" THEN {} ELSE fresh
    /\ UNCHANGED <<mode, vault, remote, newer, history, edits, faults>>

\* A sub-task has ended, well or not: the barrier only logs a failure.
End(f) ==
    /\ todo' = todo \ {f}
    /\ stage' = [stage EXCEPT ![f] = "start"]
    /\ buffer' = [buffer EXCEPT ![f] = None]

At(phase, s, f) == pc = phase /\ f \in todo /\ stage[f] = s
Advance(f, s) == stage' = [stage EXCEPT ![f] = s] /\ UNCHANGED todo

Put(f, body, form) ==
    /\ remote' = [remote EXCEPT ![f] = [body |-> body, form |-> form]]
    /\ Touched(f, "remote", local, remote')

Erase(f) ==
    /\ remote' = [remote EXCEPT ![f] = None]
    /\ newer' = [newer EXCEPT ![f] = "same"]

\* Mutant: only the local part of purge (CloudEngine.cpp:221).
PurgeLocally(f) ==
    /\ At("purge", "start", f)
    /\ End(f)
    /\ UNCHANGED <<mode, vault, remote, newer, pc, plan, fresh, history, edits, faults>>

\* CloudEngine::purge of a file in the trash.  Its vault path is converted as
\* if it were a path of the mount: only the file name is left.
Purge(f) ==
    /\ At("purge", "start", f)
    /\ Erase(PurgeKey[f])
    /\ End(f)
    /\ UNCHANGED <<mode, vault, pc, plan, fresh, history, edits, faults>>

\* CloudEngine::upload without encrypt_upstream, and the first request of it
\* with encrypt_upstream.  The backing file of a row that is gone is not there.
Upload(f) ==
    /\ At("Upload", "start", f)
    /\ \/ /\ f \notin fresh
          /\ End(f)
          /\ UNCHANGED <<remote, newer>>
       \/ /\ f \in fresh /\ ~ mode.seals
          /\ Put(f, local[f].body, "plain")
          /\ End(f)
       \/ /\ f \in fresh /\ mode.seals
          /\ Put(f, local[f].body, "bare")
          /\ Advance(f, "sealing")
          /\ UNCHANGED buffer
    /\ UNCHANGED <<mode, vault, pc, plan, fresh, history, edits, faults>>

\* The copies onto itself that give the object its metadata: whatever object
\* is there by now is flagged as encrypted.
Seal(f) ==
    /\ At("Upload", "sealing", f)
    /\ \/ /\ Remote(f)
          /\ Put(f, remote[f].body, IF remote[f].form = "bare" THEN "sealed" ELSE "broken")
       \/ /\ ~ Remote(f)
          /\ UNCHANGED <<remote, newer>>
    /\ End(f)
    /\ UNCHANGED <<mode, vault, pc, plan, fresh, history, edits, faults>>

\* What CloudEngine::downloadFile has after the download and the decryption.
\* The body of an error answer is taken for the object.
Received(f) ==
    CASE ~ Remote(f) -> Garble
      [] Remote(f) /\ remote[f].form \in {"plain", "sealed"} -> remote[f].body
      [] Remote(f) /\ remote[f].form = "bare" -> Garble
      [] Remote(f) /\ remote[f].form = "broken" -> None

Download(f) ==
    /\ At("Download", "start", f)
    /\ \/ /\ Received(f) # None
          /\ buffer' = [buffer EXCEPT ![f] = Received(f)]
          /\ Advance(f, "saving")
       \/ /\ Received(f) = None
          /\ End(f)
    /\ UNCHANGED <<mode, vault, remote, newer, pc, plan, fresh, history, edits, faults>>

\* Filesystem::createFile with overwrite.  update_file_only leaves updated_at
\* of a row that exists as it is.
Save(f) ==
    /\ At("Download", "saving", f)
    /\ \/ /\ ~ Local(f) /\ f \in barred
          /\ End(f)
          /\ UNCHANGED <<local, newer>>
       \/ /\ Local(f) \/ f \notin barred
          /\ local' = [local EXCEPT ![f] = [body |-> buffer[f], size |-> Size[buffer[f]]]]
          /\ IF Local(f) THEN UNCHANGED newer ELSE Touched(f, "local", local', remote)
          /\ Advance(f, "returning")
          /\ UNCHANGED buffer
    /\ UNCHANGED <<mode, trashed, barred, remote, pc, plan, fresh, history, edits, faults>>

\* downloadFile sends what it has decrypted back to the bucket, with the
\* metadata of the local file.
Return(f) ==
    /\ At("Download", "returning", f)
    /\ Put(f, buffer[f], IF mode.seals THEN "broken" ELSE "plain")
    /\ End(f)
    /\ UNCHANGED <<mode, vault, pc, plan, fresh, history, edits, faults>>

DeleteRemote(f) ==
    /\ At("DeleteRemote", "start", f)
    /\ Erase(f)
    /\ End(f)
    /\ UNCHANGED <<mode, vault, pc, plan, fresh, history, edits, faults>>

\* Engine::removeLocally of a path: File::deleteFile gives mark_file_trashed
\* three of its four parameters, so the transaction fails and nothing changes.
DeleteLocal(f) ==
    /\ At("DeleteLocal", "start", f)
    /\ End(f)
    /\ UNCHANGED <<mode, vault, remote, newer, pc, plan, fresh, history, edits, faults>>

-----------------------------------------------------------------------------
(***************************************************************************)
(* Failures.                                                               *)
(***************************************************************************)
Fault == faults < MaxFaults /\ faults' = faults + 1

\* A request, a write or a query of the sub-task fails.
FailTask(f) ==
    /\ Fault
    /\ f \in todo
    /\ End(f)
    /\ quiet' = quiet \ (IF pc = "purge" THEN {f, PurgeKey[f]} ELSE {f})
    /\ UNCHANGED <<mode, vault, remote, newer, pc, plan, fresh, gone, edits>>

\* The server answers the download, or the look at the flag, with an error.
ErrorAnswer(f) ==
    /\ Fault
    /\ At("Download", "start", f)
    /\ buffer' = [buffer EXCEPT ![f] = Garble]
    /\ Advance(f, "saving")
    /\ quiet' = quiet \ {f}
    /\ UNCHANGED <<mode, vault, remote, newer, pc, plan, fresh, gone, edits>>

\* The run is interrupted, preflightSpaceForPlan throws, or the daemon stops.
\* A restart fills the cache of entries anew, which may lift what barred a file.
Abandon ==
    /\ Fault
    /\ pc \in Phases
    /\ pc' = "idle" /\ todo' = {} /\ plan' = NoPlan /\ fresh' = {}
    /\ stage' = [f \in Files |-> "start"]
    /\ buffer' = [f \in Files |-> None]
    /\ quiet' = {}
    /\ \E still \in SUBSET barred : barred' = still
    /\ UNCHANGED <<mode, local, trashed, remote, newer, gone, edits>>

-----------------------------------------------------------------------------
(***************************************************************************)
(* Users of the vault and other clients of the bucket.                     *)
(***************************************************************************)
Edit(f) ==
    /\ edits < MaxEdits
    /\ edits' = edits + 1
    /\ quiet' = quiet \ {f}
    /\ UNCHANGED <<mode, pc, plan, todo, stage, buffer, gone, faults>>

\* An upload over the websocket, moved to its path by Filesystem::rename: the
\* row has the length of the ciphertext.  (A file written through the mount is in
\* the clear in the backing directory; it is not modelled.)
CreateLocal(f, c) ==
    /\ Edit(f)
    /\ ~ Local(f)
    /\ local' = [local EXCEPT ![f] = [body |-> c, size |-> Size[c] + Tag]]
    /\ Touched(f, "local", local', remote)
    /\ barred' = barred \ {f}
    /\ UNCHANGED <<trashed, remote, fresh>>

\* Filesystem::remove or unlink: the row goes to the trash, the backing file
\* goes at once.  The directory may go too, or (unlink) the cache keeps the entry.
TrashLocal(f) ==
    /\ Edit(f)
    /\ Local(f)
    /\ local' = [local EXCEPT ![f] = None]
    /\ newer' = [newer EXCEPT ![f] = "same"]
    /\ trashed' = trashed \cup {f}
    /\ barred' \in {barred, barred \cup {f}}
    /\ fresh' = fresh \ {f}
    /\ UNCHANGED remote

RemoteWrite(f, c) ==
    /\ Edit(f)
    /\ Put(f, c, "plain")
    /\ UNCHANGED <<vault, fresh>>

RemoteDelete(f) ==
    /\ Edit(f)
    /\ Remote(f)
    /\ Erase(f)
    /\ UNCHANGED <<vault, fresh>>

-----------------------------------------------------------------------------
\* A new vault over a bucket that may hold objects already, in directories
\* the vault does not have.
Init ==
    /\ mode \in Modes
    /\ local = [f \in Files |-> None]
    /\ remote \in [Files -> {None} \cup [body : Contents, form : {"plain"}]]
    /\ newer = [f \in Files |-> "same"]
    /\ trashed = {}
    /\ barred \in SUBSET {f \in Files : PurgeKey[f] # f}
    /\ pc = "idle" /\ plan = NoPlan /\ todo = {} /\ fresh = {}
    /\ stage = [f \in Files |-> "start"]
    /\ buffer = [f \in Files |-> None]
    /\ quiet = {} /\ gone = {}
    /\ edits = 0 /\ faults = 0

Task(f) == \/ Purge(f) \/ Upload(f) \/ Seal(f) \/ Download(f) \/ Save(f)
           \/ Return(f) \/ DeleteRemote(f) \/ DeleteLocal(f)
RunStep == Index \/ NextPhase \/ \E f \in Files : Task(f)

Next ==
    \/ StartRun
    \/ RunStep
    \/ Abandon
    \/ \E f \in Files : FailTask(f) \/ ErrorAnswer(f) \/ TrashLocal(f) \/ RemoteDelete(f)
    \/ \E f \in Files, c \in Contents : CreateLocal(f, c) \/ RemoteWrite(f, c)

Spec == Init /\ [][Next]_vars

-----------------------------------------------------------------------------
(***************************************************************************)
(* Properties.                                                             *)
(***************************************************************************)
\* The state has its types, and a sub-task that has begun is one of the phase.
TypeOK ==
    /\ mode \in Modes
    /\ local \in [Files -> {None} \cup Rows]
    /\ remote \in [Files -> {None} \cup Objects]
    /\ newer \in [Files -> {"local", "remote", "same"}]
    /\ pc \in Phases \cup {"idle"}
    /\ plan \in [Actions -> SUBSET Files]
    /\ stage \in [Files -> {"start", "sealing", "saving", "returning"}]
    /\ buffer \in [Files -> {None} \cup Bodies]
    /\ trashed \subseteq Files /\ barred \subseteq Files /\ todo \subseteq Files
    /\ fresh \subseteq Files /\ quiet \subseteq Files /\ gone \subseteq Files
    /\ edits \in 0..MaxEdits /\ faults \in 0..MaxFaults
    /\ \A f \in Files : f \notin todo => stage[f] = "start"
    /\ \A f \in Files : buffer[f] # None <=> stage[f] \in {"saving", "returning"}

Agree(f) == Local(f) = Remote(f) /\ (Local(f) => local[f].body = remote[f].body)
InBoth(f) == Local(f) /\ Remote(f)

\* What the strategies and policies leave apart on purpose; a mirror that keeps neither side
\* uploads nothing and deletes nothing.
LeftToTheUser(f) == InBoth(f) /\ mode.policy = "Ask" /\ (Conflict(f) \/ Mirrors(Policies))
NoYounger(f) == InBoth(f) /\ ~ Conflict(f) /\ (newer[f] = "same" \/ mode.strategy = "Cache")
NotMirrored(f) == Local(f) /\ ~ Remote(f) /\ Mirrors({"KeepNewest", "Ask"})

\* What a run cannot bring together, although it should: the object does not decrypt, the file
\* cannot be created, or the leftover of a mirror of the bucket is planned to be deleted and
\* stays (LeftoversAreDeleted).
CannotOpen(f) == Remote(f) /\ remote[f].form = "broken"
CannotCreate(f) == ~ Local(f) /\ Remote(f) /\ f \in barred /\ DownloadRemoteOnly
CannotDelete(f) == Local(f) /\ ~ Remote(f) /\ DeleteLocalLeftovers

\* A run through which nobody else touched a file, and in which no request
\* for it failed, leaves the two copies with the same contents, or apart for
\* one of these reasons (Planner::build, RemotePolicy).
RunReconciles ==
    pc = "idle" =>
        \A f \in quiet : \/ Agree(f)
                         \/ LeftToTheUser(f) \/ NoYounger(f) \/ NotMirrored(f)
                         \/ CannotOpen(f) \/ CannotCreate(f) \/ CannotDelete(f)

\* A mirror of the bucket has no file the bucket does not have once a run that nobody disturbed
\* is over: it does not upload a file that is only in the vault, for "it'll be deleted locally"
\* (RemotePolicy.cpp:90).
LeftoversAreDeleted ==
    pc = "idle" /\ DeleteLocalLeftovers => \A f \in quiet : Local(f) => Remote(f)

Absent(f) == ~ Local(f) /\ ~ Remote(f)

\* A file deleted in the top directory before such a run is gone on both
\* sides after it, whatever the policy (removeTrashedFiles, then the listing).
TopFilesStayDeleted ==
    pc = "idle" => \A f \in quiet \cap gone : PurgeKey[f] = f => Absent(f)

\* A run removes the last copy of a file only for a path in the trash that is
\* purged under its name, or as a leftover of a mirror of the vault: whatever
\* fails, and whoever writes meanwhile (Executor, Delete).
LastCopyIsKept ==
    [][\A f \in Files :
         (~ Absent(f) /\ Absent(f)' /\ edits' = edits) =>
            \/ pc = "purge" /\ \E g \in trashed : PurgeKey[g] = f
            \/ pc = "DeleteRemote" /\ Mirrors({"KeepLocal"})]_vars

\* No file of a plan is in two of its phases: what a run fetches it does not
\* delete (the tables of RemotePolicy agree with one another).
OneActionPerFile ==
    \A a, b \in Actions : a # b => plan[a] \cap plan[b] = {}

=============================================================================
