# A TLA+ verification development for vaulthalla-core

Vaulthalla keeps encrypted vaults on local disk and in S3 buckets. One daemon, written in C++, serves
them through FUSE, WebSocket, HTTP and a shell socket, keeps their metadata in PostgreSQL, and runs
background work on a handful of service threads and thread pools. These modules model the parts of the
daemon where several of those threads meet, where a step may fail between two others, and where a restart
may leave half of something behind.

Paths below are relative to the repository root; `core/src/...` is the daemon.

## 1. Inventory

| Component | State it keeps | Operations | Talks to |
|---|---|---|---|
| Sync controller (`core/src/sync/Controller.cpp`, `Local.cpp`, `model/Event.cpp`, `core/src/storage/Engine.cpp`) | heap of tasks by `next_run`, map vault to task, flags of every task, the latest event of every engine | service loop, `runNow`, `requeue`, the run of a task, status of its event | storage manager (engines), sync pool, database |
| Vault key rotation (`core/src/vault/EncryptionManager.cpp`, `core/src/sync/tasks/RotateKey.cpp`, `core/include/concurrency/taskOpRanges.hpp`) | two keys, version and flag in memory; rows of keys and files | prepare, rotate ranges of files, finish, load | a sync run, the sync pool, the filesystem, the shell command |
| Cloud sync planner and executor (`core/src/sync/Planner.cpp`, `Executor.cpp`, `Cloud.cpp`, `model/RemotePolicy.cpp`) | listings of both sides during a run | plan by strategy and conflict policy, phases with a barrier | S3, filesystem, event |
| Thread pools (`core/src/concurrency/ThreadPool.cpp`, `core/include/concurrency/ThreadPoolManager.hpp`) | queue, workers, stop flag, lent workers | submit, run, lend, stop | everything asynchronous |
| Runtime manager and services (`core/src/runtime/Manager.cpp`, `core/src/concurrency/AsyncService.cpp`) | running and interrupt flags, worker threads, watchdog | start, stop, restart, hard failure | all services |
| Filesystem (`core/src/fs/Filesystem.cpp`, `core/src/fs/file/ops.cpp`) | rows of files and directories, backing files | create, overwrite, rename, move, copy, delete | cache, encryption, database |
| Filesystem cache (`core/src/fs/cache/Registry.cpp`) | seven maps between inode, path, id and entry, bytes in use | look up, assign inode, cache, evict | database, FUSE |
| FUSE (`core/src/fuse/*.cpp`) | mount, open handles | callbacks of the kernel | cache, filesystem, permissions |
| Shares (`core/src/share/*.cpp`, `core/src/protocols/ws/ShareRateLimit.cpp`) | links, share sessions, challenges, uploads, rate buckets | create, open, verify, upload, download, revoke | sessions, filesystem |
| Sessions (`core/src/auth/session/*.cpp`) | four indexes of sessions, tokens | accept, promote, rehydrate, renew, rotate, invalidate | WebSocket, lifecycle sweep, database |
| Protocols (`core/src/protocols/*`) | connections | dispatch of requests | everything above |
| Permissions (`core/src/rbac/*`) | roles and overrides | evaluate | database |
| Database access (`core/include/db/*.hpp`, `core/src/db/*`) | pool of connections | transactions | PostgreSQL |
| Log rotation, previews, statistics, tooling | files and counters | | |

What is hard, and which properties make each part correct:

* **Sync controller.** The service thread, the workers of the pool and request handlers share task objects
  without a lock that covers them. Correct means: one object is never scheduled or run twice; a cancelled
  task does not come back; a vault is not synchronised by two tasks for ever; a vault that is scheduled is
  synchronised again and again; `runNow` returns.
* **Key rotation.** Two keys, a version and a flag change in separate steps, in memory and in the database,
  while files are rewritten one by one and read and written by others. Correct means: whatever stops when,
  the database always leads to a key that opens every file; readers are served; the old key is dropped only
  when nothing needs it; a rotation ends.
* **Planner and executor.** Correct means: one side never loses the only copy of a file, conflicting
  contents are never overwritten when the policy is to ask, and running the plan to its end leaves nothing
  to plan.
* **Thread pools.** Correct means: what is submitted is run or refused, stopping ends, waiting inside a
  worker does not starve.
* **Runtime manager.** Correct means: a stopped daemon stays stopped, a service is run by one thread at a
  time, a failed start ends the process.
* **Filesystem, cache, FUSE.** Correct means: an inode number belongs to one file for as long as the mount
  lasts, and the maps of the cache agree with each other, also when an eviction races with a look-up.
* **Sessions.** Correct means: a session is found under one token, no open connection is forgotten by the
  sweep that has to end it, a dead session does not come back for good.
* **Shares.** Correct means: a token that was replaced opens nothing and what it opened is ended, an upload
  ends once and does end, a complete upload is in the vault.
* **Permissions.** Correct means: globs mean what they say, a right that is taken away gives no other one,
  what is allowed can be reached, a share link allows what its owner has set, also while that is being changed.

`PROJECT.json` lists every component with its status, and every hazard at the line where it bites.

## 2. Plan

1. `SyncController` with its abstract specification `TaskLifecycle` and the proofs in
   `SyncControllerProofs` (done).
2. `KeyRotation` with all of its safety properties proved in `KeyRotationProofs`, over any number of files
   (done).
3. `TaskPool` with `NoTaskForgotten`, `HandlesBalanced` and `NobodyLeftBehind` proved in `TaskPoolProofs` (done).
4. `CloudSync` with `LastCopyIsKept`, `RunReconciles` and `TopFilesStayDeleted` proved in `CloudSyncProofs`
   (done).
5. `FsCache` and `VaultPolicy`, the two things a request for a file goes through, with all of their properties
   proved in `FilesystemProofs` (done).
6. `ServiceManager`, `SessionIndex` and `ShareLinks`, the last with its abstract specification `UploadLifecycle`,
   with the safety properties of each proved in a module of its own (done).
7. Later, if at all: directories and renames in `FsCache`, the cloud half of key rotation, the pool of
   connections.

A module has one run for its safety properties (`FsCache` and `VaultPolicy` one between them), one more where liveness
asks a question of its own, and one for a disagreement between the code and what the repository says of it.

## 3. Modules

### `SyncController`

| Variables | Code |
|---|---|
| `engines`, `rows`, `nextId` | `storage::Manager::engines_`, the vault table and its id sequence |
| `taskMap`, `heap`, `hand`, `todo`, `ctl` | `Controller::taskMap_`, `pq`, the local variable `task` of `runLoop`, and its program counter |
| `pool`, `pc` | queue of the sync pool, and where a worker is in `Local::operator()` |
| `vaultOf`, `due`, `interrupted`, `running`, `evOf` | members of `Local` |
| `latest`, `status`, `spoiled` | `Engine::latestSyncEvent`; `Event::status`; whether the event has an error message or a failed operation |
| `caller` | a thread inside `Controller::runNow` |

Each action is the code between two points where another thread can get in: a mutex released, a statement of
the database, a flag stored. The database is atomic and may throw at any statement (`Fault`, bounded by
`MaxFaults`) and always throws for a vault that is gone. Time is the predicate `due`: `next_run` has been
reached. The heap hands out the smallest `next_run`, which with `due` as all there is of time means that a
task that is due precedes all that are not. A run is a number of stages, each followed by a look at the
interrupt flag; a stage that ends well and is not the last leaves no trace and has no action. A run keeps its
worker while a stage waits for the sub-tasks it has queued in the same pool (`AwaitSubtasks`), and these need a
worker that is in no run (`SubtasksDone`): `Starved` is the state in which every worker waits and none is left,
which nothing ends, and it is the exception in both liveness properties. `Engine::newSyncEvent` is two steps,
because two runs of a vault share the engine and the second can replace the event between the look at its status
and the creation of the next. Tasks and events are drawn from finite sets in a fixed order, so that equal states
are equal; a vault event that no one refers to any more is used again.

`TaskLifecycle` is what the scheduler promises of its task objects: heap, hand, pool queue, worker and back,
one place at a time, and a task cancelled while it waits never runs. `LifecycleKept` is the refinement, with
`place` computed from where the copies of the task are.

### `KeyRotation`

| Variables | Code |
|---|---|
| `key`, `old`, `version`, `rotating` | members of `EncryptionManager` |
| `dbKey`, `dbVersion`, `dbOld` | `vault_keys` and the pending row of `vault_keys_trashed` |
| `disk`, `row` | backing files and their rows (`encryption_iv`, `encrypted_with_key_version`) |
| `prep` | `prepare_key_rotation`, between its swap, its statement and its last assignments |
| `run`, `listed`, `object`, `task` | `handleVaultKeyRotation`, the vector of files with their `File` objects, the `RotateKey` sub-tasks |
| `writer` | `createFile` with contents: encrypt, write, save the row |

A key is a number, a ciphertext is the key and the vector it was made with, and AES-GCM opens it with these
and no others. `harm` is a history variable: it records that a failure, a restart, a restart at the wrong
moment (`torn`), a preparation that met a finishing rotation (`overlap`), a write that met the rotation of a
run (`clash`), a row with a version that its key does not have (`mislabelled`) or a list of files that does not
divide evenly among the sub-tasks (`uneven`) has happened, so that a property can say what holds in spite of what. The run `rotation_write` shows that the code produces a
mislabelled row by itself. Commands are rotations and writes together (`MaxCommands`), so that one instance has
two rotations, or one rotation and a file written at any moment of it.

### `TaskPool`

| Variables | Code |
|---|---|
| `queue`, `threads`, `borrowed`, `stopFlag` | members of every `ThreadPool`; `threads` stands for `threads_` and `idleFlags_`, which change together |
| `pc`, `job` | where a worker is in the loop of `spawnWorker`, and the task it runs |
| `task` | what has become of a task; `dropped` is a task whose queue was swapped away by `stop` |
| `pressure`, `monitor` | `ThreadPoolManager::pressureFlag_` and `rebalanceLoop`, between its wait and the pairs it goes through |
| `down` | `ThreadPoolManager::shutdown`, between the steps of `stop` of the pool at hand |

Lending moves a handle, never the thread: a lent worker goes on in the loop of its home pool, and that is how
`Home` and `threads` can disagree. A worker keeps the mutex of its pool from the test of the condition until it
waits (`block`), so a test and a wait are two steps, and what does not take the mutex (`StopFlag`, `StopNotify`)
can come between them. A task with sub-tasks is a sync run: it submits them to its own pool and waits for their
futures in order. Services are stopped before the pools (`shutdownVaulthalla` in `core/main/main.cpp`), so
nothing but a run submits during a shutdown. The monitor reads the depths of all queues in one step, and
pressure signalled while it moves workers counts when it waits again, as the mutex it holds has it. The pools
are those that `ThreadPoolManager` has and stops: each is in `StopOrder`, and no pool that lends in one pair is
the hungry one of another (`OrderAssumption`): the FUSE pool borrows from the pools of HTTP and statistics, the
sync pool from that of the previews.

### `CloudSync`

| Variables | Code |
|---|---|
| `mode` | strategy and conflict policy of `RemotePolicy`, `encrypt_upstream` of the vault |
| `local` | the row of a file, its `size_bytes` and what its backing file decrypts to |
| `remote` | the object: its plaintext, and whether its bytes and its flag fit (`plain`, `sealed`, `bare`, `broken`) |
| `newer` | the order of the two `updated_at` |
| `trashed`, `barred` | `files_trashed`; paths `createFile` cannot create, because the directory is missing or the cache still holds the entry of a file that was unlinked |
| `pc`, `plan`, `todo`, `stage`, `buffer` | the phase of a run, the actions of `Planner::build`, the sub-tasks of the phase and how far each is |
| `fresh` | whether the row in the listing is still the file of that path |
| `quiet`, `gone` | history: files nobody else touched since the run began; files that were deleted before it |

A run is the purge of the trash, the two listings with the plan, and the phases of `Executor::run` with their
barrier. The sub-tasks of a phase run side by side, and a transfer is as many steps as it makes requests or
writes that another client can see: an upload with `encrypt_upstream` is the object and then its metadata, a
download is a request, `createFile`, and a request that sends the contents back. Listing both sides is one
step, which loses nothing: an edit of the bucket between the two is like one after both, an edit of the vault
like one before both. `PurgeKey` is the result of the path conversion in `removeRemotely`: the name of the file
in the top directory. `DeleteLocal` changes nothing, because `File::deleteFile` runs its statement with three of
its four parameters and the transaction fails; trashed rows are never marked as deleted, so each run purges them
again. A file uploaded over WebSocket has the length of its ciphertext in its row (`handleRename`), one that
`createFile` makes has the length of its plaintext, and a bucket lists the length of what it holds: the sizes
are all the planner has to see a conflict, since the listing has no hash.

### `FsCache`

| Variables | Code |
|---|---|
| `row` | the rows of `fs_entry` for the files of one directory of a vault: which number each name has |
| `pathToInode`, `inodeToPath`, `pathToEntry`, `inodeToEntry`, `nextInode` | members of `cache::Registry`; an entry is told by its path and number |
| `known` | the numbers the kernel refers to |
| `task` | the request a thread is in: a look-up, creation, upload, write, removal or `forget`, and what it has found |
| `mutex` | `Filesystem::mutex_`, which only the `createFile` of FUSE holds |

An action is one section under the registry's lock, or one statement of the database. `getEntry` is three of
them: `Look` or `ByInode`, then `Read` outside the lock, then `Fill`, and anything may happen in between. A
creation is four. `Restart` is a crash: requests, maps and the kernel's references go and the constructor reads
the first free number. `restoreCache` loads no file: `listDir` asks for the files below the root entry with a query
that goes down through rows of files only (`files.cpp:175-187`), and the root entry has no files, just the
directories of the vaults, which another query finds.

### `SessionIndex`

| Variables | Code |
|---|---|
| `listed`, `owner` | `sessionsByUUID_` and `sessionsByRefreshJti_` of the session manager |
| `user`, `token`, `access`, `open`, `late` | a `ws::Session`: its user, its refresh token (with the text, the hash and the revoked flag that the code compares), whether its access token is usable, its connection, whether the time for a log-in is over |
| `rows`, `issued`, `cookie`, `expired` | the table `refresh_tokens`, the tokens issued, the one in the browser, those whose time is over |
| `at`, `job` | where the strand of each session, the HTTP thread and the sweep are, and what they have read before |
| `queue` | the copy of the map that the sweep goes through (`getActive`) |

The mutex of the manager covers its maps, never the objects in them: a strand that validates, the HTTP thread
that looks the same session up by its cookie and the sweep that revokes it write the same token object. A
handshake is validation, caching or rotation, the maps, and the test of `Session.cpp:190`; a log-in is
`promote` statement by statement. `hit` tells whether an invalidation has revoked this very object, since
`hardInvalidate` empties the object it began with and the session may have another one by then.

### `ShareLinks`

| Variables | Code |
|---|---|
| `link`, `row`, `chal`, `up` | `share_link`, `share_session`, `share_email_challenge`, `share_upload` |
| `files` | which upload a file of the vault came from |
| `conn`, `task` | a visitor's WebSocket connection with its upload in progress, and the handler that runs for it |
| `owner`, `sweep` | the two transactions of `rotateLinkToken` and `revokeLink`; the uploads the janitor has listed |
| `scene` | what one behaviour may have (`Scenarios`): the model explores several small worlds side by side |

Every call of the store is a transaction of its own. A handler is a chain of them with what it read before, so
`OpenLink` and `OpenSession`, `ConfirmRead` and `ConfirmWrite` of a challenge, and the steps from a finished upload
to its complete row interleave with the owner, the other visitor and the janitor. The field `missed` of a
session row is history: a revocation of all sessions has passed before the row was there.

`UploadLifecycle` is what the manager promises of an upload: it is started for a name, receives its bytes, and ends
once; a name gets a file only from an upload that has all its bytes, and an upload is complete only when its name has
one. `UploadsKeepToIt` is the refinement: the phase, the bytes and the name of an upload are those of its row, a
name is taken when the vault has a file of it. The two differ in what they know at once: the manager decides by the
bytes that the connection has counted, by rows read in earlier transactions and by files looked up before.

### `VaultPolicy`

| Variables | Code |
|---|---|
| `rows` | the rows of `vault_permission_overrides` of the assignment of a user's role |
| `link` | a public share link: root, type and operations of its row in `share_link`, and the role of its row in `share_vault_role_assignment` with the rules of `share_vault_role_assignment_override` |
| `asked` | history: what the owner of the link asked for last, what the link was set to before, and whether the writing of it is between its two transactions, done or given up |

Everything else is a function of these. A glob and a path are sequences of characters, and a token is told by where it
begins: `Starts`, `After` and `Type` are the tokenizer, `Takes`, `Resume` and `Match` the matcher, `Score`,
`LeadsThrough` and `Evaluate` the evaluator. `matchRecursive` is a table from the end of the glob to its beginning,
which says of each token at which characters of the path it may begin. `SegmentsFit` in the properties is the
reference the matcher is compared with: it knows no tokens, divides both at their slashes and fits one name at a time.
The steps store, replace and remove rules, and `EditsAreMonotone` compares the rights before and after each of them.

`ShareAllows` is what a visitor may do: `Manager::resolvePrincipal` attaches the role assigned to the link or throws, so
a link without a role opens nothing, and otherwise the operations of the link and the rules of its role decide
together. `CreateLink` and `AssignRole` are the two transactions of `Manager::createLink`, `UpdateLink` and
`StoreGrant` those of `Manager::updateLink`, which writes the role first, with the new rules in the place of the old
ones. A request that names no role gets the one called implicit deny when it creates a link, and leaves the role
alone when it updates one. `StopHalfway` is the failure of the second transaction, or the end of the server before
it. A visitor's request reads link and role in two transactions of its own; what it can find is the pair of one of
these states, or the pair in the middle of an update. `LinkIsAsAsked` says what may be found.

`RulesAssumption` and `GrantsAssumption` say of the constants what the code sees to: a glob begins with a slash and
has no three stars in a row, as `Tokenizer::validate` has it (a backslash, which it refuses as well, is a character
like any other in the model), a path and the root of a link are normalized, and a role has finitely many rules, one
for a permission and a glob.

### `ServiceManager`

| Variables | Code |
|---|---|
| `running`, `interrupt`, `worker` | `running_`, `interruptFlag_`, `worker_` of every `AsyncService`; a worker that is `finished` is joinable still |
| `watching` | `Manager::watchdogRunning` |
| `at`, `left` | where the main thread and the watchdog are, and the services they have still to start or stop |
| `failing`, `process` | a thread in `hardFail`; how the process ended |

`Services` are the services and `Order` gives each its place in the map of services, which is that of its name.
A run has three of the seven, which is enough because the code treats all alike but FUSE, whose `stop` asks only
whether the service runs; the proofs are for any number of them in any order. That assigning to a
joinable `std::thread` and joining oneself end the process is the standard library's part.

## 4. Runs

| Run | Instance | What it shows |
|---|---|---|
| `sync_safety` | vaults 1 and 2, one of them added and both removable, 3 tasks, 4 events, 2 workers, 1 `runNow` | a task is in one place, a cancelled one does not start from the heap, the map knows every task that is not cancelled, a vault leaves the schedule only behind an error |
| `sync_liveness` | two vaults and no `runNow`, or one vault and 2 calls of `runNow`; 2 workers, 1 failure | a vault that stays in the schedule is synchronised for ever, also when its runs are cancelled and replaced, unless in the end all workers wait for sub-tasks; `runNow` returns unless something failed or all workers wait for sub-tasks |
| `rotation` | 4 files, 2 sub-tasks, 2 rotations or a rotation and a write, 1 restart, 1 failure | no file is lost, readers fail in two windows only, finished means rotated, rotations end |
| `rotation_write` | 2 files, 1 write | **violated**: a file written after a rotation has the wrong version in its row |
| `pool_work` | pools of 2 and 1 workers, 2 runs of one sub-task each, 1 other task, a shutdown | no task is forgotten, handles are accounted for, what is submitted is run unless all workers wait for sub-tasks, shutdown ends or hangs in one of three ways |
| `cloud_runs` | a file `top` and a file `nested` of the same name in a directory, 2 plaintexts of one length, every strategy and policy with and without encryption, 2 edits, 1 failure | a run nobody disturbed leaves both sides equal or apart for a named reason, files deleted at the top stay deleted, no file is in two phases of a plan, the last copy of a file is removed only on purpose |
| `cloud_leftovers` | the same files, a mirror of the bucket, 1 edit, no failure | **violated**: a file the bucket does not have stays in the vault after the run that should delete it |
| `shares` | 2 connections, 1 file name; scenarios of up to 2 sessions, 2 uploads, 1 change of the link, 1 restart | the challenge's attempts are bounded (in the type invariant), a rotated token's sessions end, a complete upload is stored, bytes agree, an upload keeps to `UploadLifecycle` and ends |
| `filesystem` | `FsCache`: 2 names, 2 threads, numbers 2 to 4, 1 restart | no two files share a number, new numbers are new, the maps agree |
| the same | `VaultPolicy`: 12 globs, 12 paths, 2 permissions, up to 2 rules; links on 2 directories and 1 file with up to 3 sets of operations and 5 roles | globs mean what their segments say, edits are monotone, what is allowed can be reached, a link allows what its owner has set, half way through a change too |
| `services` | FUSE and two others, loops that end twice each, 1 failing start | a stopped server is stopped for good, stops when told to, restarts what is down, and is terminated only by the two acts its watchdog cannot do |
| `sessions` | 2 sessions, 3 tokens, 1 event | no connection is forgotten, a session has one token in the map, dead sessions are ended |
| `sessions_exit` | 2 sessions, no event | **violated**: the sweep overtakes a handshake and the process exits |

Bounds. Three tasks are a vault's task, the one `runNow` puts in its place and the task of a second vault,
which is all that can meet at the event, the map and the heap. Two workers let a cancelled run and its
replacement overlap, let one run wait for sub-tasks that the other worker does, and can both be in runs that wait. Two
calls of `runNow` on two vaults are too many for the liveness run, so one of its scenarios has one vault, whose cancelled and
new runs are the two that meet in the pool. Four files are the fewest for which the code makes two
sub-tasks. A second rotation is needed for a preparation to meet the end of
the first. Restarts and failures are one each, at every step.
Two runs fill a pool of two workers, which is when nobody is left for their sub-tasks; two queued tasks over two
workers and none over the other pool is the least for which the monitor lends a worker; the lent worker is then
the third handle of a pool that is stopped before its own.
Two edits of a bucket that starts with any objects are enough for a file to be created on both sides, deleted and
written again, or changed by another client in the middle of a transfer; runs are not bounded. Two plaintexts of
the same length are two contents whose difference the planner cannot see, and they are interchangeable, so the
run uses their symmetry. The garbled contents are longer, and encryption adds two to a length, so that equal and
different sizes both occur.
Two names and two threads are what can meet at one number: a thread that fills the maps from the table and one
that creates, removes or forgets; the third number is for a file that is created again after its number was given
up, and the restart for a first free number that comes from the table. The proofs do away with these bounds.
Two sessions of one browser share a cookie, so that one can be rehydrated from the other while it logs out, is
swept or logs in; three tokens are one stored before, and one for each. One event is any one of those the run
names, at any moment, next to the two handshakes and the sweep, which are not counted.
Two rules are enough for the score, the order of the rules and the effect to disagree; the globs have every
wildcard at the start, in the middle and at the end of a segment, a letter for a name, and a file and a directory
whose names are `?` and `**`. The five roles are nothing, everything, one rule, that rule and another, and a base with a
rule that denies: some are narrower than others and some neither, so that a change of role and operations is a
narrowing, a widening or both. The proofs do away with these bounds, too. Two uploads of one name, and one of each over a restart, are what can meet at a link; a chunk is the whole
of an upload, so that a refused chunk is the difference between none and all.

`FsCache` and `VaultPolicy` share no state and one run, `MCFilesystem`, in which one of them moves while the other is as it
was at the start; so each is explored as if it were alone.

Deadlock is checked in `CloudSync` and `ServiceManager`, where something can always be done, or
the process is gone and stays so. Elsewhere it is not: a daemon whose requests and failures are used up, or that
has aborted, has no step.

The type invariant is in the runs of `SyncController` and `ShareLinks`, and it is proved for every module but
the two abstract ones, `TaskLifecycle` and `UploadLifecycle`.

Fairness. The service thread, the thread that prepares a rotation, pool workers and callers are threads that
run when they can (weak fairness of their steps). Taking a task from the heap and from the queue is strongly
fair for each task, because the heap hands out the smallest `next_run` and the queue is first in, first out:
neither passes over one task, or over its sub-tasks, for ever as long as workers come free; nothing is assumed
of a pool whose workers all wait. The end of the stages of a run is strongly fair, because their number is fixed and a
run cannot go back to waiting for ever. A worker's step and a step of `stop` are strongly fair in `TaskPool`,
because they need a mutex that others hold for a moment each and that is given to whoever waits for it. Service threads, the main thread and the watchdog are weakly fair, and a
loop that is interrupted ends, because `onStop` unblocks it. The strand of a session goes on with what it has
begun, and the lifecycle thread comes to every session of its copy and sweeps again. Of the shares only the
janitor is fair, whose loop never ends: visitors may vanish at any step. Failures, restarts, requests and the
administrator are never fair.

## 5. Proofs

`SyncControllerProofs` proves, for any vaults, tasks, events, callers, workers and bounds:

* `TypeCorrect`: `Spec => []TypeOK`.
* `PlaceInvariant`: `Spec => []PlaceInv`, the strengthening that makes `SinglePlace` inductive. `SinglePlace`
  alone is not: `RunNowInsert` and `ProcessTask` put a fresh object in the heap, so one must know that a fresh
  object is nowhere yet (`FreshIsNowhere`), that the map and callers know only created objects (`MapKnows`,
  `CallersKnow`), and that the hand is full exactly in the step that disposes of it (`HandHeld`).
* `SinglePlaceHolds`: `Spec => []SinglePlace`.
* `LifecycleRefined`: `Spec => LifecycleKept`. A step either creates one task, moves one, or moves none
  (`MovesNeverCopy`, `OneTaskMoves`); each of these maps to a step of `TaskLifecycle` or to a stutter.
* `SoleLiveTaskHolds`: `Spec /\ []CallsApart => []SoleLiveTask`, and `DroppedOnlyBehindAnErrorHolds`:
  `Spec /\ []CallsApart => []DroppedOnlyBehindAnError`. `CallsApart` says that no two calls of `runNow` for one vault
  overlap; calls for different vaults may. The code does not see to it, and the hypothesis is needed: two threads
  that call `runNow` for one vault both look up the same task, cancel it, wait for it and put a new one in the map;
  the first of the two new tasks is then in the heap, is not cancelled and is known to nobody. TLC finds this with
  two callers; the run has one.
  - `SoleLiveTask` needs `SoleInv`: what a task or the map names is a listed vault (`KnownVaults`), since a new
    vault would otherwise find an old task, and from its look-up to its insertion `runNow` holds the task that the
    map has (`CallHolds`).
  - `DroppedOnlyBehindAnError` needs `DropInv`. A task that ends well is put back because its event says success,
    so one must know of every run that its event is its own (`EventsApart`, `RunsHaveEvents`) and is the latest of
    its vault unless a cancelled run has put an error there, or is about to (`RunsEndWell`, `Doomed`). Then a vault
    without a scheduled task is one whose event has an error (`DropsAreDoomed`).

`TaskPoolProofs` proves, for any pools, homes of workers, tasks, sub-tasks and pairs that lend:

* `QueueInvariant`: `Spec => []QueueInv`. `NoTaskForgotten` is not inductive: `Block` would put the last awake
  worker to sleep over a full queue, were it not that a worker that is about to wait holds the mutex over an
  empty queue (`BlockedOverNothing`), which a submission respects because it takes the mutex; and a submission
  that finds nobody waiting finds somebody awake because workers leave stopped pools only
  (`ExitOnlyWhenStopped`).
* `NoTaskForgottenHolds`: `Spec => []NoTaskForgotten`.
* `TypeCorrect`, `HandlesBalancedHolds` and `NobodyLeftBehindHolds`, from a second invariant, `HandleInv`. As long as
  workers are lent, every handle is in exactly one pool (`NoneTwice`, `AllHeld`) and a pool has as many as it made
  plus its `borrowedCount_` (`Lengths`). The counter is unsigned, and that of a donor wraps
  below zero; that of a hungry pool, the only one that is looked at, does not (`HungryOwesNothing`), which is what
  `OrderAssumption` is for.
  Once `stop` swaps handles away, what it lets go of has ended (`HeldOrEnded`) and the pools behind it are empty
  (`EmptyBehind`), so a worker that runs after a shutdown would have to be in a pool that was not stopped.

`CloudSyncProofs` proves, for any files, contents, lengths, set of policies, result of the path conversion and
bounds:

* `RunInvariant`: `Spec => []RunInv`. `LastCopyIsKept` speaks of the phase a removal happens in, so one must know
  that the sub-tasks of a phase are those it was given (`PurgesTheTrash`, `DeletesThePlan`), that a plan removes
  objects only for a mirror of the vault (`LeftoversOfAMirror`, from `BuildFits`), and, for the types, that a
  current row of the listing is a row (`FreshIsLocal`, `FreshEnds`) and that a run begins and lists without
  sub-tasks (`NoTaskBetween`).
* `TypeCorrect`: `Spec => []TypeOK`; `PhasesAreDisjoint`: `Spec => []OneActionPerFile`.
* `LastCopyIsKeptHolds`: `Spec => LastCopyIsKept`. `WhoErases` shows that of all steps that are not edits only
  `Purge` and `DeleteRemote` leave a file without a copy; a `Put` never does, because no object is `None`
  (`CloudAssumption`).
* `FileInvariant`: `Spec => []FileInv`, for the files nobody else touches, whatever happens to the others. The
  properties speak of the end of a run; the invariant says of every moment what the rest of the run needs. The plan
  may still have something for a file (`Awaits`): then a file to upload has its row and what is being sealed is its
  ciphertext (`UploadsTheRow`), a file to download has its object and what goes back is what was saved
  (`DownloadsTheObject`), an object to delete has no row (`DeletesTheLeftover`). If it has nothing, the copies are as
  the run is to leave them (`IsSettled`). `BuildDecides` shows that `Planner::build` leaves apart only what the
  strategy and the policy mean to; `OneActionPerFile` shows that a sub-task that ends leaves nothing to do.
* `RunReconcilesHolds`: `Spec => []RunReconciles`; `TopFilesStayDeletedHolds`: `Spec => []TopFilesStayDeleted`, since
  what is purged under its own name is on no side when the plan is made (`StaysGone`).

`FilesystemProofs` proves of `FsCache`, for any names, threads, numbers and restarts:

* `InodeInvariant`: `Spec => []CacheInv`. None of the three properties is inductive: a thread that fills the maps
  writes what it read before, so one must know of every request which numbers it holds and that these belong to
  its path (`RequestOK`). The invariant is about one relation: `Names(p, i)` says that the number `i` is or was an
  answer for the path `p`, in the table, in a map or in a request under way. A step adds at most one pair to it,
  and then with the next free number (`Comes`), so that "one path for a number" and "every number below the next
  one" are kept together (`NewPairKeepsInv`, `StepKeepsInv`). A restart takes the next number from the table;
  that the largest number of the table is what `NextInode` finds (`LargestIsLargest`) comes from the
  well-foundedness of the order of the naturals.
* `TypeCorrect`: `Spec => []TypeOK`; `OneFilePerNumberHolds`, `FreshNumbersHolds` follow from the invariant.
* `MapsAgreeHolds`: `Spec => []MapsAgree`, from the invariant that an entry's path and number are in the other maps
  (`EntryHasNumber`), which the eviction keeps because it drops a number from all maps at once.

and of `VaultPolicy`, for any globs, paths, permissions, grants, roles and number of rules that the two assumptions admit:

* `PolicyTypeCorrect`: `PolicySpec => []PolicyTypeOK`. That a permission and a glob have one rule is what the order of
  the list rests on, and with it everything below.
* `EditsAreMonotoneHolds`: `PolicySpec => EditsAreMonotone`. A list of rules is told by its order (`BeforeIsAnOrder`,
  `ListedIsOrdered`): of two lists only the relative order of two rules matters, and that does not change with the
  rest of the rows. So the rule that decides is the one that outranks all others that speak of the request
  (`OneOutranks`, `StageDecides`), and a rule that stays outranks whatever stays (`StageShrinks`, `AllowedShrinks`).
* `MatchesBySegmentsHolds`: `PolicySpec => []MatchesBySegments`. That the recursions have a value at all is shown by
  looking for the last place at which they would not (`TableFrom`, `TableExists`). Then the table of the tokens is
  read one character at a time (`LiteralStep`, `QuestionStep`, `StarStep`, `StarsStep`), which for the characters
  between two slashes is the table of one name (`NameAgrees`) and at the slashes that of the segments
  (`SegmentStepAgrees`, `TablesAgree`). This is a comparison of two algorithms for globs and paths of any length.
* `AllowedIsReachableHolds`: `PolicySpec => []AllowedIsReachable`. A path that matches begins as the glob does
  before its first wildcard (`BeginsLiterally`) and, without double stars, has as many slashes (`SameSlashes`); so
  when the wildcards are in the last name, a directory above the path is above the literal prefix (`WayIsOpen`).
* `LinkIsAsAskedHolds`: `PolicySpec => []LinkIsAsAsked`. The invariant says which pair of operations and role a link
  has at each stage of the request (`LinkInv`, `LinkStep`). The rest is that fewer operations, fewer rules that allow,
  more that deny and a smaller base give fewer rights (`RightsShrink`): it rests on the lemma of the edits, which is
  therefore about two lists and two bases at once (`StageShrinks`, `EvaluateShrinks`).

`KeyRotationProofs` proves, for any number of files, sub-tasks, rotations, writes, restarts and faults:

* `TypeCorrect`: `Spec => []TypeOK`. The bounds are part of the types, so one must know that a preparation has a
  key left (`NewKeyFits`, `VersionFits`) and that a sub-task stays within its range (`RangesFit`). That there is
  always a vector which nothing of a file mentions (`FreshIvIsFresh`) is a counting argument over finite sets.
* `NoFileIsLostCorrect`, `ReadableCorrect` and `FinishedMeansRotatedCorrect`, from `RotInv`, whose parts hold unless
  something named in `harm` has happened:
  - `MemoryKnows`: in which steps the members of `EncryptionManager` and the rows of the keys agree, and on what;
  - `FileOrder`: what is on the disk opens with the key its row's version stands for, but for the file that is
    being rewritten, and a row is at most one version behind;
  - `TaskOrder`: a file whose row has the old version is still before some sub-task, and before no other one, with
    the row's contents in its `File` object; the ranges do not overlap (this is where `uneven` is needed);
  - `AllNew`: when the old key is let go of, no row has the old version;
  - `OneAtATime`, which also excludes `overlap`: a rotation is not prepared while another one is finishing. Only
    `ReadableOutsideWindows` needs it: the database leads to the right keys even then.

`ServiceManagerProofs` proves, for any services in any order, ends of loops and failing starts:

* `TypeCorrect`: `Spec => []TypeOK`.
* `NoneOutlivesCorrect`: `Spec => []NoneOutlivesTheStop`; `TerminatedByWatchdogCorrect`:
  `Spec => []TerminatedByWatchdog`. Their invariant `UpInv` holds while the process is up: where the main thread and
  the watchdog can be together (`Control`: at most one of them stops services for good, and the main thread only
  after the watchdog has ended), that what was stopped for good stays so (`StoppedStay`), that what is to be
  restarted is down and joined, unless it is FUSE (`DownStay`, `JoinedFirst`), that the first start meets no thread
  (`NotStartedYet`), and that FUSE's loop ends by itself or for good (`FuseEnded`).

`SessionIndexProofs` proves, for any number of sessions, tokens and events:

* `TypeCorrect`: `Spec => [](TypeOK /\ InvalidatesItsOwn)`; the second part, that an invalidation stays with the
  session it began with, is what the other two rest on.
* `OneTokenCorrect`: `Spec => []OneTokenPerSession`. It is inductive with the types: each change of the map by token
  removes what it replaces.
* `OpenIsListedCorrect`: `Spec => []OpenIsListed`. A session leaves the list only in an invalidation, and `OpenIsListed`
  names the places of the code between that and the end of the connection.

`ShareLinksProofs` proves, for any number of visitors, sessions, uploads, names and changes, and any scenarios:

* `TypeCorrect`: `Spec => []TypeOK`, which here has bounds that could fail: the attempts at a challenge, the token of
  the link, the bytes of a connection and the number of uploads the link has counted. The last one needs that a
  handler about to count has a complete upload of its own (`Counted`).
* `CompleteIsStoredCorrect`, `BytesAgreeCorrect`: from `Held`. A connection and its handler alone work at an upload
  (`OneHolder`, `OneHandler`), so connection and row count alike, also when somebody else has ended the upload
  (`BytesCounted`), and a handler at the end of an upload knows that the bytes are all there and, when it asks or
  writes, that the name has a file (`FinishKnows`).
* `UploadsRefined`: `Spec => UploadsKeepToIt`. A step writes the row of one upload, or makes one file, or does neither
  (`OneRowMoves`); a row starts, grows, is done or ends (`UploadRows`), and each of these is a step of
  `UploadLifecycle` (`RowRefines`); so is the file of an upload, because `FinishKnows` has its bytes (`FileRefines`).
  That what has ended stays as it ended is part of it.
* `RotationCorrect`: `Spec => []RotationEndsSessions`.

All of these rest on the assumptions on constants in their modules, which the runs evaluate.

Only model-checked are the liveness properties: `ScheduledIsServed`, `RunNowReturns`, `RotationEnds`,
`SubmittedIsRun`, `ShutdownEndsOrHangs`, `EveryUploadEnds`, `StopEnds`, `DownIsRestarted` and `DeadAreEnded`. They rest
on fairness, which is out of the prover's reach. Every safety invariant and every action property that a run checks
is proved, two of them under the hypothesis `CallsApart`.

## 6. What the checks found

By a run of its own:

* A file created or overwritten after a rotation cannot be read (`rotation_write`).
* A mirror of the bucket never deletes a file that is only in the vault: the planner plans it, and the statement of
  `File::deleteFile` lacks a parameter (`cloud_leftovers`; the exception `CannotDelete` in `RunReconciles`).
* The lifecycle sweep may end the process, when it meets a session in its handshake (`sessions_exit`).

Met while modelling, and part of the models; most are the reason for an exception in a property:

* A vault whose run fails once is never synchronised again in this process (`Local.cpp:138-140`): what
  `DroppedOnlyBehindAnError` is named for, and why `ScheduledIsServed` speaks of vaults that stay scheduled.
* Two calls of `runNow` for one vault that overlap leave the vault with two tasks, of which the map knows one; the
  other runs beside it, and later calls do not interrupt it (`CallsApart`).
* `getTaskOperationRanges` leaves out the last files when the number of files is not a multiple of the number of
  sub-tasks: for five files and two threads the ranges are (0,3) and (2,4). The third file is then in both
  and the fifth in none: it keeps the key that is dropped at the end (`uneven` in `NoFileIsLost`). The instance of
  `rotation` has four files.
* Shutting down may hang: `stop` bounds its wait only in name, and waits for a worker that missed the
  notification (`ThreadPool.cpp:27`) or that was lent by a pool stopped later (`ThreadPool.cpp:39`). Sub-tasks of as many runs as
  the pool has workers are never run. These are the exceptions of `ShutdownEndsOrHangs` and `SubmittedIsRun`.
* For the same reason (`Local.cpp:151-156`) synchronisation may stop for every vault without an error: each worker of
  the pool is in a run that waits for sub-tasks, no vault is served, and `runNow`, which polls the flag of such a run,
  never returns. This is `Starved`, the exception of `ScheduledIsServed` and `RunNowReturns`.
* A file deleted inside a directory of a cloud vault stays in the bucket and comes back; the request deletes the
  file of that name in the top directory instead (`CloudEngine.cpp:231`, `Path.cpp:81`). That is why
  `LastCopyIsKept` names the trash among the ways a last copy goes, and why `TopFilesStayDeleted` speaks of the top
  directory.
* With `encrypt_upstream`, every download replaces the object by its plaintext under the flag of a ciphertext
  (`CloudEngine.cpp:123`). No run can open it any more: the exception `CannotOpen` in `RunReconciles`.
* The body of an HTTP error becomes the contents of
  a file (`Received`, `ErrorAnswer`); a listing that fails half way is taken for the whole bucket (`Index`), and a
  mirror of the vault then sends every file again.
* A file whose inode the kernel has forgotten cannot be looked up by its path until it is created again: `forget`
  evicts it, the next look-up gives the path a new number, and the table has no row of that number (`Look`, `Read`).
  A restart does not help but does the same to every file inside a vault: the cache is restored without them
  (`Registry.cpp:84`, `files.cpp:175-187`), and a look-up by path asks the table for a number it has just made up.
* FUSE's `unlink` leaves the cache as it was, so the entry of a file that is gone is found until its number is
  forgotten (`Trash`).
* The second of two uploads of one name that overlap is complete without a file: `createFile` gives it the file
  of the first (`Filesystem.cpp:412-420`). That is the rival in `CompleteIsStored`.
* A session opened with the old token of a link, and stored after the link's sessions were revoked, lives on; so do
  all when the server stops between the two transactions of `rotateLinkToken` (`missed`, `RotationEndsSessions`).
* FUSE is not restarted once its loop has ended by itself: its `stop` returns without joining the thread, and the
  assignment of a new one ends the process. So does a start that fails on the watchdog's thread, which joins itself
  in `hardFail`. These are the two acts of `TerminatedByWatchdog`.
* Looking a directory up on the way to an allowed path is granted for globs whose wildcards are in the last name;
  past a wildcard the evaluator gives up (`OnlyLastIsWild` in `AllowedIsReachable`).
* Two stars that are part of a name take the slash behind them along: `/a**/b` also matches `/ab` (`Matcher.cpp:56`,
  `StarsApart` in `MatchesBySegments`).
* A link that is created without a role is given implicit deny and opens nothing; it does not fall back on the globs
  that `Share.cpp` can make from a grant, which no principal that `resolvePrincipal` returns ever reaches.
* Half way through `updateLink` the new role holds for the old operations, for good when the second transaction fails
  (`Manager.cpp:828-830`): a change that takes operations away and gives a role with more rights then allows what
  neither setting does. That is the exception in `LinkIsAsAsked`.
* The sweep looks at the revoked flag of the stored token, a rehydration does not: a session that is rehydrated with
  a revoked token lives until the next sweep. An HTTP look-up that races a rotation writes the replaced token back
  into the session, so `OneTokenPerSession` says that a session has one token in the map, not which.
* Several commands on permissions do not do what they are for: `vh vault role override add` stores no rule,
  `override update` writes the rule it has read, `override remove` deletes by the id of the permission, so the
  rules of `VaultPolicy` are those of the calls below the commands. The command that changes a password does not
  write the database.

## 7. Not modelled

`SyncController` knows the run of a cloud vault as stages and no more; what the stages do is in `CloudSync`,
without the remote directories, the space preflight, missing timestamps, moves and the key rotation of objects.
A row with a version that its key does not have is in `KeyRotation` only. Two commands that prepare a
rotation at once, and two runs that rotate the same vault at once, are left out of `KeyRotation`. What a request
handler does before it calls `runNow`, `addVault` or `removeVault` is parsing and permission checks. The data
races on plain members (`runningFlag` is a `bool`) are taken as atomic reads and writes, which is what the
build produces on the supported platforms; so are those on the shared pointers of a session.

Files that programs write through the mount are not in `CloudSync`: they lie in the backing directory in the clear with
no vector in their row, so an upload without `encrypt_upstream`, which decrypts first, throws, and one with it makes an
object flagged as encrypted whose vector is empty. Every file of the vault in `CloudSync` has come over WebSocket or from
the bucket.

`FsCache` has the files of one directory, without directories, renames, moves and copies, sizes, contents and
the accounting of bytes. `SessionIndex` has one user with one browser and leaves out shares, their tokens and the
multimap by user that nobody reads. `ShareLinks` has one challenge for a session and leaves out listing,
downloads, previews, audit events, the rate limiter and the challenge that is started with the public token.
`VaultPolicy` is about one subject: which of a user's roles is asked, group roles and the permissions of
administrators are left out, and paths are normalized. Of links it has the public ones, without the roles of
recipients and the older table of link roles, and one owner whose requests come one after the other. `ServiceManager` leaves out the escalation by `std::raise`,
the services of the tests and the signal handlers that libfuse installs.

The pool of database connections, log rotation, previews and statistics, the parsing and formatting of HTTP, shell
and WebSocket messages, the usage texts, the schema, the web client and the packaging are not modelled: they are
I/O, wording or sequential code without state that another component relies on. They, and the handlers that only
parse a request, check a permission and format an answer, are most of the lines of the repository, which is why
the modelled part is small by lines.
