------------------------------ MODULE FsCache ------------------------------
(***************************************************************************)
(* The cache of file-system entries (fs::cache::Registry) between the FUSE *)
(* bridge, the WebSocket handlers and the table fs_entry, for the files of *)
(* one directory of a vault.                                               *)
(*                                                                         *)
(* The registry maps paths to inode numbers and both to entries, under one *)
(* shared lock; a look-up that misses leaves the lock to ask the database  *)
(* and takes it again to fill the maps, and creations and removals touch   *)
(* table and maps in separate steps.  FUSE requests run on the threads of  *)
(* a pool, WebSocket requests on theirs; only the FUSE createFile holds    *)
(* Filesystem::mutex_.                                                     *)
(*                                                                         *)
(* An entry is told by its path and its number; row ids, sizes, contents   *)
(* and renames are left out.                                               *)
(***************************************************************************)
EXTENDS Naturals, FiniteSets

CONSTANTS
    Paths,        \* the file names
    Threads,      \* the threads that serve requests
    None,         \* no number, path, entry or row
    InoBound,     \* the largest inode number ever assigned
    MaxRestarts   \* how often the server is restarted

ASSUME BoundsAssumption == InoBound \in Nat \ {0} /\ MaxRestarts \in Nat

ASSUME NoneAssumption == None \notin Nat /\ None \notin Paths /\ None \notin Threads

Inos == 2 .. InoBound      \* 1 is FUSE_ROOT_ID

VARIABLES
    row,            \* fs_entry: the inode number by name, unique in the directory
    pathToInode,    \* \
    inodeToPath,    \*  | the maps of the registry; an entry is its number
    pathToEntry,    \*  | (by path) or its path (by number), inodeToId_ goes
    inodeToEntry,   \* /  with inodeToEntry_
    nextInode,
    known,          \* the inode numbers the kernel holds a reference to
    task,           \* the request each thread is serving
    mutex,          \* Filesystem::mutex_: the thread that holds it
    restarts

maps == <<pathToInode, inodeToPath, pathToEntry, inodeToEntry>>
vars == <<row, pathToInode, inodeToPath, pathToEntry, inodeToEntry, nextInode,
          known, task, mutex, restarts>>

Ops    == {"lookup", "unlink", "remove", "create", "upload", "write", "forget"}
Places == {"look", "read", "fill", "act", "exists", "assign", "upsert", "cache",
           "evict"}
Task   == [at : Places, op : Ops, path : Paths \cup {None}, ino : Inos \cup {None}]

TypeOK ==
    /\ row \in [Paths -> Inos \cup {None}]
    /\ pathToInode  \in [Paths -> Inos \cup {None}]
    /\ inodeToPath  \in [Inos -> Paths \cup {None}]
    /\ pathToEntry  \in [Paths -> Inos \cup {None}]
    /\ inodeToEntry \in [Inos -> Paths \cup {None}]
    /\ nextInode \in 2 .. InoBound + 1
    /\ known \subseteq Inos
    /\ task \in [Threads -> Task \cup {None}]
    /\ mutex \in Threads \cup {None}
    /\ restarts \in 0 .. MaxRestarts

-----------------------------------------------------------------------------
(* The registry, each operator under its lock *)

(* getOrAssignInode: the number of path p *)
Number(p) == IF pathToInode[p] # None THEN pathToInode[p] ELSE nextInode

Assign(p) ==
    IF pathToInode[p] # None
       THEN UNCHANGED <<maps, nextInode>>
       ELSE /\ nextInode \in Inos
            /\ nextInode' = nextInode + 1
            /\ pathToInode' = [pathToInode EXCEPT ![p] = nextInode]
            /\ inodeToPath' = [inodeToPath EXCEPT ![nextInode] = p]
            /\ UNCHANGED <<pathToEntry, inodeToEntry>>

(* cacheEntry *)
CacheEntry(p, i) ==
    /\ inodeToPath'  = [inodeToPath EXCEPT ![i] = p]
    /\ inodeToEntry' = [inodeToEntry EXCEPT ![i] = p]
    /\ pathToInode'  = [pathToInode EXCEPT ![p] = i]
    /\ pathToEntry'  = [pathToEntry EXCEPT ![p] = i]

(* Mutant: the entry stays under its path when its number is evicted. *)
EvictNumber(i) ==
    IF inodeToPath[i] = None \/ inodeToEntry[i] = None
       THEN UNCHANGED maps
       ELSE /\ inodeToPath'  = [inodeToPath EXCEPT ![i] = None]
            /\ inodeToEntry' = [inodeToEntry EXCEPT ![i] = None]
            /\ pathToInode'  = [pathToInode EXCEPT ![inodeToPath[i]] = None]
            /\ UNCHANGED pathToEntry

(* evictIno: only what has an entry is dropped *)
EvictIno(i) ==
    IF inodeToPath[i] = None \/ inodeToEntry[i] = None
       THEN UNCHANGED maps
       ELSE /\ inodeToPath'  = [inodeToPath EXCEPT ![i] = None]
            /\ inodeToEntry' = [inodeToEntry EXCEPT ![i] = None]
            /\ pathToInode'  = [pathToInode EXCEPT ![inodeToPath[i]] = None]
            /\ pathToEntry'  = [pathToEntry EXCEPT ![inodeToPath[i]] = None]

Rows     == {p \in Paths : row[p] # None}
RowOf(i) == {p \in Rows : row[p] = i}

Largest(S) == CHOOSE m \in S : \A x \in S : x <= m

(* Mutant: the first free number is the largest one of the table. *)
MaxInode == Largest({2} \cup {row[p] : p \in Rows})

(* Mutant: the first free number comes from the number of rows. *)
RowCount == Cardinality(Rows) + 2

(* get_next_inode *)
NextInode == Largest({1} \cup {row[p] : p \in Rows}) + 1

-----------------------------------------------------------------------------
Init ==
    /\ row = [p \in Paths |-> None]
    /\ pathToInode = [p \in Paths |-> None]
    /\ inodeToPath = [i \in Inos |-> None]
    /\ pathToEntry = [p \in Paths |-> None]
    /\ inodeToEntry = [i \in Inos |-> None]
    /\ nextInode = 2
    /\ known = {}
    /\ task = [t \in Threads |-> None]
    /\ mutex = None
    /\ restarts = 0

At(t, place) == task[t] # None /\ task[t].at = place

Begin(t, place, op, p, i) ==
    task' = [task EXCEPT ![t] = [at |-> place, op |-> op, path |-> p, ino |-> i]]

Go(t, place) == task' = [task EXCEPT ![t].at = place]

Found(t, place, p, i) ==
    task' = [task EXCEPT ![t].at = place, ![t].path = p, ![t].ino = i]

(* the answer; the guard of Filesystem::mutex_ ends with createFile *)
End(t) ==
    /\ task' = [task EXCEPT ![t] = None]
    /\ mutex' = IF mutex = t THEN None ELSE mutex

-----------------------------------------------------------------------------
(* Requests arrive *)

(* lookup and unlink of the bridge, Filesystem::remove: by path *)
ByPath(t, op, p) ==
    /\ Begin(t, "look", op, p, None)
    /\ UNCHANGED <<row, maps, nextInode, known, mutex, restarts>>

(* write and forget, by a number the kernel knows; a hit of getEntry(ino)  *)
(* gives the entry at once.  The kernel forgets before the bridge does.    *)
ByInode(t, op, i) ==
    /\ i \in known
    /\ Begin(t, IF inodeToEntry[i] = None THEN "read" ELSE "act", op,
             inodeToEntry[i], i)
    /\ known' = IF op = "forget" THEN known \ {i} ELSE known
    /\ UNCHANGED <<row, maps, nextInode, mutex, restarts>>

(* createFile: for the bridge ("create", under the mutex) and for an       *)
(* upload through a WebSocket ("upload")                                   *)
Create(t, op, p) ==
    /\ Begin(t, "exists", op, p, None)
    /\ IF op = "create" THEN mutex = None /\ mutex' = t ELSE UNCHANGED mutex
    /\ UNCHANGED <<row, maps, nextInode, known, restarts>>

-----------------------------------------------------------------------------
(* getEntry *)

(* the look at the maps and, after a miss, getOrAssignInode *)
Look(t) ==
    LET p == task[t].path IN
    /\ At(t, "look")
    /\ IF pathToEntry[p] # None
          THEN /\ Found(t, "act", p, pathToEntry[p])
               /\ UNCHANGED <<maps, nextInode>>
          ELSE /\ Assign(p)
               /\ Found(t, "read", p, Number(p))
    /\ UNCHANGED <<row, known, mutex, restarts>>

(* getFSEntryByInode, outside the lock *)
Read(t) ==
    /\ At(t, "read")
    /\ IF RowOf(task[t].ino) = {} THEN End(t)
       ELSE /\ \E p \in RowOf(task[t].ino) : Found(t, "fill", p, task[t].ino)
            /\ UNCHANGED mutex
    /\ UNCHANGED <<row, maps, nextInode, known, restarts>>

Fill(t) ==
    /\ At(t, "fill")
    /\ CacheEntry(task[t].path, task[t].ino)
    /\ Go(t, "act")
    /\ UNCHANGED <<row, nextInode, known, mutex, restarts>>

-----------------------------------------------------------------------------
(* What is done with the entry *)

(* lookup answers with the number of the path *)
Reply(t) ==
    /\ At(t, "act") /\ task[t].op = "lookup"
    /\ Assign(task[t].path)
    /\ known' = known \cup {Number(task[t].path)}
    /\ End(t)
    /\ UNCHANGED <<row, restarts>>

(* markFileAsTrashed; an unlink leaves the maps alone, a remove evicts the *)
(* path; a file that is no longer there is an exception                    *)
Trash(t) ==
    /\ At(t, "act") /\ task[t].op \in {"unlink", "remove"}
    /\ row' = [row EXCEPT ![task[t].path] = None]
    /\ IF task[t].op = "remove" /\ task[t].path \in Rows
          THEN Go(t, "evict") /\ UNCHANGED mutex
          ELSE End(t)
    /\ UNCHANGED <<maps, nextInode, known, restarts>>

(* evictPath finds the number again, forget has it *)
Evict(t) ==
    LET i == IF task[t].op = "remove" THEN pathToInode[task[t].path] ELSE task[t].ino
    IN  /\ \/ At(t, "evict")
           \/ At(t, "act") /\ task[t].op = "forget"
        /\ IF i = None THEN UNCHANGED maps ELSE EvictIno(i)
        /\ End(t)
        /\ UNCHANGED <<row, nextInode, known, restarts>>

(* updateEntry: the row is updated by its number, which is the one it has *)
Write(t) ==
    /\ At(t, "act") /\ task[t].op = "write"
    /\ Go(t, "cache")
    /\ UNCHANGED <<row, maps, nextInode, known, mutex, restarts>>

(* entryExists; an upload that need not overwrite returns the entry *)
Exists(t) ==
    /\ At(t, "exists")
    /\ IF pathToEntry[task[t].path] # None THEN End(t)
       ELSE Go(t, "assign") /\ UNCHANGED mutex
    /\ UNCHANGED <<row, maps, nextInode, known, restarts>>

AssignNumber(t) ==
    /\ At(t, "assign")
    /\ Assign(task[t].path)
    /\ Found(t, "upsert", task[t].path, Number(task[t].path))
    /\ UNCHANGED <<row, known, mutex, restarts>>

(* upsertFile: the row with this number is deleted, the one with this name *)
(* inserted or renumbered                                                  *)
Upsert(t) ==
    /\ At(t, "upsert")
    /\ row' = [p \in Paths |-> IF p = task[t].path THEN task[t].ino
                               ELSE IF row[p] = task[t].ino THEN None ELSE row[p]]
    /\ Go(t, "cache")
    /\ UNCHANGED <<maps, nextInode, known, mutex, restarts>>

(* cacheEntry after an upsert or an update; the bridge's create answers *)
(* with the number                                                      *)
Cache(t) ==
    /\ At(t, "cache")
    /\ CacheEntry(task[t].path, task[t].ino)
    /\ known' = IF task[t].op = "create" THEN known \cup {task[t].ino} ELSE known
    /\ End(t)
    /\ UNCHANGED <<row, nextInode, restarts>>

-----------------------------------------------------------------------------
(* The server dies and starts again: the file system is mounted anew and   *)
(* the constructor reads the first free number and restores the cache.     *)
(* listDir goes down from the root entry through rows of files only, and   *)
(* the root has no files, just the directories of the vaults: not one row  *)
(* of a file is loaded.                                                    *)
Restart ==
    /\ restarts < MaxRestarts
    /\ restarts' = restarts + 1
    /\ nextInode' = NextInode
    /\ pathToInode'  = [p \in Paths |-> None]
    /\ inodeToPath'  = [i \in Inos |-> None]
    /\ pathToEntry'  = [p \in Paths |-> None]
    /\ inodeToEntry' = [i \in Inos |-> None]
    /\ known' = {}
    /\ task' = [t \in Threads |-> None]
    /\ mutex' = None
    /\ UNCHANGED row

Request(t) ==
    /\ task[t] = None
    /\ \/ \E p \in Paths : \/ \E op \in {"lookup", "unlink", "remove"} : ByPath(t, op, p)
                           \/ \E op \in {"create", "upload"} : Create(t, op, p)
       \/ \E i \in known, op \in {"write", "forget"} : ByInode(t, op, i)

Step(t) ==
    \/ Look(t) \/ Read(t) \/ Fill(t) \/ Reply(t) \/ Trash(t) \/ Evict(t)
    \/ Write(t) \/ Exists(t) \/ AssignNumber(t) \/ Upsert(t) \/ Cache(t)

Next == Restart \/ \E t \in Threads : Request(t) \/ Step(t)

Spec == Init /\ [][Next]_vars

-----------------------------------------------------------------------------
(* The numbers by which path p is or was reached since the last mount *)
NumbersOf(p) ==
    {row[p], pathToInode[p], pathToEntry[p]}
      \cup {i \in Inos : p \in {inodeToPath[i], inodeToEntry[i]}}
      \cup {task[t].ino : t \in {u \in Threads : task[u] # None /\ task[u].path = p}}

(* A number is the identity of one file for the kernel: whatever threads   *)
(* create, remove, evict and reload at the same time, no two paths ever    *)
(* share one, in the table, the maps or a request under way.               *)
OneFilePerNumber ==
    \A p, q \in Paths : p # q => NumbersOf(p) \cap NumbersOf(q) \subseteq {None}

(* nextInode_ is past every number in use, also when it was read from the  *)
(* table by a server that starts again and has none of the files in its    *)
(* maps: a new file never gets the number of an old one.                   *)
FreshNumbers ==
    \A i \in Inos :
        i >= nextInode => /\ RowOf(i) = {}
                          /\ i \notin known
                          /\ inodeToPath[i] = None

(* The registry's answers by path and by number agree: an entry found by   *)
(* its path has the number the path resolves to, whoever evicted, renumbered *)
(* or filled the maps in between.                                          *)
MapsAgree ==
    \A p \in Paths :
        pathToEntry[p] # None => /\ pathToInode[p] = pathToEntry[p]
                                 /\ inodeToPath[pathToEntry[p]] \in {p, None}

=============================================================================
