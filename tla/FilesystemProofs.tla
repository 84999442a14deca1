-------------------------- MODULE FilesystemProofs --------------------------
(***************************************************************************)
(* Proofs about the two things a request for a file goes through: the      *)
(* cache of entries and inode numbers (FsCache) and the rules that say who *)
(* may do what to a path (VaultPolicy).  They are about each by itself and *)
(* share only the numbers.                                                 *)
(*                                                                         *)
(* The cache: no inode number ever stands for two files, and the next      *)
(* number is past every one in use, for any names, threads and bounds.     *)
(* Names says that a number is or was an answer for a path; a step adds at *)
(* most one such pair, and then with a number that nobody had.             *)
(*                                                                         *)
(* The policy: edits of rules act as they look, what a rule allows can be  *)
(* reached, and a share link allows what its owner has set, for any globs, *)
(* paths and roles.  A list of rules is told by its order, a   *)
(* match by the table of the places in the path that each token of the     *)
(* glob may begin at; whatever the program finds by recursion the proofs   *)
(* find as a least place at which it would fail.  The same table, read at  *)
(* the slashes only, shows that a glob means what its segments say.        *)
(***************************************************************************)
EXTENDS FsCache, VaultPolicy, TLAPS, FiniteSetTheorems, WellFoundedInduction,
        SequenceTheorems, Integers

-----------------------------------------------------------------------------
(* The cache of entries. *)

Serving(t, p, i) == task[t] # None /\ task[t].path = p /\ task[t].ino = i

OnMaps(p, i) ==
    \/ row[p] = i \/ pathToInode[p] = i \/ pathToEntry[p] = i
    \/ inodeToPath[i] = p \/ inodeToEntry[i] = p

Names(p, i) == OnMaps(p, i) \/ \E t \in Threads : Serving(t, p, i)

(* What a step may leave behind: a pair that was there, or path q with a new number. *)
Comes(p, i, q) == Names(p, i) \/ (p = q /\ i = nextInode /\ nextInode' = nextInode + 1)

OnePath == \A p, q \in Paths, i \in Inos : Names(p, i) /\ Names(q, i) => p = q

Below == /\ \A p \in Paths, i \in Inos : Names(p, i) => i < nextInode
         /\ \A i \in known : i < nextInode

(* Where a request is tells what it has found. *)
RequestOK ==
    \A t \in Threads : task[t] # None =>
        /\ task[t].at # "read" => task[t].path \in Paths
        /\ task[t].at \notin {"look", "exists", "assign"} => task[t].ino \in Inos

CacheInv == TypeOK /\ RequestOK /\ OnePath /\ Below

-----------------------------------------------------------------------------
(* Numbers. *)

(* A set of numbers that is not empty has a least one. *)
LEMMA LeastExists ==
  ASSUME NEW A \in SUBSET Nat, A # {}
  PROVE  \E m \in A : \A x \in A : m <= x
<1>1. IsWellFoundedOn(OpToRel(<, Nat), Nat)
  BY NatLessThanWellFounded
<1>2. \E m \in A : \A y \in A : ~ (<<y, m>> \in OpToRel(<, Nat))
  BY ONLY <1>1, WFMin, A \in SUBSET Nat, A # {}
<1>3. PICK m \in A : \A y \in A : ~ (<<y, m>> \in OpToRel(<, Nat))
  BY <1>2
<1>4. \A y \in A : ~ y < m
  BY <1>3 DEF OpToRel
<1> QED
  BY <1>4

LEMMA MinIsLeast ==
  ASSUME NEW A \in SUBSET Nat, A # {}
  PROVE  Min(A) \in A /\ \A x \in A : Min(A) <= x
  BY LeastExists DEF Min

(* A set of numbers with a bound has a largest one. *)
LEMMA LargestIsLargest ==
  ASSUME NEW n \in Nat, NEW A \in SUBSET (0 .. n), A # {}
  PROVE  Largest(A) \in A /\ \A x \in A : x <= Largest(A)
<1> DEFINE B == {n - x : x \in A}
<1>1. B \subseteq Nat /\ B # {}
  <2>1. \A x \in A : x \in Nat /\ x <= n
    OBVIOUS
  <2>2. \A x \in A : n - x \in Nat
    BY <2>1
  <2>3. PICK x \in A : TRUE
    OBVIOUS
  <2>4. n - x \in B
    BY <2>3
  <2> QED BY <2>2, <2>4
<1>2. PICK m \in B : \A y \in B : m <= y
  <2> HIDE DEF B
  <2> QED BY <1>1, LeastExists
<1>3. m \in Nat
  BY <1>1, <1>2
<1>4. PICK a \in A : m = n - a
  BY <1>2
<1>5. \A x \in A : x <= a
  BY <1>2, <1>3, <1>4
<1> QED BY <1>5 DEF Largest

(* get_next_inode: past every number of the table. *)
LEMMA NextInodeIsNew ==
  ASSUME TypeOK
  PROVE  /\ NextInode \in 2 .. InoBound + 1
         /\ \A p \in Paths, i \in Inos : row[p] = i => i < NextInode
<1> DEFINE A == {1} \cup {row[p] : p \in Rows}
<1>1. \A p \in Rows : row[p] \in Inos
  BY DEF TypeOK, Rows
<1>2. A \in SUBSET (0 .. InoBound) /\ A # {} /\ 1 \in A
  BY <1>1, BoundsAssumption DEF Inos
<1>3. Largest(A) \in A /\ \A x \in A : x <= Largest(A)
  <2> HIDE DEF A
  <2> QED BY <1>2, LargestIsLargest, BoundsAssumption
<1>4. Largest(A) \in 1 .. InoBound /\ NextInode = Largest(A) + 1
  BY <1>2, <1>3, BoundsAssumption DEF NextInode
<1>5. ASSUME NEW p \in Paths, NEW i \in Inos, row[p] = i
      PROVE  i < NextInode
  <2>1. p \in Rows /\ i \in A
    BY <1>5, NoneAssumption DEF Rows, Inos
  <2> QED BY <2>1, <1>3, <1>4, BoundsAssumption DEF Inos
<1> QED BY <1>4, <1>5, BoundsAssumption

(* What is right of the pairs stays so when a step adds none but of a new number. *)
LEMMA NewPairKeepsInv ==
  ASSUME CacheInv, TypeOK', NEW q,
         nextInode' \in {nextInode, nextInode + 1},
         \A p \in Paths, i \in Inos : Names(p, i)' => Comes(p, i, q),
         \A i \in known' : i \in known \/ \E p \in Paths : Comes(p, i, q)
  PROVE  OnePath' /\ Below'
<1>1. nextInode \in Nat /\ \A i \in Inos : i \in Nat
  BY BoundsAssumption DEF CacheInv, TypeOK, Inos
<1>2. known' \subseteq Inos
  BY DEF TypeOK
<1>3. OnePath'
  BY <1>1 DEF CacheInv, OnePath, Below, Comes
<1>4. Below'
  BY <1>1, <1>2 DEF CacheInv, Below, Comes
<1> QED BY <1>3, <1>4

-----------------------------------------------------------------------------
(* Steps. *)

LEMMA InitInv == Init => CacheInv
<1> SUFFICES ASSUME Init PROVE CacheInv
  OBVIOUS
<1>1. TypeOK
  BY BoundsAssumption DEF Init, TypeOK
<1>2. RequestOK
  BY DEF Init, RequestOK
<1>3. \A p \in Paths, i \in Inos : ~ Names(p, i)
  BY NoneAssumption DEF Init, Names, OnMaps, Serving, Inos
<1> QED BY <1>1, <1>2, <1>3 DEF CacheInv, OnePath, Below, Init

LEMMA AssignTypes ==
  ASSUME TypeOK, NEW p \in Paths, Assign(p)
  PROVE  /\ nextInode' \in 2 .. InoBound + 1
         /\ nextInode' \in {nextInode, nextInode + 1}
         /\ pathToInode'  \in [Paths -> Inos \cup {None}]
         /\ inodeToPath'  \in [Inos -> Paths \cup {None}]
         /\ pathToEntry' = pathToEntry /\ inodeToEntry' = inodeToEntry
         /\ Number(p) \in Inos
         /\ pathToInode'[p] = Number(p)
         /\ \A q \in Paths : pathToInode'[q] # pathToInode[q] =>
               q = p /\ pathToInode'[q] = nextInode /\ nextInode' = nextInode + 1
         /\ \A i \in Inos : inodeToPath'[i] # inodeToPath[i] =>
               i = nextInode /\ inodeToPath'[i] = p /\ nextInode' = nextInode + 1
         /\ \/ Number(p) = pathToInode[p]
            \/ Number(p) = nextInode /\ nextInode' = nextInode + 1
<1>1. CASE pathToInode[p] # None
  BY <1>1 DEF Assign, Number, TypeOK, maps
<1>2. CASE pathToInode[p] = None
  <2>1. /\ nextInode \in Inos /\ nextInode' = nextInode + 1 /\ Number(p) = nextInode
        /\ pathToInode' = [pathToInode EXCEPT ![p] = nextInode]
        /\ inodeToPath' = [inodeToPath EXCEPT ![nextInode] = p]
        /\ pathToEntry' = pathToEntry /\ inodeToEntry' = inodeToEntry
    BY <1>2 DEF Assign, Number
  <2>2. nextInode' \in 2 .. InoBound + 1
    BY <2>1, BoundsAssumption DEF Inos
  <2> QED BY <2>1, <2>2 DEF TypeOK
<1> QED BY <1>1, <1>2

LEMMA CacheTypes ==
  ASSUME TypeOK, NEW p \in Paths, NEW i \in Inos, CacheEntry(p, i)
  PROVE  /\ pathToInode'  \in [Paths -> Inos \cup {None}]
         /\ inodeToPath'  \in [Inos -> Paths \cup {None}]
         /\ pathToEntry'  \in [Paths -> Inos \cup {None}]
         /\ inodeToEntry' \in [Inos -> Paths \cup {None}]
BY DEF CacheEntry, TypeOK

LEMMA EvictTypes ==
  ASSUME TypeOK, NEW i \in Inos, EvictIno(i)
  PROVE  /\ pathToInode'  \in [Paths -> Inos \cup {None}]
         /\ inodeToPath'  \in [Inos -> Paths \cup {None}]
         /\ pathToEntry'  \in [Paths -> Inos \cup {None}]
         /\ inodeToEntry' \in [Inos -> Paths \cup {None}]
         /\ \A p \in Paths : /\ pathToInode'[p] \in {pathToInode[p], None}
                             /\ pathToEntry'[p] \in {pathToEntry[p], None}
         /\ \A j \in Inos : /\ inodeToPath'[j] \in {inodeToPath[j], None}
                            /\ inodeToEntry'[j] \in {inodeToEntry[j], None}
BY DEF EvictIno, TypeOK, maps

(* A thread's request, and nothing else, moves on. *)
LEMMA TaskTypes ==
  ASSUME TypeOK, NEW t \in Threads, NEW r \in Task \cup {None},
         task' = [task EXCEPT ![t] = r],
         RequestOK,
         r # None => /\ r.at # "read" => r.path \in Paths
                     /\ r.at \notin {"look", "exists", "assign"} => r.ino \in Inos
  PROVE  task' \in [Threads -> Task \cup {None}] /\ RequestOK'
BY DEF TypeOK, RequestOK

LEMMA AtIsTask ==
  ASSUME TypeOK, RequestOK, NEW t \in Threads, NEW place, At(t, place)
  PROVE  /\ task[t] \in Task /\ task[t] # None /\ task[t].at = place
         /\ task[t].at # "read" => task[t].path \in Paths
         /\ task[t].at \notin {"look", "exists", "assign"} => task[t].ino \in Inos
BY DEF TypeOK, RequestOK, At

LEMMA RequestInv ==
  ASSUME CacheInv, NEW t \in Threads, Request(t)
  PROVE  CacheInv'
<1> USE DEF CacheInv
<1>1. PICK r \in Task : /\ task[t] = None /\ task' = [task EXCEPT ![t] = r]
                        /\ r.at # "read" => r.path \in Paths
                        /\ r.at \notin {"look", "exists", "assign"} => r.ino \in Inos
                        /\ r.ino # None /\ r.path # None => Names(r.path, r.ino)
  <2>1. ASSUME NEW p \in Paths, NEW op \in {"lookup", "unlink", "remove"}, ByPath(t, op, p)
        PROVE  \E r \in Task : /\ task[t] = None /\ task' = [task EXCEPT ![t] = r]
                               /\ r.at # "read" => r.path \in Paths
                               /\ r.at \notin {"look", "exists", "assign"} => r.ino \in Inos
                               /\ r.ino # None /\ r.path # None => Names(r.path, r.ino)
    <3> DEFINE r == [at |-> "look", op |-> op, path |-> p, ino |-> None]
    <3>1. r \in Task /\ r.path \in Paths /\ r.at = "look" /\ r.ino = None
      BY DEF Task, Places, Ops
    <3>2. task[t] = None /\ task' = [task EXCEPT ![t] = r]
      BY <2>1 DEF ByPath, Begin, Request
    <3> HIDE DEF r
    <3> QED BY <3>1, <3>2
  <2>2. ASSUME NEW p \in Paths, NEW op \in {"create", "upload"}, Create(t, op, p)
        PROVE  \E r \in Task : /\ task[t] = None /\ task' = [task EXCEPT ![t] = r]
                               /\ r.at # "read" => r.path \in Paths
                               /\ r.at \notin {"look", "exists", "assign"} => r.ino \in Inos
                               /\ r.ino # None /\ r.path # None => Names(r.path, r.ino)
    <3> DEFINE r == [at |-> "exists", op |-> op, path |-> p, ino |-> None]
    <3>1. r \in Task /\ r.path \in Paths /\ r.at = "exists" /\ r.ino = None
      BY DEF Task, Places, Ops
    <3>2. task[t] = None /\ task' = [task EXCEPT ![t] = r]
      BY <2>2 DEF Create, Begin, Request
    <3> HIDE DEF r
    <3> QED BY <3>1, <3>2
  <2>3. ASSUME NEW i \in known, NEW op \in {"write", "forget"}, ByInode(t, op, i)
        PROVE  \E r \in Task : /\ task[t] = None /\ task' = [task EXCEPT ![t] = r]
                               /\ r.at # "read" => r.path \in Paths
                               /\ r.at \notin {"look", "exists", "assign"} => r.ino \in Inos
                               /\ r.ino # None /\ r.path # None => Names(r.path, r.ino)
    <3> DEFINE r == [at |-> IF inodeToEntry[i] = None THEN "read" ELSE "act",
                     op |-> op, path |-> inodeToEntry[i], ino |-> i]
    <3>1. r \in Task /\ (r.at # "read" => r.path \in Paths) /\ r.ino \in Inos
      BY <2>3 DEF TypeOK, Task, Places, Ops
    <3>2. task[t] = None /\ task' = [task EXCEPT ![t] = r]
      BY <2>3 DEF ByInode, Begin, Request
    <3>3. Names(r.path, r.ino)
      BY DEF Names, OnMaps
    <3> QED BY <3>1, <3>2, <3>3
  <2> QED BY <2>1, <2>2, <2>3 DEF Request
<1>2. /\ UNCHANGED <<row, maps, nextInode, restarts>> /\ known' \subseteq known
      /\ mutex' \in Threads \cup {None}
  BY DEF Request, ByPath, ByInode, Create, TypeOK
<1>3. task' \in [Threads -> Task \cup {None}] /\ RequestOK'
  BY <1>1, TaskTypes
<1>4. TypeOK'
  BY <1>2, <1>3 DEF TypeOK, maps
<1>5. \A p \in Paths, i \in Inos : Names(p, i)' => Names(p, i)
  <2> SUFFICES ASSUME NEW p \in Paths, NEW i \in Inos, Names(p, i)' PROVE Names(p, i)
    OBVIOUS
  <2>1. CASE \E u \in Threads : Serving(u, p, i)'
    BY <2>1, <1>1, NoneAssumption DEF Serving, Names, Inos, TypeOK
  <2> QED BY <2>1, <1>2 DEF Names, OnMaps, maps
<1>6. OnePath' /\ Below'
  BY <1>2, <1>4, <1>5, NewPairKeepsInv DEF Comes
<1> QED BY <1>3, <1>4, <1>6

(* A thread's step, from what it does to its request, the table and the maps: a pair of a
   path and a number comes in only as one that is there, or with a new number for path q. *)
MapTypes ==
    /\ row \in [Paths -> Inos \cup {None}]
    /\ pathToInode  \in [Paths -> Inos \cup {None}]
    /\ inodeToPath  \in [Inos -> Paths \cup {None}]
    /\ pathToEntry  \in [Paths -> Inos \cup {None}]
    /\ inodeToEntry \in [Inos -> Paths \cup {None}]

RequestFits(r, q) ==
    r # None => /\ r.at # "read" => r.path \in Paths
                /\ r.at \notin {"look", "exists", "assign"} => r.ino \in Inos
                /\ r.ino # None /\ r.path # None => Comes(r.path, r.ino, q)

Rest ==
    /\ mutex' \in Threads \cup {None} /\ restarts' = restarts
    /\ nextInode' \in 2 .. InoBound + 1
    /\ nextInode' \in {nextInode, nextInode + 1}

KnownFits(q) ==
    \A i \in known' : i \in Inos /\ (i \in known \/ \E p \in Paths : Comes(p, i, q))

MapsFit(q) == \A p \in Paths, i \in Inos : OnMaps(p, i)' => Comes(p, i, q)

LEMMA StepKeepsInv ==
  ASSUME CacheInv, NEW t \in Threads, NEW r \in Task \cup {None}, NEW q,
         task' = [task EXCEPT ![t] = r], RequestFits(r, q),
         Rest, KnownFits(q), MapTypes', MapsFit(q)
  PROVE  CacheInv'
<1>1. task' \in [Threads -> Task \cup {None}] /\ RequestOK'
  BY TaskTypes DEF CacheInv, RequestFits
<1>2. TypeOK'
  BY <1>1 DEF TypeOK, CacheInv, MapTypes, Rest, KnownFits
<1>3. ASSUME NEW p \in Paths, NEW i \in Inos, Names(p, i)'
      PROVE  Comes(p, i, q)
  <2>1. CASE \E u \in Threads : Serving(u, p, i)'
    <3>1. PICK u \in Threads : task'[u] # None /\ task'[u].path = p /\ task'[u].ino = i
      BY <2>1 DEF Serving
    <3>2. CASE u = t
      <4>1. task'[u] = r
        BY <3>2 DEF CacheInv, TypeOK
      <4> QED BY <3>1, <4>1, NoneAssumption DEF Inos, RequestFits
    <3>3. CASE u # t
      <4>1. task'[u] = task[u]
        BY <3>3 DEF CacheInv, TypeOK
      <4> QED BY <3>1, <4>1 DEF Names, Serving, Comes
    <3> QED BY <3>2, <3>3
  <2> QED BY <2>1, <1>3 DEF Names, MapsFit
<1>4. \A p \in Paths, i \in Inos : Names(p, i)' => Comes(p, i, q)
  BY <1>3
<1>5. OnePath' /\ Below'
  BY <1>2, <1>4, NewPairKeepsInv DEF Rest, KnownFits
<1> QED BY <1>1, <1>2, <1>5 DEF CacheInv
-----------------------------------------------------------------------------
(* One lemma for each step of a request. *)

LEMMA GoIs ==
  ASSUME TypeOK, NEW t \in Threads, task[t] \in Task, NEW place \in Places
  PROVE  \E r \in Task : /\ r.at = place /\ r.path = task[t].path /\ r.ino = task[t].ino
                         /\ Go(t, place) => task' = [task EXCEPT ![t] = r]
<1> DEFINE r == [task[t] EXCEPT !.at = place]
<1>1. r \in Task /\ r.at = place /\ r.path = task[t].path /\ r.ino = task[t].ino
  BY DEF Task
<1>2. [task EXCEPT ![t].at = place] = [task EXCEPT ![t] = r]
  BY DEF TypeOK
<1> QED BY <1>1, <1>2 DEF Go

LEMMA FoundIs ==
  ASSUME TypeOK, NEW t \in Threads, task[t] \in Task, NEW place \in Places,
         NEW p \in Paths, NEW i \in Inos
  PROVE  \E r \in Task : /\ r.at = place /\ r.path = p /\ r.ino = i
                         /\ Found(t, place, p, i) => task' = [task EXCEPT ![t] = r]
<1> DEFINE r == [task[t] EXCEPT !.at = place, !.path = p, !.ino = i]
<1>1. r \in Task /\ r.at = place /\ r.path = p /\ r.ino = i
  BY DEF Task
<1>2. [task EXCEPT ![t].at = place, ![t].path = p, ![t].ino = i] = [task EXCEPT ![t] = r]
  BY DEF TypeOK
<1> QED BY <1>1, <1>2 DEF Found

(* The answer. *)
LEMMA EndInv ==
  ASSUME CacheInv, NEW t \in Threads, End(t), restarts' = restarts, NEW q,
         nextInode' \in 2 .. InoBound + 1, nextInode' \in {nextInode, nextInode + 1},
         KnownFits(q), MapTypes', MapsFit(q)
  PROVE  CacheInv'
<1>1. task' = [task EXCEPT ![t] = None] /\ Rest
  BY DEF End, Rest, CacheInv, TypeOK
<1>2. RequestFits(None, q)
  BY DEF RequestFits
<1> QED BY <1>1, <1>2, StepKeepsInv

(* What a thread has found it keeps, when it goes elsewhere. *)
LEMMA GoInv ==
  ASSUME CacheInv, NEW t \in Threads, task[t] \in Task, task[t] # None, NEW place \in Places,
         Go(t, place), NEW q, task[t].path \in Paths,
         task[t].ino \in Inos \/ place \in {"look", "exists", "assign"},
         Rest, KnownFits(q), MapTypes', MapsFit(q)
  PROVE  CacheInv'
<1>1. PICK r \in Task : /\ r.at = place /\ r.path = task[t].path /\ r.ino = task[t].ino
                        /\ task' = [task EXCEPT ![t] = r]
  BY GoIs DEF CacheInv
<1>2. RequestFits(r, q)
  BY <1>1 DEF RequestFits, Comes, Names, Serving
<1> QED BY <1>1, <1>2, StepKeepsInv

LEMMA FoundInv ==
  ASSUME CacheInv, NEW t \in Threads, task[t] \in Task, NEW place \in Places,
         NEW p \in Paths, NEW i \in Inos, Found(t, place, p, i), NEW q, Comes(p, i, q),
         Rest, KnownFits(q), MapTypes', MapsFit(q)
  PROVE  CacheInv'
<1>1. PICK r \in Task : /\ r.at = place /\ r.path = p /\ r.ino = i
                        /\ task' = [task EXCEPT ![t] = r]
  BY FoundIs DEF CacheInv
<1>2. RequestFits(r, q)
  BY <1>1 DEF RequestFits
<1> QED BY <1>1, <1>2, StepKeepsInv

(* What the three lemmas ask of the parts a step leaves alone. *)
LEMMA AloneFits ==
  ASSUME CacheInv, NEW q
  PROVE  /\ UNCHANGED <<row, maps>> => MapTypes' /\ MapsFit(q)
         /\ UNCHANGED <<mutex, nextInode, restarts>> => Rest
         /\ UNCHANGED known => KnownFits(q)
<1>1. TypeOK /\ nextInode \in 2 .. InoBound + 1
  BY DEF CacheInv, TypeOK
<1>2. UNCHANGED <<row, maps>> => MapTypes' /\ MapsFit(q)
  BY <1>1 DEF TypeOK, MapTypes, MapsFit, OnMaps, Comes, Names, maps
<1>3. UNCHANGED <<mutex, nextInode, restarts>> => Rest
  BY <1>1 DEF TypeOK, Rest
<1>4. UNCHANGED known => KnownFits(q)
  BY <1>1 DEF TypeOK, KnownFits
<1> QED BY <1>2, <1>3, <1>4

LEMMA AssignFits ==
  ASSUME CacheInv, NEW p \in Paths, Assign(p), row' = row
  PROVE  /\ Number(p) \in Inos /\ Comes(p, Number(p), p)
         /\ MapTypes' /\ MapsFit(p)
         /\ nextInode' \in 2 .. InoBound + 1 /\ nextInode' \in {nextInode, nextInode + 1}
<1>1. TypeOK
  BY DEF CacheInv
<1>2. Number(p) \in Inos /\ Comes(p, Number(p), p)
  BY <1>1, AssignTypes DEF Comes, Names, OnMaps
<1>3. MapTypes'
  BY <1>1, AssignTypes DEF MapTypes, TypeOK
<1>4. ASSUME NEW r \in Paths, NEW i \in Inos, OnMaps(r, i)'
      PROVE  Comes(r, i, p)
  BY <1>1, <1>4, AssignTypes DEF OnMaps, Comes, Names
<1> QED BY <1>1, <1>2, <1>3, <1>4, AssignTypes DEF MapsFit

LEMMA CacheFits ==
  ASSUME CacheInv, NEW p \in Paths, NEW i \in Inos, NEW q, CacheEntry(p, i), Names(p, i), row' = row
  PROVE  MapTypes' /\ MapsFit(q)
<1>1. TypeOK
  BY DEF CacheInv
<1>2. MapTypes'
  BY <1>1, CacheTypes DEF MapTypes, TypeOK
<1>3. ASSUME NEW r \in Paths, NEW j \in Inos, OnMaps(r, j)'
      PROVE  Names(r, j)
  BY <1>1, <1>3 DEF CacheEntry, OnMaps, Names, TypeOK
<1> QED BY <1>2, <1>3 DEF MapsFit, Comes

LEMMA LookInv ==
  ASSUME CacheInv, NEW t \in Threads, Look(t)
  PROVE  CacheInv'
<1> DEFINE p == task[t].path
<1>1. TypeOK /\ RequestOK
  BY DEF CacheInv
<1>2. At(t, "look") /\ UNCHANGED <<row, known, mutex, restarts>>
  BY DEF Look
<1>3. task[t] \in Task /\ p \in Paths /\ KnownFits(p)
  BY <1>1, <1>2, AtIsTask, AloneFits
<1>4. "act" \in Places /\ "read" \in Places
  BY DEF Places
<1>5. CASE pathToEntry[p] # None
  <2>1. Found(t, "act", p, pathToEntry[p]) /\ UNCHANGED <<maps, nextInode>>
    BY <1>5 DEF Look
  <2>2. pathToEntry[p] \in Inos /\ Comes(p, pathToEntry[p], p)
    BY <1>1, <1>3, <1>5 DEF TypeOK, Comes, Names, OnMaps
  <2>3. MapTypes' /\ MapsFit(p) /\ Rest
    BY <1>2, <2>1, AloneFits
  <2> HIDE DEF p
  <2> QED BY <1>3, <1>4, <2>1, <2>2, <2>3, FoundInv
<1>6. CASE pathToEntry[p] = None
  <2>1. Assign(p) /\ Found(t, "read", p, Number(p))
    BY <1>6 DEF Look
  <2> HIDE DEF p
  <2>2. /\ Number(p) \in Inos /\ Comes(p, Number(p), p) /\ MapTypes' /\ MapsFit(p)
        /\ nextInode' \in 2 .. InoBound + 1 /\ nextInode' \in {nextInode, nextInode + 1}
    BY <1>2, <1>3, <2>1, AssignFits
  <2>3. Rest
    BY <1>1, <1>2, <2>2 DEF Rest, TypeOK
  <2> QED BY <1>3, <1>4, <2>1, <2>2, <2>3, FoundInv
<1> QED BY <1>5, <1>6

LEMMA ReadInv ==
  ASSUME CacheInv, NEW t \in Threads, Read(t)
  PROVE  CacheInv'
<1> DEFINE i == task[t].ino
<1>1. At(t, "read") /\ UNCHANGED <<row, maps, nextInode, known, restarts>>
  BY DEF Read
<1>2. task[t] \in Task /\ i \in Inos
  BY <1>1, AtIsTask DEF CacheInv
<1>3. CASE RowOf(i) = {}
  <2>1. End(t) /\ restarts' = restarts
    BY <1>3, <1>1 DEF Read
  <2>2. nextInode' \in 2 .. InoBound + 1 /\ nextInode' = nextInode
    BY <1>1 DEF CacheInv, TypeOK
  <2> HIDE DEF i
  <2> QED BY <1>1, <2>1, <2>2, AloneFits, EndInv
<1>4. CASE RowOf(i) # {}
  <2>1. PICK p \in RowOf(i) : Found(t, "fill", p, i)
    BY <1>4 DEF Read
  <2>2. p \in Paths /\ row[p] = i /\ mutex' = mutex
    BY <1>4 DEF RowOf, Rows, Read
  <2> HIDE DEF i
  <2>3. Comes(p, i, p) /\ "fill" \in Places
    BY <2>2 DEF Comes, Names, OnMaps, Places
  <2>4. Rest /\ KnownFits(p) /\ MapTypes' /\ MapsFit(p)
    BY <1>1, <2>2, AloneFits
  <2> QED BY <1>2, <2>1, <2>2, <2>3, <2>4, FoundInv
<1> QED BY <1>3, <1>4

LEMMA FillInv ==
  ASSUME CacheInv, NEW t \in Threads, Fill(t)
  PROVE  CacheInv'
<1> DEFINE p == task[t].path
           i == task[t].ino
<1>1. /\ At(t, "fill") /\ CacheEntry(p, i) /\ Go(t, "act")
      /\ UNCHANGED <<row, nextInode, known, mutex, restarts>>
  BY DEF Fill
<1>2. task[t] \in Task /\ task[t] # None /\ p \in Paths /\ i \in Inos
  BY <1>1, AtIsTask DEF CacheInv
<1>3. Names(p, i) /\ "act" \in Places
  BY <1>2 DEF Names, Serving, Places
<1>4. MapTypes' /\ MapsFit(p)
  <2> HIDE DEF p, i
  <2> QED BY <1>1, <1>2, <1>3, CacheFits
<1>5. Rest /\ KnownFits(p)
  BY <1>1, AloneFits
<1> QED BY <1>1, <1>2, <1>3, <1>4, <1>5, GoInv

LEMMA ReplyInv ==
  ASSUME CacheInv, NEW t \in Threads, Reply(t)
  PROVE  CacheInv'
<1> DEFINE p == task[t].path
<1>1. /\ At(t, "act") /\ Assign(p) /\ known' = known \cup {Number(p)} /\ End(t)
      /\ UNCHANGED <<row, restarts>>
  BY DEF Reply
<1>2. p \in Paths
  BY <1>1, AtIsTask DEF CacheInv
<1> HIDE DEF p
<1>3. /\ Number(p) \in Inos /\ Comes(p, Number(p), p) /\ MapTypes' /\ MapsFit(p)
      /\ nextInode' \in 2 .. InoBound + 1 /\ nextInode' \in {nextInode, nextInode + 1}
  BY <1>1, <1>2, AssignFits
<1>4. KnownFits(p)
  BY <1>1, <1>2, <1>3 DEF KnownFits, CacheInv, TypeOK
<1> QED BY <1>1, <1>3, <1>4, EndInv

LEMMA TrashInv ==
  ASSUME CacheInv, NEW t \in Threads, Trash(t)
  PROVE  CacheInv'
<1> DEFINE p == task[t].path
<1>1. /\ At(t, "act") /\ row' = [row EXCEPT ![p] = None]
      /\ UNCHANGED <<maps, nextInode, known, restarts>>
  BY DEF Trash
<1>2. task[t] \in Task /\ task[t] # None /\ p \in Paths /\ task[t].ino \in Inos
  BY <1>1, AtIsTask DEF CacheInv
<1>3. KnownFits(p)
  BY <1>1, AloneFits
<1>4. MapTypes'
  BY <1>1, <1>2 DEF CacheInv, TypeOK, MapTypes, maps
<1>5. MapsFit(p)
  <2> SUFFICES ASSUME NEW r \in Paths, NEW j \in Inos, OnMaps(r, j)' PROVE OnMaps(r, j)
    BY DEF MapsFit, Comes, Names
  <2>1. row'[r] = j => row[r] = j
    BY <1>1, <1>2, NoneAssumption DEF CacheInv, TypeOK, Inos
  <2> QED BY <1>1, <2>1 DEF OnMaps, maps
<1>6. nextInode' \in 2 .. InoBound + 1 /\ nextInode' = nextInode
  BY <1>1 DEF CacheInv, TypeOK
<1>7. CASE End(t)
  BY <1>1, <1>3, <1>4, <1>5, <1>6, <1>7, EndInv
<1>8. CASE Go(t, "evict") /\ UNCHANGED mutex
  <2>1. Rest /\ "evict" \in Places
    BY <1>1, <1>8, AloneFits DEF Places
  <2> QED BY <1>2, <1>3, <1>4, <1>5, <1>8, <2>1, GoInv
<1> QED BY <1>7, <1>8 DEF Trash

LEMMA EvictInv ==
  ASSUME CacheInv, NEW t \in Threads, Evict(t)
  PROVE  CacheInv'
<1> DEFINE i == IF task[t].op = "remove" THEN pathToInode[task[t].path] ELSE task[t].ino
<1>1. /\ At(t, "evict") \/ At(t, "act")
      /\ IF i = None THEN UNCHANGED maps ELSE EvictIno(i)
      /\ End(t) /\ UNCHANGED <<row, nextInode, known, restarts>>
  BY DEF Evict
<1>2. task[t].path \in Paths /\ task[t].ino \in Inos
  BY <1>1, AtIsTask DEF CacheInv
<1>3. i = None \/ i \in Inos
  BY <1>2 DEF CacheInv, TypeOK
<1> HIDE DEF i
<1>4. MapTypes' /\ MapsFit(None)
  <2>1. CASE UNCHANGED maps
    BY <1>1, <2>1, AloneFits
  <2>2. CASE i \in Inos /\ EvictIno(i)
    <3>1. MapTypes'
      BY <1>1, <2>2, EvictTypes DEF CacheInv, TypeOK, MapTypes
    <3>2. ASSUME NEW r \in Paths, NEW j \in Inos, OnMaps(r, j)'
          PROVE  OnMaps(r, j)
      BY <1>1, <2>2, <3>2, EvictTypes, NoneAssumption DEF CacheInv, OnMaps, Inos
    <3> QED BY <3>1, <3>2 DEF MapsFit, Comes, Names
  <2> QED BY <1>1, <1>3, <2>1, <2>2
<1>5. nextInode' \in 2 .. InoBound + 1 /\ nextInode' = nextInode
  BY <1>1 DEF CacheInv, TypeOK
<1> QED BY <1>1, <1>4, <1>5, AloneFits, EndInv

LEMMA WriteInv ==
  ASSUME CacheInv, NEW t \in Threads, Write(t)
  PROVE  CacheInv'
<1>1. /\ At(t, "act") /\ Go(t, "cache")
      /\ UNCHANGED <<row, maps, nextInode, known, mutex, restarts>>
  BY DEF Write
<1>2. task[t] \in Task /\ task[t] # None /\ task[t].path \in Paths /\ task[t].ino \in Inos
  BY <1>1, AtIsTask DEF CacheInv
<1>3. Rest /\ KnownFits(None) /\ MapTypes' /\ MapsFit(None) /\ "cache" \in Places
  BY <1>1, AloneFits DEF Places
<1> QED BY <1>1, <1>2, <1>3, GoInv

LEMMA ExistsInv ==
  ASSUME CacheInv, NEW t \in Threads, Exists(t)
  PROVE  CacheInv'
<1>1. At(t, "exists") /\ UNCHANGED <<row, maps, nextInode, known, restarts>>
  BY DEF Exists
<1>2. task[t] \in Task /\ task[t] # None /\ task[t].path \in Paths
  BY <1>1, AtIsTask DEF CacheInv
<1>3. KnownFits(None) /\ MapTypes' /\ MapsFit(None) /\ "assign" \in Places
  BY <1>1, AloneFits DEF Places
<1>4. nextInode' \in 2 .. InoBound + 1 /\ nextInode' = nextInode
  BY <1>1 DEF CacheInv, TypeOK
<1>5. CASE End(t)
  BY <1>1, <1>3, <1>4, <1>5, EndInv
<1>6. CASE Go(t, "assign") /\ UNCHANGED mutex
  BY <1>1, <1>2, <1>3, <1>6, AloneFits, GoInv
<1> QED BY <1>5, <1>6 DEF Exists

LEMMA AssignNumberInv ==
  ASSUME CacheInv, NEW t \in Threads, AssignNumber(t)
  PROVE  CacheInv'
<1> DEFINE p == task[t].path
<1>1. /\ At(t, "assign") /\ Assign(p) /\ Found(t, "upsert", p, Number(p))
      /\ UNCHANGED <<row, known, mutex, restarts>>
  BY DEF AssignNumber
<1>2. task[t] \in Task /\ p \in Paths
  BY <1>1, AtIsTask DEF CacheInv
<1> HIDE DEF p
<1>3. /\ Number(p) \in Inos /\ Comes(p, Number(p), p) /\ MapTypes' /\ MapsFit(p)
      /\ nextInode' \in 2 .. InoBound + 1 /\ nextInode' \in {nextInode, nextInode + 1}
  BY <1>1, <1>2, AssignFits
<1>4. Rest /\ KnownFits(p) /\ "upsert" \in Places
  BY <1>1, <1>3, AloneFits DEF Rest, CacheInv, TypeOK, Places
<1> QED BY <1>1, <1>2, <1>3, <1>4, FoundInv

LEMMA UpsertInv ==
  ASSUME CacheInv, NEW t \in Threads, Upsert(t)
  PROVE  CacheInv'
<1> DEFINE p == task[t].path
           i == task[t].ino
<1>1. /\ At(t, "upsert") /\ Go(t, "cache")
      /\ row' = [q \in Paths |-> IF q = p THEN i ELSE IF row[q] = i THEN None ELSE row[q]]
      /\ UNCHANGED <<maps, nextInode, known, mutex, restarts>>
  BY DEF Upsert
<1>2. task[t] \in Task /\ task[t] # None /\ p \in Paths /\ i \in Inos
  BY <1>1, AtIsTask DEF CacheInv
<1>3. Names(p, i) /\ "cache" \in Places
  BY <1>2 DEF Names, Serving, Places
<1>4. MapTypes'
  BY <1>1, <1>2 DEF CacheInv, TypeOK, MapTypes, maps
<1>5. MapsFit(p)
  <2> SUFFICES ASSUME NEW r \in Paths, NEW j \in Inos, OnMaps(r, j)' PROVE Names(r, j)
    BY DEF MapsFit, Comes
  <2>1. row'[r] = j => row[r] = j \/ (r = p /\ j = i)
    BY <1>1, NoneAssumption DEF Inos
  <2>2. CASE row'[r] = j
    BY <1>3, <2>1, <2>2 DEF Names, OnMaps
  <2>3. CASE row'[r] # j
    BY <1>1, <2>3 DEF Names, OnMaps, maps
  <2> QED BY <2>2, <2>3
<1>6. Rest /\ KnownFits(p)
  BY <1>1, AloneFits
<1> QED BY <1>1, <1>2, <1>3, <1>4, <1>5, <1>6, GoInv

LEMMA CacheActionInv ==
  ASSUME CacheInv, NEW t \in Threads, Cache(t)
  PROVE  CacheInv'
<1> DEFINE p == task[t].path
           i == task[t].ino
<1>1. /\ At(t, "cache") /\ CacheEntry(p, i) /\ End(t) /\ known' \subseteq known \cup {i}
      /\ UNCHANGED <<row, nextInode, restarts>>
  BY DEF Cache
<1>2. task[t] \in Task /\ task[t] # None /\ p \in Paths /\ i \in Inos
  BY <1>1, AtIsTask DEF CacheInv
<1>3. Names(p, i)
  BY <1>2 DEF Names, Serving
<1> HIDE DEF p, i
<1>4. MapTypes' /\ MapsFit(p)
  BY <1>1, <1>2, <1>3, CacheFits
<1>5. KnownFits(p)
  BY <1>1, <1>2, <1>3 DEF KnownFits, Comes, CacheInv, TypeOK
<1>6. nextInode' \in 2 .. InoBound + 1 /\ nextInode' = nextInode
  BY <1>1 DEF CacheInv, TypeOK
<1> QED BY <1>1, <1>4, <1>5, <1>6, EndInv

(* A server that starts again finds its numbers in the table and nowhere else. *)
LEMMA RestartInv ==
  ASSUME CacheInv, Restart
  PROVE  CacheInv'
<1>1. TypeOK
  BY DEF CacheInv
<1>2. /\ NextInode \in 2 .. InoBound + 1
      /\ \A p \in Paths, i \in Inos : row[p] = i => i < NextInode
  BY <1>1, NextInodeIsNew
<1>3. TypeOK'
  <2>1. restarts' \in 0 .. MaxRestarts
    BY <1>1, BoundsAssumption DEF Restart, TypeOK
  <2> QED BY <1>1, <1>2, <2>1 DEF Restart, TypeOK
<1>4. RequestOK'
  BY DEF Restart, RequestOK
<1>5. \A p \in Paths, i \in Inos : Names(p, i)' => row[p] = i
  BY NoneAssumption DEF Restart, Names, OnMaps, Serving, Inos
<1>6. OnePath'
  BY <1>5 DEF CacheInv, OnePath, Names, OnMaps
<1>7. Below'
  BY <1>2, <1>5 DEF Restart, Below
<1> QED BY <1>3, <1>4, <1>6, <1>7 DEF CacheInv

-----------------------------------------------------------------------------
(* The results. *)

(* In every reachable state the variables are well typed, a number stands for one path at
   most, and the next number is past all (Registry, Filesystem::createFile, Bridge). *)
THEOREM InodeInvariant == Spec => []CacheInv
<1>1. Init => CacheInv
  BY InitInv
<1>2. CacheInv /\ [Next]_vars => CacheInv'
  <2> SUFFICES ASSUME CacheInv, [Next]_vars PROVE CacheInv'
    OBVIOUS
  <2>1. CASE Restart
    BY <2>1, RestartInv
  <2>2. ASSUME NEW t \in Threads, Request(t) PROVE CacheInv'
    BY <2>2, RequestInv
  <2>3. ASSUME NEW t \in Threads, Step(t) PROVE CacheInv'
    BY <2>3, LookInv, ReadInv, FillInv, ReplyInv, TrashInv, EvictInv, WriteInv, ExistsInv,
       AssignNumberInv, UpsertInv, CacheActionInv DEF Step
  <2>4. CASE UNCHANGED vars
    BY <2>4 DEF vars, CacheInv, TypeOK, RequestOK, OnePath, Below, Names, OnMaps, Serving
  <2> QED BY <2>1, <2>2, <2>3, <2>4 DEF Next
<1> QED BY <1>1, <1>2, PTL DEF Spec

(* The variables keep their types. *)
THEOREM TypeCorrect == Spec => []TypeOK
BY InodeInvariant, PTL DEF CacheInv

(* Two files never share an inode number, in the table, the maps or a request
   (getOrAssignInode, cacheEntry, evictIno, upsertFile). *)
THEOREM OneFilePerNumberHolds == Spec => []OneFilePerNumber
<1>1. CacheInv => OneFilePerNumber
  <2> SUFFICES ASSUME CacheInv, NEW p \in Paths, NEW q \in Paths, p # q,
                      NEW i, i \in NumbersOf(p), i \in NumbersOf(q)
               PROVE  i = None
    BY DEF OneFilePerNumber
  <2>1. ASSUME NEW r \in Paths, i \in NumbersOf(r) PROVE i = None \/ (i \in Inos /\ Names(r, i))
    BY <2>1 DEF NumbersOf, CacheInv, TypeOK, Names, OnMaps, Serving, Task
  <2> QED BY <2>1 DEF CacheInv, OnePath
<1> QED BY <1>1, InodeInvariant, PTL

(* The number the next new file gets is past every number in use, also after a restart
   (get_next_inode, the constructor of Registry). *)
THEOREM FreshNumbersHolds == Spec => []FreshNumbers
<1>1. CacheInv => FreshNumbers
  <2> SUFFICES ASSUME CacheInv, NEW i \in Inos, i >= nextInode
               PROVE  RowOf(i) = {} /\ i \notin known /\ inodeToPath[i] = None
    BY DEF FreshNumbers
  <2>1. nextInode \in Nat /\ i \in Nat
    BY BoundsAssumption DEF CacheInv, TypeOK, Inos
  <2>2. \A p \in Paths : ~ Names(p, i)
    BY <2>1 DEF CacheInv, Below
  <2>3. i \notin known
    BY <2>1 DEF CacheInv, Below
  <2> QED BY <2>2, <2>3 DEF RowOf, Rows, Names, OnMaps, CacheInv, TypeOK
<1> QED BY <1>1, InodeInvariant, PTL

EntryHasNumber == \A p \in Paths : pathToEntry[p] # None => pathToInode[p] = pathToEntry[p]

LEMMA EntryHasNumberIsKept ==
  ASSUME TypeOK, RequestOK, EntryHasNumber, [Next]_vars
  PROVE  EntryHasNumber'
<1> SUFFICES ASSUME NEW p \in Paths, pathToEntry'[p] # None
             PROVE  pathToInode'[p] = pathToEntry'[p]
  BY DEF EntryHasNumber
<1>1. CASE UNCHANGED <<pathToInode, pathToEntry>>
  BY <1>1 DEF EntryHasNumber
<1>2. CASE Restart
  BY <1>2 DEF Restart
<1>3. ASSUME NEW q \in Paths, Assign(q)
      PROVE  pathToInode'[p] = pathToEntry'[p]
  BY <1>3 DEF Assign, EntryHasNumber, TypeOK, maps
<1>4. ASSUME NEW q \in Paths, NEW i, CacheEntry(q, i)
      PROVE  pathToInode'[p] = pathToEntry'[p]
  BY <1>4 DEF CacheEntry, EntryHasNumber, TypeOK
<1>5. ASSUME NEW i, EvictIno(i)
      PROVE  pathToInode'[p] = pathToEntry'[p]
  BY <1>5 DEF EvictIno, EntryHasNumber, TypeOK, maps
<1>6. ASSUME NEW t \in Threads, Request(t)
      PROVE  UNCHANGED <<pathToInode, pathToEntry>>
  BY <1>6 DEF Request, ByPath, ByInode, Create, maps
<1>7. ASSUME NEW t \in Threads, Step(t)
      PROVE  \/ UNCHANGED <<pathToInode, pathToEntry>>
             \/ \E q \in Paths : Assign(q) \/ \E i : CacheEntry(q, i)
             \/ \E i : EvictIno(i)
  <2>1. \A place : At(t, place) /\ place # "read" => task[t].path \in Paths
    BY AtIsTask
  <2>2. CASE Look(t) \/ Reply(t) \/ AssignNumber(t)
    BY <2>1, <2>2 DEF Look, Reply, AssignNumber, maps
  <2>3. CASE Fill(t) \/ Cache(t)
    BY <2>1, <2>3 DEF Fill, Cache
  <2>4. CASE Evict(t)
    BY <2>4 DEF Evict, maps
  <2>5. CASE Read(t) \/ Trash(t) \/ Write(t) \/ Exists(t) \/ Upsert(t)
    BY <2>5 DEF Read, Trash, Write, Exists, Upsert, maps
  <2> QED BY <1>7, <2>2, <2>3, <2>4, <2>5 DEF Step
<1> QED BY <1>1, <1>2, <1>3, <1>4, <1>5, <1>6, <1>7 DEF Next, vars

(* What is cached under a path is what the path resolves to, and its number leads back to
   no other path (cacheEntry, getOrAssignInode, evictIno). *)
THEOREM MapsAgreeHolds == Spec => []MapsAgree
<1>1. Init => EntryHasNumber
  BY DEF Init, EntryHasNumber
<1>2. CacheInv => TypeOK /\ RequestOK
  BY DEF CacheInv
<1>3. CacheInv /\ EntryHasNumber => MapsAgree
  <2> SUFFICES ASSUME CacheInv, EntryHasNumber, NEW p \in Paths, pathToEntry[p] # None
               PROVE  inodeToPath[pathToEntry[p]] \in {p, None}
    BY DEF MapsAgree, EntryHasNumber
  <2>1. pathToEntry[p] \in Inos /\ Names(p, pathToEntry[p])
    BY DEF CacheInv, TypeOK, Names, OnMaps
  <2> QED BY <2>1 DEF CacheInv, OnePath, TypeOK, Names, OnMaps
<1> QED BY <1>1, <1>2, <1>3, InodeInvariant, EntryHasNumberIsKept, PTL DEF Spec

-----------------------------------------------------------------------------
(* The policy: lists and choices. *)

(* Of finitely many elements one is the best, whatever "better" means, if it is transitive
   and nothing is better than itself. *)
LEMMA BestExists ==
  ASSUME NEW S, IsFiniteSet(S), S # {}, NEW better,
         \A x \in S : <<x, x>> \notin better,
         \A x, y, z \in S : <<x, y>> \in better /\ <<y, z>> \in better => <<x, z>> \in better
  PROVE  \E x \in S : \A y \in S : <<y, x>> \notin better
<1> DEFINE Above(x) == {y \in S : <<y, x>> \in better}
           rank == [x \in S |-> Cardinality(Above(x))]
<1>1. \A x \in S : IsFiniteSet(Above(x)) /\ Cardinality(Above(x)) \in Nat
  BY FS_Subset, FS_CardinalityType
<1>2. rank \in [S -> Nat]
  BY <1>1
<1>3. ASSUME NEW x \in S, NEW y \in S, <<y, x>> \in better
      PROVE  rank[y] < rank[x]
  <2>1. Above(y) \subseteq Above(x)
    BY <1>3
  <2>2. y \in Above(x) /\ y \notin Above(y)
    BY <1>3
  <2> DEFINE A == Above(x)
             B == Above(y)
  <2>3. IsFiniteSet(A) /\ Cardinality(A) \in Nat /\ Cardinality(B) \in Nat
    BY <1>1
  <2>4. rank[x] = Cardinality(A) /\ rank[y] = Cardinality(B)
    OBVIOUS
  <2> HIDE DEF A, B, rank, Above
  <2>5. B \in SUBSET A /\ A # B
    BY <2>1, <2>2 DEF A, B
  <2>6. Cardinality(B) <= Cardinality(A) /\ Cardinality(A) # Cardinality(B)
    BY <2>3, <2>5, FS_Subset
  <2> QED
    BY <2>3, <2>4, <2>6
<1> HIDE DEF rank
<1> DEFINE Ranks == {rank[x] : x \in S}
<1>4. Ranks \in SUBSET Nat /\ Ranks # {}
  BY <1>2
<1>5. PICK x \in S : \A y \in S : rank[x] <= rank[y]
  <2>1. PICK m \in Ranks : \A n \in Ranks : m <= n
    BY <1>4, LeastExists
  <2> QED
    BY <2>1
<1>6. ASSUME NEW y \in S, <<y, x>> \in better
      PROVE  FALSE
  <2>1. rank[y] < rank[x] /\ rank[x] <= rank[y]
    BY <1>3, <1>5, <1>6
  <2> QED
    BY <1>2, <2>1
<1> QED
  BY <1>6

(* Finitely many elements can be listed in an order that tells any two of them apart. *)
LEMMA ListExists ==
  ASSUME NEW S, IsFiniteSet(S), NEW before,
         \A x \in S : <<x, x>> \notin before,
         \A x, y, z \in S : <<x, y>> \in before /\ <<y, z>> \in before => <<x, z>> \in before,
         \A x, y \in S : x # y => <<x, y>> \in before \/ <<y, x>> \in before
  PROVE  \E list \in [1 .. Cardinality(S) -> S] :
            /\ \A i, j \in 1 .. Cardinality(S) : i < j => <<list[i], list[j]>> \in before
            /\ \A x \in S : \E i \in 1 .. Cardinality(S) : list[i] = x
<1> DEFINE n == Cardinality(S)
           Upto(x) == {y \in S : y = x \/ <<y, x>> \in before}
           place == [x \in S |-> Cardinality(Upto(x))]
<1>1. n \in Nat
  BY FS_CardinalityType
<1>2. \A x \in S : /\ IsFiniteSet(Upto(x)) /\ Cardinality(Upto(x)) \in Nat
                   /\ Cardinality(Upto(x)) <= n /\ x \in Upto(x)
  BY FS_Subset, FS_CardinalityType
<1>3. \A x \in S : Cardinality(Upto(x)) # 0
  BY <1>2, FS_EmptySet
<1>4. place \in [S -> 1 .. n]
  BY <1>1, <1>2, <1>3
<1>5. ASSUME NEW x \in S, NEW y \in S, <<x, y>> \in before
      PROVE  place[x] < place[y]
  <2> DEFINE A == Upto(x)
             B == Upto(y)
  <2>1. A \subseteq B
    BY <1>5
  <2>2. y \in B /\ y \notin A
    BY <1>5
  <2>3. IsFiniteSet(B) /\ Cardinality(A) \in Nat /\ Cardinality(B) \in Nat
    BY <1>2
  <2>4. place[x] = Cardinality(A) /\ place[y] = Cardinality(B)
    OBVIOUS
  <2> HIDE DEF A, B, place, Upto
  <2>5. Cardinality(A) <= Cardinality(B) /\ Cardinality(A) # Cardinality(B)
    BY <2>1, <2>2, <2>3, FS_Subset
  <2> QED
    BY <2>3, <2>4, <2>5
<1>6. ASSUME NEW x \in S, NEW y \in S, place[x] = place[y]
      PROVE  x = y
  <2> HIDE DEF place
  <2>1. ~ (place[x] < place[y]) /\ ~ (place[y] < place[x])
    BY <1>4, <1>6
  <2> QED
    BY <1>5, <2>1
<1>7. place \in Surjection(S, 1 .. n)
  <2>1. place \in Injection(S, 1 .. n)
    BY <1>4, <1>6 DEF Injection, IsInjective
  <2>2. IsFiniteSet(1 .. n) /\ Cardinality(1 .. n) = n
    BY <1>1, FS_Interval
  <2> QED
    BY <2>1, <2>2, FS_Injection
<1>8. \A i \in 1 .. n : \E x \in S : place[x] = i
  BY <1>7 DEF Surjection
<1> DEFINE list == [i \in 1 .. n |-> CHOOSE x \in S : place[x] = i]
<1>9. \A i \in 1 .. n : list[i] \in S /\ place[list[i]] = i
  BY <1>8
<1>10. \A x \in S : place[x] \in 1 .. n /\ list[place[x]] = x
  BY <1>4, <1>6, <1>9
<1>11. list \in [1 .. n -> S]
  BY <1>9
<1> HIDE DEF list, place
<1>12. ASSUME NEW i \in 1 .. n, NEW j \in 1 .. n, i < j
       PROVE  <<list[i], list[j]>> \in before
  <2>1. list[i] # list[j]
    BY <1>9, <1>12
  <2>2. CASE <<list[j], list[i]>> \in before
    <3>1. place[list[j]] < place[list[i]]
      BY <1>5, <1>9, <2>2
    <3> QED
      BY <1>9, <1>12, <3>1
  <2> QED
    BY <1>9, <2>1, <2>2
<1> QED
  BY <1>10, <1>11, <1>12

-----------------------------------------------------------------------------
(* The order of the rules, and which of two rules decides. *)

LEMMA IndexFinds ==
  ASSUME NEW S, NEW seq \in Seq(S), NEW x \in ToSet(seq)
  PROVE  Index(seq, x) \in 1 .. Len(seq) /\ seq[Index(seq, x)] = x
  BY DEF Index, ToSet

LEMMA RuleIndices ==
  ASSUME NEW r \in Rules
  PROVE  /\ Index(Permissions, r.permission) \in Nat /\ Index(Globs, r.glob) \in Nat
         /\ Permissions[Index(Permissions, r.permission)] = r.permission
         /\ Globs[Index(Globs, r.glob)] = r.glob
<1>1. r.permission \in ToSet(Permissions) /\ r.glob \in ToSet(Globs)
  BY DEF Rules
<1>2. Permissions \in Seq(ToSet(Permissions)) /\ Globs \in Seq(ToSet(Globs))
  BY RulesAssumption
<1>3. /\ Index(Permissions, r.permission) \in 1 .. Len(Permissions)
      /\ Permissions[Index(Permissions, r.permission)] = r.permission
  BY ONLY <1>1, <1>2, IndexFinds
<1>4. /\ Index(Globs, r.glob) \in 1 .. Len(Globs)
      /\ Globs[Index(Globs, r.glob)] = r.glob
  BY ONLY <1>1, <1>2, IndexFinds
<1> QED
  BY <1>3, <1>4

(* The listing orders rules by permission and glob, and a role has one rule for both. *)
LEMMA BeforeIsAnOrder ==
  /\ \A r \in Rules : ~ Before(r, r)
  /\ \A r, s \in Rules : ~ (Before(r, s) /\ Before(s, r))
  /\ \A r, s, t \in Rules : Before(r, s) /\ Before(s, t) => Before(r, t)
  /\ \A r, s \in Rules :
        Before(r, s) \/ Before(s, r) \/ (r.permission = s.permission /\ r.glob = s.glob)
<1> DEFINE P(r) == Index(Permissions, r.permission)
           G(r) == Index(Globs, r.glob)
<1>1. \A r \in Rules : /\ P(r) \in Nat /\ G(r) \in Nat
                       /\ Permissions[P(r)] = r.permission /\ Globs[G(r)] = r.glob
  BY RuleIndices
<1>2. \A r, s : Before(r, s) <=> P(r) < P(s) \/ (P(r) = P(s) /\ G(r) < G(s))
  BY DEF Before
<1> HIDE DEF P, G
<1>3. \A r, s \in Rules :
         Before(r, s) \/ Before(s, r) \/ (r.permission = s.permission /\ r.glob = s.glob)
  BY <1>1, <1>2
<1>4. /\ \A r \in Rules : ~ Before(r, r)
      /\ \A r, s \in Rules : ~ (Before(r, s) /\ Before(s, r))
  BY <1>1, <1>2
<1>5. ASSUME NEW r \in Rules, NEW s \in Rules, NEW t \in Rules, Before(r, s), Before(s, t)
      PROVE  Before(r, t)
  BY <1>1, <1>2, <1>5
<1> QED
  BY <1>3, <1>4, <1>5

(* The list of a role's rules has every rule once, in order. *)
LEMMA ListedIsOrdered ==
  ASSUME NEW stored \in SUBSET Rules, IsFiniteSet(stored), OnePerKey(stored)
  PROVE  LET n == Cardinality(stored)
             list == Listed(stored)
         IN  /\ n \in Nat /\ list \in [1 .. n -> stored]
             /\ \A i, j \in 1 .. n : i < j => Before(list[i], list[j])
             /\ \A r \in stored : \E i \in 1 .. n : list[i] = r
<1> DEFINE n == Cardinality(stored)
           before == {p \in stored \X stored : Before(p[1], p[2])}
           Good(list) == \A i, j \in 1 .. n : i < j => Before(list[i], list[j])
<1>1. n \in Nat
  BY FS_CardinalityType
<1>2. \A r, s \in stored : <<r, s>> \in before <=> Before(r, s)
  OBVIOUS
<1>3. /\ \A r \in stored : <<r, r>> \notin before
      /\ \A r, s, t \in stored : <<r, s>> \in before /\ <<s, t>> \in before => <<r, t>> \in before
      /\ \A r, s \in stored : r # s => <<r, s>> \in before \/ <<s, r>> \in before
  <2>1. \A r \in stored : r \in Rules
    OBVIOUS
  <2> HIDE DEF before
  <2> QED
    BY <1>2, <2>1, BeforeIsAnOrder DEF OnePerKey
<1> HIDE DEF before
<1>4. \E list \in [1 .. n -> stored] :
         \A i, j \in 1 .. n : i < j => <<list[i], list[j]>> \in before
  BY <1>3, ListExists
<1>5. \E list \in [1 .. n -> stored] : \A i, j \in DOMAIN list : i < j => Before(list[i], list[j])
  BY <1>2, <1>4
<1>6. Listed(stored) \in [1 .. n -> stored] /\ Good(Listed(stored))
  BY <1>5 DEF Listed
<1>7. Listed(stored) \in Injection(1 .. n, stored)
  <2> DEFINE l == Listed(stored)
  <2> HIDE DEF l, n
  <2>1. ASSUME NEW i \in 1 .. n, NEW j \in 1 .. n, l[i] = l[j], i # j
        PROVE  FALSE
    <3>1. l[i] \in Rules /\ l[j] \in Rules
      BY <1>6 DEF l
    <3>2. Before(l[i], l[j]) \/ Before(l[j], l[i])
      BY <1>1, <1>6, <2>1 DEF l
    <3> QED
      BY <2>1, <3>1, <3>2, BeforeIsAnOrder
  <2> QED
    BY <1>6, <2>1 DEF l, Injection, IsInjective
<1>8. Listed(stored) \in Surjection(1 .. n, stored)
  <2>1. IsFiniteSet(1 .. n) /\ Cardinality(1 .. n) = n
    BY <1>1, FS_Interval
  <2> QED
    BY <1>7, <2>1, FS_Injection
<1> QED
  BY <1>1, <1>6, <1>8 DEF Surjection

(* What names are written with, the characters special to globs among it. *)
Chars == STRING \cup {"/", "*", "?"}

LEMMA TextIsChars ==
  ASSUME NEW s \in Seq(STRING)
  PROVE  s \in Seq(Chars)
<1>1. STRING \subseteq Chars
  BY DEF Chars
<1> QED
  BY <1>1, SeqMonotonic

(* The score of a glob is a number. *)
LEMMA ScoreIsANumber ==
  ASSUME NEW glob \in Seq(Chars)
  PROVE  Score(glob) \in Nat
<1> DEFINE D == 1 .. Len(glob)
           L == {k \in Starts(glob) : glob[k] \notin Special}
           C == {k \in D : glob[k] \notin {"*", "?"}}
           Q == {k \in D : glob[k] = "?"}
<1>1. IsFiniteSet(D)
  BY FS_Interval
<1>2. L \in SUBSET D /\ C \in SUBSET D /\ Q \in SUBSET D
  BY DEF Starts
<1> HIDE DEF D, L, C, Q
<1>3. Cardinality(L) \in Nat /\ Cardinality(C) \in Nat /\ Cardinality(Q) \in Nat
  BY <1>1, <1>2, FS_Subset, FS_CardinalityType
<1> QED
  BY <1>3 DEF Score, L, C, Q, D

(* findBestOverride finds a rule, when one fits, and no other that fits scores more. *)
LEMMA DecisiveIsBest ==
  ASSUME NEW n \in Nat, NEW list, NEW fitting \in SUBSET (1 .. n), fitting # {},
         \A i \in 1 .. n : Score(list[i].glob) \in Nat
  PROVE  LET d == Decisive(list, fitting)
         IN  /\ d \in fitting
             /\ \A j \in fitting : \/ Score(list[d].glob) > Score(list[j].glob)
                                   \/ Score(list[d].glob) = Score(list[j].glob) /\ d <= j
<1> DEFINE S(i) == Score(list[i].glob)
           better == {p \in fitting \X fitting :
                         S(p[1]) > S(p[2]) \/ (S(p[1]) = S(p[2]) /\ p[1] < p[2])}
<1>1. \A i, j \in fitting :
         <<i, j>> \in better <=> S(i) > S(j) \/ (S(i) = S(j) /\ i < j)
  OBVIOUS
<1>2. \A i \in fitting : S(i) \in Nat /\ i \in Nat
  OBVIOUS
<1> HIDE DEF better, S
<1>3. IsFiniteSet(fitting)
  <2>1. IsFiniteSet(1 .. n)
    BY FS_Interval
  <2> QED
    BY <2>1, FS_Subset
<1>4. /\ \A i \in fitting : <<i, i>> \notin better
      /\ \A i, j, k \in fitting : <<i, j>> \in better /\ <<j, k>> \in better => <<i, k>> \in better
  BY <1>1, <1>2
<1>5. PICK i \in fitting : \A j \in fitting : <<j, i>> \notin better
  BY <1>3, <1>4, BestExists
<1>6. ASSUME NEW j \in fitting
      PROVE  S(i) > S(j) \/ (S(i) = S(j) /\ i <= j)
  <2>1. ~ (S(j) > S(i)) /\ ~ (S(j) = S(i) /\ j < i)
    BY <1>1, <1>5
  <2>2. S(i) \in Nat /\ S(j) \in Nat /\ i \in Nat /\ j \in Nat
    BY <1>2
  <2> QED
    BY <2>1, <2>2
<1> QED
  BY <1>6 DEF Decisive, S

(* The rules that speak of a request, and which of two of them decides. *)
FittingRules(stored, request) ==
    {r \in stored : r.enabled /\ SpeaksOf(r, request.action) /\ Matches(r.glob, request.path)}

Outranks(r, s) ==
    Score(r.glob) > Score(s.glob) \/ (Score(r.glob) = Score(s.glob) /\ Before(r, s))

LEMMA RuleScores ==
  ASSUME NEW r \in Rules
  PROVE  Score(r.glob) \in Nat
<1>1. r.glob \in ToSet(Globs)
  BY DEF Rules
<1>2. r.glob \in Seq(STRING)
  BY <1>1, RulesAssumption DEF IsGlob
<1> QED
  BY <1>2, TextIsChars, ScoreIsANumber

LEMMA OneOutranks ==
  ASSUME NEW r \in Rules, NEW s \in Rules
  PROVE  ~ (Outranks(r, s) /\ Outranks(s, r))
<1>1. Score(r.glob) \in Nat /\ Score(s.glob) \in Nat
  BY RuleScores
<1>2. ~ (Before(r, s) /\ Before(s, r))
  BY BeforeIsAnOrder
<1> QED
  BY <1>1, <1>2 DEF Outranks

(* resolveStage in terms of the rules: the one that outranks the others decides. *)
LEMMA StageDecides ==
  ASSUME NEW stored \in SUBSET Rules, IsFiniteSet(stored), OnePerKey(stored),
         NEW base, NEW request
  PROVE  LET fits == FittingRules(stored, request)
         IN  /\ fits = {} => (StageAllows(Listed(stored), base, request)
                                <=> AllowedByBase(base, request.directory, request.action))
             /\ fits # {} => \E r \in fits :
                    /\ StageAllows(Listed(stored), base, request) <=> r.effect = "ALLOW"
                    /\ \A s \in fits : s = r \/ Outranks(r, s)
<1> DEFINE fits == FittingRules(stored, request)
           list == Listed(stored)
           n == Cardinality(stored)
           F == Fitting(list, request.action, request.path)
           d == Decisive(list, F)
<1>1. /\ n \in Nat /\ list \in [1 .. n -> stored]
      /\ \A i, j \in 1 .. n : i < j => Before(list[i], list[j])
      /\ \A r \in stored : \E i \in 1 .. n : list[i] = r
  BY ListedIsOrdered
<1>2. StageAllows(list, base, request)
        <=> IF F # {} THEN list[d].effect = "ALLOW"
                      ELSE AllowedByBase(base, request.directory, request.action)
  BY DEF StageAllows
<1> HIDE DEF list, n
<1>3. F \in SUBSET (1 .. n) /\ \A i \in 1 .. n : i \in F <=> list[i] \in fits
  BY <1>1 DEF Fitting, FittingRules
<1>4. \A r \in fits : \E i \in F : list[i] = r
  <2>1. \A r \in fits : r \in stored
    BY DEF FittingRules
  <2> QED
    BY <1>1, <1>3, <2>1
<1>5. fits = {} <=> F = {}
  BY <1>3, <1>4
<1>6. ASSUME F # {}
      PROVE  list[d] \in fits /\ \A s \in fits : s = list[d] \/ Outranks(list[d], s)
  <2>1. \A i \in 1 .. n : Score(list[i].glob) \in Nat
    BY <1>1, RuleScores
  <2> HIDE DEF F, fits
  <2>2. /\ d \in F
        /\ \A j \in F : \/ Score(list[d].glob) > Score(list[j].glob)
                        \/ Score(list[d].glob) = Score(list[j].glob) /\ d <= j
    <3>1. n \in Nat /\ F \in SUBSET (1 .. n) /\ F # {}
      BY <1>1, <1>3, <1>6
    <3> QED
      BY ONLY <2>1, <3>1, DecisiveIsBest
  <2> HIDE DEF d
  <2>3. ASSUME NEW s \in fits
        PROVE  s = list[d] \/ Outranks(list[d], s)
    <3>1. PICK j \in F : list[j] = s
      BY <1>4
    <3>2. j \in 1 .. n /\ d \in 1 .. n
      BY <1>3, <2>2
    <3>3. CASE Score(list[d].glob) > Score(list[j].glob)
      BY <3>1, <3>3 DEF Outranks
    <3>4. CASE Score(list[d].glob) = Score(list[j].glob) /\ d <= j
      <4>1. d = j \/ d < j
        BY <3>2, <3>4
      <4> QED
        BY <1>1, <3>1, <3>2, <3>4, <4>1 DEF Outranks
    <3> QED
      BY <2>2, <3>3, <3>4
  <2> QED
    BY <1>3, <2>2, <2>3
<1> HIDE DEF F, d, fits
<1>7. ASSUME fits # {}
      PROVE  \E r \in fits : /\ StageAllows(list, base, request) <=> r.effect = "ALLOW"
                             /\ \A s \in fits : s = r \/ Outranks(r, s)
  <2>1. F # {}
    BY <1>5, <1>7
  <2>2. StageAllows(list, base, request) <=> list[d].effect = "ALLOW"
    BY <1>2, <2>1
  <2> QED
    BY <1>6, <2>1, <2>2
<1> QED
  BY <1>2, <1>5, <1>7 DEF fits, list

(* What decides with fewer rules that allow and more that deny decided alike before. *)
LEMMA StageShrinks ==
  ASSUME NEW old \in SUBSET Rules, IsFiniteSet(old), OnePerKey(old),
         NEW new \in SUBSET Rules, IsFiniteSet(new), OnePerKey(new),
         Stricter(old, new), NEW wide, NEW base, base \subseteq wide, NEW request,
         StageAllows(Listed(new), base, request)
  PROVE  StageAllows(Listed(old), wide, request)
<1> DEFINE Fo == FittingRules(old, request)
           Fn == FittingRules(new, request)
<1>1. \A r \in Fn : r.effect = "ALLOW" => r \in Fo
  BY DEF FittingRules, Stricter, Of
<1>2. \A r \in Fo : r.effect = "DENY" => r \in Fn
  BY DEF FittingRules, Stricter, Of
<1>3. \A r \in Fo \cup Fn : r \in Rules /\ (r.effect = "ALLOW" \/ r.effect = "DENY")
  BY DEF FittingRules, Rules, Effects
<1> HIDE DEF Fo, Fn
<1>4. CASE Fn = {}
  <2>1. AllowedByBase(wide, request.directory, request.action)
    <3>1. AllowedByBase(base, request.directory, request.action)
      BY <1>4, StageDecides DEF Fn
    <3> QED
      BY <3>1 DEF AllowedByBase
  <2>2. CASE Fo = {}
    BY <2>1, <2>2, StageDecides DEF Fo
  <2>3. CASE Fo # {}
    <3>1. PICK r \in Fo : StageAllows(Listed(old), wide, request) <=> r.effect = "ALLOW"
      BY <2>3, StageDecides DEF Fo
    <3> QED
      BY <1>2, <1>3, <1>4, <3>1
  <2> QED
    BY <2>2, <2>3
<1>5. CASE Fn # {}
  <2>1. PICK r \in Fn : r.effect = "ALLOW" /\ \A s \in Fn : s = r \/ Outranks(r, s)
    BY <1>5, StageDecides DEF Fn
  <2>2. r \in Fo
    BY <1>1, <2>1
  <2>3. PICK d \in Fo : /\ StageAllows(Listed(old), wide, request) <=> d.effect = "ALLOW"
                        /\ \A s \in Fo : s = d \/ Outranks(d, s)
    BY <2>2, StageDecides DEF Fo
  <2>4. ASSUME d.effect = "DENY"
        PROVE  FALSE
    <3>1. d \in Fn /\ d # r
      BY <1>2, <2>1, <2>4
    <3>2. Outranks(r, d) /\ Outranks(d, r)
      BY <2>1, <2>2, <2>3, <3>1
    <3> QED
      BY <1>3, <3>2, OneOutranks
  <2> QED
    BY <1>3, <2>3, <2>4
<1> QED
  BY <1>4, <1>5

(* Whoever loses rights gains none. *)
LEMMA EvaluateShrinks ==
  ASSUME NEW old \in SUBSET Rules, IsFiniteSet(old), OnePerKey(old),
         NEW new \in SUBSET Rules, IsFiniteSet(new), OnePerKey(new),
         Stricter(old, new), NEW wide, NEW base, base \subseteq wide, NEW q,
         Evaluate(Listed(new), base, q)
  PROVE  Evaluate(Listed(old), wide, q)
<1>1. CASE StageAllows(Listed(new), base, q)
  <2>1. StageAllows(Listed(old), wide, q)
    BY <1>1, StageShrinks
  <2> QED
    BY <2>1 DEF Evaluate
<1>2. CASE q.action = "Lookup" /\ TraversalAllows(Listed(new), q.path)
  <2>1. PICK i \in DOMAIN Listed(new) :
           /\ Listed(new)[i].enabled /\ Listed(new)[i].effect = "ALLOW"
           /\ LeadsThrough(Listed(new)[i].glob, q.path)
    BY <1>2 DEF TraversalAllows
  <2>2. Listed(new)[i] \in Of("ALLOW", new)
    BY <2>1, ListedIsOrdered DEF Of
  <2>3. Listed(new)[i] \in Of("ALLOW", old)
    BY <2>2 DEF Stricter
  <2>4. PICK j \in DOMAIN Listed(old) : Listed(old)[j] = Listed(new)[i]
    BY <2>3, ListedIsOrdered DEF Of
  <2>5. TraversalAllows(Listed(old), q.path)
    BY <2>1, <2>4 DEF TraversalAllows
  <2> QED
    BY <1>2, <2>5 DEF Evaluate
<1> QED
  BY <1>1, <1>2 DEF Evaluate

LEMMA AllowedShrinks ==
  ASSUME NEW old \in SUBSET Rules, IsFiniteSet(old), OnePerKey(old),
         NEW new \in SUBSET Rules, IsFiniteSet(new), OnePerKey(new),
         Stricter(old, new)
  PROVE  Allowed(new) \subseteq Allowed(old)
  BY EvaluateShrinks DEF Allowed

-----------------------------------------------------------------------------
(* The tokens of a glob and the matcher. *)

LEMMA AfterIsNext ==
  ASSUME NEW glob \in Seq(Chars), NEW k \in 1 .. Len(glob)
  PROVE  /\ After(glob, k) \in Starts(glob) \cup {Len(glob) + 1}
         /\ After(glob, k) \in k + 1 .. Len(glob) + 1
         /\ \A e \in Starts(glob) : e > k => After(glob, k) <= e
<1> DEFINE A == {e \in Starts(glob) \cup {Len(glob) + 1} : e > k}
<1>1. A \in SUBSET Nat /\ Len(glob) + 1 \in A
  BY DEF Starts
<1>2. Min(A) \in A /\ \A e \in A : Min(A) <= e
  BY <1>1, MinIsLeast
<1>3. After(glob, k) = Min(A)
  BY DEF After
<1> QED
  BY <1>1, <1>2, <1>3

LEMMA ResumeIsLater ==
  ASSUME NEW glob \in Seq(Chars), NEW k \in 1 .. Len(glob)
  PROVE  Resume(glob, k) \in k + 1 .. Len(glob) + 1
  BY AfterIsNext DEF Resume, SlashFollows

(* Where the glob matches from its token at k on, when it does from there on in rest. *)
MatchStep(glob, k, path, rest) ==
    {j \in 1 .. Len(path) + 1 : \E n \in Takes(glob, k, path, j) : j + n \in rest}

IsTable(from, glob, path) ==
    /\ from \in [1 .. Len(glob) + 1 -> SUBSET (1 .. Len(path) + 1)]
    /\ from[Len(glob) + 1] = {Len(path) + 1}
    /\ \A k \in 1 .. Len(glob) : from[k] = MatchStep(glob, k, path, from[Resume(glob, k)])

(* A recursion that goes on to a later place is well-founded.  Its table is built from the
   end; a least part of it that could not be built would have a part before it that could. *)
Recursion(L, S, last, step, resume) ==
    /\ L \in Nat /\ last \in SUBSET S
    /\ step \in [1 .. L -> [SUBSET S -> SUBSET S]]
    /\ \A k \in 1 .. L : resume[k] \in k + 1 .. L + 1

Solution(f, L, S, last, step, resume) ==
    /\ f \in [1 .. L + 1 -> SUBSET S]
    /\ f[L + 1] = last
    /\ \A k \in 1 .. L : f[k] = step[k][f[resume[k]]]

LEMMA TableFrom ==
  ASSUME NEW L, NEW S, NEW last, NEW step, NEW resume, Recursion(L, S, last, step, resume)
  PROVE  \E f : Solution(f, L, S, last, step, resume)
<1> USE DEF Recursion
<1> DEFINE Part(d, f) == /\ f \in [L + 1 - d .. L + 1 -> SUBSET S]
                         /\ f[L + 1] = last
                         /\ \A k \in L + 1 - d .. L : f[k] = step[k][f[resume[k]]]
           Missing == {d \in 0 .. L : \A f : ~ Part(d, f)}
<1>1. Missing = {}
  <2> SUFFICES ASSUME Missing # {}
               PROVE  FALSE
    OBVIOUS
  <2>1. Missing \in SUBSET Nat
    OBVIOUS
  <2>2. PICK d \in Missing : \A e \in Missing : d <= e
    BY <2>1, LeastExists
  <2>3. CASE d = 0
    <3> DEFINE f == [k \in L + 1 .. L + 1 |-> last]
    <3>1. f \in [L + 1 - 0 .. L + 1 -> SUBSET S] /\ f[L + 1] = last
      OBVIOUS
    <3>2. \A k \in L + 1 - 0 .. L : f[k] = step[k][f[resume[k]]]
      OBVIOUS
    <3> HIDE DEF f
    <3>3. Part(0, f)
      BY <3>1, <3>2
    <3> HIDE DEF Part
    <3> QED
      BY <2>2, <2>3, <3>3
  <2>4. CASE d # 0
    <3>1. d \in 1 .. L /\ d - 1 \in 0 .. L /\ d - 1 \notin Missing
      <4>1. d \in 0 .. L
        OBVIOUS
      <4> HIDE DEF Missing
      <4>2. d \in 1 .. L /\ d - 1 \in 0 .. L /\ d - 1 < d
        BY <2>4, <4>1
      <4>3. d - 1 \notin Missing
        BY <2>2, <4>2
      <4> QED
        BY <4>2, <4>3
    <3>2. PICK f : Part(d - 1, f)
      <4> HIDE DEF Part
      <4> QED
        BY <3>1
    <3> DEFINE c == L + 1 - d
    <3>3. c \in 1 .. L /\ L + 1 - (d - 1) = c + 1 /\ resume[c] \in c + 1 .. L + 1
      BY <3>1
    <3>4. /\ f \in [c + 1 .. L + 1 -> SUBSET S] /\ f[L + 1] = last
          /\ \A k \in c + 1 .. L : f[k] = step[k][f[resume[k]]]
      BY <3>2, <3>3
    <3> HIDE DEF c
    <3> DEFINE g == [k \in c .. L + 1 |-> IF k = c THEN step[c][f[resume[c]]] ELSE f[k]]
    <3>5. step[c][f[resume[c]]] \in SUBSET S
      <4>1. f[resume[c]] \in SUBSET S /\ step[c] \in [SUBSET S -> SUBSET S]
        BY <3>3, <3>4
      <4> QED
        BY <4>1
    <3>6. g \in [c .. L + 1 -> SUBSET S]
      <4>1. \A k \in c .. L + 1 : k = c \/ k \in c + 1 .. L + 1
        BY <3>3
      <4> QED
        BY <3>4, <3>5, <4>1
    <3>7. g[L + 1] = last
      BY <3>3, <3>4
    <3>8. \A k \in c + 1 .. L + 1 : g[k] = f[k]
      BY <3>3
    <3>9. ASSUME NEW k \in c .. L
          PROVE  g[k] = step[k][g[resume[k]]]
      <4>1. k \in 1 .. L /\ resume[k] \in c + 1 .. L + 1
        BY <3>3
      <4>2. g[resume[k]] = f[resume[k]]
        BY <3>8, <4>1
      <4>3. CASE k = c
        <5>1. c \in c .. L + 1
          BY <3>3
        <5>2. g[c] = step[c][f[resume[c]]]
          BY <5>1
        <5> QED
          BY <4>2, <4>3, <5>2
      <4>4. CASE k # c
        <5>1. k \in c + 1 .. L /\ k \in c + 1 .. L + 1
          BY <3>3, <4>4
        <5> QED
          BY <3>4, <3>8, <4>2, <5>1
      <4> QED
        BY <4>3, <4>4
    <3> HIDE DEF g
    <3>10. Part(d, g)
      BY <3>6, <3>7, <3>9 DEF c
    <3> HIDE DEF Part
    <3> QED
      BY <2>2, <3>10
  <2> QED
    BY <2>3, <2>4
<1>2. PICK f : Part(L, f)
  <2>1. L \in 0 .. L
    OBVIOUS
  <2> HIDE DEF Part
  <2> QED
    BY <1>1, <2>1
<1>3. L + 1 - L = 1
  OBVIOUS
<1> QED
  BY <1>2, <1>3 DEF Solution

LEMMA TableExists ==
  ASSUME NEW glob \in Seq(Chars), NEW path \in Seq(Chars)
  PROVE  \E from : IsTable(from, glob, path)
<1> DEFINE L == Len(glob)
           S == 1 .. Len(path) + 1
           resume == [k \in 1 .. L |-> Resume(glob, k)]
           step == [k \in 1 .. L |-> [rest \in SUBSET S |-> MatchStep(glob, k, path, rest)]]
<1>1. L \in Nat /\ {Len(path) + 1} \in SUBSET S
  OBVIOUS
<1>2. step \in [1 .. L -> [SUBSET S -> SUBSET S]]
  BY DEF MatchStep
<1>3. \A k \in 1 .. L : resume[k] = Resume(glob, k) /\ resume[k] \in k + 1 .. L + 1
  BY ResumeIsLater
<1>4. \A k \in 1 .. L, rest \in SUBSET S : step[k][rest] = MatchStep(glob, k, path, rest)
  OBVIOUS
<1> HIDE DEF L, S, resume, step
<1>5. PICK f : Solution(f, L, S, {Len(path) + 1}, step, resume)
  <2>1. Recursion(L, S, {Len(path) + 1}, step, resume)
    BY <1>1, <1>2, <1>3 DEF Recursion
  <2> QED
    BY <2>1, TableFrom
<1>6. ASSUME NEW k \in 1 .. L
      PROVE  f[k] = MatchStep(glob, k, path, f[Resume(glob, k)])
  <2>1. resume[k] = Resume(glob, k) /\ resume[k] \in 1 .. L + 1
    BY <1>1, <1>3
  <2>2. f[Resume(glob, k)] \in SUBSET S
    BY <1>5, <2>1 DEF Solution
  <2>3. f[k] = step[k][f[Resume(glob, k)]]
    BY <1>5, <2>1 DEF Solution
  <2> QED
    BY <1>4, <2>2, <2>3
<1> QED
  BY <1>5, <1>6 DEF IsTable, Solution, L, S

LEMMA MatchHasTable ==
  ASSUME NEW glob \in Seq(Chars), NEW path \in Seq(Chars)
  PROVE  \E from : IsTable(from, glob, path) /\ (Match(glob, path) <=> 1 \in from[1])
<1> DEFINE Entry(from, k) ==
             IF k > Len(glob) THEN {Len(path) + 1}
             ELSE {j \in 1 .. Len(path) + 1 :
                      \E n \in Takes(glob, k, path, j) : j + n \in from[Resume(glob, k)]}
           Solves(from) == from = [k \in 1 .. Len(glob) + 1 |-> Entry(from, k)]
           m == CHOOSE from : Solves(from)
<1>1. \E from : Solves(from)
  <2>1. PICK from : IsTable(from, glob, path)
    BY TableExists
  <2>2. \A k \in 1 .. Len(glob) + 1 : from[k] = Entry(from, k)
    <3>1. \A k \in 1 .. Len(glob) + 1 : k > Len(glob) <=> k = Len(glob) + 1
      OBVIOUS
    <3>2. \A k \in 1 .. Len(glob) + 1 : k # Len(glob) + 1 => k \in 1 .. Len(glob)
      OBVIOUS
    <3> QED
      BY <2>1, <3>1, <3>2 DEF IsTable, MatchStep
  <2> HIDE DEF Entry
  <2>3. Solves(from)
    BY <2>1, <2>2 DEF IsTable
  <2> QED
    BY <2>3
<1>2. Solves(m)
  BY <1>1
<1>3. Match(glob, path) <=> 1 \in m[1]
  BY DEF Match
<1> HIDE DEF m
<1>4. IsTable(m, glob, path)
  <2>1. \A k \in 1 .. Len(glob) + 1 : m[k] = Entry(m, k)
    BY <1>2
  <2>2. \A k \in 1 .. Len(glob) + 1 : Entry(m, k) \in SUBSET (1 .. Len(path) + 1)
    OBVIOUS
  <2>3. m \in [1 .. Len(glob) + 1 -> SUBSET (1 .. Len(path) + 1)]
    <3> HIDE DEF Entry
    <3> QED
      BY <1>2, <2>2
  <2>4. /\ Len(glob) \in Nat /\ Len(glob) + 1 \in 1 .. Len(glob) + 1
        /\ Len(glob) + 1 > Len(glob)
        /\ \A k \in 1 .. Len(glob) : k \in 1 .. Len(glob) + 1 /\ ~ k > Len(glob)
    OBVIOUS
  <2>5. m[Len(glob) + 1] = {Len(path) + 1}
    BY <2>1, <2>4
  <2>6. \A k \in 1 .. Len(glob) : m[k] = MatchStep(glob, k, path, m[Resume(glob, k)])
    BY <2>1, <2>4 DEF MatchStep
  <2> QED
    BY <2>3, <2>5, <2>6 DEF IsTable
<1> QED
  BY <1>3, <1>4

(* Equal characters make equal words. *)
Alike(s, j, t, k, m) == \A i \in 0 .. m : s[j + i] = t[k + i]

LEMMA WordsAgree ==
  ASSUME NEW s \in Seq(Chars), NEW t \in Seq(Chars), NEW j \in Nat \ {0}, NEW k \in Nat \ {0},
         NEW a \in Int, NEW b \in Int, a - j = b - k
  PROVE  SubSeq(s, j, a) = SubSeq(t, k, b) <=> Alike(s, j, t, k, a - j)
<1> DEFINE u == SubSeq(s, j, a)
           v == SubSeq(t, k, b)
           n == a - j + 1
<1>1. u = [i \in 1 .. n |-> s[i + j - 1]] /\ v = [i \in 1 .. n |-> t[i + k - 1]]
  <2>1. n = b - k + 1
    OBVIOUS
  <2>2. u = [i \in 1 .. a - j + 1 |-> s[i + j - 1]]
    OBVIOUS
  <2>3. v = [i \in 1 .. b - k + 1 |-> t[i + k - 1]]
    OBVIOUS
  <2> HIDE DEF u, v
  <2> QED
    BY <2>1, <2>2, <2>3
<1>2. \A i \in 1 .. n : i - 1 \in 0 .. a - j /\ j + (i - 1) = i + j - 1 /\ k + (i - 1) = i + k - 1
  OBVIOUS
<1>3. \A i \in 0 .. a - j : i + 1 \in 1 .. n /\ (i + 1) + j - 1 = j + i /\ (i + 1) + k - 1 = k + i
  OBVIOUS
<1> HIDE DEF u, v, n
<1>4. ASSUME u = v, NEW i \in 0 .. a - j
      PROVE  s[j + i] = t[k + i]
  <2>1. u[i + 1] = s[j + i] /\ v[i + 1] = t[k + i]
    BY <1>1, <1>3
  <2> QED
    BY <1>4, <2>1
<1>5. ASSUME \A i \in 0 .. a - j : s[j + i] = t[k + i]
      PROVE  u = v
  <2>1. \A i \in 1 .. n : s[i + j - 1] = t[i + k - 1]
    BY <1>2, <1>5
  <2> QED
    BY <1>1, <2>1
<1> QED
  BY <1>4, <1>5 DEF u, v, Alike

(* Where a token ends: a slash or a question mark is one character, the others go on until
   the next one begins. *)
LEMMA TokenIs ==
  ASSUME NEW glob \in Seq(Chars), NEW k \in Starts(glob)
  PROVE  /\ k \in 1 .. Len(glob)
         /\ glob[k] \in {"/", "?"} => After(glob, k) = k + 1
         /\ \A i \in k + 1 .. After(glob, k) - 1 : Kind(glob[i]) = Kind(glob[k])
                                                  /\ glob[i] \notin {"/", "?"}
<1>1. k \in 1 .. Len(glob)
  BY DEF Starts
<1>2. \A i \in k + 1 .. After(glob, k) - 1 :
         i \in 2 .. Len(glob) /\ i \notin Starts(glob) /\ i - 1 \in k .. After(glob, k) - 1
  BY <1>1, AfterIsNext
<1>3. \A i \in k + 1 .. After(glob, k) - 1 :
         glob[i] \notin {"/", "?"} /\ Kind(glob[i]) = Kind(glob[i - 1])
  BY <1>2 DEF Starts
<1>4. glob[k] \in {"/", "?"} => k + 1 \notin k + 1 .. After(glob, k) - 1
  <2> SUFFICES ASSUME glob[k] \in {"/", "?"}, k + 1 \in k + 1 .. After(glob, k) - 1
               PROVE  FALSE
    OBVIOUS
  <2>1. glob[k + 1] \notin {"/", "?"} /\ Kind(glob[k + 1]) = Kind(glob[k])
    <3>1. (k + 1) - 1 = k
      BY <1>1
    <3> QED
      BY <1>3, <3>1
  <2> QED
    BY <2>1 DEF Kind, Special
<1>5. After(glob, k) \in k + 1 .. Len(glob) + 1
  BY <1>1, AfterIsNext
<1>6. \A i \in k + 1 .. After(glob, k) - 1 : Kind(glob[i]) = Kind(glob[k])
  <2> DEFINE Bad == {i \in k + 1 .. After(glob, k) - 1 : Kind(glob[i]) # Kind(glob[k])}
  <2> SUFFICES ASSUME Bad # {}
               PROVE  FALSE
    OBVIOUS
  <2>1. Bad \in SUBSET Nat
    BY <1>1, <1>5
  <2>2. PICK m \in Bad : \A x \in Bad : m <= x
    BY <2>1, LeastExists
  <2>3. m \in k + 1 .. After(glob, k) - 1 /\ Kind(glob[m]) = Kind(glob[m - 1])
    BY <1>3, <2>2
  <2>4. CASE m = k + 1
    BY <1>1, <2>2, <2>3, <2>4
  <2>5. CASE m # k + 1
    <3>1. m - 1 \in k + 1 .. After(glob, k) - 1 /\ m - 1 < m
      BY <1>1, <1>5, <2>3, <2>5
    <3>2. m - 1 \notin Bad
      <4> HIDE DEF Bad
      <4> QED
        BY <2>1, <2>2, <3>1
    <3> QED
      BY <2>2, <2>3, <3>1, <3>2
  <2> QED
    BY <2>4, <2>5
<1> QED
  BY <1>1, <1>3, <1>4, <1>5, <1>6

-----------------------------------------------------------------------------
(* What a matched path has in common with the glob. *)

(* Where the wildcards of a glob begin. *)
Wild(glob) == {k \in 1 .. Len(glob) : glob[k] \in {"*", "?"}}

FirstWild(glob) == Min(Wild(glob) \cup {Len(glob) + 1})

LEMMA FirstWildIs ==
  ASSUME NEW glob \in Seq(Chars)
  PROVE  /\ FirstWild(glob) \in Starts(glob) \cup {Len(glob) + 1}
         /\ FirstWild(glob) \in 1 .. Len(glob) + 1
         /\ FirstWild(glob) \in Wild(glob) \cup {Len(glob) + 1}
         /\ \A k \in Wild(glob) : FirstWild(glob) <= k
<1> DEFINE A == Wild(glob) \cup {Len(glob) + 1}
           w == FirstWild(glob)
<1>1. A \in SUBSET Nat /\ A # {} /\ \A k \in Wild(glob) : k \in 1 .. Len(glob)
  BY DEF Wild
<1>2. w \in A /\ \A x \in A : w <= x
  <2> HIDE DEF A
  <2>1. Min(A) \in A /\ \A x \in A : Min(A) <= x
    BY <1>1, MinIsLeast
  <2> QED
    BY <2>1 DEF FirstWild, A
<1> HIDE DEF w
<1>3. ASSUME w \in Wild(glob)
      PROVE  w \in Starts(glob)
  <2>1. w \in 1 .. Len(glob) /\ Kind(glob[w]) \in {"*", "?"}
    BY <1>3 DEF Wild, Kind, Special
  <2>2. w > 1 => w - 1 \in 1 .. Len(glob) /\ w - 1 < w
    BY <2>1
  <2>3. w > 1 => w - 1 \notin Wild(glob)
    BY <1>2, <2>1, <2>2
  <2>4. w > 1 => Kind(glob[w - 1]) \notin {"*", "?"}
    BY <2>2, <2>3 DEF Wild, Kind, Special
  <2> QED
    BY <2>1, <2>4 DEF Starts
<1> QED
  BY <1>1, <1>2, <1>3 DEF w

(* What a place of a glob that holds no star or question mark takes: the text up to the
   next token, and no more. *)
LEMMA LiteralTakes ==
  ASSUME NEW glob \in Seq(Chars), NEW path \in Seq(Chars), NEW k \in 1 .. Len(glob),
         NEW j \in 1 .. Len(path) + 1, glob[k] \notin {"*", "?"}
  PROVE  /\ Resume(glob, k) = After(glob, k)
         /\ \A n \in 0 .. Len(path) + 1 - j :
               n \in Takes(glob, k, path, j) <=>
                   n = After(glob, k) - k /\ Alike(path, j, glob, k, n - 1)
<1> DEFINE e == After(glob, k)
<1>1. Type(glob, k) \in {"literal", "/"}
  BY DEF Type, Kind, Special
<1>2. Resume(glob, k) = e
  BY <1>1 DEF Resume
<1>4. /\ k \in 1 .. Len(glob) /\ e \in k + 1 .. Len(glob) + 1
      /\ Len(glob) \in Nat /\ Len(path) \in Nat
  BY AfterIsNext
<1>5. \A n \in 0 .. Len(path) + 1 - j :
         n \in Takes(glob, k, path, j) <=> SubSeq(path, j, j + n - 1) = SubSeq(glob, k, e - 1)
  BY <1>1 DEF Takes
<1> HIDE DEF e
<1>6. ASSUME NEW n \in 0 .. Len(path) + 1 - j, SubSeq(path, j, j + n - 1) = SubSeq(glob, k, e - 1)
      PROVE  n = e - k
  <2>1. Len(SubSeq(path, j, j + n - 1)) = n
    <3>1. \A i \in j .. j + n - 1 : path[i] \in Chars
      <4>1. \A i \in j .. j + n - 1 : i \in 1 .. Len(path)
        BY <1>4
      <4> QED
        BY <4>1, ElementOfSeq
    <3>2. j \in Int /\ j + n - 1 \in Int /\ n \in Nat
      BY <1>4
    <3>3. Len(SubSeq(path, j, j + n - 1)) = IF j <= j + n - 1 THEN (j + n - 1) - j + 1 ELSE 0
      BY ONLY <3>1, <3>2, SubSeqProperties
    <3> QED
      BY <3>2, <3>3
  <2>2. Len(SubSeq(glob, k, e - 1)) = e - k
    <3>1. \A i \in k .. e - 1 : glob[i] \in Chars
      <4>1. \A i \in k .. e - 1 : i \in 1 .. Len(glob)
        BY <1>4
      <4> QED
        BY <4>1, ElementOfSeq
    <3>2. k \in Int /\ e - 1 \in Int /\ k <= e - 1
      BY <1>4
    <3>3. Len(SubSeq(glob, k, e - 1)) = IF k <= e - 1 THEN (e - 1) - k + 1 ELSE 0
      BY ONLY <3>1, <3>2, SubSeqProperties
    <3> QED
      BY <1>4, <3>2, <3>3
  <2> QED
    BY <1>6, <2>1, <2>2
<1>7. ASSUME NEW n \in 0 .. Len(path) + 1 - j, n = e - k
      PROVE  SubSeq(path, j, j + n - 1) = SubSeq(glob, k, e - 1) <=>
               Alike(path, j, glob, k, n - 1)
  <2>1. /\ k \in Nat \ {0} /\ j \in Nat \ {0} /\ j + n - 1 \in Int /\ e - 1 \in Int
        /\ (j + n - 1) - j = (e - 1) - k /\ (j + n - 1) - j = n - 1
    BY <1>4, <1>7
  <2> DEFINE a == j + n - 1
             b == e - 1
  <2>2. /\ k \in Nat \ {0} /\ j \in Nat \ {0} /\ a \in Int /\ b \in Int
        /\ a - j = b - k /\ a - j = n - 1
    BY <2>1
  <2> HIDE DEF a, b
  <2>3. SubSeq(path, j, a) = SubSeq(glob, k, b) <=> Alike(path, j, glob, k, a - j)
    BY ONLY glob \in Seq(Chars), path \in Seq(Chars), <2>2, WordsAgree, Zenon
  <2> QED
    BY <2>2, <2>3 DEF a, b
<1>8. \A n \in 0 .. Len(path) + 1 - j :
         n \in Takes(glob, k, path, j) <=>
             n = e - k /\ Alike(path, j, glob, k, n - 1)
  BY <1>5, <1>6, <1>7
<1> QED
  BY <1>2, <1>8 DEF e

(* A token of characters or a slash takes just as many characters, the same. *)
LEMMA TakesText ==
  ASSUME NEW glob \in Seq(Chars), NEW path \in Seq(Chars), NEW k \in Starts(glob),
         NEW j \in 1 .. Len(path) + 1, NEW n \in Takes(glob, k, path, j),
         glob[k] \notin {"*", "?"}
  PROVE  /\ n = After(glob, k) - k /\ Resume(glob, k) = After(glob, k)
         /\ n \in 0 .. Len(path) + 1 - j
         /\ \A i \in 0 .. n - 1 : path[j + i] = glob[k + i]
<1>1. k \in 1 .. Len(glob)
  BY DEF Starts
<1>2. n \in 0 .. Len(path) + 1 - j
  BY DEF Takes
<1>3. /\ Resume(glob, k) = After(glob, k)
      /\ \A m \in 0 .. Len(path) + 1 - j :
            m \in Takes(glob, k, path, j) <=>
                m = After(glob, k) - k /\ Alike(path, j, glob, k, m - 1)
  BY <1>1, LiteralTakes
<1> QED
  BY <1>2, <1>3 DEF Alike

(* A path that matches begins with all of the glob before its first wildcard. *)
LEMMA BeginsLiterally ==
  ASSUME NEW glob \in Seq(Chars), NEW path \in Seq(Chars), glob # <<>>,
         NEW from, IsTable(from, glob, path), 1 \in from[1]
  PROVE  /\ FirstWild(glob) \in from[FirstWild(glob)]
         /\ FirstWild(glob) \in 1 .. Len(path) + 1
         /\ \A i \in 1 .. FirstWild(glob) - 1 : path[i] = glob[i]
<1> DEFINE w == FirstWild(glob)
           Good(k) == /\ k \in Starts(glob) \cup {Len(glob) + 1} /\ k \in from[k]
                      /\ \A i \in 1 .. k - 1 : path[i] = glob[i]
           D == {d \in 0 .. w : Good(w - d)}
<1>1. /\ w \in Starts(glob) \cup {Len(glob) + 1} /\ w \in 1 .. Len(glob) + 1
      /\ \A k \in Wild(glob) : w <= k
  BY FirstWildIs
<1> HIDE DEF w
<1>2. Len(glob) \in Nat \ {0} /\ Len(path) \in Nat /\ \A k \in Starts(glob) : k \in 1 .. Len(glob)
  BY DEF Starts
<1>3. 1 \in Starts(glob)
  <2>1. 1 \in 1 .. Len(glob) /\ ~ (1 > 1)
    BY <1>2
  <2> QED
    BY <2>1 DEF Starts
<1>4. Good(1)
  BY <1>3
<1>5. ASSUME NEW k \in 1 .. w - 1, Good(k)
      PROVE  \E e \in k + 1 .. w : Good(e)
  <2> DEFINE e == After(glob, k)
  <2>1. k \in Starts(glob) /\ k \in 1 .. Len(glob) /\ k < w
    BY <1>1, <1>2, <1>5
  <2>2. glob[k] \notin {"*", "?"}
    <3>1. k \notin Wild(glob)
      BY <1>1, <1>2, <2>1
    <3> QED
      BY <2>1, <3>1 DEF Wild
  <2>3. e \in k + 1 .. w /\ e \in Starts(glob) \cup {Len(glob) + 1}
    BY <1>1, <1>2, <2>1, AfterIsNext
  <2>4. from[k] = MatchStep(glob, k, path, from[Resume(glob, k)]) /\ k \in 1 .. Len(path) + 1
    BY <1>5, <2>1 DEF IsTable
  <2>5. PICK n \in Takes(glob, k, path, k) : k + n \in from[Resume(glob, k)]
    BY <1>5, <2>4 DEF MatchStep
  <2>6. n = e - k /\ Resume(glob, k) = e /\ \A i \in 0 .. n - 1 : path[k + i] = glob[k + i]
    BY <2>1, <2>2, <2>4, TakesText
  <2> HIDE DEF e
  <2>7. k + n = e
    BY <2>1, <2>3, <2>6
  <2>8. e \in from[e]
    BY <2>5, <2>6, <2>7
  <2>9. \A i \in 1 .. e - 1 : path[i] = glob[i]
    <3>1. \A i \in k .. e - 1 : i - k \in 0 .. n - 1 /\ k + (i - k) = i
      BY <2>1, <2>3, <2>6
    <3>2. \A i \in k .. e - 1 : path[i] = glob[i]
      BY <2>6, <3>1
    <3>3. \A i \in 1 .. e - 1 : i \in 1 .. k - 1 \/ i \in k .. e - 1
      BY <2>1, <2>3
    <3> QED
      BY <1>5, <3>2, <3>3
  <2> QED
    BY <2>3, <2>8, <2>9
<1> HIDE DEF Good
<1>6. Good(w)
  <2>1. D \in SUBSET Nat
    BY <1>1
  <2>2. w - 1 \in D
    <3>1. w - 1 \in 0 .. w /\ w - (w - 1) = 1
      BY <1>1
    <3> QED
      BY <1>4, <3>1
  <2>3. PICK d \in D : \A x \in D : d <= x
    BY <2>1, <2>2, LeastExists
  <2>4. CASE d = 0
    <3>1. w - 0 = w
      BY <1>1
    <3> QED
      BY <2>3, <2>4, <3>1
  <2>5. CASE d # 0
    <3>1. d <= w - 1
      BY <2>2, <2>3
    <3>2. w - d \in 1 .. w - 1 /\ Good(w - d) /\ d \in Nat
      BY <1>1, <2>1, <2>3, <2>5, <3>1
    <3>3. PICK e \in w - d + 1 .. w : Good(e)
      BY <1>5, <3>2
    <3>4. w - e \in 0 .. w /\ w - (w - e) = e /\ w - e < d
      BY <1>1, <3>2, <3>3
    <3>5. w - e \in D
      BY <3>3, <3>4
    <3> QED
      BY <2>1, <2>3, <3>2, <3>4, <3>5
  <2> QED
    BY <2>4, <2>5
<1>7. from[w] \in SUBSET (1 .. Len(path) + 1)
  BY <1>1 DEF IsTable
<1> QED
  BY <1>6, <1>7 DEF Good, w

(* The slashes of a word from a place on. *)
SlashesFrom(s, j) == {i \in j .. Len(s) : s[i] = "/"}

LEMMA SlashesAreCounted ==
  ASSUME NEW s \in Seq(Chars), NEW j \in 1 .. Len(s) + 1
  PROVE  /\ IsFiniteSet(SlashesFrom(s, j)) /\ Cardinality(SlashesFrom(s, j)) \in Nat
         /\ \A m \in j .. Len(s) + 1 :
               (\A i \in j .. m - 1 : s[i] # "/") => SlashesFrom(s, j) = SlashesFrom(s, m)
         /\ j <= Len(s) /\ s[j] = "/" =>
               Cardinality(SlashesFrom(s, j)) = Cardinality(SlashesFrom(s, j + 1)) + 1
<1>1. Len(s) \in Nat /\ j \in Int /\ 1 <= j
  OBVIOUS
<1>2. \A k \in Int : /\ IsFiniteSet(SlashesFrom(s, k))
                     /\ Cardinality(SlashesFrom(s, k)) \in Nat
  <2> TAKE k \in Int
  <2>1. IsFiniteSet(k .. Len(s))
    BY <1>1, FS_Interval
  <2>2. SlashesFrom(s, k) \in SUBSET (k .. Len(s))
    BY DEF SlashesFrom
  <2> QED
    BY <2>1, <2>2, FS_Subset, FS_CardinalityType
<1>3. ASSUME NEW m \in j .. Len(s) + 1, \A i \in j .. m - 1 : s[i] # "/"
      PROVE  SlashesFrom(s, j) = SlashesFrom(s, m)
  <2>1. \A i \in j .. Len(s) : i \in m .. Len(s) \/ i \in j .. m - 1
    BY <1>1
  <2>2. \A i \in m .. Len(s) : i \in j .. Len(s)
    BY <1>1
  <2> QED
    BY <1>3, <2>1, <2>2 DEF SlashesFrom
<1>4. ASSUME j <= Len(s), s[j] = "/"
      PROVE  Cardinality(SlashesFrom(s, j)) = Cardinality(SlashesFrom(s, j + 1)) + 1
  <2>1. \A i \in j .. Len(s) : i = j \/ i \in j + 1 .. Len(s)
    BY <1>1
  <2>2. /\ j \in j .. Len(s) /\ j \notin j + 1 .. Len(s)
        /\ \A i \in j + 1 .. Len(s) : i \in j .. Len(s)
    BY <1>1, <1>4
  <2>3. SlashesFrom(s, j) = SlashesFrom(s, j + 1) \cup {j} /\ j \notin SlashesFrom(s, j + 1)
    BY <1>4, <2>1, <2>2 DEF SlashesFrom
  <2>4. IsFiniteSet(SlashesFrom(s, j + 1))
    BY <1>1, <1>2
  <2> QED
    BY ONLY <2>3, <2>4, FS_AddElement
<1> QED
  BY <1>1, <1>2, <1>3, <1>4

(* A token is a slash and takes one, or neither it nor what it takes has one. *)
LEMMA TokenSlashes ==
  ASSUME NEW glob \in Seq(Chars), ~HasTwoStars(glob), NEW path \in Seq(Chars),
         NEW k \in Starts(glob), NEW j \in 1 .. Len(path) + 1,
         NEW n \in Takes(glob, k, path, j)
  PROVE  /\ Resume(glob, k) = After(glob, k) /\ n \in Nat /\ j + n <= Len(path) + 1 /\ n > 0
         /\ \/ /\ glob[k] = "/" /\ After(glob, k) = k + 1
               /\ n = 1 /\ path[j] = "/"
            \/ /\ \A i \in k .. After(glob, k) - 1 : glob[i] # "/"
               /\ \A i \in j .. j + n - 1 : path[i] # "/"
<1> DEFINE e == After(glob, k)
<1>1. /\ k \in 1 .. Len(glob) /\ e \in k + 1 .. Len(glob) + 1
      /\ Len(glob) \in Nat /\ Len(path) \in Nat
      /\ \A i \in k + 1 .. e - 1 : Kind(glob[i]) = Kind(glob[k]) /\ glob[i] \notin {"/", "?"}
      /\ glob[k] \in {"/", "?"} => e = k + 1
  BY TokenIs, AfterIsNext
<1>2. n \in Nat /\ j + n <= Len(path) + 1
  <2>1. n \in 0 .. Len(path) + 1 - j
    BY DEF Takes
  <2> QED
    BY <1>1, <2>1
<1> HIDE DEF e
<1>3. Type(glob, k) = Kind(glob[k]) /\ Kind(glob[k]) # "**"
  <2>1. ASSUME glob[k] = "*", e = k + 2
        PROVE  FALSE
    <3>1. k + 1 \in k + 1 .. e - 1 /\ k + 1 \in 2 .. Len(glob) /\ (k + 1) - 1 = k
      BY <1>1, <2>1
    <3>2. Kind(glob[k + 1]) = "*"
      BY <1>1, <2>1, <3>1 DEF Kind, Special
    <3>3. glob[k + 1] = "*"
      BY <3>2 DEF Kind, Special
    <3> QED
      BY <2>1, <3>1, <3>3 DEF HasTwoStars
  <2>2. Type(glob, k) = Kind(glob[k])
    BY <2>1 DEF Type, e
  <2> QED
    BY <2>2 DEF Kind, Special
<1>4. Resume(glob, k) = e
  BY <1>3 DEF Resume, e
<1>5. glob[k] # "/" => \A i \in k .. e - 1 : glob[i] # "/"
  <2>1. \A i \in k .. e - 1 : i = k \/ i \in k + 1 .. e - 1
    BY <1>1
  <2> QED
    BY <1>1, <2>1
<1>6. CASE glob[k] \in {"*", "?"}
  <2>1. Type(glob, k) \in {"*", "?"} /\ glob[k] # "/"
    BY <1>3, <1>6 DEF Kind, Special
  <2>2. n > 0 /\ \A i \in j .. j + n - 1 : path[i] # "/"
    <3>1. CASE Type(glob, k) = "*"
      BY <3>1 DEF Takes
    <3>2. CASE Type(glob, k) = "?"
      <4>1. n = 1 /\ path[j] # "/"
        BY <3>2 DEF Takes
      <4> QED
        BY <4>1
    <3> QED
      BY <2>1, <3>1, <3>2
  <2> QED
    BY <1>2, <1>4, <1>5, <2>1, <2>2 DEF e
<1>7. CASE glob[k] \notin {"*", "?"}
  <2>1. n = e - k /\ \A i \in 0 .. n - 1 : path[j + i] = glob[k + i]
    BY <1>7, TakesText DEF e
  <2>2. n > 0
    BY <1>1, <2>1
  <2>3. CASE glob[k] = "/"
    <3>1. e = k + 1 /\ n = 1 /\ 0 \in 0 .. n - 1 /\ j + 0 = j /\ k + 0 = k
      BY <1>1, <2>1, <2>3
    <3> QED
      BY <1>2, <1>4, <2>1, <2>2, <2>3, <3>1 DEF e
  <2>4. CASE glob[k] # "/"
    <3>1. \A i \in j .. j + n - 1 : i - j \in 0 .. n - 1 /\ j + (i - j) = i
                                    /\ k + (i - j) \in k .. e - 1
      BY <1>1, <1>2, <2>1
    <3>2. \A i \in j .. j + n - 1 : path[i] # "/"
      BY <1>5, <2>1, <2>4, <3>1
    <3> QED
      BY <1>2, <1>4, <1>5, <2>2, <2>4, <3>2 DEF e
  <2> QED
    BY <2>3, <2>4
<1> QED
  BY <1>6, <1>7

(* Without two stars in a row a glob matches only paths with as many slashes. *)
LEMMA SameSlashes ==
  ASSUME NEW glob \in Seq(Chars), glob # <<>>, ~HasTwoStars(glob), NEW path \in Seq(Chars),
         NEW from, IsTable(from, glob, path),
         NEW start \in Starts(glob) \cup {Len(glob) + 1}, NEW at \in from[start]
  PROVE  /\ Cardinality(SlashesFrom(path, at)) = Cardinality(SlashesFrom(glob, start))
         /\ start <= Len(glob) => at <= Len(path)
<1> DEFINE L == Len(glob)
           E == Len(path) + 1
           Same(k) == \A j \in from[k] :
                         Cardinality(SlashesFrom(path, j)) = Cardinality(SlashesFrom(glob, k))
           Bad == {d \in 0 .. L : L + 1 - d \in Starts(glob) \cup {L + 1} /\ ~ Same(L + 1 - d)}
<1>1. /\ L \in Nat \ {0} /\ E \in Nat \ {0} /\ Len(path) = E - 1
      /\ \A k \in Starts(glob) : k \in 1 .. L
      /\ \A k \in 1 .. L + 1 : from[k] \in SUBSET (1 .. E)
      /\ from[L + 1] = {E}
      /\ \A k \in 1 .. L : from[k] = MatchStep(glob, k, path, from[Resume(glob, k)])
  <2>1. L \in Nat \ {0} /\ E \in Nat \ {0} /\ Len(path) = E - 1
    OBVIOUS
  <2>2. \A k \in Starts(glob) : k \in 1 .. L
    BY DEF Starts
  <2>3. /\ from \in [1 .. L + 1 -> SUBSET (1 .. E)] /\ from[L + 1] = {E}
        /\ \A k \in 1 .. L : from[k] = MatchStep(glob, k, path, from[Resume(glob, k)])
    BY DEF IsTable
  <2> QED
    BY <2>1, <2>2, <2>3
<1>2. Same(L + 1)
  <2>1. SlashesFrom(path, E) = {} /\ SlashesFrom(glob, L + 1) = {}
    BY <1>1 DEF SlashesFrom
  <2> QED
    BY <1>1, <2>1
<1>3. ASSUME NEW k \in Starts(glob), Same(After(glob, k))
      PROVE  Same(k) /\ \A j \in from[k] : j <= Len(path)
  <2> DEFINE e == After(glob, k)
  <2> SUFFICES ASSUME NEW j \in from[k]
               PROVE  /\ Cardinality(SlashesFrom(path, j)) = Cardinality(SlashesFrom(glob, k))
                      /\ j <= Len(path)
    OBVIOUS
  <2>1. k \in 1 .. L /\ e \in k + 1 .. L + 1
    BY <1>1, AfterIsNext
  <2>2. j \in 1 .. E
    BY <1>1, <2>1
  <2>3. PICK n \in Takes(glob, k, path, j) : j + n \in from[Resume(glob, k)]
    BY <1>1, <2>1 DEF MatchStep
  <2>4. /\ Resume(glob, k) = e /\ n \in Nat /\ j + n <= E /\ n > 0
        /\ \/ glob[k] = "/" /\ e = k + 1 /\ n = 1 /\ path[j] = "/"
           \/ /\ \A i \in k .. e - 1 : glob[i] # "/"
              /\ \A i \in j .. j + n - 1 : path[i] # "/"
    BY <1>1, <2>2, TokenSlashes
  <2> HIDE DEF e, E, L
  <2>5. Cardinality(SlashesFrom(path, j + n)) = Cardinality(SlashesFrom(glob, e))
    BY <1>3, <2>3, <2>4 DEF e
  <2>6. j \in 1 .. Len(path) + 1 /\ j <= Len(path) /\ k \in 1 .. Len(glob) + 1 /\ k <= Len(glob)
    BY <1>1, <2>1, <2>2, <2>4 DEF L
  <2>7. CASE glob[k] = "/" /\ e = k + 1 /\ n = 1 /\ path[j] = "/"
    <3>1. /\ Cardinality(SlashesFrom(path, j)) = Cardinality(SlashesFrom(path, j + 1)) + 1
          /\ Cardinality(SlashesFrom(glob, k)) = Cardinality(SlashesFrom(glob, k + 1)) + 1
      BY <2>6, <2>7, SlashesAreCounted
    <3> QED
      BY <2>5, <2>6, <2>7, <3>1
  <2>8. CASE /\ \A i \in k .. e - 1 : glob[i] # "/"
             /\ \A i \in j .. j + n - 1 : path[i] # "/"
    <3>1. e \in k .. Len(glob) + 1 /\ j + n \in j .. Len(path) + 1 /\ (j + n) - 1 = j + n - 1
      BY <1>1, <2>1, <2>2, <2>4 DEF L
    <3>2. SlashesFrom(glob, k) = SlashesFrom(glob, e)
      BY <2>6, <2>8, <3>1, SlashesAreCounted
    <3>3. SlashesFrom(path, j) = SlashesFrom(path, j + n)
      BY <2>6, <2>8, <3>1, SlashesAreCounted
    <3> QED
      BY <2>5, <2>6, <3>2, <3>3
  <2> QED
    BY <2>4, <2>7, <2>8
<1> HIDE DEF Same
<1>4. Bad = {}
  <2> SUFFICES ASSUME Bad # {}
               PROVE  FALSE
    OBVIOUS
  <2>1. Bad \in SUBSET Nat
    BY <1>1
  <2>2. PICK d \in Bad : \A x \in Bad : d <= x
    BY <2>1, LeastExists
  <2> DEFINE k == L + 1 - d
             e == After(glob, k)
  <2>3. d \in 0 .. L /\ k \in Starts(glob) /\ ~ Same(k) /\ d # 0
    <3>1. d = 0 => k = L + 1
      BY <1>1
    <3>2. d # 0 /\ d \in 0 .. L => k # L + 1
      BY <1>1
    <3> QED
      BY <1>2, <2>2, <3>1, <3>2
  <2>4. k \in 1 .. L /\ e \in k + 1 .. L + 1 /\ e \in Starts(glob) \cup {L + 1}
    BY <1>1, <2>3, AfterIsNext
  <2>5. ~ Same(e)
    BY <1>3, <2>3
  <2>6. L + 1 - e \in 0 .. L /\ L + 1 - (L + 1 - e) = e /\ L + 1 - e < d
    <3>1. L \in Nat /\ d \in Nat /\ e \in Int /\ L + 1 - d < e /\ 1 <= e /\ e <= L + 1
      BY <1>1, <2>3, <2>4
    <3> HIDE DEF e, k, L
    <3> QED
      BY <3>1
  <2> HIDE DEF e, k, L
  <2>7. L + 1 - e \in Bad
    BY <2>4, <2>5, <2>6
  <2> QED
    BY <2>1, <2>2, <2>6, <2>7
<1>5. \A k \in Starts(glob) \cup {L + 1} : Same(k)
  <2> SUFFICES ASSUME NEW k \in Starts(glob) \cup {L + 1}
               PROVE  Same(k)
    OBVIOUS
  <2>1. L + 1 - k \in 0 .. L /\ L + 1 - (L + 1 - k) = k
    BY <1>1
  <2> QED
    BY <1>4, <2>1
<1>6. Cardinality(SlashesFrom(path, at)) = Cardinality(SlashesFrom(glob, start))
  BY <1>5 DEF Same
<1>7. ASSUME start <= L
      PROVE  at <= Len(path)
  <2>1. start \in Starts(glob) /\ start \in 1 .. L
    BY <1>1, <1>7
  <2>2. After(glob, start) \in Starts(glob) \cup {L + 1}
    BY <2>1, AfterIsNext
  <2> QED
    BY <1>3, <1>5, <2>1, <2>2
<1> QED
  BY <1>6, <1>7

-----------------------------------------------------------------------------
(* The rules of a role and the grant of a link stay what they are. *)

PolicyInv == PolicyTypeOK /\ IsFiniteSet(rows)

LEMMA PolicyInit_Inv == PolicyInit => PolicyInv
  BY FS_EmptySet, RulesAssumption DEF PolicyInit, PolicyInv, PolicyTypeOK, OnePerKey

(* A link and what is asked for it. *)
Paired == \/ link = Nothing /\ asked = Nothing
          \/ link \in Links /\ asked \in Asked /\ rows = {}

(* An upsert replaces the rule of the same permission and glob. *)
LEMMA StoreKeepsInv ==
  ASSUME PolicyInv, NEW r \in Rules, Store(r)
  PROVE  PolicyInv'
<1> DEFINE kept == {s \in rows : s.permission # r.permission \/ s.glob # r.glob}
<1>1. rows' = kept \cup {r} /\ link' = link /\ asked' = asked /\ link = Nothing
      /\ Cardinality(rows') <= MaxRules
  BY DEF Store, Upserted
<1>2. rows' \subseteq Rules
  BY <1>1 DEF PolicyInv, PolicyTypeOK
<1>3. IsFiniteSet(rows')
  <2>1. IsFiniteSet(kept)
    BY FS_Subset DEF PolicyInv
  <2> QED
    BY <1>1, <2>1, FS_AddElement
<1>4. OnePerKey(rows')
  BY <1>1 DEF PolicyInv, PolicyTypeOK, OnePerKey
<1>5. Paired'
  BY <1>1, GrantsAssumption DEF Paired, PolicyInv, PolicyTypeOK
<1> QED
  BY <1>1, <1>2, <1>3, <1>4, <1>5 DEF PolicyInv, PolicyTypeOK, Paired

(* The steps of a link leave the rows of users alone and store settings. *)
LEMMA LinkStepKeepsPair ==
  ASSUME PolicyInv,
         \/ \E g \in Grants, role \in Roles : CreateLink(g, role)
         \/ \E g \in Grants, role \in Roles \cup {l.role : l \in {link} \ {Nothing}} :
               UpdateLink(g.ops, role)
         \/ AssignRole \/ StoreGrant \/ StopHalfway \/ Revoke
  PROVE  Paired' /\ rows' = rows
<1>1. Paired
  BY DEF PolicyInv, PolicyTypeOK, Paired
<1>2. asked # Nothing => link \in Links /\ asked \in Asked /\ rows = {}
  BY <1>1 DEF Paired
<1>3. ASSUME NEW g \in Grants, NEW role \in Roles, CreateLink(g, role)
      PROVE  Paired' /\ rows' = rows
  <2>1. rows = {} /\ rows' = rows
        /\ link' = [root |-> g.root, type |-> g.type, ops |-> g.ops, role |-> Nothing]
        /\ asked' = [old |-> Setting(link'), new |-> [ops |-> g.ops, role |-> role], stage |-> "assign"]
    BY <1>3 DEF CreateLink
  <2>2. g.type \in {"directory", "file"} /\ g.ops \in SUBSET Operations
    BY GrantsAssumption
  <2>3. link' \in Links
    BY <2>1, <2>2 DEF Links
  <2>4. Setting(link') = [ops |-> g.ops, role |-> Nothing]
    BY <2>1 DEF Setting
  <2>5. asked' \in Asked
    BY <2>1, <2>2, <2>4 DEF Asked, Settings
  <2> QED
    BY <2>1, <2>3, <2>5 DEF Paired
<1>4. ASSUME NEW g \in Grants, NEW role \in Roles \cup {l.role : l \in {link} \ {Nothing}},
             UpdateLink(g.ops, role)
      PROVE  Paired' /\ rows' = rows
  <2>1. /\ link \in Links /\ rows = {} /\ rows' = rows
        /\ link' = [link EXCEPT !.role = role]
        /\ asked' = [old |-> Setting(link), new |-> [ops |-> g.ops, role |-> role], stage |-> "update"]
    BY <1>2, <1>4 DEF UpdateLink
  <2>2. g.ops \in SUBSET Operations
    BY GrantsAssumption
  <2>3. role \in Roles \cup {Nothing}
    BY <2>1 DEF Links
  <2>4. link' \in Links
    BY <2>1, <2>3 DEF Links
  <2>5. Setting(link) \in Settings
    BY <2>1 DEF Setting, Settings, Links
  <2>6. asked' \in Asked
    BY <2>1, <2>2, <2>3, <2>5 DEF Asked, Settings
  <2> QED
    BY <2>1, <2>4, <2>6 DEF Paired
<1>5. CASE AssignRole
  BY <1>2, <1>5 DEF AssignRole, Paired, Links, Asked, Settings
<1>6. CASE StoreGrant
  BY <1>2, <1>6 DEF StoreGrant, Paired, Links, Asked, Settings
<1>7. CASE StopHalfway
  BY <1>2, <1>7 DEF StopHalfway, Paired, Asked
<1>8. CASE Revoke
  BY <1>8 DEF Revoke, Paired
<1> QED
  BY <1>3, <1>4, <1>5, <1>6, <1>7, <1>8

LEMMA PolicyStepKeepsInv == PolicyInv /\ [PolicyNext]_policyVars => PolicyInv'
<1> SUFFICES ASSUME PolicyInv, [PolicyNext]_policyVars
             PROVE  PolicyInv'
  OBVIOUS
<1>1. ASSUME NEW r \in Rules, Store(r)
      PROVE  PolicyInv'
  BY <1>1, StoreKeepsInv
<1>2. ASSUME rows' \in SUBSET rows, UNCHANGED <<link, asked>>
      PROVE  PolicyInv'
  <2>1. IsFiniteSet(rows') /\ Cardinality(rows') \in Nat /\ Cardinality(rows) \in Nat
        /\ Cardinality(rows') <= Cardinality(rows)
    BY <1>2, FS_Subset, FS_CardinalityType DEF PolicyInv
  <2>2. OnePerKey(rows')
    BY <1>2 DEF PolicyInv, PolicyTypeOK, OnePerKey
  <2>3. Paired'
    BY <1>2 DEF PolicyInv, PolicyTypeOK, Paired
  <2> QED
    BY <1>2, <2>1, <2>2, <2>3, RulesAssumption DEF PolicyInv, PolicyTypeOK, Paired
<1>3. ASSUME NEW r \in Rules, RemoveRule(r)
      PROVE  PolicyInv'
  BY <1>2, <1>3 DEF RemoveRule
<1>4. CASE Unassign
  BY <1>2, <1>4 DEF Unassign
<1>5. ASSUME Paired', rows' = rows
      PROVE  PolicyInv'
  BY <1>5 DEF PolicyInv, PolicyTypeOK, Paired
<1>6. CASE UNCHANGED policyVars
  BY <1>6, <1>2 DEF policyVars
<1> QED
  BY <1>1, <1>3, <1>4, <1>5, <1>6, LinkStepKeepsPair DEF PolicyNext

(* The rows are rules, one for a permission and a glob, and a subject is either a user's
   role with rules or a share link with a setting and what is asked for it. *)
THEOREM PolicyTypeCorrect == PolicySpec => []PolicyTypeOK
<1>1. PolicyInv => PolicyTypeOK
  BY DEF PolicyInv
<1> QED
  BY <1>1, PolicyInit_Inv, PolicyStepKeepsInv, PTL DEF PolicySpec

(* An edit of a role's rules acts as it looks: whoever stores or removes a rule so that
   fewer allow and more deny, grants nothing by it, and the other way round
   (findBestOverride and requiresTraversalThrough, for any globs and scores). *)
THEOREM EditsAreMonotoneHolds == PolicySpec => EditsAreMonotone
<1> DEFINE Monotone == /\ Stricter(rows, rows') => Allowed(rows') \subseteq Allowed(rows)
                       /\ Stricter(rows', rows) => Allowed(rows) \subseteq Allowed(rows')
<1>1. PolicyInv /\ PolicyInv' => Monotone
  <2> SUFFICES ASSUME PolicyInv, PolicyInv'
               PROVE  Monotone
    OBVIOUS
  <2>1. rows \in SUBSET Rules /\ IsFiniteSet(rows) /\ OnePerKey(rows)
    BY DEF PolicyInv, PolicyTypeOK, OnePerKey
  <2>2. rows' \in SUBSET Rules /\ IsFiniteSet(rows') /\ OnePerKey(rows')
    BY DEF PolicyInv, PolicyTypeOK, OnePerKey
  <2> QED
    BY <2>1, <2>2, AllowedShrinks
<1> QED
  BY <1>1, PolicyInit_Inv, PolicyStepKeepsInv, PTL DEF PolicySpec, EditsAreMonotone

-----------------------------------------------------------------------------
(* A rule that allows opens the way. *)

LEMMA PathIsText ==
  ASSUME NEW p \in AskedPaths
  PROVE  /\ p \in Seq(STRING) /\ p \in Seq(Chars) /\ Len(p) \in Nat \ {0} /\ p[1] = "/"
         /\ Len(p) > 1 => p[Len(p)] # "/"
<1>1. p \in Seq(STRING) /\ p # <<>> /\ p[1] = "/" /\ (Len(p) > 1 => p[Len(p)] # "/")
  BY RulesAssumption DEF IsPath
<1>2. p \in Seq(Chars)
  BY <1>1, TextIsChars
<1>3. Len(p) \in Nat \ {0}
  BY <1>1
<1> QED
  BY <1>1, <1>2, <1>3

LEMMA PrefixIs ==
  ASSUME NEW s \in Seq(Chars), NEW t \in Seq(Chars)
  PROVE  IsPrefix(s, t) <=> Len(s) <= Len(t) /\ \A i \in 1 .. Len(s) : s[i] = t[i]
<1> DEFINE n == Len(s)
           u == SubSeq(s, 1, n)
           v == SubSeq(t, 1, n)
<1>1. n \in Nat
  OBVIOUS
<1>2. u = [i \in 1 .. n |-> s[i]] /\ v = [i \in 1 .. n |-> t[i]]
  <2>1. \A i \in 1 .. n : i + 1 - 1 = i
    BY <1>1
  <2>2. n - 1 + 1 = n
    BY <1>1
  <2>3. u = [i \in 1 .. n - 1 + 1 |-> s[i + 1 - 1]] /\ v = [i \in 1 .. n - 1 + 1 |-> t[i + 1 - 1]]
    BY <1>1
  <2> HIDE DEF n, u, v
  <2> QED
    BY <2>1, <2>2, <2>3
<1> HIDE DEF n, u, v
<1>3. u = v <=> \A i \in 1 .. n : s[i] = t[i]
  BY <1>2
<1> QED
  BY <1>3 DEF IsPrefix, n, u, v

LEMMA FrontIs ==
  ASSUME NEW s \in Seq(Chars), NEW n \in 0 .. Len(s)
  PROVE  /\ SubSeq(s, 1, n) \in Seq(Chars) /\ Len(SubSeq(s, 1, n)) = n
         /\ \A i \in 1 .. n : SubSeq(s, 1, n)[i] = s[i]
<1>1. \A i \in 1 .. n : s[i] \in Chars
  <2>1. \A i \in 1 .. n : i \in 1 .. Len(s)
    OBVIOUS
  <2> QED
    BY <2>1, ElementOfSeq
<1>2. 1 \in Int /\ n \in Int /\ n >= 0
  OBVIOUS
<1>3. /\ SubSeq(s, 1, n) \in Seq(Chars)
      /\ Len(SubSeq(s, 1, n)) = IF 1 <= n THEN n - 1 + 1 ELSE 0
      /\ \A i \in 1 .. n - 1 + 1 : SubSeq(s, 1, n)[i] = s[1 + i - 1]
  BY ONLY <1>1, <1>2, SubSeqProperties
<1>4. n - 1 + 1 = n /\ \A i \in 1 .. n : 1 + i - 1 = i
  BY <1>2
<1> QED
  BY <1>2, <1>3, <1>4

(* The first token of a glob is a slash, and takes the first one of the path. *)
LEMMA BeginsWithSlash ==
  ASSUME NEW glob \in Seq(Chars), glob # <<>>, glob[1] = "/", NEW path \in Seq(Chars),
         NEW from, IsTable(from, glob, path), 1 \in from[1]
  PROVE  2 \in from[2] /\ 2 \in Starts(glob) \cup {Len(glob) + 1} /\ 1 \in Starts(glob)
<1>1. 1 \in 1 .. Len(glob) /\ ~ (1 > 1) /\ 1 \in 1 .. Len(path) + 1
  OBVIOUS
<1>2. 1 \in Starts(glob)
  BY <1>1 DEF Starts
<1>3. After(glob, 1) = 2
  <2>1. glob[1] \in {"/", "?"} => After(glob, 1) = 1 + 1
    BY <1>2, TokenIs
  <2> QED
    BY <2>1
<1>4. from[1] = MatchStep(glob, 1, path, from[Resume(glob, 1)])
  BY <1>1 DEF IsTable
<1>5. PICK n \in Takes(glob, 1, path, 1) : 1 + n \in from[Resume(glob, 1)]
  BY <1>4 DEF MatchStep
<1>6. n = 1 /\ Resume(glob, 1) = 2
  <2>1. glob[1] \notin {"*", "?"}
    OBVIOUS
  <2>2. n = After(glob, 1) - 1 /\ Resume(glob, 1) = After(glob, 1)
    BY <1>1, <1>2, <2>1, TakesText
  <2> QED
    BY <1>3, <2>2
<1>7. 2 \in Starts(glob) \cup {Len(glob) + 1}
  BY <1>1, <1>3, AfterIsNext
<1> QED
  BY <1>2, <1>5, <1>6, <1>7

LEMMA RuleGlob ==
  ASSUME NEW glob \in ToSet(Globs)
  PROVE  /\ glob \in Seq(Chars) /\ glob # <<>> /\ glob[1] = "/"
         /\ \A p \in AskedPaths : Matches(glob, p) <=> Match(glob, p)
<1>1. glob \in Seq(STRING) /\ glob # <<>> /\ glob[1] = "/"
  BY RulesAssumption DEF IsGlob
<1>2. Matched[glob] = {p \in AskedPaths : Match(glob, p)}
  BY DEF Matched
<1> QED
  BY <1>1, <1>2, TextIsChars DEF Matches

(* Every directory above a path that a glob with wildcards in its last name matches is on
   the way that the glob opens: the path has its slashes where the glob has them, before
   the first wildcard, so the directory is literally the beginning of the glob, and
   with fewer slashes than the glob it cannot match it. *)
LEMMA WayIsOpen ==
  ASSUME NEW glob \in ToSet(Globs), OnlyLastIsWild(glob),
         NEW p \in AskedPaths, Matches(glob, p),
         NEW dir \in (Ancestors(p) \cap AskedPaths) \ {p}
  PROVE  LeadsThrough(glob, dir)
<1> DEFINE w == FirstWild(glob)
           L == Len(glob)
<1>1. /\ glob \in Seq(Chars) /\ glob # <<>> /\ glob[1] = "/" /\ ~HasTwoStars(glob)
      /\ L \in Nat \ {0} /\ Match(glob, p) /\ (Matches(glob, dir) <=> Match(glob, dir))
  BY RuleGlob DEF OnlyLastIsWild
<1>2. p \in Seq(Chars) /\ dir \in Seq(Chars) /\ Len(p) \in Nat \ {0} /\ Len(dir) \in Nat \ {0}
      /\ p[1] = "/"
  BY PathIsText
<1>3. PICK from : IsTable(from, glob, p) /\ 1 \in from[1]
  BY <1>1, <1>2, MatchHasTable
<1>4. 2 \in from[2] /\ 2 \in Starts(glob) \cup {L + 1} /\ 1 \in Starts(glob)
  BY <1>1, <1>2, <1>3, BeginsWithSlash
<1>5. /\ w \in Starts(glob) \cup {L + 1} /\ w \in 1 .. L + 1 /\ w \in Wild(glob) \cup {L + 1}
      /\ w \in from[w] /\ w \in 1 .. Len(p) + 1 /\ \A i \in 1 .. w - 1 : p[i] = glob[i]
  BY <1>1, <1>2, <1>3, FirstWildIs, BeginsLiterally
<1>6. LiteralPrefix(glob) = SubSeq(glob, 1, w - 1)
  BY DEF LiteralPrefix, FirstWild, Wild
<1> HIDE DEF w, L
<1>7. SlashesFrom(p, w) = {}
  <2>1. SlashesFrom(glob, w) = {}
    <3>1. CASE w = L + 1
      BY <1>1, <3>1 DEF SlashesFrom, L
    <3>2. CASE w \in Wild(glob)
      <4>1. ASSUME NEW i \in SlashesFrom(glob, w)
            PROVE  FALSE
        <5>1. i \in 1 .. Len(glob) /\ i >= w /\ glob[i] = "/"
          BY <1>1, <1>5 DEF SlashesFrom, L
        <5>2. i < w
          BY <3>2, <5>1 DEF OnlyLastIsWild, Wild
        <5> QED
          BY <1>5, <5>1, <5>2
      <4> QED
        BY <4>1
    <3> QED
      BY <1>5, <3>1, <3>2
  <2>2. Cardinality(SlashesFrom(p, w)) = Cardinality(SlashesFrom(glob, w))
    BY <1>1, <1>2, <1>3, <1>5, SameSlashes DEF L
  <2>3. IsFiniteSet(SlashesFrom(p, w)) /\ w \in 1 .. Len(p) + 1
    BY <1>2, <1>5, SlashesAreCounted
  <2> QED
    BY <2>1, <2>2, <2>3, FS_EmptySet
<1>8. \A i \in 1 .. Len(p) : p[i] = "/" => i < w
  <2> SUFFICES ASSUME NEW i \in 1 .. Len(p), p[i] = "/", ~ (i < w)
               PROVE  FALSE
    OBVIOUS
  <2>1. i \in w .. Len(p)
    BY <1>2, <1>5
  <2> QED
    BY <1>7, <2>1 DEF SlashesFrom
<1>9. CASE dir = <<"/">>
  <2>1. ASSUME Match(glob, dir)
        PROVE  FALSE
    <3>1. PICK to : IsTable(to, glob, dir) /\ 1 \in to[1]
      BY <1>1, <1>2, <2>1, MatchHasTable
    <3>2. 2 \in to[2] /\ Len(dir) = 1
      BY <1>1, <1>2, <1>9, <3>1, BeginsWithSlash
    <3>3. CASE L = 1
      <4>1. from[2] = {Len(p) + 1}
        BY <1>3, <3>3 DEF IsTable, L
      <4>2. Len(p) = 1 /\ p[1] = "/"
        <5>1. 2 = Len(p) + 1
          BY <1>4, <4>1
        <5>2. \A n \in Nat \ {0} : 2 = n + 1 => n = 1
          OBVIOUS
        <5> QED
          BY <1>2, <5>1, <5>2, Zenon
      <4>3. p = dir
        <5>1. Len(p) = Len(dir) /\ \A i \in 1 .. Len(p) : p[i] = dir[i]
          BY <1>9, <4>2
        <5> QED
          BY <1>2, <5>1, SeqEqual
      <4> QED
        BY <4>3
    <3>4. CASE L # 1
      <4>1. 2 <= L
        BY <1>1, <3>4
      <4>2. 2 <= Len(dir)
        BY <1>1, <1>2, <1>4, <3>1, <3>2, <4>1, SameSlashes DEF L
      <4> QED
        BY <3>2, <4>2
    <3> QED
      BY <3>3, <3>4
  <2> QED
    BY <1>1, <1>9, <2>1 DEF LeadsThrough, IsAncestorOrSelf
<1>10. CASE dir # <<"/">>
  <2>1. PICK n \in 1 .. Len(p) - 1 : p[n + 1] = "/" /\ dir = SubSeq(p, 1, n)
    BY <1>10 DEF Ancestors
  <2>2. Len(dir) = n /\ \A i \in 1 .. n : dir[i] = p[i]
    <3>1. n \in 0 .. Len(p)
      BY <1>2, <2>1
    <3> QED
      BY <1>2, <2>1, <3>1, FrontIs
  <2>3. n + 1 < w /\ n + 1 \in 1 .. Len(p)
    BY <1>2, <1>8, <2>1
  <2>4. ASSUME Match(glob, dir)
        PROVE  FALSE
    <3>1. PICK to : IsTable(to, glob, dir) /\ 1 \in to[1]
      BY <1>1, <1>2, <2>4, MatchHasTable
    <3>2. Cardinality(SlashesFrom(dir, 1)) = Cardinality(SlashesFrom(glob, 1))
      BY <1>1, <1>2, <1>4, <3>1, SameSlashes DEF L
    <3>3. Cardinality(SlashesFrom(p, 1)) = Cardinality(SlashesFrom(glob, 1))
      BY <1>1, <1>2, <1>3, <1>4, SameSlashes DEF L
    <3>4. SlashesFrom(dir, 1) \in SUBSET SlashesFrom(p, 1)
      <4>1. \A i \in 1 .. n : i \in 1 .. Len(p)
        BY <1>2, <2>1
      <4> QED
        BY <2>2, <4>1 DEF SlashesFrom
    <3>5. n + 1 \in SlashesFrom(p, 1) /\ n + 1 \notin SlashesFrom(dir, 1)
      BY <2>1, <2>2, <2>3 DEF SlashesFrom
    <3>6. IsFiniteSet(SlashesFrom(p, 1))
      <4>1. 1 \in 1 .. Len(p) + 1
        BY <1>2
      <4> QED
        BY <1>2, <4>1, SlashesAreCounted
    <3>7. SlashesFrom(dir, 1) # SlashesFrom(p, 1)
      BY <3>5
    <3> QED
      BY ONLY <3>2, <3>3, <3>4, <3>6, <3>7, FS_Subset
  <2>5. IsAncestorOrSelf(dir, LiteralPrefix(glob))
    <3> DEFINE lit == SubSeq(glob, 1, w - 1)
    <3>1. /\ lit \in Seq(Chars) /\ Len(lit) = w - 1
          /\ \A i \in 1 .. w - 1 : lit[i] = glob[i]
      <4>1. w - 1 \in 0 .. Len(glob)
        BY <1>1, <1>5 DEF L
      <4> QED
        BY <1>1, <4>1, FrontIs
    <3> HIDE DEF lit
    <3>2. \A i \in 1 .. n + 1 : i \in 1 .. w - 1
      BY <1>5, <2>1, <2>3
    <3>3. Len(dir) <= Len(lit) /\ \A i \in 1 .. Len(dir) : dir[i] = lit[i]
      BY <1>5, <2>1, <2>2, <2>3, <3>1, <3>2
    <3>4. lit[Len(dir) + 1] = "/"
      <4>1. n + 1 \in 1 .. w - 1
        BY <2>1, <3>2
      <4>2. lit[n + 1] = glob[n + 1] /\ p[n + 1] = glob[n + 1]
        BY <1>5, <3>1, <4>1
      <4> QED
        BY <2>1, <2>2, <4>2
    <3>5. IsPrefix(dir, lit)
      BY <1>2, <3>1, <3>3, PrefixIs
    <3> QED
      BY <1>6, <3>4, <3>5 DEF IsAncestorOrSelf, lit
  <2> QED
    BY <1>1, <2>4, <2>5 DEF LeadsThrough
<1> QED
  BY <1>9, <1>10

(* Whatever a rule allows something on can be reached. *)
LEMMA AllowedOpens == PolicyInv => AllowedIsReachable
<1> SUFFICES ASSUME PolicyInv, NEW r \in Of("ALLOW", rows), OnlyLastIsWild(r.glob),
                    NEW p \in {q \in AskedPaths : Matches(r.glob, q)},
                    NEW dir \in (Ancestors(p) \cap AskedPaths) \ {p}
             PROVE  Evaluate(Listed(rows), Base,
                       [action |-> "Lookup", path |-> dir, exists |-> TRUE, directory |-> TRUE])
  BY DEF AllowedIsReachable
<1>1. /\ rows \in SUBSET Rules /\ IsFiniteSet(rows) /\ OnePerKey(rows)
      /\ r \in rows /\ r \in Rules /\ r.enabled /\ r.effect = "ALLOW"
  BY DEF PolicyInv, PolicyTypeOK, OnePerKey, Of
<1>2. r.glob \in ToSet(Globs)
  BY <1>1 DEF Rules
<1>3. LeadsThrough(r.glob, dir)
  BY <1>2, WayIsOpen
<1>4. \E i \in DOMAIN Listed(rows) : Listed(rows)[i] = r
  BY <1>1, ListedIsOrdered
<1>5. TraversalAllows(Listed(rows), dir)
  BY <1>1, <1>3, <1>4 DEF TraversalAllows
<1> QED
  BY <1>5 DEF Evaluate, RequiresExistingEntry, IsValidFor

(* What a rule allows something on can be reached: the evaluator lets one look up every
   directory above it, whatever other rules say (Matcher::requiresTraversalThrough). *)
THEOREM AllowedIsReachableHolds == PolicySpec => []AllowedIsReachable
<1> QED
  BY AllowedOpens, PolicyInit_Inv, PolicyStepKeepsInv, PTL DEF PolicySpec

-----------------------------------------------------------------------------
(* What a share link allows. *)

LEMMA SettingIs ==
  ASSUME NEW set \in Settings
  PROVE  /\ set.ops \subseteq Operations
         /\ set.role # Nothing => /\ set.role.rules \in SUBSET Rules
                                  /\ IsFiniteSet(set.role.rules)
                                  /\ OnePerKey(set.role.rules)
  BY GrantsAssumption DEF Settings

(* Taking away operations, permissions and rules that allow, and adding rules that deny,
   gives a visitor nothing. *)
LEMMA RightsShrink ==
  ASSUME NEW root, NEW old \in Settings, NEW new \in Settings, Narrower(new, old)
  PROVE  Rights(root, new) \subseteq Rights(root, old)
<1> SUFFICES ASSUME NEW op \in new.ops, NEW t \in Targets, ShareAllows(root, new, op, t)
             PROVE  op \in old.ops /\ ShareAllows(root, old, op, t)
  BY DEF Rights
<1> DEFINE q == [action |-> ActionForOperation(op), path |-> t.path,
                 exists |-> t.exists, directory |-> t.directory]
<1>1. /\ new.role # Nothing /\ IsAncestorOrSelf(root, t.path)
      /\ ActionForOperation(op) # Nothing
      /\ Evaluate(Listed(new.role.rules), new.role.base, q)
  BY DEF ShareAllows
<1>2. /\ op \in old.ops /\ old.role # Nothing
      /\ Stricter(old.role.rules, new.role.rules) /\ new.role.base \subseteq old.role.base
  BY <1>1 DEF Narrower
<1> HIDE DEF q
<1>3. Evaluate(Listed(old.role.rules), old.role.base, q)
  <2>1. /\ new.role.rules \in SUBSET Rules /\ IsFiniteSet(new.role.rules)
        /\ OnePerKey(new.role.rules)
    BY <1>1, SettingIs
  <2>2. /\ old.role.rules \in SUBSET Rules /\ IsFiniteSet(old.role.rules)
        /\ OnePerKey(old.role.rules)
    BY <1>2, SettingIs
  <2> QED
    BY <1>1, <1>2, <2>1, <2>2, EvaluateShrinks
<1> QED
  BY <1>1, <1>2, <1>3 DEF ShareAllows, q

(* How far a change has come: operations and role are each the old or the new ones, the
   role is written first, and what is stored is what was asked for. *)
LinkInv ==
    link # Nothing =>
        /\ link.ops \in {asked.old.ops, asked.new.ops}
        /\ link.role \in {asked.old.role, asked.new.role}
        /\ asked.stage = "assign" => link.ops = asked.new.ops
        /\ asked.stage = "update" => link.role = asked.new.role
        /\ asked.stage = "stored" => link.ops = asked.new.ops /\ link.role = asked.new.role

LEMMA LinkStep == PolicyInv /\ LinkInv /\ [PolicyNext]_policyVars => LinkInv'
<1> SUFFICES ASSUME PolicyInv, LinkInv, [PolicyNext]_policyVars, link' # Nothing
             PROVE  LinkInv'
  BY DEF LinkInv
<1>1. asked # Nothing => link \in Links /\ asked \in Asked /\ link # Nothing
  BY GrantsAssumption DEF PolicyInv, PolicyTypeOK
<1>2. CASE UNCHANGED <<link, asked>>
  BY <1>2 DEF LinkInv
<1>3. ASSUME NEW g \in Grants, NEW role \in Roles, CreateLink(g, role)
      PROVE  LinkInv'
  BY <1>3 DEF CreateLink, LinkInv, Setting
<1>4. ASSUME NEW ops, NEW role, UpdateLink(ops, role)
      PROVE  LinkInv'
  <2>1. link \in Links /\ link' = [link EXCEPT !.role = role]
        /\ asked' = [old |-> Setting(link), new |-> [ops |-> ops, role |-> role], stage |-> "update"]
    BY <1>1, <1>4 DEF UpdateLink
  <2>2. link'.ops = link.ops /\ link'.role = role
    BY <2>1 DEF Links
  <2> QED
    BY <2>1, <2>2 DEF LinkInv, Setting
<1>5. CASE AssignRole
  <2>1. link \in Links /\ asked \in Asked /\ link' = [link EXCEPT !.role = asked.new.role]
        /\ asked' = [asked EXCEPT !.stage = "stored"] /\ link.ops = asked.new.ops
    BY <1>1, <1>5 DEF AssignRole, LinkInv
  <2>2. link'.ops = asked.new.ops /\ link'.role = asked.new.role
        /\ asked'.old = asked.old /\ asked'.new = asked.new /\ asked'.stage = "stored"
    BY <2>1 DEF Links, Asked
  <2> QED
    BY <2>2 DEF LinkInv
<1>6. CASE StoreGrant
  <2>1. link \in Links /\ asked \in Asked /\ link' = [link EXCEPT !.ops = asked.new.ops]
        /\ asked' = [asked EXCEPT !.stage = "stored"] /\ link.role = asked.new.role
    BY <1>1, <1>6 DEF StoreGrant, LinkInv
  <2>2. link'.ops = asked.new.ops /\ link'.role = asked.new.role
        /\ asked'.old = asked.old /\ asked'.new = asked.new /\ asked'.stage = "stored"
    BY <2>1 DEF Links, Asked
  <2> QED
    BY <2>2 DEF LinkInv
<1>7. CASE StopHalfway
  <2>1. asked \in Asked /\ link' = link /\ asked' = [asked EXCEPT !.stage = "halfway"] /\ link # Nothing
    BY <1>1, <1>7 DEF StopHalfway
  <2>2. asked'.old = asked.old /\ asked'.new = asked.new /\ asked'.stage = "halfway"
    BY <2>1 DEF Asked
  <2> QED
    BY <2>1, <2>2 DEF LinkInv
<1>8. CASE Revoke
  BY <1>8 DEF Revoke
<1> QED
  BY <1>2, <1>3, <1>4, <1>5, <1>6, <1>7, <1>8
  DEF PolicyNext, policyVars, Store, RemoveRule, Unassign

LEMMA LinkMeansIt == PolicyInv /\ LinkInv => LinkIsAsAsked
<1> SUFFICES ASSUME PolicyInv, LinkInv, link # Nothing
             PROVE  LinkIsAsAsked
  BY DEF LinkIsAsAsked
<1> DEFINE now == Setting(link)
<1>1. asked.old \in Settings /\ asked.new \in Settings /\ link \in Links
  BY DEF PolicyInv, PolicyTypeOK, Asked
<1>2. now \in Settings /\ now.ops = link.ops /\ now.role = link.role
  BY <1>1 DEF Setting, Settings, Links
<1> HIDE DEF now
<1>3. /\ now.ops \in {asked.old.ops, asked.new.ops}
      /\ now.role \in {asked.old.role, asked.new.role}
  BY <1>2 DEF LinkInv
<1>4. ASSUME NEW low \in Settings, NEW high \in Settings, Narrower(low, high),
             now.ops \in {low.ops, high.ops}, now.role \in {low.role, high.role}
      PROVE  Between(low, now, high)
  <2>1. Narrower(low, now) /\ Narrower(now, high)
    BY <1>4 DEF Narrower, Stricter
  <2> QED
    BY <1>2, <1>4, <2>1, RightsShrink DEF Between
<1>5. Narrower(asked.new, asked.old) => Between(asked.new, now, asked.old)
  BY <1>1, <1>3, <1>4
<1>6. Narrower(asked.old, asked.new) => Between(asked.old, now, asked.new)
  BY <1>1, <1>3, <1>4
<1>7. asked.stage = "stored" => Between(asked.new, now, asked.new)
  <2> SUFFICES ASSUME asked.stage = "stored"
               PROVE  Between(asked.new, now, asked.new)
    OBVIOUS
  <2>1. now.ops = asked.new.ops /\ now.role = asked.new.role
    BY <1>2 DEF LinkInv
  <2>2. Narrower(asked.new, asked.new)
    BY DEF Narrower, Stricter
  <2> QED
    BY <1>1, <1>4, <2>1, <2>2
<1> QED
  BY <1>5, <1>6, <1>7 DEF LinkIsAsAsked, now

(* A link allows what was asked for once it is stored, and is never outside of what it was
   and what it shall be while a change that only takes away, or only adds, is written in two
   transactions (Manager::createLink and updateLink, Share::evaluate). *)
THEOREM LinkIsAsAskedHolds == PolicySpec => []LinkIsAsAsked
<1>1. PolicyInit => LinkInv
  BY DEF PolicyInit, LinkInv
<1> QED
  BY <1>1, PolicyInit_Inv, PolicyStepKeepsInv, LinkStep, LinkMeansIt, PTL DEF PolicySpec


-----------------------------------------------------------------------------
(* What a glob means, segment by segment. *)

(* A place with another kind of character behind it is a token of its own. *)
LEMMA AfterOne ==
  ASSUME NEW glob \in Seq(Chars), NEW k \in 1 .. Len(glob),
         k < Len(glob) => k + 1 \in Starts(glob)
  PROVE  After(glob, k) = k + 1
<1>1. Len(glob) \in Nat /\ k \in Nat
  OBVIOUS
<1>2. After(glob, k) \in k + 1 .. Len(glob) + 1
  BY AfterIsNext
<1>3. CASE k < Len(glob)
  <2>1. After(glob, k) <= k + 1
    BY <1>1, <1>3, AfterIsNext
  <2> QED
    BY <1>1, <1>2, <2>1
<1>4. CASE ~ (k < Len(glob))
  BY <1>1, <1>2, <1>4
<1> QED
  BY <1>3, <1>4

LEMMA NextStarts ==
  ASSUME NEW glob \in Seq(Chars), NEW k \in 1 .. Len(glob) - 1
  PROVE  k + 1 \in Starts(glob) <=>
            glob[k + 1] \in {"/", "?"} \/ Kind(glob[k + 1]) # Kind(glob[k])
<1>1. k + 1 \in 1 .. Len(glob) /\ k + 1 > 1 /\ (k + 1) - 1 = k
  OBVIOUS
<1> QED
  BY <1>1 DEF Starts

LEMMA LiteralReaches ==
  ASSUME NEW glob \in Seq(Chars), NEW path \in Seq(Chars), NEW from, IsTable(from, glob, path),
         NEW k \in 1 .. Len(glob), glob[k] \notin {"*", "?"}, NEW j \in 1 .. Len(path) + 1,
         NEW e, e = After(glob, k)
  PROVE  j \in from[k] <=> /\ e - k <= Len(path) + 1 - j
                           /\ Alike(path, j, glob, k, e - k - 1)
                           /\ j + (e - k) \in from[e]
<1> DEFINE E == Len(path) + 1
<1>1. /\ Len(glob) \in Nat /\ k \in Nat /\ E \in Nat \ {0} /\ e \in k + 1 .. Len(glob) + 1
      /\ j \in 1 .. E
  BY AfterIsNext
<1>2. from[k] = MatchStep(glob, k, path, from[Resume(glob, k)])
  BY DEF IsTable
<1>3. j \in from[k] <=> \E n \in 0 .. E - j : n \in Takes(glob, k, path, j) /\ j + n \in from[e]
  <2>1. Resume(glob, k) = e
    BY LiteralTakes
  <2>2. \A n \in Takes(glob, k, path, j) : n \in 0 .. E - j
    BY DEF Takes
  <2> QED
    BY <1>2, <2>1, <2>2 DEF MatchStep
<1>4. \A n \in 0 .. E - j :
         n \in Takes(glob, k, path, j) <=> n = e - k /\ Alike(path, j, glob, k, n - 1)
  BY LiteralTakes
<1>5. e - k \in Nat /\ (e - k <= E - j <=> e - k \in 0 .. E - j)
  BY <1>1
<1> HIDE DEF E
<1>6. j \in from[k] <=> /\ e - k <= E - j
                        /\ Alike(path, j, glob, k, e - k - 1)
                        /\ j + (e - k) \in from[e]
  BY <1>3, <1>4, <1>5
<1> QED
  BY <1>6 DEF E

(* The matcher goes by tokens; for a literal that is the same as going character by
   character. *)
LEMMA LiteralStep ==
  ASSUME NEW glob \in Seq(Chars), NEW path \in Seq(Chars), NEW from, IsTable(from, glob, path),
         NEW k \in 1 .. Len(glob), glob[k] \notin {"*", "?"}, NEW j \in 1 .. Len(path) + 1
  PROVE  j \in from[k] <=> j <= Len(path) /\ path[j] = glob[k] /\ j + 1 \in from[k + 1]
<1> DEFINE e == After(glob, k)
           E == Len(path) + 1
<1>1. /\ Len(glob) \in Nat /\ k \in Nat /\ E \in Nat \ {0} /\ e \in k + 1 .. Len(glob) + 1
      /\ j \in 1 .. E /\ (j <= Len(path) <=> j < E)
  BY AfterIsNext
<1>2. j \in from[k] <=> /\ e - k <= E - j
                        /\ Alike(path, j, glob, k, e - k - 1)
                        /\ j + (e - k) \in from[e]
  BY LiteralReaches
<1>3. CASE e = k + 1
  <2>1. e - k = 1 /\ \A i \in 0 .. 0 : i = 0
    BY <1>1, <1>3
  <2>2. j + 0 = j /\ k + 0 = k /\ (1 <= E - j <=> j < E) /\ 0 \in 0 .. 0 /\ 1 - 1 = 0
    BY <1>1
  <2>3. Alike(path, j, glob, k, 0) <=> path[j] = glob[k]
    BY <2>1, <2>2 DEF Alike
  <2> HIDE DEF e, E
  <2> QED
    BY <1>1, <1>2, <1>3, <2>1, <2>2, <2>3
<1>4. CASE e # k + 1
  <2> DEFINE j1 == j + 1
             k1 == k + 1
  <2>1. k1 \in 1 .. Len(glob) /\ k < Len(glob) /\ k1 < e
    BY <1>1, <1>4
  <2>2. k1 \notin Starts(glob)
    BY <1>4, AfterOne
  <2>3. glob[k1] \notin {"/", "?"} /\ Kind(glob[k1]) = Kind(glob[k])
    BY <1>1, <2>1, <2>2, NextStarts
  <2>4. glob[k1] \notin {"*", "?"}
    BY <2>3 DEF Kind, Special
  <2>5. After(glob, k1) = e
    <3> DEFINE A(i) == {x \in Starts(glob) \cup {Len(glob) + 1} : x > i}
    <3>1. \A x \in Starts(glob) \cup {Len(glob) + 1} : x > k <=> x > k1
      <4>1. \A x \in Starts(glob) \cup {Len(glob) + 1} : x \in Nat /\ x # k1
        BY <1>1, <2>1, <2>2 DEF Starts
      <4> QED
        BY <1>1, <4>1
    <3>2. A(k) = A(k1)
      BY <3>1
    <3> QED
      BY <3>2 DEF After
  <2>6. CASE j < E
    <3>1. j1 \in 1 .. E
      BY <1>1, <2>6
    <3>2. j1 \in from[k1] <=> /\ e - k1 <= E - j1
                              /\ Alike(path, j1, glob, k1, e - k1 - 1)
                              /\ j1 + (e - k1) \in from[e]
      <4>1. /\ k1 \in 1 .. Len(glob) /\ glob[k1] \notin {"*", "?"}
            /\ j1 \in 1 .. Len(path) + 1 /\ e = After(glob, k1)
        BY <2>1, <2>4, <2>5, <3>1
      <4>2. j1 \in from[k1] <=> /\ e - k1 <= Len(path) + 1 - j1
                                /\ Alike(path, j1, glob, k1, e - k1 - 1)
                                /\ j1 + (e - k1) \in from[e]
        <5> HIDE DEF E, e, j1, k1
        <5> QED
          BY <4>1, LiteralReaches
      <4> QED
        BY <4>2
    <3>3. e - k1 <= E - j1 <=> e - k <= E - j
      BY <1>1
    <3>4. j1 + (e - k1) = j + (e - k)
      BY <1>1
    <3>5. Alike(path, j, glob, k, e - k - 1) <=>
             path[j] = glob[k] /\ Alike(path, j1, glob, k1, e - k1 - 1)
      <4>1. /\ e \in Int /\ k \in Int /\ j \in Int /\ k + 1 < e
            /\ 0 \in 0 .. e - k - 1 /\ j + 0 = j /\ k + 0 = k
        BY <1>1, <2>1
      <4> HIDE DEF e, j1, k1
      <4>2. ASSUME Alike(path, j, glob, k, e - k - 1)
            PROVE  path[j] = glob[k] /\ \A i \in 0 .. e - k1 - 1 : path[j1 + i] = glob[k1 + i]
        <5>1. path[j + 0] = glob[k + 0]
          BY <4>1, <4>2 DEF Alike
        <5>2. ASSUME NEW i \in 0 .. e - k1 - 1
              PROVE  path[j1 + i] = glob[k1 + i]
          <6>1. i + 1 \in 0 .. e - k - 1 /\ j1 + i = j + (i + 1) /\ k1 + i = k + (i + 1)
            BY <4>1 DEF j1, k1
          <6> QED
            BY <4>2, <6>1 DEF Alike
        <5> QED
          BY <4>1, <5>1, <5>2
      <4>3. ASSUME path[j] = glob[k], Alike(path, j1, glob, k1, e - k1 - 1),
                   NEW i \in 0 .. e - k - 1
            PROVE  path[j + i] = glob[k + i]
        <5>1. CASE i = 0
          BY <4>1, <4>3, <5>1
        <5>2. CASE i # 0
          <6>1. i - 1 \in 0 .. e - k1 - 1 /\ j1 + (i - 1) = j + i /\ k1 + (i - 1) = k + i
            BY <4>1, <5>2 DEF j1, k1
          <6> QED
            BY <4>3, <6>1 DEF Alike
        <5> QED
          BY <5>1, <5>2
      <4> QED
        BY <4>2, <4>3 DEF Alike
    <3> HIDE DEF e, E
    <3> QED
      BY <1>1, <1>2, <2>6, <3>2, <3>3, <3>4, <3>5
  <2>7. CASE ~ (j < E)
    <3>1. ~ (e - k <= E - j)
      BY <1>1, <2>7
    <3> HIDE DEF e, E
    <3> QED
      BY <1>1, <1>2, <2>7, <3>1
  <2> QED
    BY <2>6, <2>7
<1> QED
  BY <1>3, <1>4

LEMMA QuestionStep ==
  ASSUME NEW glob \in Seq(Chars), NEW path \in Seq(Chars), NEW from, IsTable(from, glob, path),
         NEW k \in 1 .. Len(glob), glob[k] = "?", NEW j \in 1 .. Len(path) + 1
  PROVE  j \in from[k] <=> j <= Len(path) /\ path[j] # "/" /\ j + 1 \in from[k + 1]
<1>1. k < Len(glob) => k + 1 \in Starts(glob)
  <2> SUFFICES ASSUME k < Len(glob)
               PROVE  k + 1 \in Starts(glob)
    OBVIOUS
  <2>1. k \in 1 .. Len(glob) - 1
    OBVIOUS
  <2> QED
    BY <2>1, NextStarts DEF Kind, Special
<1>2. After(glob, k) = k + 1
  BY <1>1, AfterOne
<1>3. Type(glob, k) = "?" /\ Resume(glob, k) = k + 1
  BY <1>2 DEF Type, Resume, Kind, Special
<1>4. Takes(glob, k, path, j) = {n \in 0 .. Len(path) + 1 - j : n = 1 /\ path[j] # "/"}
  BY <1>3 DEF Takes
<1>5. j \in from[k] <=> \E n \in Takes(glob, k, path, j) : j + n \in from[k + 1]
  BY <1>3 DEF IsTable, MatchStep
<1>6. 1 \in 0 .. Len(path) + 1 - j <=> j <= Len(path)
  OBVIOUS
<1> QED
  BY <1>4, <1>5, <1>6

(* One star. *)
LEMMA StarStep ==
  ASSUME NEW glob \in Seq(Chars), NEW path \in Seq(Chars), NEW from, IsTable(from, glob, path),
         NEW k \in 1 .. Len(glob), glob[k] = "*", k < Len(glob) => glob[k + 1] # "*",
         NEW j \in 1 .. Len(path) + 1
  PROVE  j \in from[k] <=> \E n \in 1 .. Len(path) + 1 - j :
                              /\ \A i \in j .. j + n - 1 : path[i] # "/"
                              /\ j + n \in from[k + 1]
<1>1. k < Len(glob) => k + 1 \in Starts(glob)
  <2> SUFFICES ASSUME k < Len(glob)
               PROVE  k + 1 \in Starts(glob)
    OBVIOUS
  <2>1. k \in 1 .. Len(glob) - 1
    OBVIOUS
  <2> QED
    BY <2>1, NextStarts DEF Kind, Special
<1>2. After(glob, k) = k + 1 /\ k + 1 # k + 2
  BY <1>1, AfterOne
<1>3. Type(glob, k) = "*" /\ Resume(glob, k) = k + 1
  BY <1>2 DEF Type, Resume, Kind, Special
<1>4. Takes(glob, k, path, j) =
        {n \in 0 .. Len(path) + 1 - j : n > 0 /\ \A i \in j .. j + n - 1 : path[i] # "/"}
  BY <1>3 DEF Takes
<1>5. j \in from[k] <=> \E n \in Takes(glob, k, path, j) : j + n \in from[k + 1]
  BY <1>3 DEF IsTable, MatchStep
<1>6. \A n : n \in 1 .. Len(path) + 1 - j <=> n \in 0 .. Len(path) + 1 - j /\ n > 0
  OBVIOUS
<1> QED
  BY <1>4, <1>5, <1>6

(* Two stars that are a segment of their own. *)
LEMMA StarsStep ==
  ASSUME NEW glob \in Seq(Chars), NEW path \in Seq(Chars), NEW from, IsTable(from, glob, path),
         NEW k \in 1 .. Len(glob) - 1, glob[k] = "*", glob[k + 1] = "*",
         k + 1 < Len(glob) => glob[k + 2] = "/",
         NEW j \in 1 .. Len(path) + 1
  PROVE  /\ k + 1 = Len(glob) => j \in from[k]
         /\ k + 1 < Len(glob) =>
              (j \in from[k] <=> \E n \in 0 .. Len(path) + 1 - j :
                                    /\ n = 0 \/ path[j + n - 1] = "/"
                                    /\ j + n \in from[k + 3])
<1>1. /\ Len(glob) \in Nat /\ k \in Nat /\ k \in 1 .. Len(glob) /\ k + 1 \in 1 .. Len(glob)
      /\ k + 1 <= Len(glob) /\ Len(path) \in Nat
  OBVIOUS
<1>2. After(glob, k) = k + 2
  <2>1. k + 1 \notin Starts(glob)
    BY NextStarts
  <2>2. k + 1 < Len(glob) => k + 2 \in Starts(glob)
    <3> SUFFICES ASSUME k + 1 < Len(glob)
                 PROVE  k + 2 \in Starts(glob)
      OBVIOUS
    <3>1. k + 1 \in 1 .. Len(glob) - 1 /\ (k + 1) + 1 = k + 2
      BY <1>1
    <3>2. (k + 1) + 1 \in Starts(glob)
      BY <3>1, NextStarts
    <3> QED
      BY <3>1, <3>2
  <2>3. /\ After(glob, k) \in k + 1 .. Len(glob) + 1
        /\ After(glob, k) \in Starts(glob) \cup {Len(glob) + 1}
        /\ k + 1 < Len(glob) => After(glob, k) <= k + 2
    BY <1>1, <2>2, AfterIsNext
  <2>4. After(glob, k) # k + 1
    BY <1>1, <2>1, <2>3
  <2> QED
    BY <1>1, <2>3, <2>4
<1>3. Type(glob, k) = "**"
  BY <1>2 DEF Type
<1>4. from[k] = MatchStep(glob, k, path, from[Resume(glob, k)])
  BY <1>1 DEF IsTable
<1>5. CASE k + 1 = Len(glob)
  <2>1. ~ SlashFollows(glob, k) /\ Resume(glob, k) = Len(glob) + 1
    BY <1>1, <1>2, <1>5 DEF SlashFollows, Resume
  <2>2. Len(path) + 1 - j \in Takes(glob, k, path, j)
    <3>1. Len(path) + 1 - j \in 0 .. Len(path) + 1 - j
      BY <1>1
    <3> QED
      BY <1>3, <2>1, <3>1 DEF Takes
  <2>3. j + (Len(path) + 1 - j) \in from[Len(glob) + 1]
    <3>1. j + (Len(path) + 1 - j) = Len(path) + 1
      BY <1>1
    <3>2. from[Len(glob) + 1] = {Len(path) + 1}
      BY DEF IsTable
    <3> QED
      BY <3>1, <3>2
  <2> QED
    BY <1>1, <1>4, <1>5, <2>1, <2>2, <2>3 DEF MatchStep
<1>6. CASE k + 1 < Len(glob)
  <2>1. SlashFollows(glob, k) /\ Resume(glob, k) = k + 3
    BY <1>1, <1>2, <1>3, <1>6 DEF SlashFollows, Resume
  <2>2. Takes(glob, k, path, j) =
          {n \in 0 .. Len(path) + 1 - j : n = 0 \/ path[j + n - 1] = "/"}
    BY <1>3, <2>1 DEF Takes
  <2>3. j \in from[k] <=> \E n \in Takes(glob, k, path, j) : j + n \in from[k + 3]
    BY <1>4, <2>1 DEF MatchStep
  <2>4. j \in from[k] <=> \E n \in 0 .. Len(path) + 1 - j :
                             (n = 0 \/ path[j + n - 1] = "/") /\ j + n \in from[k + 3]
    BY ONLY <2>2, <2>3, Zenon
  <2>5. k + 1 # Len(glob)
    BY <1>1, <1>6
  <2> QED
    BY ONLY <2>4, <2>5, Zenon
<1> QED
  BY <1>1, <1>5, <1>6

(* The tables of the reference: where the rest of a name may begin, and before which
   segments of the path the rest of the glob may. *)
NameStep(glob, i, name, rest) ==
    {j \in 1 .. Len(name) : \E n \in 1 .. Len(name) + 1 - j :
        j + n \in rest /\ (glob[i] # "*" => n = 1 /\ glob[i] \in {"?", name[j]})}

IsNameTable(fits, glob, name) ==
    /\ fits \in [1 .. Len(glob) + 1 -> SUBSET (1 .. Len(name) + 1)]
    /\ fits[Len(glob) + 1] = {Len(name) + 1}
    /\ \A i \in 1 .. Len(glob) : fits[i] = NameStep(glob, i, name, fits[i + 1])

LEMMA NameTableExists ==
  ASSUME NEW glob \in Seq(Chars), NEW name \in Seq(Chars)
  PROVE  \E fits : IsNameTable(fits, glob, name)
<1> DEFINE L == Len(glob)
           S == 1 .. Len(name) + 1
           resume == [i \in 1 .. L |-> i + 1]
           step == [i \in 1 .. L |-> [rest \in SUBSET S |-> NameStep(glob, i, name, rest)]]
<1>1. L \in Nat /\ {Len(name) + 1} \in SUBSET S
  OBVIOUS
<1>2. step \in [1 .. L -> [SUBSET S -> SUBSET S]]
  <2>1. \A i, rest : NameStep(glob, i, name, rest) \in SUBSET S
    <3>1. \A j \in 1 .. Len(name) : j \in S
      OBVIOUS
    <3> HIDE DEF S
    <3> QED
      BY <3>1 DEF NameStep
  <2> HIDE DEF S
  <2> QED
    BY <2>1
<1>3. \A i \in 1 .. L : resume[i] = i + 1 /\ resume[i] \in i + 1 .. L + 1
  BY <1>1
<1>4. \A i \in 1 .. L, rest \in SUBSET S : step[i][rest] = NameStep(glob, i, name, rest)
  OBVIOUS
<1> HIDE DEF L, S, resume, step
<1>5. PICK f : Solution(f, L, S, {Len(name) + 1}, step, resume)
  <2>1. Recursion(L, S, {Len(name) + 1}, step, resume)
    BY <1>1, <1>2, <1>3 DEF Recursion
  <2> QED
    BY <2>1, TableFrom
<1>6. ASSUME NEW i \in 1 .. L
      PROVE  f[i] = NameStep(glob, i, name, f[i + 1])
  <2>1. resume[i] = i + 1 /\ i + 1 \in 1 .. L + 1
    BY <1>1, <1>3
  <2>2. f[i + 1] \in SUBSET S
    BY <1>5, <2>1 DEF Solution
  <2>3. f[i] = step[i][f[i + 1]]
    BY <1>5, <2>1 DEF Solution
  <2> QED
    BY <1>4, <2>2, <2>3
<1> QED
  BY <1>5, <1>6 DEF IsNameTable, Solution, L, S

LEMMA NameHasTable ==
  ASSUME NEW glob \in Seq(Chars), NEW name \in Seq(Chars)
  PROVE  \E fits : IsNameTable(fits, glob, name) /\ (NameFits(glob, name) <=> 1 \in fits[1])
<1> DEFINE D == 1 .. Len(glob) + 1
           Entry(fits, i) ==
             IF i > Len(glob) THEN {Len(name) + 1}
             ELSE {j \in 1 .. Len(name) : \E n \in 1 .. Len(name) + 1 - j :
                      /\ j + n \in fits[i + 1]
                      /\ glob[i] # "*" => n = 1 /\ glob[i] \in {"?", name[j]}}
           Solves(fits) == fits = [i \in D |-> Entry(fits, i)]
           m == CHOOSE fits : Solves(fits)
<1>1. /\ Len(glob) \in Nat /\ Len(name) \in Nat /\ Len(glob) + 1 \in D /\ Len(glob) + 1 > Len(glob)
      /\ \A i \in 1 .. Len(glob) : i \in D /\ ~ (i > Len(glob))
      /\ \A i \in D : i \in 1 .. Len(glob) \/ (i = Len(glob) + 1 /\ i > Len(glob))
  OBVIOUS
<1>2. \A fits : Entry(fits, Len(glob) + 1) = {Len(name) + 1}
  BY <1>1
<1>3. \A fits : \A i \in 1 .. Len(glob) : Entry(fits, i) = NameStep(glob, i, name, fits[i + 1])
  BY <1>1 DEF NameStep
<1>4. NameFits(glob, name) <=> 1 \in m[1]
  BY DEF NameFits
<1>5. \A i, rest : NameStep(glob, i, name, rest) \in SUBSET (1 .. Len(name) + 1)
  <2>1. \A j \in 1 .. Len(name) : j \in 1 .. Len(name) + 1
    OBVIOUS
  <2> QED
    BY <2>1 DEF NameStep
<1> HIDE DEF D, Entry
<1>6. Solves(m)
  <2>1. PICK fits : IsNameTable(fits, glob, name)
    BY NameTableExists
  <2>2. \A i \in D : fits[i] = Entry(fits, i)
    BY <1>1, <1>2, <1>3, <2>1 DEF IsNameTable
  <2>3. Solves(fits)
    BY <2>1, <2>2 DEF IsNameTable, D
  <2> QED
    BY <2>3
<1>7. m = [i \in D |-> Entry(m, i)]
  BY <1>6
<1> HIDE DEF m
<1>8. \A i \in D : m[i] = Entry(m, i)
  BY <1>7
<1>9. m[Len(glob) + 1] = {Len(name) + 1}
  BY <1>1, <1>2, <1>8
<1>10. \A i \in 1 .. Len(glob) : m[i] = NameStep(glob, i, name, m[i + 1])
  BY <1>1, <1>3, <1>8
<1>11. m \in [D -> SUBSET (1 .. Len(name) + 1)]
  <2>1. {Len(name) + 1} \in SUBSET (1 .. Len(name) + 1)
    BY <1>1
  <2>2. \A i \in D : Entry(m, i) \in SUBSET (1 .. Len(name) + 1)
    BY <1>1, <1>2, <1>3, <1>5, <2>1
  <2> QED
    BY <1>7, <2>2
<1>12. IsNameTable(m, glob, name)
  BY <1>9, <1>10, <1>11 DEF IsNameTable, D
<1> QED
  BY <1>4, <1>12 DEF m

LEMMA SegmentEndIs ==
  ASSUME NEW s \in Seq(Chars), NEW k \in 1 .. Len(s)
  PROVE  /\ SegmentEnd(s, k) \in Ends(s) /\ SegmentEnd(s, k) \in k + 1 .. Len(s) + 1
         /\ SegmentEnd(s, k) <= Len(s) => s[SegmentEnd(s, k)] = "/"
         /\ \A i \in k + 1 .. SegmentEnd(s, k) - 1 : s[i] # "/"
<1> DEFINE A == {e \in Ends(s) : e > k}
           m == SegmentEnd(s, k)
<1>1. /\ Len(s) \in Nat /\ A \in SUBSET Nat /\ Len(s) + 1 \in A
      /\ \A e \in Ends(s) : e \in 1 .. Len(s) + 1
  BY DEF Ends, Slashes
<1>2. m \in A /\ \A e \in A : m <= e
  BY <1>1, MinIsLeast DEF SegmentEnd
<1>3. m \in Ends(s) /\ m \in k + 1 .. Len(s) + 1
  BY <1>1, <1>2
<1> HIDE DEF m
<1>4. m <= Len(s) => s[m] = "/"
  BY <1>1, <1>3 DEF Ends, Slashes
<1>5. ASSUME NEW i \in k + 1 .. m - 1
      PROVE  s[i] # "/"
  <2>1. i \in 1 .. Len(s) /\ i > k /\ ~ (m <= i)
    BY <1>1, <1>3
  <2>2. i \notin A
    BY <1>2, <2>1
  <2> QED
    BY <2>1, <2>2 DEF Ends, Slashes
<1> QED
  BY <1>3, <1>4, <1>5 DEF m

SegmentStep(glob, g, path, more) ==
    {p \in Slashes(path) :
        IF Segment(glob, g) = <<"*", "*">>
        THEN SegmentEnd(glob, g) > Len(glob) \/ \E q \in more : q >= p
        ELSE /\ NameFits(Segment(glob, g), Segment(path, p))
             /\ SegmentEnd(path, p) \in more}

IsSegmentTable(fits, glob, path) ==
    /\ fits \in [Ends(glob) -> SUBSET Ends(path)]
    /\ fits[Len(glob) + 1] = {Len(path) + 1}
    /\ \A g \in Slashes(glob) : fits[g] = SegmentStep(glob, g, path, fits[SegmentEnd(glob, g)])

LEMMA SegmentTableExists ==
  ASSUME NEW glob \in Seq(Chars), NEW path \in Seq(Chars)
  PROVE  \E fits : IsSegmentTable(fits, glob, path)
<1> DEFINE L == Len(glob)
           S == Ends(path)
           resume == [k \in 1 .. L |-> SegmentEnd(glob, k)]
           step == [k \in 1 .. L |-> [more \in SUBSET S |-> SegmentStep(glob, k, path, more)]]
<1>1. L \in Nat /\ {Len(path) + 1} \in SUBSET S
  BY DEF Ends
<1>2. step \in [1 .. L -> [SUBSET S -> SUBSET S]]
  <2>1. \A k, more : SegmentStep(glob, k, path, more) \in SUBSET S
    BY DEF SegmentStep, Ends
  <2> HIDE DEF S
  <2> QED
    BY <2>1
<1>3. \A k \in 1 .. L : resume[k] = SegmentEnd(glob, k) /\ resume[k] \in k + 1 .. L + 1
  BY SegmentEndIs
<1>4. \A k \in 1 .. L, more \in SUBSET S : step[k][more] = SegmentStep(glob, k, path, more)
  OBVIOUS
<1>5. Ends(glob) \subseteq 1 .. L + 1 /\ L + 1 \in Ends(glob) /\ Slashes(glob) \subseteq 1 .. L
      /\ Slashes(glob) \subseteq Ends(glob)
  BY <1>1 DEF Ends, Slashes
<1>6. \A k \in 1 .. L : SegmentEnd(glob, k) \in Ends(glob)
  BY SegmentEndIs
<1> HIDE DEF L, S, resume, step
<1>7. PICK f : Solution(f, L, S, {Len(path) + 1}, step, resume)
  <2>1. Recursion(L, S, {Len(path) + 1}, step, resume)
    BY <1>1, <1>2, <1>3 DEF Recursion
  <2> QED
    BY <2>1, TableFrom
<1> DEFINE fits == [g \in Ends(glob) |-> f[g]]
<1>8. ASSUME NEW g \in Slashes(glob)
      PROVE  fits[g] = SegmentStep(glob, g, path, fits[SegmentEnd(glob, g)])
  <2>1. g \in 1 .. L /\ g \in Ends(glob) /\ SegmentEnd(glob, g) \in Ends(glob)
    BY <1>5, <1>6
  <2>2. resume[g] = SegmentEnd(glob, g) /\ SegmentEnd(glob, g) \in 1 .. L + 1
    BY <1>3, <1>5, <2>1
  <2>3. f[SegmentEnd(glob, g)] \in SUBSET S
    BY <1>7, <2>2 DEF Solution
  <2>4. f[g] = step[g][f[SegmentEnd(glob, g)]]
    BY <1>7, <2>1, <2>2 DEF Solution
  <2>5. f[g] = SegmentStep(glob, g, path, f[SegmentEnd(glob, g)])
    BY <1>4, <2>1, <2>3, <2>4
  <2> QED
    BY <2>1, <2>5
<1>9. fits \in [Ends(glob) -> SUBSET S] /\ fits[L + 1] = {Len(path) + 1}
  BY <1>5, <1>7 DEF Solution
<1> HIDE DEF fits
<1> QED
  BY <1>8, <1>9 DEF IsSegmentTable, L, S

LEMMA SegmentsHaveTable ==
  ASSUME NEW glob \in Seq(Chars), NEW path \in Seq(Chars)
  PROVE  \E fits : IsSegmentTable(fits, glob, path) /\ (SegmentsFit(glob, path) <=> 1 \in fits[1])
<1> DEFINE D == Ends(glob)
           Entry(fits, g) ==
             IF g > Len(glob) THEN {Len(path) + 1}
             ELSE LET end  == SegmentEnd(glob, g)
                      more == fits[end]
                  IN  {p \in Slashes(path) :
                          IF Segment(glob, g) = <<"*", "*">>
                          THEN end > Len(glob) \/ \E q \in more : q >= p
                          ELSE /\ NameFits(Segment(glob, g), Segment(path, p))
                               /\ SegmentEnd(path, p) \in more}
           Solves(fits) == fits = [g \in D |-> Entry(fits, g)]
           m == CHOOSE fits : Solves(fits)
<1>1. /\ Len(glob) + 1 \in D /\ Len(glob) + 1 > Len(glob)
      /\ \A g \in Slashes(glob) : g \in D /\ ~ (g > Len(glob))
      /\ \A g \in D : g \in Slashes(glob) \/ (g = Len(glob) + 1 /\ g > Len(glob))
  BY DEF Ends, Slashes
<1>2. \A fits : Entry(fits, Len(glob) + 1) = {Len(path) + 1}
  BY <1>1
<1>3. \A fits : \A g \in Slashes(glob) :
         Entry(fits, g) = SegmentStep(glob, g, path, fits[SegmentEnd(glob, g)])
  BY <1>1 DEF SegmentStep
<1>4. SegmentsFit(glob, path) <=> 1 \in m[1]
  BY DEF SegmentsFit
<1>5. \A g, more : SegmentStep(glob, g, path, more) \in SUBSET Ends(path)
  BY DEF SegmentStep, Ends
<1> HIDE DEF D, Entry
<1>6. Solves(m)
  <2>1. PICK fits : IsSegmentTable(fits, glob, path)
    BY SegmentTableExists
  <2>2. \A g \in D : fits[g] = Entry(fits, g)
    BY <1>1, <1>2, <1>3, <2>1 DEF IsSegmentTable
  <2>3. Solves(fits)
    BY <2>1, <2>2 DEF IsSegmentTable, D
  <2> QED
    BY <2>3
<1>7. m = [g \in D |-> Entry(m, g)]
  BY <1>6
<1> HIDE DEF m
<1>8. \A g \in D : m[g] = Entry(m, g)
  BY <1>7
<1>9. m[Len(glob) + 1] = {Len(path) + 1}
  BY <1>1, <1>2, <1>8
<1>10. \A g \in Slashes(glob) : m[g] = SegmentStep(glob, g, path, m[SegmentEnd(glob, g)])
  BY <1>1, <1>3, <1>8
<1>11. m \in [D -> SUBSET Ends(path)]
  <2>1. {Len(path) + 1} \in SUBSET Ends(path)
    BY DEF Ends
  <2>2. \A g \in D : Entry(m, g) \in SUBSET Ends(path)
    BY <1>1, <1>2, <1>3, <1>5, <2>1
  <2> QED
    BY <1>7, <2>2
<1>12. IsSegmentTable(m, glob, path)
  BY <1>9, <1>10, <1>11 DEF IsSegmentTable, D
<1> QED
  BY <1>4, <1>12 DEF m

LEMMA SegmentIs ==
  ASSUME NEW s \in Seq(Chars), NEW k \in 1 .. Len(s)
  PROVE  /\ Segment(s, k) \in Seq(Chars) /\ Len(Segment(s, k)) = SegmentEnd(s, k) - k - 1
         /\ \A i \in 1 .. SegmentEnd(s, k) - k - 1 : Segment(s, k)[i] = s[k + i]
<1> DEFINE e == SegmentEnd(s, k)
           u == SubSeq(s, k + 1, e - 1)
<1>1. Len(s) \in Nat /\ k \in Nat /\ e \in k + 1 .. Len(s) + 1
  BY SegmentEndIs
<1> HIDE DEF e
<1>2. \A i \in k + 1 .. e - 1 : s[i] \in Chars
  <2>1. \A i \in k + 1 .. e - 1 : i \in 1 .. Len(s)
    BY <1>1
  <2> QED
    BY <2>1, ElementOfSeq
<1>3. k + 1 \in Int /\ e - 1 \in Int
  BY <1>1
<1>4. /\ u \in Seq(Chars)
      /\ Len(u) = IF k + 1 <= e - 1 THEN (e - 1) - (k + 1) + 1 ELSE 0
      /\ \A i \in 1 .. (e - 1) - (k + 1) + 1 : u[i] = s[k + 1 + i - 1]
  BY ONLY <1>2, <1>3, SubSeqProperties
<1>5. Len(u) = e - k - 1
  BY <1>1, <1>4
<1>6. ASSUME NEW i \in 1 .. e - k - 1
      PROVE  u[i] = s[k + i]
  <2>1. i \in 1 .. (e - 1) - (k + 1) + 1 /\ k + 1 + i - 1 = k + i
    BY <1>1
  <2> QED
    BY <1>4, <2>1
<1> QED
  BY <1>4, <1>5, <1>6 DEF Segment, e

(* One character of a name, in the matcher and in the reference. *)
SameFrom(from, k, path, p, rest, goes) ==
    \A j \in 1 .. SegmentEnd(path, p) - p : p + j \in from[k] <=> j \in rest /\ goes

LEMMA NameStepAgrees ==
  ASSUME NEW glob \in Seq(Chars), NEW path \in Seq(Chars), NEW from, IsTable(from, glob, path),
         NEW k \in 1 .. Len(glob), glob[k] # "/",
         glob[k] = "*" => (k < Len(glob) => glob[k + 1] # "*"),
         NEW p \in Slashes(path), NEW s, NEW i, s[i] = glob[k],
         NEW rest, NEW goes \in BOOLEAN,
         SameFrom(from, k + 1, path, p, rest, goes)
  PROVE  SameFrom(from, k, path, p, NameStep(s, i, Segment(path, p), rest), goes)
<1> DEFINE e == SegmentEnd(path, p)
           t == Segment(path, p)
           w == e - p - 1
<1>1. /\ p \in 1 .. Len(path) /\ Len(path) \in Nat /\ e \in p + 1 .. Len(path) + 1
      /\ e <= Len(path) => path[e] = "/"
      /\ \A x \in p + 1 .. e - 1 : path[x] # "/"
  <2>1. p \in 1 .. Len(path) /\ path[p] = "/"
    BY DEF Slashes
  <2> QED
    BY <2>1, SegmentEndIs
<1>2. Len(t) = w /\ \A j \in 1 .. w : t[j] = path[p + j]
  BY <1>1, SegmentIs
<1> SUFFICES ASSUME NEW j \in 1 .. e - p
             PROVE  p + j \in from[k] <=> j \in NameStep(s, i, t, rest) /\ goes
  BY DEF SameFrom
<1> HIDE DEF e, t
<1>3. /\ w \in Nat /\ j \in 1 .. w + 1 /\ p + j \in 1 .. Len(path) + 1
  BY <1>1
<1>4. j \in NameStep(s, i, t, rest) <=>
         j <= w /\ \E n \in 1 .. w + 1 - j :
            j + n \in rest /\ (glob[k] # "*" => n = 1 /\ glob[k] \in {"?", t[j]})
  BY <1>2, <1>3 DEF NameStep
<1>5. j <= w => p + j <= Len(path) /\ path[p + j] = t[j] /\ path[p + j] # "/"
  BY <1>1, <1>2, <1>3
<1>6. ~ (j <= w) => p + j = e /\ (p + j <= Len(path) => path[p + j] = "/")
  BY <1>1, <1>3
<1>7. \A n \in 1 .. w + 1 - j : (p + j) + n \in from[k + 1] <=> j + n \in rest /\ goes
  <2> TAKE n \in 1 .. w + 1 - j
  <2>1. j + n \in 1 .. e - p /\ (p + j) + n = p + (j + n)
    BY <1>1, <1>3
  <2> QED
    BY <2>1 DEF e, SameFrom
<1>8. CASE glob[k] \notin {"*", "?"}
  <2>1. p + j \in from[k] <=> /\ p + j <= Len(path) /\ path[p + j] = glob[k]
                              /\ (p + j) + 1 \in from[k + 1]
    BY <1>3, <1>8, LiteralStep
  <2>2. j <= w => 1 \in 1 .. w + 1 - j
    BY <1>3
  <2> HIDE DEF w
  <2> QED
    BY <1>4, <1>5, <1>6, <1>7, <1>8, <2>1, <2>2
<1>9. CASE glob[k] = "?"
  <2>1. p + j \in from[k] <=> /\ p + j <= Len(path) /\ path[p + j] # "/"
                              /\ (p + j) + 1 \in from[k + 1]
    BY <1>3, <1>9, QuestionStep
  <2>2. j <= w => 1 \in 1 .. w + 1 - j
    BY <1>3
  <2> HIDE DEF w
  <2> QED
    BY <1>4, <1>5, <1>6, <1>7, <1>9, <2>1, <2>2
<1>10. CASE glob[k] = "*"
  <2>1. p + j \in from[k] <=> \E n \in 1 .. Len(path) + 1 - (p + j) :
                                 /\ \A x \in p + j .. p + j + n - 1 : path[x] # "/"
                                 /\ (p + j) + n \in from[k + 1]
    BY <1>3, <1>10, StarStep
  <2>2. ASSUME NEW n \in 1 .. w + 1 - j
        PROVE  /\ n \in 1 .. Len(path) + 1 - (p + j)
               /\ \A x \in p + j .. p + j + n - 1 : path[x] # "/"
    <3>1. \A x \in p + j .. p + j + n - 1 : x \in p + 1 .. e - 1
      BY <1>1, <1>3
    <3> QED
      BY <1>1, <1>3, <3>1
  <2>3. ASSUME NEW n \in 1 .. Len(path) + 1 - (p + j),
               \A x \in p + j .. p + j + n - 1 : path[x] # "/"
        PROVE  j <= w /\ n \in 1 .. w + 1 - j
    <3>1. ~ (e \in p + j .. p + j + n - 1)
      <4> SUFFICES ASSUME e \in p + j .. p + j + n - 1
                   PROVE  FALSE
        OBVIOUS
      <4>1. e <= Len(path) /\ path[e] # "/"
        BY <1>1, <1>3, <2>3
      <4> QED
        BY <1>1, <4>1
    <3> QED
      BY <1>1, <1>3, <3>1
  <2>4. ASSUME p + j \in from[k]
        PROVE  j \in NameStep(s, i, t, rest) /\ goes
    <3>1. PICK n \in 1 .. Len(path) + 1 - (p + j) :
             /\ \A x \in p + j .. p + j + n - 1 : path[x] # "/"
             /\ (p + j) + n \in from[k + 1]
      BY <2>1, <2>4
    <3>2. j <= w /\ n \in 1 .. w + 1 - j
      BY <2>3, <3>1
    <3> HIDE DEF w
    <3> QED
      BY <1>4, <1>7, <1>10, <3>1, <3>2
  <2>5. ASSUME j \in NameStep(s, i, t, rest), goes
        PROVE  p + j \in from[k]
    <3>1. PICK n \in 1 .. w + 1 - j : j + n \in rest
      BY <1>4, <2>5
    <3> HIDE DEF w
    <3> QED
      BY <1>7, <2>1, <2>2, <2>5, <3>1
  <2> QED
    BY <2>4, <2>5
<1> QED
  BY <1>8, <1>9, <1>10

(* A segment without two stars in a row, in the matcher and in the reference. *)
LEMMA NameAgrees ==
  ASSUME NEW glob \in Seq(Chars), NEW path \in Seq(Chars), NEW from, IsTable(from, glob, path),
         NEW g \in Slashes(glob), NEW p \in Slashes(path),
         \A k \in g + 1 .. SegmentEnd(glob, g) - 2 : glob[k] = "*" => glob[k + 1] # "*",
         from[SegmentEnd(glob, g)] \subseteq Ends(path)
  PROVE  p \in from[g] <=> /\ NameFits(Segment(glob, g), Segment(path, p))
                           /\ SegmentEnd(path, p) \in from[SegmentEnd(glob, g)]
<1> DEFINE e == SegmentEnd(glob, g)
           q == SegmentEnd(path, p)
           s == Segment(glob, g)
           t == Segment(path, p)
           m == e - g - 1
           goes == q \in from[e]
<1>1. /\ g \in 1 .. Len(glob) /\ Len(glob) \in Nat /\ e \in g + 1 .. Len(glob) + 1
      /\ e <= Len(glob) => glob[e] = "/"
      /\ \A k \in g + 1 .. e - 1 : glob[k] # "/"
      /\ glob[g] = "/"
  <2>1. g \in 1 .. Len(glob) /\ glob[g] = "/"
    BY DEF Slashes
  <2> QED
    BY <2>1, SegmentEndIs
<1>2. /\ p \in 1 .. Len(path) /\ Len(path) \in Nat /\ q \in p + 1 .. Len(path) + 1
      /\ \A x \in p + 1 .. q - 1 : path[x] # "/"
      /\ path[p] = "/" /\ q \in Ends(path)
  <2>1. p \in 1 .. Len(path) /\ path[p] = "/"
    BY DEF Slashes
  <2> QED
    BY <2>1, SegmentEndIs
<1>3. /\ s \in Seq(Chars) /\ Len(s) = m /\ \A i \in 1 .. m : s[i] = glob[g + i]
      /\ t \in Seq(Chars) /\ Len(t) = q - p - 1
  BY <1>1, <1>2, SegmentIs
<1>4. PICK fits : IsNameTable(fits, s, t) /\ (NameFits(s, t) <=> 1 \in fits[1])
  <2> HIDE DEF s, t
  <2> QED
    BY <1>3, NameHasTable
<1>5. p \in from[g] <=> p + 1 \in from[g + 1]
  <2>1. p \in 1 .. Len(path) + 1 /\ glob[g] \notin {"*", "?"} /\ p <= Len(path)
    BY <1>1, <1>2
  <2>2. p \in from[g] <=> p <= Len(path) /\ path[p] = glob[g] /\ p + 1 \in from[g + 1]
    BY <1>1, <2>1, LiteralStep
  <2> QED
    BY <1>1, <1>2, <2>1, <2>2
<1>6. from[e] \subseteq Ends(path)
  OBVIOUS
<1>7. /\ g \in Nat \ {0} /\ m \in Nat /\ g + (m + 1) = e
      /\ Len(glob) \in Nat /\ e <= Len(glob) + 1
  <2>1. g \in 1 .. Len(glob) /\ Len(glob) \in Nat /\ e \in g + 1 .. Len(glob) + 1
    BY <1>1
  <2> HIDE DEF e
  <2> QED
    BY <2>1
<1>8. \A k \in g + 1 .. e - 2 : glob[k] = "*" => glob[k + 1] # "*"
  OBVIOUS
<1> HIDE DEF e, q, s, t, m
<1> DEFINE Same(i) == \A j \in 1 .. q - p : p + j \in from[g + i] <=> j \in fits[i] /\ goes
           Apart == {d \in 0 .. m : ~ Same(m + 1 - d)}
<1>9. Same(m + 1)
  <2> SUFFICES ASSUME NEW j \in 1 .. q - p
               PROVE  p + j \in from[e] <=> j \in fits[m + 1] /\ q \in from[e]
    BY <1>7
  <2>1. fits[m + 1] = {q - p - 1 + 1}
    BY <1>3, <1>4 DEF IsNameTable
  <2>2. j \in fits[m + 1] <=> p + j = q
    <3>1. q - p - 1 + 1 = q - p /\ (j = q - p <=> p + j = q)
      BY <1>2
    <3> QED
      BY <2>1, <3>1
  <2>3. p + j \in Ends(path) => p + j = q
    BY <1>2 DEF Ends, Slashes
  <2> QED
    BY <1>6, <2>2, <2>3
<1>10. ASSUME NEW i \in 1 .. m, Same(i + 1)
       PROVE  Same(i)
  <2>1. g + i \in 1 .. Len(glob) /\ g + i \in g + 1 .. e - 1 /\ (g + i) + 1 = g + (i + 1)
    BY <1>7
  <2>2. glob[g + i] # "/" /\ s[i] = glob[g + i]
    BY <1>1, <1>3, <2>1
  <2>3. glob[g + i] = "*" => (g + i < Len(glob) => glob[(g + i) + 1] # "*")
    <3> SUFFICES ASSUME glob[g + i] = "*", g + i < Len(glob)
                 PROVE  glob[(g + i) + 1] # "*"
      OBVIOUS
    <3>1. CASE g + i = e - 1
      <4>1. (g + i) + 1 = e /\ e <= Len(glob)
        BY <1>1, <3>1
      <4> QED
        BY <1>1, <4>1
    <3>2. CASE g + i # e - 1
      <4>1. g + i \in g + 1 .. e - 2
        BY <1>1, <2>1, <3>2
      <4> QED
        BY <1>8, <4>1
    <3> QED
      BY <3>1, <3>2
  <2> DEFINE k == g + i
  <2>4. k \in 1 .. Len(glob) /\ glob[k] # "/" /\ s[i] = glob[k]
        /\ (glob[k] = "*" => (k < Len(glob) => glob[k + 1] # "*"))
    BY <2>1, <2>2, <2>3
  <2>5. k + 1 = g + (i + 1)
    BY <2>1
  <2> HIDE DEF k
  <2>6. SameFrom(from, k + 1, path, p, fits[i + 1], goes)
    BY <1>10, <2>5 DEF SameFrom, q
  <2>7. goes \in BOOLEAN
    OBVIOUS
  <2> HIDE DEF goes
  <2>8. SameFrom(from, k, path, p, NameStep(s, i, Segment(path, p), fits[i + 1]), goes)
    BY <2>4, <2>6, <2>7, NameStepAgrees
  <2>9. fits[i] = NameStep(s, i, t, fits[i + 1])
    BY <1>3, <1>4 DEF IsNameTable
  <2> QED
    BY <2>8, <2>9 DEF SameFrom, t, k, q
<1>11. Apart = {}
  <2> SUFFICES ASSUME Apart # {}
               PROVE  FALSE
    OBVIOUS
  <2> HIDE DEF Same
  <2>1. Apart \in SUBSET Nat
    BY <1>7
  <2>2. PICK d \in Apart : \A x \in Apart : d <= x
    BY <2>1, LeastExists
  <2>3. d \in 0 .. m /\ ~ Same(m + 1 - d)
    OBVIOUS
  <2>4. d # 0
    <3>1. m + 1 - 0 = m + 1
      BY <1>7
    <3> QED
      BY <1>9, <2>3, <3>1
  <2>5. d - 1 \in 0 .. m /\ d - 1 < d /\ m + 1 - d \in 1 .. m /\ (m + 1 - d) + 1 = m + 1 - (d - 1)
    BY <1>7, <2>3, <2>4
  <2>6. d - 1 \notin Apart
    <3> HIDE DEF Apart
    <3> QED
      BY <2>1, <2>2, <2>5
  <2>7. Same((m + 1 - d) + 1)
    BY <2>5, <2>6
  <2> QED
    BY <1>10, <2>3, <2>5, <2>7
<1>12. Same(1)
  <2> HIDE DEF Same
  <2>1. m \in 0 .. m /\ m + 1 - m = 1
    BY <1>7
  <2> QED
    BY <1>11, <2>1
<1>13. 1 \in 1 .. q - p
  BY <1>2
<1> QED
  BY <1>4, <1>5, <1>12, <1>13 DEF s, t, q, e

(* Two stars that stand apart are a whole segment. *)
LEMMA StarsAreSegments ==
  ASSUME NEW glob \in Seq(Chars), StarsApart(glob), NEW g \in Slashes(glob),
         NEW k \in g + 1 .. SegmentEnd(glob, g) - 2, glob[k] = "*", glob[k + 1] = "*"
  PROVE  Segment(glob, g) = <<"*", "*">>
<1> DEFINE e == SegmentEnd(glob, g)
           s == Segment(glob, g)
<1>1. /\ g \in 1 .. Len(glob) /\ Len(glob) \in Nat /\ e \in g + 1 .. Len(glob) + 1
      /\ \A i \in g + 1 .. e - 1 : glob[i] # "/"
  <2>1. g \in 1 .. Len(glob) /\ glob[g] = "/"
    BY DEF Slashes
  <2> QED
    BY <2>1, SegmentEndIs
<1>2. s \in Seq(Chars) /\ Len(s) = e - g - 1 /\ \A i \in 1 .. e - g - 1 : s[i] = glob[g + i]
  BY <1>1, SegmentIs
<1>3. k \in g + 1 .. e - 2
  OBVIOUS
<1> HIDE DEF e, s
<1>4. k + 1 \in 2 .. Len(glob) /\ (k + 1) - 1 = k /\ (k + 1) - 2 = k - 1 /\ (k + 1) + 1 = k + 2
  BY <1>1, <1>3
<1>5. glob[k - 1] = "/" /\ (k + 1 < Len(glob) => glob[k + 2] = "/")
  <2> DEFINE i == k + 1
  <2>1. i \in 2 .. Len(glob) /\ glob[i - 1] = "*" /\ glob[i] = "*"
    BY <1>4
  <2>2. glob[i - 2] = "/" /\ (i < Len(glob) => glob[i + 1] = "/")
    <3> HIDE DEF i
    <3> QED
      BY <2>1 DEF StarsApart
  <2> QED
    BY <1>4, <2>2
<1>6. k = g + 1
  <2> SUFFICES ASSUME k # g + 1
               PROVE  FALSE
    OBVIOUS
  <2>1. k - 1 \in g + 1 .. e - 1
    BY <1>1, <1>3
  <2> QED
    BY <1>1, <1>5, <2>1
<1>7. k + 2 = e
  <2> SUFFICES ASSUME k + 2 # e
               PROVE  FALSE
    OBVIOUS
  <2>1. k + 2 \in g + 1 .. e - 1 /\ k + 1 < Len(glob)
    BY <1>1, <1>3
  <2> QED
    BY <1>1, <1>5, <2>1
<1>8. Len(s) = 2 /\ s[1] = "*" /\ s[2] = "*"
  <2>1. e - g - 1 = 2 /\ g + 1 = k /\ g + 2 = k + 1 /\ 1 \in 1 .. 2 /\ 2 \in 1 .. 2
    BY <1>1, <1>6, <1>7
  <2> QED
    BY <1>2, <2>1
<1>9. s = <<"*", "*">>
  <2>1. <<"*", "*">> \in Seq(Chars) /\ Len(<<"*", "*">>) = 2
    BY DEF Chars
  <2>2. \A i \in 1 .. 2 : i = 1 \/ i = 2
    OBVIOUS
  <2>3. \A i \in 1 .. Len(s) : s[i] = <<"*", "*">>[i]
    BY <1>8, <2>2
  <2> QED
    BY <1>2, <1>8, <2>1, <2>3, SeqEqual
<1> QED
  BY <1>9 DEF s

(* One segment of the glob, in the matcher and in the reference. *)
LEMMA SegmentStepAgrees ==
  ASSUME NEW glob \in Seq(Chars), StarsApart(glob), NEW path \in Seq(Chars),
         NEW from, IsTable(from, glob, path),
         NEW g \in Slashes(glob), NEW p \in Slashes(path),
         from[SegmentEnd(glob, g)] \subseteq Ends(path)
  PROVE  p \in from[g] <=> p \in SegmentStep(glob, g, path, from[SegmentEnd(glob, g)])
<1> DEFINE e == SegmentEnd(glob, g)
           s == Segment(glob, g)
<1>1. /\ g \in 1 .. Len(glob) /\ Len(glob) \in Nat /\ e \in g + 1 .. Len(glob) + 1
      /\ e <= Len(glob) => glob[e] = "/"
      /\ glob[g] = "/"
  <2>1. g \in 1 .. Len(glob) /\ glob[g] = "/"
    BY DEF Slashes
  <2> QED
    BY <2>1, SegmentEndIs
<1>2. p \in 1 .. Len(path) /\ Len(path) \in Nat /\ path[p] = "/"
  BY DEF Slashes
<1>3. CASE s # <<"*", "*">>
  <2>1. \A k \in g + 1 .. SegmentEnd(glob, g) - 2 : glob[k] = "*" => glob[k + 1] # "*"
    BY <1>3, StarsAreSegments
  <2>2. p \in from[g] <=> /\ NameFits(Segment(glob, g), Segment(path, p))
                          /\ SegmentEnd(path, p) \in from[SegmentEnd(glob, g)]
    BY <2>1, NameAgrees
  <2> QED
    BY <1>3, <2>2 DEF SegmentStep
<1>4. CASE s = <<"*", "*">>
  <2> DEFINE k == g + 1
  <2>1. e = g + 3 /\ glob[g + 1] = "*" /\ glob[g + 2] = "*"
    <3>1. Len(s) = e - g - 1 /\ \A i \in 1 .. e - g - 1 : s[i] = glob[g + i]
      BY <1>1, SegmentIs
    <3>2. Len(s) = 2 /\ s[1] = "*" /\ s[2] = "*"
      BY <1>4
    <3>5. g \in Nat /\ e \in Nat
      BY <1>1
    <3> HIDE DEF e, s
    <3>6. e - g - 1 = 2
      BY <3>1, <3>2
    <3>3. e = g + 3
      BY <3>5, <3>6
    <3>4. s[1] = glob[g + 1]
      BY <3>1, <3>6
    <3>7. s[2] = glob[g + 2]
      BY <3>1, <3>6
    <3> QED
      BY <3>2, <3>3, <3>4, <3>7
  <2>2. p \in from[g] <=> p + 1 \in from[k]
    <3>1. p \in 1 .. Len(path) + 1 /\ glob[g] \notin {"*", "?"} /\ p <= Len(path)
      BY <1>1, <1>2
    <3>2. p \in from[g] <=> p <= Len(path) /\ path[p] = glob[g] /\ p + 1 \in from[g + 1]
      BY <1>1, <3>1, LiteralStep
    <3> QED
      BY <1>1, <1>2, <3>1, <3>2
  <2>3. p \in SegmentStep(glob, g, path, from[e]) <=> e > Len(glob) \/ \E q \in from[e] : q >= p
    BY <1>4 DEF SegmentStep
  <2>4. /\ k \in 1 .. Len(glob) - 1 /\ glob[k] = "*" /\ glob[k + 1] = "*"
        /\ k + 1 < Len(glob) => glob[k + 2] = "/"
        /\ p + 1 \in 1 .. Len(path) + 1
        /\ (k + 1 = Len(glob) <=> e > Len(glob)) /\ (k + 1 < Len(glob) <=> e <= Len(glob))
        /\ k + 3 = e + 1
    <3>1. /\ k + 1 = g + 2 /\ k + 2 = e /\ k + 3 = e + 1 /\ k \in 1 .. Len(glob) - 1
          /\ (k + 1 = Len(glob) <=> e > Len(glob)) /\ (k + 1 < Len(glob) <=> e <= Len(glob))
          /\ p + 1 \in 1 .. Len(path) + 1
      <4> HIDE DEF e
      <4> QED
        BY <1>1, <1>2, <2>1
    <3> QED
      BY <1>1, <2>1, <3>1
  <2> HIDE DEF e, s, k
  <2>5. /\ k + 1 = Len(glob) => p + 1 \in from[k]
        /\ k + 1 < Len(glob) =>
              (p + 1 \in from[k] <=> \E n \in 0 .. Len(path) + 1 - (p + 1) :
                                       /\ n = 0 \/ path[(p + 1) + n - 1] = "/"
                                       /\ (p + 1) + n \in from[k + 3])
    BY <2>4, StarsStep
  <2>6. CASE e > Len(glob)
    BY <2>2, <2>3, <2>4, <2>5, <2>6 DEF e
  <2>7. CASE e <= Len(glob)
    <3>1. e \in 1 .. Len(glob) /\ glob[e] = "/"
      BY <1>1, <2>7
    <3>2. \A q \in 1 .. Len(path) + 1 :
             q \in from[e] <=> q <= Len(path) /\ path[q] = "/" /\ q + 1 \in from[e + 1]
      <4> TAKE q \in 1 .. Len(path) + 1
      <4>1. glob[e] \notin {"*", "?"}
        BY <3>1
      <4>2. q \in from[e] <=> q <= Len(path) /\ path[q] = glob[e] /\ q + 1 \in from[e + 1]
        BY <3>1, <4>1, LiteralStep
      <4> QED
        BY <3>1, <4>2
    <3>3. from[e] \subseteq 1 .. Len(path) + 1
      <4>1. e \in 1 .. Len(glob) + 1
        BY <1>1, <3>1
      <4> QED
        BY <4>1 DEF IsTable
    <3>4. ASSUME NEW n \in 0 .. Len(path) + 1 - (p + 1), n = 0 \/ path[(p + 1) + n - 1] = "/",
                 (p + 1) + n \in from[e + 1]
          PROVE  \E q \in from[e] : q >= p
      <4> DEFINE q == p + n
      <4>1. q \in 1 .. Len(path) + 1 /\ q <= Len(path) /\ q >= p /\ q + 1 = (p + 1) + n
            /\ (p + 1) + n - 1 = q /\ (n = 0 => q = p)
        BY <1>2
      <4>2. path[q] = "/"
        BY <1>2, <3>4, <4>1
      <4>3. q \in from[e]
        <5> HIDE DEF q
        <5> QED
          BY <3>2, <3>4, <4>1, <4>2
      <4> QED
        BY <4>1, <4>3
    <3>5. ASSUME NEW q \in from[e], q >= p
          PROVE  \E n \in 0 .. Len(path) + 1 - (p + 1) :
                    (n = 0 \/ path[(p + 1) + n - 1] = "/") /\ (p + 1) + n \in from[e + 1]
      <4>1. q \in 1 .. Len(path) + 1 /\ q <= Len(path) /\ path[q] = "/" /\ q + 1 \in from[e + 1]
        BY <3>2, <3>3, <3>5
      <4>2. q - p \in 0 .. Len(path) + 1 - (p + 1) /\ (p + 1) + (q - p) - 1 = q
            /\ (p + 1) + (q - p) = q + 1
        BY <1>2, <3>5, <4>1
      <4> QED
        BY <4>1, <4>2
    <3> QED
      BY <2>2, <2>3, <2>4, <2>5, <2>7, <3>4, <3>5 DEF e
  <2> QED
    BY <1>1, <2>6, <2>7
<1> QED
  BY <1>3, <1>4

(* The tables of the matcher and of the reference agree before every segment. *)
LEMMA TablesAgree ==
  ASSUME NEW glob \in Seq(Chars), StarsApart(glob), NEW path \in Seq(Chars),
         NEW from, IsTable(from, glob, path), NEW fits, IsSegmentTable(fits, glob, path),
         NEW g \in Ends(glob)
  PROVE  from[g] = fits[g]
<1> DEFINE L == Len(glob)
           Apart == {d \in 0 .. L : L + 1 - d \in Ends(glob) /\ from[L + 1 - d] # fits[L + 1 - d]}
<1>1. /\ L \in Nat /\ Slashes(glob) \subseteq 1 .. L /\ Ends(glob) = Slashes(glob) \cup {L + 1}
      /\ \A h \in Slashes(glob) : glob[h] = "/"
  BY DEF Slashes, Ends
<1>2. from[L + 1] = fits[L + 1]
  BY DEF IsTable, IsSegmentTable
<1>3. ASSUME NEW h \in Slashes(glob), from[SegmentEnd(glob, h)] = fits[SegmentEnd(glob, h)]
      PROVE  from[h] = fits[h]
  <2> DEFINE e == SegmentEnd(glob, h)
  <2>1. h \in 1 .. Len(glob) /\ glob[h] \notin {"*", "?"}
    BY <1>1
  <2>2. e \in Ends(glob)
    BY <2>1, SegmentEndIs
  <2>3. from[e] \subseteq Ends(path)
    BY <1>3, <2>2 DEF IsSegmentTable
  <2>4. \A p \in Slashes(path) : p \in from[h] <=> p \in SegmentStep(glob, h, path, from[e])
    BY <2>3, SegmentStepAgrees
  <2>5. fits[h] = SegmentStep(glob, h, path, from[e])
    BY <1>3 DEF IsSegmentTable
  <2>6. from[h] \subseteq Slashes(path)
    <3> SUFFICES ASSUME NEW j \in from[h]
                 PROVE  j \in Slashes(path)
      OBVIOUS
    <3>1. j \in 1 .. Len(path) + 1
      BY <2>1 DEF IsTable
    <3>2. j <= Len(path) /\ path[j] = glob[h]
      BY <2>1, <3>1, LiteralStep
    <3> QED
      BY <1>1, <3>1, <3>2 DEF Slashes
  <2>7. SegmentStep(glob, h, path, from[e]) \subseteq Slashes(path)
    BY DEF SegmentStep
  <2> HIDE DEF e
  <2> QED
    BY <2>4, <2>5, <2>6, <2>7
<1>4. Apart = {}
  <2> SUFFICES ASSUME Apart # {}
               PROVE  FALSE
    OBVIOUS
  <2>1. Apart \in SUBSET Nat
    BY <1>1
  <2>2. PICK d \in Apart : \A x \in Apart : d <= x
    BY <2>1, LeastExists
  <2> DEFINE h == L + 1 - d
             e == SegmentEnd(glob, h)
  <2>3. d \in 0 .. L /\ h \in Ends(glob) /\ from[h] # fits[h]
    OBVIOUS
  <2>4. h \in Slashes(glob)
    BY <1>1, <1>2, <2>3
  <2>5. h \in 1 .. L
    BY <1>1, <2>4
  <2>6. e \in Ends(glob) /\ e \in h + 1 .. L + 1
    BY <2>5, SegmentEndIs
  <2> HIDE DEF e
  <2>7. L + 1 - e \in 0 .. L /\ L + 1 - (L + 1 - e) = e /\ L + 1 - e < d
    BY <1>1, <2>3, <2>5, <2>6
  <2>8. L + 1 - e \notin Apart
    <3> HIDE DEF Apart
    <3> QED
      BY <2>1, <2>2, <2>7
  <2>9. from[e] = fits[e]
    BY <2>6, <2>7, <2>8
  <2> QED
    BY <1>3, <2>3, <2>4, <2>9 DEF e
<1>5. L + 1 - g \in 0 .. L /\ L + 1 - (L + 1 - g) = g
  BY <1>1
<1> QED
  BY <1>4, <1>5

LEMMA MatchIsSegmentsFit ==
  ASSUME NEW glob \in Seq(Chars), Len(glob) > 0, glob[1] = "/", StarsApart(glob),
         NEW path \in Seq(Chars)
  PROVE  Match(glob, path) <=> SegmentsFit(glob, path)
<1>1. PICK from : IsTable(from, glob, path) /\ (Match(glob, path) <=> 1 \in from[1])
  BY MatchHasTable
<1>2. PICK fits : IsSegmentTable(fits, glob, path) /\ (SegmentsFit(glob, path) <=> 1 \in fits[1])
  BY SegmentsHaveTable
<1>3. 1 \in Ends(glob)
  BY DEF Ends, Slashes
<1>4. from[1] = fits[1]
  BY <1>1, <1>2, <1>3, TablesAgree
<1> QED
  BY <1>1, <1>2, <1>4

LEMMA RulesMeanIt == PolicyInv => MatchesBySegments
<1> SUFFICES ASSUME PolicyInv, NEW r \in rows, StarsApart(r.glob), NEW p \in AskedPaths
             PROVE  Matches(r.glob, p) <=> SegmentsFit(r.glob, p)
  BY DEF MatchesBySegments
<1>1. r.glob \in ToSet(Globs)
  BY DEF PolicyInv, PolicyTypeOK, Rules
<1>2. /\ r.glob \in Seq(Chars) /\ r.glob # <<>> /\ r.glob[1] = "/"
      /\ Matches(r.glob, p) <=> Match(r.glob, p)
  BY <1>1, RuleGlob
<1>3. Len(r.glob) > 0
  BY <1>2
<1>4. p \in Seq(Chars)
  BY PathIsText
<1> QED
  BY <1>2, <1>3, <1>4, MatchIsSegmentsFit

(* What a rule's glob matches, token by token and trying every length, is what its segments
   mean one by one: a name with wildcards fits one name, two stars any number of them
   (Tokenizer::tokenize, Matcher::matches). *)
THEOREM MatchesBySegmentsHolds == PolicySpec => []MatchesBySegments
<1> QED
  BY RulesMeanIt, PolicyInit_Inv, PolicyStepKeepsInv, PTL DEF PolicySpec
=============================================================================
