--------------------------- MODULE ShareLinksProofs ---------------------------
(***************************************************************************)
(* What holds of ShareLinks for every number of visitors, sessions,        *)
(* uploads, names and changes, and every scenario.                         *)
(***************************************************************************)
EXTENDS ShareLinks, FiniteSetTheorems, WellFoundedInduction, TLAPS

USE BoundsAssumption, ScenarioAssumption, NoneAssumption
    DEF BoundsAssumption, ScenarioAssumption, NoneAssumption

-----------------------------------------------------------------------------
(* The records the steps make.                                              *)

\* A set of identifiers that is not empty has a least one.
LEMMA MinIsIn ==
  ASSUME NEW S \in SUBSET Nat, S # {}
  PROVE  Min(S) \in S
<1> DEFINE R == OpToRel(<, Nat)
<1>1. IsWellFoundedOn(R, Nat)
  BY Zenon, NatLessThanWellFounded
<1>2. ASSUME NEW x \in Nat, NEW y \in Nat, y < x PROVE <<y, x>> \in R
  <2>1. <<y, x>> \in Nat \X Nat
    OBVIOUS
  <2>2. <<y, x>>[1] = y /\ <<y, x>>[2] = x
    OBVIOUS
  <2>3. <<y, x>>[1] < <<y, x>>[2]
    BY <1>2, <2>2
  <2> QED
    BY Zenon, <2>1, <2>3 DEF OpToRel
<1> HIDE DEF R
<1>3. \E x \in S : \A y \in S : ~ (<<y, x>> \in R)
  BY <1>1, WFMin
<1>4. PICK x \in S : \A y \in S : ~ (<<y, x>> \in R)
  BY <1>3
<1>5. \A y \in S : x <= y
  <2> SUFFICES ASSUME NEW y \in S PROVE x <= y
    OBVIOUS
  <2>1. x \in Nat /\ y \in Nat
    OBVIOUS
  <2>2. ~ (y < x)
    BY <1>2, <1>4, <2>1
  <2> QED
    BY <2>1, <2>2
<1> QED
  BY <1>5 DEF Min

\* The next free session is free, and the next free upload.
LEMMA NextIsFree ==
  ASSUME TypeOK
  PROVE  /\ FreeSess # {} => Min(FreeSess) \in SessIds /\ row[Min(FreeSess)].st = "none"
         /\ FreeUp # {} => Min(FreeUp) \in UpIds /\ up[Min(FreeUp)].st = "none"
<1>1. FreeSess \subseteq SessIds /\ FreeUp \subseteq UpIds
  <2>1. scene.sessions <= SessionBound /\ scene.uploads <= UploadBound
        /\ scene.sessions \in Nat /\ scene.uploads \in Nat
    BY DEF TypeOK, Scene
  <2> QED
    BY <2>1 DEF FreeSess, FreeUp, SessIds, UpIds
<1>2. FreeSess \in SUBSET Nat /\ FreeUp \in SUBSET Nat
  BY <1>1 DEF SessIds, UpIds
<1>3. /\ FreeSess # {} => Min(FreeSess) \in FreeSess
      /\ FreeUp # {} => Min(FreeUp) \in FreeUp
  BY <1>2, MinIsIn
<1> QED
  BY <1>1, <1>3 DEF FreeSess, FreeUp

\* What the handlers hold, by where they stand.
LEMMA HandlerFields ==
  ASSUME NEW t \in Handlers
  PROVE  /\ t.at = "open" => t.tok \in 0 .. MaxChanges /\ t.email \in BOOLEAN
         /\ t.at \in {"attach", "verify", "confirm"} => t.sess \in SessIds
         /\ t.at = "start" => t.name \in Names
         /\ t.at \in UpPlaces => t.up \in UpIds
  BY DEF Handlers, UpPlaces

\* The handlers the steps make.
LEMMA HandlersMade ==
  /\ Idle \in Handlers /\ [at |-> "count"] \in Handlers
  /\ \A tok \in 0 .. MaxChanges, email \in BOOLEAN :
        [at |-> "open", tok |-> tok, email |-> email] \in Handlers
  /\ \A s \in SessIds : /\ [at |-> "attach", sess |-> s] \in Handlers
                        /\ [at |-> "verify", sess |-> s] \in Handlers
                        /\ \A right \in BOOLEAN :
                              [at |-> "confirm", sess |-> s, right |-> right] \in Handlers
  /\ \A n \in Names : [at |-> "start", name |-> n] \in Handlers
  /\ \A place \in UpPlaces, u \in UpIds : [at |-> place, up |-> u] \in Handlers
<1>1. /\ Idle \in Handlers /\ [at |-> "count"] \in Handlers
  BY DEF Handlers, Idle
<1>2. \A tok \in 0 .. MaxChanges, email \in BOOLEAN :
        [at |-> "open", tok |-> tok, email |-> email] \in Handlers
  BY DEF Handlers
<1>3. \A s \in SessIds : /\ [at |-> "attach", sess |-> s] \in Handlers
                         /\ [at |-> "verify", sess |-> s] \in Handlers
                         /\ \A right \in BOOLEAN :
                               [at |-> "confirm", sess |-> s, right |-> right] \in Handlers
  BY DEF Handlers
<1>4. /\ \A n \in Names : [at |-> "start", name |-> n] \in Handlers
      /\ \A place \in UpPlaces, u \in UpIds : [at |-> place, up |-> u] \in Handlers
  BY DEF Handlers
<1> QED
  BY <1>1, <1>2, <1>3, <1>4

\* A connection whose handler goes on has a handler.
LEMMA GoTypes ==
  ASSUME TypeOK, NEW c, NEW t \in Handlers, Go(c, t)
  PROVE  task' \in [Conns -> Handlers]
  BY DEF TypeOK, Go

\* A handler that is done, or turns to failing an upload.
LEMMA DoneTypes ==
  ASSUME TypeOK, NEW c
  PROVE  /\ Done(c) => task' \in [Conns -> Handlers]
         /\ \A u \in UpIds : Fail(c, u) => task' \in [Conns -> Handlers]
<1>1. "fail" \in UpPlaces
  BY DEF UpPlaces
<1> QED
  BY <1>1, HandlersMade, GoTypes DEF Done, Fail

\* A connection that gives up its upload is a connection.
LEMMA DropTypes ==
  ASSUME TypeOK, NEW c
  PROVE  Drop(c) \in [Conns -> Connection]
<1>1. None \in UpIds \cup {None} /\ 0 \in 0 .. Size
  OBVIOUS
<1>2. \A k \in Connection : [k EXCEPT !.ctx = None] \in Connection
  BY DEF Connection
<1>3. \A k \in Connection : [k EXCEPT !.bytes = 0] \in Connection
  BY <1>1 DEF Connection
<1> DEFINE without == [conn EXCEPT ![c].ctx = None]
<1>4. without \in [Conns -> Connection]
  BY <1>2 DEF TypeOK
<1> HIDE DEF without
<1>5. [without EXCEPT ![c].bytes = 0] \in [Conns -> Connection]
  BY <1>3, <1>4
<1> QED
  BY <1>5 DEF Drop, without

\* An upload row with another status is an upload row.
LEMMA StatusTypes ==
  ASSUME TypeOK, NEW u,
         NEW st \in {"none", "pending", "receiving", "complete", "failed", "cancelled"}
  PROVE  [up EXCEPT ![u].st = st] \in [UpIds -> UploadRow]
<1>1. \A r \in UploadRow : [r EXCEPT !.st = st] \in UploadRow
  BY DEF UploadRow
<1> QED
  BY <1>1 DEF TypeOK

-----------------------------------------------------------------------------
(* What the types rest on.                                                  *)

\* The changes that are left bound the token of the link.
TokensLeft == link.tok + scene.changes <= MaxChanges

\* The link has not counted more uploads than are complete.
Counting == {c \in Conns : task[c].at = "count"}
Counted == IsFiniteSet(Counting) /\ link.uploads + Cardinality(Counting) <= Cardinality(Completed)

\* A connection that counts a chunk has room for it.
ChunkHasRoom ==
    \A c \in Conns : task[c].at = "chunk" /\ conn[c].ctx = task[c].up => conn[c].bytes < Size

TypeInv == TypeOK /\ TokensLeft /\ Counted /\ ChunkHasRoom

LEMMA InitTypeOK == Init => TypeOK
<1> SUFFICES ASSUME Init PROVE TypeOK
  OBVIOUS
<1>1. scene \in Scene
  BY DEF Init, Scene
<1>2. link \in LinkRow
  BY <1>1 DEF Init, LinkRow, Scene
<1>3. row \in [SessIds -> SessionRow]
  <2>1. \A st \in {"none", "open"} :
          [st |-> st, tok |-> 0, verified |-> FALSE, missed |-> FALSE] \in SessionRow
    BY DEF SessionRow
  <2> QED
    BY <2>1 DEF Init
<1>4. chal \in [SessIds -> Challenge]
  <2>1. [st |-> "none", attempts |-> 0] \in Challenge
    BY DEF Challenge
  <2> QED
    BY <2>1 DEF Init
<1>5. up \in [UpIds -> UploadRow]
  <2>1. [st |-> "none", sess |-> None, name |-> None, got |-> 0] \in UploadRow
    BY DEF UploadRow
  <2> QED
    BY <2>1 DEF Init
<1>6. conn \in [Conns -> Connection]
  <2>1. CASE scene.begun
    <3>1. 1 .. scene.sessions \subseteq SessIds /\ 0 \in 0 .. Size
      BY <1>1 DEF Scene, SessIds
    <3>2. [open : {TRUE}, mode : {"ready"}, ctx : {None}, sess : 1 .. scene.sessions, bytes : {0}]
            \subseteq Connection
      BY <3>1 DEF Connection
    <3>3. conn \in [Conns -> [open : {TRUE}, mode : {"ready"}, ctx : {None},
                              sess : 1 .. scene.sessions, bytes : {0}]]
      BY <2>1 DEF Init
    <3> QED
      BY <3>2, <3>3
  <2>2. CASE ~scene.begun
    <3>1. NoConn \in Connection
      BY DEF NoConn, Connection
    <3> QED
      BY <2>2, <3>1 DEF Init
  <2> QED
    BY <2>1, <2>2
<1>7. task \in [Conns -> Handlers]
  BY HandlersMade DEF Init
<1>8. files \in [Names -> UpIds \cup {None}] /\ owner \in {"idle", "sessions"} /\ sweep \subseteq UpIds
  BY DEF Init
<1> QED
  BY <1>1, <1>2, <1>3, <1>4, <1>5, <1>6, <1>7, <1>8 DEF TypeOK

\* The steps that connect, close and restart keep the types.
LEMMA ConnectionTypeOK ==
  ASSUME TypeOK, Restart \/ \E c \in Conns : Connect(c) \/ Close(c)
  PROVE  TypeOK'
<1>0. NoConn \in Connection
  BY DEF NoConn, Connection
<1>1. ASSUME NEW c \in Conns, Connect(c) PROVE TypeOK'
  <2>1. [NoConn EXCEPT !.open = TRUE] \in Connection
    BY <1>0 DEF Connection
  <2>2. conn' \in [Conns -> Connection]
    BY <1>1, <2>1 DEF Connect, TypeOK
  <2> QED
    BY <1>1, <2>2 DEF Connect, TypeOK
<1>2. ASSUME NEW c \in Conns, Close(c) PROVE TypeOK'
  <2>1. up' \in [UpIds -> UploadRow]
    <3>1. up' = up \/ up' = [up EXCEPT ![conn[c].ctx].st = "failed"]
      BY <1>2 DEF Close
    <3>2. [up EXCEPT ![conn[c].ctx].st = "failed"] \in [UpIds -> UploadRow]
      BY StatusTypes
    <3>3. up \in [UpIds -> UploadRow]
      BY DEF TypeOK
    <3> QED
      BY <3>1, <3>2, <3>3
  <2>2. conn' \in [Conns -> Connection]
    <3>1. \A k \in Connection : [k EXCEPT !.open = FALSE] \in Connection
      BY DEF Connection
    <3>2. conn' = [Drop(c) EXCEPT ![c].open = FALSE]
      BY <1>2 DEF Close
    <3> QED
      BY <3>1, <3>2, DropTypes
  <2> QED
    BY <1>2, <2>1, <2>2 DEF Close, TypeOK
<1>3. CASE Restart
  <2>1. scene' \in Scene
    <3>1. scene.restarts - 1 \in Nat
      BY <1>3 DEF Restart, TypeOK, Scene
    <3> QED
      BY <1>3, <3>1 DEF Restart, TypeOK, Scene
  <2>2. conn' \in [Conns -> Connection] /\ task' \in [Conns -> Handlers]
    BY <1>0, <1>3, HandlersMade DEF Restart
  <2>3. row' \in [SessIds -> SessionRow]
    <3>1. \A r \in SessionRow, m \in BOOLEAN : [r EXCEPT !.missed = m] \in SessionRow
      BY DEF SessionRow
    <3>2. \A s \in SessIds : (row[s].st # "none") \in BOOLEAN
      OBVIOUS
    <3> QED
      BY <1>3, <3>1, <3>2 DEF Restart, TypeOK
  <2> QED
    BY <1>3, <2>1, <2>2, <2>3 DEF Restart, TypeOK
<1> QED
  BY <1>1, <1>2, <1>3

\* The steps that open and verify a session keep the types.
LEMMA SessionTypeOK ==
  ASSUME TypeOK, NEW c \in Conns,
         \/ OpenLink(c) \/ OpenSession(c) \/ Attach(c) \/ StartChallenge(c) \/ ConfirmWrite(c) \/ Verify(c)
         \/ \E s \in SessIds, right \in BOOLEAN : ConfirmRead(c, s, right)
  PROVE  TypeOK'
<1>0. task[c] \in Handlers /\ conn \in [Conns -> Connection] /\ link \in LinkRow
  BY DEF TypeOK
<1>a. \A k \in Connection, m \in {"new", "pending", "ready"} : [k EXCEPT !.mode = m] \in Connection
  BY DEF Connection
<1>b. \A k \in Connection, s \in SessIds \cup {None} : [k EXCEPT !.sess = s] \in Connection
  BY DEF Connection
<1>c. ASSUME NEW m \in {"new", "pending", "ready"}, NEW s \in SessIds \cup {None}
      PROVE  [conn EXCEPT ![c].mode = m, ![c].sess = s] \in [Conns -> Connection]
  <2> DEFINE moded == [conn EXCEPT ![c].mode = m]
  <2>1. moded \in [Conns -> Connection]
    BY <1>0, <1>a
  <2> HIDE DEF moded
  <2>2. [moded EXCEPT ![c].sess = s] \in [Conns -> Connection]
    BY <1>b, <2>1
  <2> QED
    BY <2>2 DEF moded
<1>1. CASE OpenLink(c)
  <2>1. conn' \in [Conns -> Connection]
    BY <1>1, <1>c DEF OpenLink
  <2>2. task' \in [Conns -> Handlers]
    <3>1. link.tok \in 0 .. MaxChanges /\ link.email \in BOOLEAN
      BY <1>0 DEF LinkRow
    <3>2. [at |-> "open", tok |-> link.tok, email |-> link.email] \in Handlers
      BY <3>1, HandlersMade
    <3> QED
      BY <1>1, <3>2, GoTypes DEF OpenLink
  <2> QED
    BY <1>1, <2>1, <2>2 DEF OpenLink, TypeOK
<1>2. CASE OpenSession(c)
  <2> DEFINE s == Min(FreeSess)
  <2>1. s \in SessIds
    BY <1>2, NextIsFree DEF OpenSession
  <2>2. row' \in [SessIds -> SessionRow]
    <3>1. task[c].tok \in 0 .. MaxChanges
      BY <1>0, <1>2, HandlerFields DEF OpenSession
    <3>2. \A missed \in BOOLEAN :
            [st |-> "open", tok |-> task[c].tok, verified |-> FALSE, missed |-> missed] \in SessionRow
      BY <3>1 DEF SessionRow
    <3>3. (link.tok # task[c].tok) \in BOOLEAN
      OBVIOUS
    <3> QED
      BY <1>2, <3>2, <3>3 DEF OpenSession, TypeOK
  <2>3. CASE task[c].email
    <3>1. conn' = [conn EXCEPT ![c].mode = "pending", ![c].sess = s] /\ Done(c)
      BY <1>2, <2>3 DEF OpenSession
    <3>2. conn' \in [Conns -> Connection]
      BY <1>c, <2>1, <3>1
    <3>3. task' \in [Conns -> Handlers]
      BY <3>1, DoneTypes
    <3> QED
      BY <1>2, <2>2, <3>2, <3>3 DEF OpenSession, TypeOK
  <2>4. CASE ~task[c].email
    <3>1. [at |-> "attach", sess |-> s] \in Handlers
      BY <2>1, HandlersMade
    <3>2. task' \in [Conns -> Handlers] /\ conn' = conn
      BY <1>2, <2>4, <3>1, GoTypes DEF OpenSession
    <3> QED
      BY <1>2, <2>2, <3>2 DEF OpenSession, TypeOK
  <2> QED
    BY <2>3, <2>4
<1>3. CASE Attach(c)
  <2>1. task[c].sess \in SessIds
    BY <1>0, <1>3, HandlerFields DEF Attach
  <2>2. conn' \in [Conns -> Connection]
    BY <1>0, <1>3, <1>c, <2>1 DEF Attach
  <2>3. task' \in [Conns -> Handlers]
    BY <1>3, DoneTypes DEF Attach
  <2> QED
    BY <1>3, <2>2, <2>3 DEF Attach, TypeOK
<1>4. CASE StartChallenge(c)
  <2>1. \A k \in Challenge : [k EXCEPT !.st = "sent"] \in Challenge
    BY DEF Challenge
  <2>2. chal' \in [SessIds -> Challenge]
    BY <1>4, <2>1 DEF StartChallenge, TypeOK
  <2> QED
    BY <1>4, <2>2 DEF StartChallenge, TypeOK
<1>5. CASE ConfirmWrite(c)
  <2> DEFINE s == task[c].sess
  <2>1. s \in SessIds
    BY <1>0, <1>5, HandlerFields DEF ConfirmWrite
  <2>2. chal' \in [SessIds -> Challenge]
    <3>1. \A k \in Challenge : [k EXCEPT !.st = "consumed"] \in Challenge
      BY DEF Challenge
    <3>2. \A k \in Challenge : k.attempts < MaxAttempts => [k EXCEPT !.attempts = @ + 1] \in Challenge
      BY DEF Challenge
    <3>3. chal[s] \in Challenge /\ chal \in [SessIds -> Challenge]
      BY <2>1 DEF TypeOK
    <3>4. \/ chal' = chal
          \/ chal' = [chal EXCEPT ![s].st = "consumed"]
          \/ chal[s].attempts < MaxAttempts /\ chal' = [chal EXCEPT ![s].attempts = @ + 1]
      BY <1>5 DEF ConfirmWrite
    <3> QED
      BY <3>1, <3>2, <3>3, <3>4
  <2>3. task' \in [Conns -> Handlers]
    <3>1. [at |-> "verify", sess |-> s] \in Handlers
      BY <2>1, HandlersMade
    <3> QED
      BY <1>5, <3>1, DoneTypes, GoTypes DEF ConfirmWrite
  <2> QED
    BY <1>5, <2>2, <2>3 DEF ConfirmWrite, TypeOK
<1>6. CASE Verify(c)
  <2>1. row' \in [SessIds -> SessionRow]
    <3>1. \A r \in SessionRow : [r EXCEPT !.verified = TRUE] \in SessionRow
      BY DEF SessionRow
    <3> QED
      BY <1>6, <3>1 DEF Verify, TypeOK
  <2>2. [at |-> "attach", sess |-> task[c].sess] \in Handlers
    BY <1>0, <1>6, HandlerFields, HandlersMade DEF Verify
  <2>3. task' \in [Conns -> Handlers]
    BY <1>6, <2>2, GoTypes DEF Verify
  <2> QED
    BY <1>6, <2>1, <2>3 DEF Verify, TypeOK
<1>7. ASSUME NEW s \in SessIds, NEW right \in BOOLEAN, ConfirmRead(c, s, right) PROVE TypeOK'
  <2>1. [at |-> "confirm", sess |-> s, right |-> right] \in Handlers
    BY HandlersMade
  <2>2. task' \in [Conns -> Handlers]
    BY <1>7, <2>1, GoTypes DEF ConfirmRead
  <2> QED
    BY <1>7, <2>2 DEF ConfirmRead, TypeOK
<1> QED
  BY <1>1, <1>2, <1>3, <1>4, <1>5, <1>6, <1>7

\* The steps of an upload that do not yet count anything keep the types.
LEMMA UploadTypeOK ==
  ASSUME TypeOK, NEW c \in Conns,
         \/ \E n \in Names : StartRead(c, n)
         \/ StartCreate(c) \/ Chunk(c) \/ Finish(c) \/ CreateFile(c) \/ StoreFile(c)
         \/ FinishCheck(c) \/ Cancel(c)
  PROVE  TypeOK'
<1>0. task[c] \in Handlers /\ conn \in [Conns -> Connection] /\ conn[c] \in Connection
  BY DEF TypeOK
<1>a. {"chunk", "create", "store", "check", "complete", "cancel"} \subseteq UpPlaces
  BY DEF UpPlaces
<1>b. Drop(c) \in [Conns -> Connection]
  BY DropTypes
<1>c. task[c].at \in UpPlaces => task[c].up \in UpIds
  BY <1>0, HandlerFields
<1>d. conn[c].ctx # None => conn[c].ctx \in UpIds
  BY <1>0 DEF Connection
<1>1. ASSUME NEW n \in Names, StartRead(c, n) PROVE TypeOK'
  <2>1. task' \in [Conns -> Handlers]
    BY <1>1, HandlersMade, GoTypes DEF StartRead
  <2> QED
    BY <1>1, <2>1 DEF StartRead, TypeOK
<1>2. CASE StartCreate(c)
  <2> DEFINE u == Min(FreeUp)
  <2>1. u \in UpIds
    BY <1>2, NextIsFree DEF StartCreate
  <2>2. task[c].name \in Names
    BY <1>0, <1>2, HandlerFields DEF StartCreate
  <2>3. conn[c].sess \in SessIds \cup {None}
    BY <1>0 DEF Connection
  <2>4. [st |-> "pending", sess |-> conn[c].sess, name |-> task[c].name, got |-> 0] \in UploadRow
    BY <2>2, <2>3 DEF UploadRow
  <2>5. up' \in [UpIds -> UploadRow]
    BY <1>2, <2>4 DEF StartCreate, TypeOK
  <2> HIDE DEF u
  <2>6. [conn EXCEPT ![c].ctx = u, ![c].bytes = 0] \in [Conns -> Connection]
    <3>1. \A k \in Connection : [k EXCEPT !.ctx = u] \in Connection
      BY <2>1 DEF Connection
    <3>2. \A k \in Connection : [k EXCEPT !.bytes = 0] \in Connection
      <4>1. 0 \in 0 .. Size
        OBVIOUS
      <4> QED
        BY <4>1 DEF Connection
    <3> DEFINE taken == [conn EXCEPT ![c].ctx = u]
    <3>3. taken \in [Conns -> Connection]
      BY <1>0, <3>1
    <3> HIDE DEF taken
    <3>4. [taken EXCEPT ![c].bytes = 0] \in [Conns -> Connection]
      BY <3>2, <3>3
    <3> QED
      BY <3>4 DEF taken
  <2>7. conn' \in [Conns -> Connection]
    BY <1>0, <1>2, <2>6 DEF StartCreate, u
  <2>8. task' \in [Conns -> Handlers]
    BY <1>2, DoneTypes DEF StartCreate
  <2> QED
    BY <1>2, <2>5, <2>7, <2>8 DEF StartCreate, TypeOK
<1>3. CASE Chunk(c)
  <2>1. conn' \in [Conns -> Connection]
    BY <1>0, <1>3, <1>b DEF Chunk
  <2>2. [at |-> "chunk", up |-> conn[c].ctx] \in Handlers
    BY <1>3, <1>a, <1>d, HandlersMade DEF Chunk
  <2>3. task' \in [Conns -> Handlers]
    BY <1>3, <1>d, <2>2, GoTypes, DoneTypes DEF Chunk
  <2> QED
    BY <1>3, <2>1, <2>3 DEF Chunk, TypeOK
<1>4. CASE Finish(c)
  <2>1. conn' \in [Conns -> Connection]
    BY <1>0, <1>4, <1>b DEF Finish
  <2>2. [at |-> "create", up |-> conn[c].ctx] \in Handlers
    BY <1>4, <1>a, <1>d, HandlersMade DEF Finish
  <2>3. task' \in [Conns -> Handlers]
    BY <1>4, <1>d, <2>2, GoTypes, DoneTypes DEF Finish
  <2> QED
    BY <1>4, <2>1, <2>3 DEF Finish, TypeOK
<1>5. CASE CreateFile(c)
  <2>1. task[c].up \in UpIds
    BY <1>5, <1>c DEF CreateFile, UpPlaces
  <2>2. /\ [at |-> "store", up |-> task[c].up] \in Handlers
        /\ [at |-> "check", up |-> task[c].up] \in Handlers
    BY <1>a, <2>1, HandlersMade
  <2>3. \/ Go(c, [at |-> "store", up |-> task[c].up])
        \/ Go(c, [at |-> "check", up |-> task[c].up])
        \/ Fail(c, task[c].up)
    BY <1>5 DEF CreateFile
  <2>4. task' \in [Conns -> Handlers]
    BY <2>1, <2>2, <2>3, GoTypes, DoneTypes
  <2> QED
    BY <1>5, <2>4 DEF CreateFile, TypeOK
<1>6. CASE StoreFile(c)
  <2>1. task[c].up \in UpIds
    BY <1>6, <1>c DEF StoreFile, UpPlaces
  <2>2. [at |-> "check", up |-> task[c].up] \in Handlers
    BY <1>a, <2>1, HandlersMade
  <2>3. task' \in [Conns -> Handlers]
    BY <1>6, <2>2, GoTypes DEF StoreFile
  <2>4. files' \in [Names -> UpIds \cup {None}]
    BY <1>6, <2>1 DEF StoreFile, TypeOK
  <2> QED
    BY <1>6, <2>3, <2>4 DEF StoreFile, TypeOK
<1>7. CASE FinishCheck(c)
  <2>1. task[c].up \in UpIds
    BY <1>7, <1>c DEF FinishCheck, UpPlaces
  <2>2. [at |-> "complete", up |-> task[c].up] \in Handlers
    BY <1>a, <2>1, HandlersMade
  <2>3. task' \in [Conns -> Handlers]
    BY <1>7, <2>1, <2>2, GoTypes, DoneTypes DEF FinishCheck
  <2> QED
    BY <1>7, <2>3 DEF FinishCheck, TypeOK
<1>8. CASE Cancel(c)
  <2>1. [at |-> "cancel", up |-> conn[c].ctx] \in Handlers
    BY <1>8, <1>a, <1>d, HandlersMade DEF Cancel
  <2>2. task' \in [Conns -> Handlers] /\ conn' \in [Conns -> Connection]
    BY <1>8, <1>b, <2>1, GoTypes DEF Cancel
  <2> QED
    BY <1>8, <2>2 DEF Cancel, TypeOK
<1> QED
  BY <1>1, <1>2, <1>3, <1>4, <1>5, <1>6, <1>7, <1>8

\* There are no more complete uploads than uploads.
LEMMA CompletedCount ==
  /\ IsFiniteSet(Completed)
  /\ Cardinality(Completed) \in Nat /\ Cardinality(Completed) <= UploadBound
<1>1. IsFiniteSet(UpIds) /\ Cardinality(UpIds) = UploadBound
  <2>1. UpIds = 1 .. UploadBound /\ 1 \in Int /\ UploadBound \in Int
    BY DEF UpIds
  <2>2. IsFiniteSet(1 .. UploadBound)
        /\ Cardinality(1 .. UploadBound) = IF 1 > UploadBound THEN 0 ELSE UploadBound - 1 + 1
    BY <2>1, FS_Interval
  <2> QED
    BY <2>1, <2>2
<1>2. Completed \subseteq UpIds
  BY DEF Completed
<1> QED
  BY <1>1, <1>2, FS_Subset, FS_CardinalityType

\* The steps that count and end an upload keep the types.
LEMMA CountingTypeOK ==
  ASSUME TypeInv, NEW c \in Conns,
         CountBytes(c) \/ Complete(c) \/ CountUpload(c) \/ CancelRow(c) \/ FailRow(c)
  PROVE  TypeOK'
<1> USE DEF TypeInv
<1>0. task[c] \in Handlers /\ conn \in [Conns -> Connection] /\ conn[c] \in Connection
      /\ up \in [UpIds -> UploadRow]
  BY DEF TypeOK
<1>a. task[c].at \in UpPlaces => task[c].up \in UpIds
  BY <1>0, HandlerFields
<1>1. CASE CountBytes(c)
  <2> DEFINE u == task[c].up
  <2>1. u \in UpIds /\ task[c].at = "chunk"
    BY <1>1, <1>a DEF CountBytes, UpPlaces
  <2>2. CASE Active(u) /\ up[u].got < Size
    <3>1. up' = [up EXCEPT ![u].st = "receiving", ![u].got = @ + 1]
      BY <1>1, <2>2 DEF CountBytes
    <3>2. up' \in [UpIds -> UploadRow]
      <4>1. \A r \in UploadRow : [r EXCEPT !.st = "receiving"] \in UploadRow
        BY DEF UploadRow
      <4>2. \A r \in UploadRow : r.got < Size => [r EXCEPT !.got = @ + 1] \in UploadRow
        BY DEF UploadRow
      <4> DEFINE receiving == [up EXCEPT ![u].st = "receiving"]
      <4>3. receiving \in [UpIds -> UploadRow] /\ receiving[u].got = up[u].got
        BY <1>0, <2>1, <4>1 DEF UploadRow
      <4>4. up' = [receiving EXCEPT ![u].got = @ + 1]
        BY <3>1
      <4> HIDE DEF receiving
      <4>5. receiving[u].got < Size
        BY <2>2, <4>3
      <4> QED
        BY <2>1, <4>2, <4>3, <4>4, <4>5
    <3>3. conn' \in [Conns -> Connection]
      <4>1. \A k \in Connection : k.bytes < Size => [k EXCEPT !.bytes = @ + 1] \in Connection
        BY DEF Connection
      <4>2. (conn' = [conn EXCEPT ![c].bytes = @ + 1] /\ conn[c].ctx = u) \/ conn' = conn
        BY <1>1, <2>2 DEF CountBytes
      <4>3. conn[c].ctx = u => conn[c].bytes < Size
        BY <2>1 DEF ChunkHasRoom
      <4> QED
        BY <1>0, <4>1, <4>2, <4>3
    <3>4. task' \in [Conns -> Handlers]
      BY <1>1, <2>2, DoneTypes DEF CountBytes
    <3> QED
      BY <1>1, <3>2, <3>3, <3>4 DEF CountBytes, TypeOK
  <2>3. CASE ~(Active(u) /\ up[u].got < Size)
    <3>1. conn' = Drop(c) \/ conn' = conn
      BY <1>1, <2>3 DEF CountBytes
    <3>2. conn' \in [Conns -> Connection]
      BY <1>0, <3>1, DropTypes
    <3>3. task' \in [Conns -> Handlers] /\ up' = up
      BY <1>1, <2>1, <2>3, DoneTypes DEF CountBytes
    <3> QED
      BY <1>1, <3>2, <3>3 DEF CountBytes, TypeOK
  <2> QED
    BY <2>2, <2>3
<1>2. CASE Complete(c)
  <2>1. task[c].up \in UpIds
    BY <1>2, <1>a DEF Complete, UpPlaces
  <2>2. up' = up \/ up' = [up EXCEPT ![task[c].up].st = "complete"]
    BY <1>2 DEF Complete
  <2>3. up' \in [UpIds -> UploadRow]
    <3>1. [up EXCEPT ![task[c].up].st = "complete"] \in [UpIds -> UploadRow]
      BY StatusTypes
    <3> QED
      BY <1>0, <2>2, <3>1
  <2>4. task' \in [Conns -> Handlers]
    BY <1>2, <2>1, HandlersMade, GoTypes, DoneTypes DEF Complete
  <2> QED
    BY <1>2, <2>3, <2>4 DEF Complete, TypeOK
<1>3. CASE CountUpload(c)
  <2>1. c \in Counting /\ Counting # {}
    BY <1>3 DEF CountUpload, Counting
  <2>2. Cardinality(Counting) \in Nat /\ Cardinality(Counting) # 0
    BY <2>1, FS_CardinalityType, FS_EmptySet DEF Counted
  <2>3. link \in LinkRow /\ link.uploads \in 0 .. UploadBound
    BY DEF TypeOK, LinkRow
  <2>4. link.uploads + 1 \in 0 .. UploadBound
    BY <2>2, <2>3, CompletedCount DEF Counted
  <2>5. link' \in LinkRow
    BY <1>3, <2>3, <2>4 DEF CountUpload, LinkRow
  <2>6. task' \in [Conns -> Handlers]
    BY <1>3, DoneTypes DEF CountUpload
  <2> QED
    BY <1>3, <2>5, <2>6 DEF CountUpload, TypeOK
<1>4. CASE CancelRow(c) \/ FailRow(c)
  <2>1. \/ up' = up
        \/ up' = [up EXCEPT ![task[c].up].st = "cancelled"]
        \/ up' = [up EXCEPT ![task[c].up].st = "failed"]
    BY <1>4 DEF CancelRow, FailRow
  <2>2. up' \in [UpIds -> UploadRow]
    <3>1. /\ [up EXCEPT ![task[c].up].st = "cancelled"] \in [UpIds -> UploadRow]
          /\ [up EXCEPT ![task[c].up].st = "failed"] \in [UpIds -> UploadRow]
      BY StatusTypes
    <3> QED
      BY <1>0, <2>1, <3>1
  <2>3. task' \in [Conns -> Handlers]
    BY <1>4, DoneTypes DEF CancelRow, FailRow
  <2> QED
    BY <1>4, <2>2, <2>3 DEF CancelRow, FailRow, TypeOK
<1> QED
  BY <1>1, <1>2, <1>3, <1>4

\* The steps of the owner and of the janitor keep the types.
LEMMA OwnerTypeOK ==
  ASSUME TypeInv,
         RotateToken \/ RevokeLink \/ RevokeSessions \/ UpdateLink \/ Expire \/ SweepList \/ SweepOne
  PROVE  TypeOK'
<1> USE DEF TypeInv
<1>0. link \in LinkRow /\ scene \in Scene /\ up \in [UpIds -> UploadRow]
      /\ row \in [SessIds -> SessionRow]
  BY DEF TypeOK
<1>a. link.tok \in 0 .. MaxChanges /\ scene.changes \in 0 .. MaxChanges
  BY <1>0 DEF LinkRow, Scene
<1>b. Change => scene' \in Scene /\ scene.changes - 1 \in 0 .. MaxChanges
  <2>1. \A n \in 0 .. MaxChanges : [scene EXCEPT !.changes = n] \in Scene
    BY <1>0 DEF Scene
  <2>2. scene.changes > 0 => scene.changes - 1 \in 0 .. MaxChanges
    BY <1>a
  <2> QED
    BY <2>1, <2>2 DEF Change
<1>c. \A r \in SessionRow : [r EXCEPT !.st = "ended"] \in SessionRow
  BY DEF SessionRow
<1>d. EndSessions \in [SessIds -> SessionRow]
  BY <1>0, <1>c DEF EndSessions
<1>e. \A live \in BOOLEAN : [link EXCEPT !.live = live] \in LinkRow
  BY <1>0 DEF LinkRow
<1>1. CASE RotateToken
  <2>1. link.tok + 1 \in 0 .. MaxChanges
    BY <1>1, <1>a DEF TokensLeft, RotateToken, Change
  <2>2. link' \in LinkRow
    BY <1>0, <1>1, <2>1 DEF RotateToken, LinkRow
  <2>3. scene' \in Scene
    BY <1>1, <1>b DEF RotateToken
  <2> QED
    BY <1>1, <2>2, <2>3 DEF RotateToken, TypeOK
<1>2. CASE RevokeLink
  <2>1. scene' \in Scene /\ link' \in LinkRow
    BY <1>2, <1>b, <1>e DEF RevokeLink
  <2> QED
    BY <1>2, <2>1 DEF RevokeLink, TypeOK
<1>3. CASE RevokeSessions
  BY <1>3, <1>d DEF RevokeSessions, TypeOK
<1>4. CASE UpdateLink
  <2>1. link' \in LinkRow
    BY <1>0, <1>4 DEF UpdateLink, LinkRow
  <2>2. scene' \in Scene
    BY <1>4, <1>b DEF UpdateLink
  <2> QED
    BY <1>4, <2>1, <2>2 DEF UpdateLink, TypeOK
<1>5. CASE Expire
  <2>1. scene' \in Scene
    BY <1>5, <1>b DEF Expire
  <2>2. link' \in LinkRow /\ row' \in [SessIds -> SessionRow]
    <3>1. \/ link' = [link EXCEPT !.live = FALSE] /\ row' = row
          \/ link' = link /\ \E s \in SessIds : row' = [row EXCEPT ![s].st = "ended"]
      BY <1>5 DEF Expire
    <3>2. \A s \in SessIds : [row EXCEPT ![s].st = "ended"] \in [SessIds -> SessionRow]
      BY <1>0, <1>c
    <3> QED
      BY <1>0, <1>e, <3>1, <3>2
  <2> QED
    BY <1>5, <2>1, <2>2 DEF Expire, TypeOK
<1>6. CASE SweepList
  <2>1. sweep' \subseteq UpIds
    BY <1>6 DEF SweepList
  <2> QED
    BY <1>6, <2>1 DEF SweepList, TypeOK
<1>7. CASE SweepOne
  <2>1. up' = up \/ up' = [up EXCEPT ![Min(sweep)].st = "failed"]
    BY <1>7 DEF SweepOne
  <2>2. up' \in [UpIds -> UploadRow]
    <3>1. [up EXCEPT ![Min(sweep)].st = "failed"] \in [UpIds -> UploadRow]
      BY StatusTypes
    <3> QED
      BY <1>0, <2>1, <3>1
  <2>3. sweep' \subseteq UpIds
    BY <1>7 DEF SweepOne, TypeOK
  <2> QED
    BY <1>7, <2>2, <2>3 DEF SweepOne, TypeOK
<1> QED
  BY <1>1, <1>2, <1>3, <1>4, <1>5, <1>6, <1>7

-----------------------------------------------------------------------------
(* What a step may change.                                                  *)

\* A visitor's step leaves the other connections and their handlers alone.
LEMMA OthersStay ==
  ASSUME TypeOK, NEW c \in Conns, Visit(c) \/ Transfer(c), NEW d \in Conns \ {c}
  PROVE  conn'[d] = conn[d] /\ task'[d] = task[d]
<1>0. conn \in [Conns -> Connection] /\ task \in [Conns -> Handlers]
  BY DEF TypeOK
<1>a. Drop(c)[d] = conn[d]
  BY <1>0 DEF Drop
<1>b. Drop(c) \in [Conns -> Connection]
  BY DropTypes
<1>c. \A t : Go(c, t) => task'[d] = task[d]
  BY <1>0 DEF Go
<1>d. Done(c) => task'[d] = task[d]
  BY <1>c DEF Done
<1>e. \A u : Fail(c, u) => task'[d] = task[d]
  BY <1>c DEF Fail
<1>1. CASE Connect(c)
  BY <1>0, <1>1 DEF Connect
<1>2. CASE Close(c)
  <2>1. conn'[d] = Drop(c)[d]
    BY <1>2, <1>b DEF Close
  <2> QED
    BY <1>2, <1>a, <2>1 DEF Close
<1>3. CASE OpenLink(c)
  BY <1>0, <1>3, <1>c DEF OpenLink
<1>4. CASE OpenSession(c)
  BY <1>0, <1>4, <1>c, <1>d DEF OpenSession
<1>5. CASE Attach(c)
  BY <1>0, <1>5, <1>d DEF Attach
<1>6. CASE StartChallenge(c) \/ \E s \in SessIds, right \in BOOLEAN : ConfirmRead(c, s, right)
  BY <1>6, <1>c DEF StartChallenge, ConfirmRead
<1>7. CASE ConfirmWrite(c) \/ Verify(c)
  BY <1>7, <1>c, <1>d DEF ConfirmWrite, Verify
<1>8. CASE \E n \in Names : StartRead(c, n)
  BY <1>8, <1>c DEF StartRead
<1>9. CASE StartCreate(c)
  BY <1>0, <1>9, <1>d DEF StartCreate
<1>10. CASE Chunk(c)
  BY <1>10, <1>a, <1>c, <1>e DEF Chunk
<1>11. CASE CountBytes(c)
  BY <1>0, <1>11, <1>a, <1>d, <1>e DEF CountBytes
<1>12. CASE Finish(c)
  BY <1>12, <1>a, <1>c, <1>e DEF Finish
<1>13. CASE CreateFile(c) \/ StoreFile(c) \/ FinishCheck(c)
  BY <1>13, <1>c, <1>e DEF CreateFile, StoreFile, FinishCheck
<1>14. CASE Complete(c) \/ CountUpload(c)
  BY <1>14, <1>c, <1>d, <1>e DEF Complete, CountUpload
<1>15. CASE Cancel(c) \/ CancelRow(c) \/ FailRow(c)
  BY <1>15, <1>a, <1>c, <1>d DEF Cancel, CancelRow, FailRow
<1> QED
  BY <1>1, <1>2, <1>3, <1>4, <1>5, <1>6, <1>7, <1>8, <1>9, <1>10, <1>11, <1>12, <1>13, <1>14, <1>15
     DEF Visit, Transfer

\* What happens to the row of an upload in one step.
RowStays(u)  == up'[u] = up[u]
RowStarts(u) == \E c \in Conns : /\ StartCreate(c) /\ up[u].st = "none" /\ task[c].name \in Names
                                 /\ up'[u] = [st |-> "pending", sess |-> conn[c].sess,
                                              name |-> task[c].name, got |-> 0]
RowGrows(u)  == \E c \in Conns : /\ CountBytes(c) /\ u = task[c].up
                                 /\ Active(u) /\ up[u].got < Size
                                 /\ up'[u].st = "receiving" /\ up'[u].got = up[u].got + 1
                                 /\ up'[u].name = up[u].name
RowDone(u)   == \E c \in Conns : /\ Complete(c) /\ u = task[c].up /\ Active(u)
                                 /\ up'[u].st = "complete" /\ up'[u].got = up[u].got
                                 /\ up'[u].name = up[u].name
RowEnds(u)   == /\ Active(u) /\ up'[u].st \in {"failed", "cancelled"}
                /\ up'[u].got = up[u].got /\ up'[u].name = up[u].name

LEMMA EndingRows ==
  ASSUME TypeOK, NEW v \in UpIds, Active(v), NEW u \in UpIds,
         NEW st \in {"failed", "cancelled"}, up' = [up EXCEPT ![v].st = st]
  PROVE  RowStays(u) \/ RowEnds(u)
<1>1. up \in [UpIds -> UploadRow]
  BY DEF TypeOK
<1>2. CASE u = v
  <2>1. \A r \in UploadRow : /\ [r EXCEPT !.st = st].st = st /\ [r EXCEPT !.st = st].got = r.got
                             /\ [r EXCEPT !.st = st].name = r.name
    BY DEF UploadRow
  <2>2. up'[u] = [up[u] EXCEPT !.st = st]
    BY <1>1, <1>2
  <2> QED
    BY <1>1, <1>2, <2>1, <2>2 DEF RowEnds
<1>3. CASE u # v
  BY <1>1, <1>3 DEF RowStays
<1> QED
  BY <1>2, <1>3

LEMMA UploadRows ==
  ASSUME TypeOK, Next, NEW u \in UpIds
  PROVE  RowStays(u) \/ RowStarts(u) \/ RowGrows(u) \/ RowDone(u) \/ RowEnds(u)
<1>0. up \in [UpIds -> UploadRow] /\ task \in [Conns -> Handlers] /\ conn \in [Conns -> Connection]
  BY DEF TypeOK
<1>a. UNCHANGED up => RowStays(u)
  BY DEF RowStays
<1>1. ASSUME NEW c \in Conns, StartCreate(c) PROVE RowStays(u) \/ RowStarts(u)
  <2>1. FreeUp # {} => Min(FreeUp) \in UpIds /\ up[Min(FreeUp)].st = "none"
    BY NextIsFree
  <2>2. task[c].name \in Names
    BY <1>0, <1>1, HandlerFields DEF StartCreate
  <2>3. CASE u = Min(FreeUp)
    <3>1. up'[u] = [st |-> "pending", sess |-> conn[c].sess, name |-> task[c].name, got |-> 0]
      BY <1>0, <1>1, <2>3 DEF StartCreate
    <3>2. up[u].st = "none"
      BY <1>1, <2>1, <2>3 DEF StartCreate
    <3> QED
      BY <1>1, <2>2, <3>1, <3>2 DEF RowStarts
  <2>4. CASE u # Min(FreeUp)
    BY <1>0, <1>1, <2>4 DEF StartCreate, RowStays
  <2> QED
    BY <2>3, <2>4
<1>2. ASSUME NEW c \in Conns, CountBytes(c) PROVE RowStays(u) \/ RowGrows(u)
  <2>1. task[c].up \in UpIds
    BY <1>0, <1>2, HandlerFields DEF CountBytes, UpPlaces
  <2>2. CASE Active(task[c].up) /\ up[task[c].up].got < Size
    <3>1. up' = [up EXCEPT ![task[c].up].st = "receiving", ![task[c].up].got = @ + 1]
      BY <1>2, <2>2 DEF CountBytes
    <3>2. CASE u = task[c].up
      <4>1. /\ up'[u].st = "receiving" /\ up'[u].got = up[u].got + 1
            /\ up'[u].name = up[u].name
        BY <1>0, <3>1, <3>2 DEF UploadRow
      <4> QED
        BY <1>2, <2>2, <3>2, <4>1 DEF RowGrows
    <3>3. CASE u # task[c].up
      BY <1>0, <3>1, <3>3 DEF RowStays
    <3> QED
      BY <3>2, <3>3
  <2>3. CASE ~(Active(task[c].up) /\ up[task[c].up].got < Size)
    BY <1>2, <1>a, <2>3 DEF CountBytes
  <2> QED
    BY <2>2, <2>3
<1>3. ASSUME NEW c \in Conns, Complete(c) PROVE RowStays(u) \/ RowDone(u)
  <2>1. CASE Active(task[c].up) /\ u = task[c].up
    <3>1. up' = [up EXCEPT ![u].st = "complete"]
      BY <1>3, <2>1 DEF Complete
    <3>2. up'[u].st = "complete" /\ up'[u].got = up[u].got /\ up'[u].name = up[u].name
      BY <1>0, <3>1 DEF UploadRow
    <3> QED
      BY <1>3, <2>1, <3>2 DEF RowDone
  <2>2. CASE ~(Active(task[c].up) /\ u = task[c].up)
    BY <1>0, <1>3, <2>2 DEF Complete, RowStays
  <2> QED
    BY <2>1, <2>2
<1>4. ASSUME NEW c \in Conns, CancelRow(c) PROVE RowStays(u) \/ RowEnds(u)
  <2>1. task[c].up \in UpIds
    BY <1>0, <1>4, HandlerFields DEF CancelRow, UpPlaces
  <2>2. \/ UNCHANGED up
        \/ Active(task[c].up) /\ up' = [up EXCEPT ![task[c].up].st = "cancelled"]
    BY <1>4 DEF CancelRow
  <2> QED
    BY <1>a, <2>1, <2>2, EndingRows
<1>5. ASSUME NEW c \in Conns, FailRow(c) PROVE RowStays(u) \/ RowEnds(u)
  <2>1. task[c].up \in UpIds
    BY <1>0, <1>5, HandlerFields DEF FailRow, UpPlaces
  <2>2. \/ UNCHANGED up
        \/ Active(task[c].up) /\ up' = [up EXCEPT ![task[c].up].st = "failed"]
    BY <1>5 DEF FailRow
  <2> QED
    BY <1>a, <2>1, <2>2, EndingRows
<1>6. ASSUME NEW c \in Conns, Close(c) PROVE RowStays(u) \/ RowEnds(u)
  <2>1. conn[c].ctx # None => conn[c].ctx \in UpIds
    BY <1>0 DEF Connection
  <2>2. \/ UNCHANGED up
        \/ /\ conn[c].ctx \in UpIds /\ Active(conn[c].ctx)
           /\ up' = [up EXCEPT ![conn[c].ctx].st = "failed"]
    BY <1>6, <2>1 DEF Close
  <2> QED
    BY <1>a, <2>2, EndingRows
<1>7. CASE SweepOne
  <2>1. Min(sweep) \in UpIds
    <3>1. sweep \subseteq UpIds /\ sweep # {}
      BY <1>7 DEF SweepOne, TypeOK
    <3>2. UpIds \subseteq Nat
      BY DEF UpIds
    <3>3. sweep \in SUBSET Nat
      BY <3>1, <3>2
    <3> QED
      BY <3>1, <3>3, MinIsIn
  <2>2. \/ UNCHANGED up
        \/ Active(Min(sweep)) /\ up' = [up EXCEPT ![Min(sweep)].st = "failed"]
    BY <1>7 DEF SweepOne
  <2> QED
    BY <1>a, <2>1, <2>2, EndingRows
<1>8. ASSUME NEW c \in Conns, Visit(c), ~Close(c) PROVE RowStays(u)
  BY <1>8, <1>a DEF Visit, Connect, OpenLink, OpenSession, Attach, StartChallenge, ConfirmWrite,
     Verify, ConfirmRead
<1>9. ASSUME NEW c \in Conns,
             \/ \E n \in Names : StartRead(c, n)
             \/ Chunk(c) \/ Finish(c) \/ CreateFile(c) \/ StoreFile(c) \/ FinishCheck(c)
             \/ CountUpload(c) \/ Cancel(c)
      PROVE  RowStays(u)
  BY <1>9, <1>a DEF StartRead, Chunk, Finish, CreateFile, StoreFile, FinishCheck, CountUpload, Cancel
<1>10. CASE Restart \/ RotateToken \/ RevokeLink \/ RevokeSessions \/ UpdateLink \/ Expire \/ SweepList
  BY <1>10, <1>a DEF Restart, RotateToken, RevokeLink, RevokeSessions, UpdateLink, Expire, SweepList
<1>11. ASSUME NEW c \in Conns, Transfer(c)
       PROVE  RowStays(u) \/ RowStarts(u) \/ RowGrows(u) \/ RowDone(u) \/ RowEnds(u)
  BY <1>1, <1>2, <1>3, <1>4, <1>5, <1>9, <1>11 DEF Transfer
<1> QED
  BY <1>6, <1>7, <1>8, <1>10, <1>11 DEF Next

\* Where the handler of a connection goes in one step, as far as its upload
\* is concerned.
HasUp(c) == task[c].at \in UpPlaces

TaskStays(c)  == task'[c] = task[c]
TaskLeaves(c) == task'[c].at \notin UpPlaces
TaskTakes(c)  == /\ conn[c].ctx \in UpIds /\ task'[c].up = conn[c].ctx
                 /\ task'[c].at \in {"chunk", "create", "cancel", "fail"}
                 /\ task'[c].at = "chunk" => /\ conn[c].bytes < Size
                                             /\ conn'[c] = conn[c]
                 /\ task'[c].at = "create" => conn[c].bytes = Size
TaskGoesOn(c) == /\ HasUp(c) /\ task'[c].up = task[c].up
                 /\ task'[c].at \in {"store", "check", "complete", "fail"}
                 /\ task'[c].at = "store" => task[c].at = "create" /\ up' = up
                 /\ task'[c].at = "check" => /\ files'[up[task[c].up].name] # None
                                             /\ up' = up
                 /\ task'[c].at = "complete" => /\ task[c].at = "check"
                                                /\ up[task[c].up].got = Size
                                                /\ up' = up

LEMMA TaskSteps ==
  ASSUME TypeOK, \A u \in UpIds : up[u].st # "none" => up[u].name \in Names,
         \A d \in Conns : HasUp(d) => up[task[d].up].st # "none",
         Next, NEW c \in Conns
  PROVE  TaskStays(c) \/ TaskLeaves(c) \/ TaskTakes(c) \/ TaskGoesOn(c)
<1>0. /\ up \in [UpIds -> UploadRow] /\ task \in [Conns -> Handlers] /\ conn \in [Conns -> Connection]
      /\ files \in [Names -> UpIds \cup {None}] /\ conn[c] \in Connection
  BY DEF TypeOK
<1>a. UNCHANGED task => TaskStays(c)
  BY DEF TaskStays
<1>b. \A t : Go(c, t) => task'[c] = t
  BY <1>0 DEF Go
<1>c. Done(c) => TaskLeaves(c)
  BY <1>b DEF Done, Idle, TaskLeaves, UpPlaces
<1>d. conn[c].ctx # None => conn[c].ctx \in UpIds
  BY <1>0 DEF Connection
<1>e. HasUp(c) /\ Fail(c, task[c].up) => TaskGoesOn(c)
  <2>1. Fail(c, task[c].up) => task'[c] = [at |-> "fail", up |-> task[c].up]
    BY <1>0 DEF Fail, Go
  <2> QED
    BY <2>1 DEF TaskGoesOn
<1>f. conn[c].ctx # None /\ Fail(c, conn[c].ctx) => TaskTakes(c)
  <2>1. Fail(c, conn[c].ctx) => task'[c] = [at |-> "fail", up |-> conn[c].ctx]
    BY <1>0 DEF Fail, Go
  <2> QED
    BY <1>d, <2>1 DEF TaskTakes
<1>1. ASSUME NEW d \in Conns, d # c, Visit(d) \/ Transfer(d) PROVE TaskStays(c)
  BY <1>1, OthersStay DEF TaskStays
<1>2. CASE Restart
  BY <1>2 DEF Restart, Idle, TaskLeaves, UpPlaces
<1>3. CASE RotateToken \/ RevokeLink \/ RevokeSessions \/ UpdateLink \/ Expire \/ SweepList \/ SweepOne
  BY <1>3, <1>a DEF RotateToken, RevokeLink, RevokeSessions, UpdateLink, Expire, SweepList, SweepOne
<1>4. CASE Visit(c)
  <2>1. CASE Connect(c) \/ Close(c) \/ StartChallenge(c)
    BY <1>a, <2>1 DEF Connect, Close, StartChallenge
  <2>2. CASE OpenLink(c) \/ OpenSession(c) \/ Attach(c) \/ ConfirmWrite(c) \/ Verify(c)
    <3>1. Done(c) \/ task'[c].at \in {"open", "attach", "verify"}
      BY <1>0, <2>2 DEF OpenLink, OpenSession, Attach, ConfirmWrite, Verify, Go
    <3> QED
      BY <1>c, <3>1 DEF TaskLeaves, UpPlaces
  <2>3. CASE \E s \in SessIds, right \in BOOLEAN : ConfirmRead(c, s, right)
    <3>1. task'[c].at = "confirm"
      BY <1>b, <2>3 DEF ConfirmRead
    <3> QED
      BY <3>1 DEF TaskLeaves, UpPlaces
  <2> QED
    BY <1>4, <2>1, <2>2, <2>3 DEF Visit
<1>5. CASE Transfer(c)
  <2>1. CASE \E n \in Names : StartRead(c, n)
    <3>1. task'[c].at = "start"
      BY <1>b, <2>1 DEF StartRead
    <3> QED
      BY <3>1 DEF TaskLeaves, UpPlaces
  <2>2. CASE StartCreate(c) \/ CountUpload(c) \/ CancelRow(c) \/ FailRow(c)
    BY <1>c, <2>2 DEF StartCreate, CountUpload, CancelRow, FailRow
  <2>3. CASE Chunk(c)
    <3>1. CASE conn'= conn /\ conn[c].bytes < Size /\ Go(c, [at |-> "chunk", up |-> conn[c].ctx])
      <4>1. task'[c] = [at |-> "chunk", up |-> conn[c].ctx]
        BY <1>b, <3>1
      <4> QED
        BY <1>d, <2>3, <3>1, <4>1 DEF Chunk, TaskTakes
    <3>2. CASE Fail(c, conn[c].ctx)
      BY <1>f, <2>3, <3>2 DEF Chunk
    <3> QED
      BY <2>3, <3>1, <3>2 DEF Chunk
  <2>4. CASE CountBytes(c)
    <3>1. HasUp(c) /\ (Done(c) \/ Fail(c, task[c].up))
      BY <2>4 DEF CountBytes, HasUp, UpPlaces
    <3> QED
      BY <1>c, <1>e, <3>1
  <2>5. CASE Finish(c)
    <3>1. conn[c].ctx # None
          /\ \/ Fail(c, conn[c].ctx)
             \/ conn[c].bytes = Size /\ Go(c, [at |-> "create", up |-> conn[c].ctx])
      BY <2>5 DEF Finish
    <3>2. CASE conn[c].bytes = Size /\ Go(c, [at |-> "create", up |-> conn[c].ctx])
      <4>1. task'[c] = [at |-> "create", up |-> conn[c].ctx]
        BY <1>b, <3>2
      <4> QED
        BY <1>d, <3>1, <3>2, <4>1 DEF TaskTakes
    <3> QED
      BY <1>f, <3>1, <3>2
  <2>6. CASE CreateFile(c)
    <3>0. HasUp(c) /\ task[c].at = "create" /\ up' = up
      BY <2>6 DEF CreateFile, HasUp, UpPlaces
    <3>1. CASE files[up[task[c].up].name] = None /\ Go(c, [at |-> "store", up |-> task[c].up])
      <4>1. task'[c] = [at |-> "store", up |-> task[c].up]
        BY <1>b, <3>1
      <4> QED
        BY <3>0, <4>1 DEF TaskGoesOn
    <3>2. CASE files[up[task[c].up].name] # None /\ Go(c, [at |-> "check", up |-> task[c].up])
      <4>1. task'[c] = [at |-> "check", up |-> task[c].up]
        BY <1>b, <3>2
      <4>2. files' = files /\ up' = up
        BY <2>6 DEF CreateFile
      <4> QED
        BY <3>0, <3>2, <4>1, <4>2 DEF TaskGoesOn
    <3> QED
      BY <1>e, <2>6, <3>0, <3>1, <3>2 DEF CreateFile
  <2>7. CASE StoreFile(c)
    <3>0. HasUp(c)
      BY <2>7 DEF StoreFile, HasUp, UpPlaces
    <3>1. task'[c] = [at |-> "check", up |-> task[c].up]
      BY <1>b, <2>7 DEF StoreFile
    <3>2. task[c].up \in UpIds
      BY <1>0, <3>0, HandlerFields DEF HasUp
    <3>3. up[task[c].up].name \in Names
      BY <3>0, <3>2
    <3>4. files'[up[task[c].up].name] = task[c].up /\ up' = up
      BY <1>0, <2>7, <3>3 DEF StoreFile
    <3>5. task[c].up # None
      BY <3>2 DEF UpIds
    <3> QED
      BY <3>0, <3>1, <3>4, <3>5 DEF TaskGoesOn
  <2>8. CASE FinishCheck(c)
    <3>0. HasUp(c) /\ task[c].at = "check" /\ up' = up
      BY <2>8 DEF FinishCheck, HasUp, UpPlaces
    <3>1. CASE up[task[c].up].got = Size /\ Go(c, [at |-> "complete", up |-> task[c].up])
      <4>1. task'[c] = [at |-> "complete", up |-> task[c].up]
        BY <1>b, <3>1
      <4> QED
        BY <3>0, <3>1, <4>1 DEF TaskGoesOn
    <3> QED
      BY <1>e, <2>8, <3>0, <3>1 DEF FinishCheck
  <2>9. CASE Complete(c)
    <3>0. HasUp(c)
      BY <2>9 DEF Complete, HasUp, UpPlaces
    <3>1. CASE Go(c, [at |-> "count"])
      <4>1. task'[c].at = "count"
        BY <1>b, <3>1
      <4> QED
        BY <4>1 DEF TaskLeaves, UpPlaces
    <3> QED
      BY <1>e, <2>9, <3>0, <3>1 DEF Complete
  <2>10. CASE Cancel(c)
    <3>1. task'[c] = [at |-> "cancel", up |-> conn[c].ctx]
      BY <1>b, <2>10 DEF Cancel
    <3> QED
      BY <1>d, <2>10, <3>1 DEF Cancel, TaskTakes
  <2> QED
    BY <1>5, <2>1, <2>2, <2>3, <2>4, <2>5, <2>6, <2>7, <2>8, <2>9, <2>10 DEF Transfer
<1> QED
  BY <1>1, <1>2, <1>3, <1>4, <1>5 DEF Next

\* What happens to the upload a connection holds.
HoldsNone(c)  == conn'[c].ctx = None
HoldsOn(c)    == conn'[c].ctx = conn[c].ctx /\ conn'[c].bytes = conn[c].bytes
HoldsFresh(c) == /\ conn'[c].ctx \in UpIds /\ up[conn'[c].ctx].st = "none"
                 /\ up'[conn'[c].ctx].st = "pending" /\ up'[conn'[c].ctx].got = 0
                 /\ conn'[c].bytes = 0
HoldsMore(c)  == /\ CountBytes(c) /\ conn[c].ctx = task[c].up
                 /\ conn'[c].ctx = conn[c].ctx /\ conn'[c].bytes = conn[c].bytes + 1
                 /\ up'[conn[c].ctx].got = up[conn[c].ctx].got + 1

LEMMA ConnSteps ==
  ASSUME TypeOK, Next, NEW c \in Conns
  PROVE  HoldsNone(c) \/ HoldsOn(c) \/ HoldsFresh(c) \/ HoldsMore(c)
<1>0. /\ up \in [UpIds -> UploadRow] /\ task \in [Conns -> Handlers] /\ conn \in [Conns -> Connection]
      /\ conn[c] \in Connection
  BY DEF TypeOK
<1>a. conn'[c] = conn[c] => HoldsOn(c)
  BY DEF HoldsOn
<1>b. Drop(c) \in [Conns -> Connection] /\ Drop(c)[c].ctx = None
  <2>1. Drop(c) \in [Conns -> Connection]
    BY DropTypes
  <2>2. Drop(c)[c].ctx = None
    BY <1>0 DEF Drop, Connection
  <2> QED
    BY <2>1, <2>2
<1>c. conn' = Drop(c) => HoldsNone(c)
  <2>1. conn' = Drop(c) => conn'[c].ctx = None
    BY Zenon, <1>b
  <2> QED
    BY Zenon, <2>1 DEF HoldsNone
<1>1. ASSUME NEW d \in Conns, d # c, Visit(d) \/ Transfer(d) PROVE HoldsOn(c)
  BY <1>1, <1>a, OthersStay
<1>2. CASE Restart
  BY <1>2 DEF Restart, NoConn, HoldsNone
<1>3. CASE RotateToken \/ RevokeLink \/ RevokeSessions \/ UpdateLink \/ Expire \/ SweepList \/ SweepOne
  BY <1>3, <1>a DEF RotateToken, RevokeLink, RevokeSessions, UpdateLink, Expire, SweepList, SweepOne
<1>4. CASE Visit(c)
  <2>1. CASE Connect(c)
    <3>1. conn'[c] = [NoConn EXCEPT !.open = TRUE]
      BY <1>0, <2>1 DEF Connect
    <3> QED
      BY <3>1 DEF NoConn, HoldsNone
  <2>2. CASE Close(c)
    <3>1. conn'[c] = [Drop(c)[c] EXCEPT !.open = FALSE]
      BY <1>b, <2>2 DEF Close
    <3>2. \A k \in Connection : [k EXCEPT !.open = FALSE].ctx = k.ctx
      BY DEF Connection
    <3> QED
      BY <1>b, <3>1, <3>2 DEF HoldsNone
  <2>3. CASE OpenLink(c) \/ OpenSession(c) \/ Attach(c)
    <3>1. \/ conn' = conn
          \/ \E m, s : conn' = [conn EXCEPT ![c].mode = m, ![c].sess = s]
      BY <2>3 DEF OpenLink, OpenSession, Attach
    <3>2. ASSUME NEW m, NEW s, conn' = [conn EXCEPT ![c].mode = m, ![c].sess = s]
          PROVE  HoldsOn(c)
      <4>1. conn'[c].ctx = conn[c].ctx /\ conn'[c].bytes = conn[c].bytes
        BY <1>0, <3>2 DEF Connection
      <4> QED
        BY <4>1 DEF HoldsOn
    <3> QED
      BY <1>a, <3>1, <3>2
  <2>4. CASE StartChallenge(c) \/ ConfirmWrite(c) \/ Verify(c)
             \/ \E s \in SessIds, right \in BOOLEAN : ConfirmRead(c, s, right)
    BY <1>a, <2>4 DEF StartChallenge, ConfirmWrite, Verify, ConfirmRead
  <2> QED
    BY <1>4, <2>1, <2>2, <2>3, <2>4 DEF Visit
<1>5. CASE Transfer(c)
  <2>1. CASE StartCreate(c)
    <3> DEFINE u == Min(FreeUp)
    <3>1. u \in UpIds /\ up[u].st = "none"
      BY <2>1, NextIsFree DEF StartCreate
    <3>2. up'[u].st = "pending" /\ up'[u].got = 0
      BY <1>0, <2>1, <3>1 DEF StartCreate
    <3>3. conn' = conn \/ conn' = [conn EXCEPT ![c].ctx = u, ![c].bytes = 0]
      BY <2>1 DEF StartCreate
    <3> HIDE DEF u
    <3>4. CASE conn' = [conn EXCEPT ![c].ctx = u, ![c].bytes = 0]
      <4>1. conn'[c].ctx = u /\ conn'[c].bytes = 0
        BY <1>0, <3>4 DEF Connection
      <4> QED
        BY <3>1, <3>2, <4>1 DEF HoldsFresh
    <3> QED
      BY <1>a, <3>3, <3>4
  <2>2. CASE CountBytes(c)
    <3>1. task[c].up \in UpIds
      BY <1>0, <2>2, HandlerFields DEF CountBytes, UpPlaces
    <3>2. \/ conn' = conn \/ conn' = Drop(c)
          \/ /\ conn[c].ctx = task[c].up /\ conn' = [conn EXCEPT ![c].bytes = @ + 1]
             /\ up' = [up EXCEPT ![task[c].up].st = "receiving", ![task[c].up].got = @ + 1]
      BY <2>2 DEF CountBytes
    <3>3. CASE /\ conn[c].ctx = task[c].up /\ conn' = [conn EXCEPT ![c].bytes = @ + 1]
               /\ up' = [up EXCEPT ![task[c].up].st = "receiving", ![task[c].up].got = @ + 1]
      <4>1. conn'[c].ctx = conn[c].ctx /\ conn'[c].bytes = conn[c].bytes + 1
        BY <1>0, <3>3 DEF Connection
      <4>2. up'[task[c].up].got = up[task[c].up].got + 1
        BY <1>0, <3>1, <3>3 DEF UploadRow
      <4> QED
        BY <2>2, <3>3, <4>1, <4>2 DEF HoldsMore
    <3> QED
      BY <1>a, <1>c, <3>2, <3>3
  <2>3. CASE Chunk(c) \/ Finish(c) \/ Cancel(c)
    BY <1>a, <1>c, <2>3 DEF Chunk, Finish, Cancel
  <2>4. CASE \/ \E n \in Names : StartRead(c, n)
             \/ CreateFile(c) \/ StoreFile(c) \/ FinishCheck(c)
             \/ Complete(c) \/ CountUpload(c) \/ CancelRow(c) \/ FailRow(c)
    BY <1>a, <2>4 DEF StartRead, CreateFile, StoreFile, FinishCheck, Complete, CountUpload,
       CancelRow, FailRow
  <2> QED
    BY <1>5, <2>1, <2>2, <2>3, <2>4 DEF Transfer
<1> QED
  BY <1>1, <1>2, <1>3, <1>4, <1>5 DEF Next

\* A file appears under a name, and gives way to another, by the last step of
\* Filesystem::createFile alone.
LEMMA FileSteps ==
  ASSUME TypeOK, Next, NEW n \in Names
  PROVE  \/ files'[n] = files[n]
         \/ \E c \in Conns : /\ task[c].at = "store" /\ task[c].up \in UpIds
                             /\ n = up[task[c].up].name /\ files'[n] = task[c].up
                             /\ up' = up
<1>0. files \in [Names -> UpIds \cup {None}] /\ task \in [Conns -> Handlers]
  BY DEF TypeOK
<1>1. ASSUME NEW c \in Conns, StoreFile(c)
      PROVE  files'[n] = files[n] \/ (n = up[task[c].up].name /\ files'[n] = task[c].up)
  BY <1>0, <1>1 DEF StoreFile
<1>2. ASSUME NEW c \in Conns, StoreFile(c)
      PROVE  task[c].at = "store" /\ task[c].up \in UpIds /\ up' = up
  BY <1>0, <1>2, HandlerFields DEF StoreFile, UpPlaces
<1>3. ASSUME NEW c \in Conns, Visit(c) PROVE files' = files
  BY <1>3 DEF Visit, Connect, Close, OpenLink, OpenSession, Attach, StartChallenge, ConfirmWrite,
     Verify, ConfirmRead
<1>4. ASSUME NEW c \in Conns, Transfer(c), ~StoreFile(c) PROVE files' = files
  BY <1>4 DEF Transfer, StartRead, StartCreate, Chunk, CountBytes, Finish, CreateFile, FinishCheck,
     Complete, CountUpload, Cancel, CancelRow, FailRow
<1>5. CASE Restart \/ RotateToken \/ RevokeLink \/ RevokeSessions \/ UpdateLink \/ Expire
           \/ SweepList \/ SweepOne
  BY <1>5 DEF Restart, RotateToken, RevokeLink, RevokeSessions, UpdateLink, Expire, SweepList, SweepOne
<1>6. ASSUME NEW c \in Conns, StoreFile(c)
      PROVE  \/ files'[n] = files[n]
             \/ /\ task[c].at = "store" /\ task[c].up \in UpIds
                /\ n = up[task[c].up].name /\ files'[n] = task[c].up
                /\ up' = up
  BY <1>1, <1>2, <1>6
<1> QED
  BY <1>3, <1>4, <1>5, <1>6 DEF Next

-----------------------------------------------------------------------------
(* The inductive invariant.                                                 *)

\* Whatever holds an upload holds one that was started, and a file is the
\* file of an upload of its name.
NamedRows  == \A u \in UpIds : up[u].st # "none" => up[u].name \in Names
KnownTasks == \A c \in Conns : HasUp(c) => up[task[c].up].st # "none"
KnownConns == \A c \in Conns : conn[c].ctx # None => up[conn[c].ctx].st # "none"
KnownFiles == \A n \in Names : files[n] # None => up[files[n]].st # "none" /\ up[files[n]].name = n

\* No two connections hold one upload, and none holds what the handler of
\* another one is working at.
OneHolder  == \A c, d \in Conns : c # d /\ conn[c].ctx # None => conn[c].ctx # conn[d].ctx
OneHandler == \A c, d \in Conns : c # d /\ HasUp(c) => conn[d].ctx # task[c].up

\* The connection and the row count alike, also when somebody else has ended
\* the upload.
BytesCounted == \A c \in Conns : conn[c].ctx # None => conn[c].bytes = up[conn[c].ctx].got

\* What Upload::finish has behind it when it makes the file, and
\* Manager::finishUpload when it asks and when it writes.
FinishKnows ==
    \A c \in Conns :
        /\ task[c].at \in {"create", "store"} => up[task[c].up].got = Size
        /\ task[c].at \in {"check", "complete"} => files[up[task[c].up].name] # None
        /\ task[c].at = "complete" => up[task[c].up].got = Size

Held == /\ NamedRows /\ KnownTasks /\ KnownConns /\ KnownFiles
        /\ OneHolder /\ OneHandler
        /\ BytesCounted /\ FinishKnows /\ CompleteIsStored

IInv == TypeInv /\ Held

\* A row that was started keeps its name, stays started, and keeps all the
\* bytes once it has them.
LEMMA RowsKeep ==
  ASSUME IInv, Next, NEW u \in UpIds, up[u].st # "none"
  PROVE  /\ up'[u].st # "none" /\ up'[u].name = up[u].name
         /\ up[u].got = Size => up'[u].got = Size
         /\ ~Active(u) => up'[u] = up[u]
<1>1. TypeOK /\ Size \in Nat /\ up[u] \in UploadRow
  BY DEF IInv, TypeInv, TypeOK
<1>2. RowStays(u) \/ RowGrows(u) \/ RowDone(u) \/ RowEnds(u)
  BY <1>1, UploadRows DEF RowStarts
<1>3. CASE RowStays(u)
  BY <1>3 DEF RowStays
<1>4. CASE RowGrows(u)
  BY <1>1, <1>4 DEF RowGrows
<1>5. CASE RowDone(u)
  BY <1>5 DEF RowDone
<1>6. CASE RowEnds(u)
  BY <1>6 DEF RowEnds
<1> QED
  BY <1>2, <1>3, <1>4, <1>5, <1>6

\* Handlers and connections name uploads.
LEMMA UpsAre ==
  ASSUME TypeOK, NEW c \in Conns
  PROVE  /\ HasUp(c) => task[c].up \in UpIds
         /\ conn[c].ctx # None => conn[c].ctx \in UpIds
<1>1. task[c] \in Handlers /\ conn[c] \in Connection
  BY DEF TypeOK
<1>2. HasUp(c) => task[c].up \in UpIds
  BY <1>1, HandlerFields DEF HasUp
<1> QED
  BY <1>1, <1>2 DEF Connection

LEMMA RowsNamed == ASSUME IInv, Next PROVE NamedRows'
<1> SUFFICES ASSUME NEW u \in UpIds, up'[u].st # "none" PROVE up'[u].name \in Names
  BY DEF NamedRows
<1>0. TypeOK
  BY DEF IInv, TypeInv
<1>1. CASE up[u].st = "none"
  <2>1. RowStays(u) \/ RowStarts(u)
    BY <1>0, <1>1, UploadRows DEF RowGrows, RowDone, RowEnds, Active
  <2>2. CASE RowStarts(u)
    <3>1. \E c \in Conns : task[c].name \in Names /\ up'[u].name = task[c].name
      BY <2>2 DEF RowStarts
    <3> QED
      BY <3>1
  <2> QED
    BY <1>1, <2>1, <2>2 DEF RowStays
<1>2. CASE up[u].st # "none"
  BY <1>2, RowsKeep DEF IInv, Held, NamedRows
<1> QED
  BY <1>1, <1>2

LEMMA TasksKnown == ASSUME IInv, Next PROVE KnownTasks'
<1> SUFFICES ASSUME NEW c \in Conns, HasUp(c)' PROVE up'[task'[c].up].st # "none"
  BY DEF KnownTasks
<1>0. TypeOK /\ NamedRows /\ KnownTasks /\ KnownConns
  BY DEF IInv, TypeInv, Held
<1>1. TaskStays(c) \/ TaskTakes(c) \/ TaskGoesOn(c)
  BY <1>0, TaskSteps DEF NamedRows, KnownTasks, HasUp, TaskLeaves
<1>2. HasUp(c) => task[c].up \in UpIds /\ up[task[c].up].st # "none"
  BY <1>0, UpsAre DEF KnownTasks
<1>3. HasUp(c) => up'[task[c].up].st # "none"
  BY <1>2, RowsKeep
<1>4. CASE TaskStays(c)
  <2>1. HasUp(c) /\ task'[c].up = task[c].up
    BY <1>4 DEF HasUp, TaskStays
  <2> QED
    BY <1>3, <2>1
<1>5. CASE TaskTakes(c)
  <2>1. conn[c].ctx \in UpIds /\ task'[c].up = conn[c].ctx
    BY <1>5 DEF TaskTakes
  <2>2. conn[c].ctx # None
    BY <2>1 DEF UpIds
  <2>3. up[conn[c].ctx].st # "none"
    BY <1>0, <2>2 DEF KnownConns
  <2>4. up'[conn[c].ctx].st # "none"
    BY <2>1, <2>3, RowsKeep
  <2> QED
    BY <2>1, <2>4
<1>6. CASE TaskGoesOn(c)
  BY <1>3, <1>6 DEF TaskGoesOn
<1> QED
  BY <1>1, <1>4, <1>5, <1>6

LEMMA ConnsKnown == ASSUME IInv, Next PROVE KnownConns'
<1> SUFFICES ASSUME NEW c \in Conns, conn'[c].ctx # None PROVE up'[conn'[c].ctx].st # "none"
  BY DEF KnownConns
<1>0. TypeOK /\ KnownConns
  BY DEF IInv, TypeInv, Held
<1>1. HoldsOn(c) \/ HoldsFresh(c) \/ HoldsMore(c)
  BY <1>0, ConnSteps DEF HoldsNone
<1>2. CASE conn'[c].ctx = conn[c].ctx
  <2>1. conn[c].ctx \in UpIds /\ up[conn[c].ctx].st # "none"
    BY <1>0, <1>2, UpsAre DEF KnownConns
  <2>2. up'[conn[c].ctx].st # "none"
    BY <2>1, RowsKeep
  <2> QED
    BY <1>2, <2>2
<1>3. CASE HoldsFresh(c)
  BY <1>3 DEF HoldsFresh
<1> QED
  BY <1>1, <1>2, <1>3 DEF HoldsOn, HoldsMore

LEMMA FilesKnown == ASSUME IInv, Next PROVE KnownFiles'
<1> SUFFICES ASSUME NEW n \in Names, files'[n] # None
             PROVE  up'[files'[n]].st # "none" /\ up'[files'[n]].name = n
  BY DEF KnownFiles
<1>0. TypeOK /\ KnownFiles /\ KnownTasks
  BY DEF IInv, TypeInv, Held
<1>1. CASE files'[n] = files[n]
  <2>1. files[n] \in UpIds /\ up[files[n]].st # "none" /\ up[files[n]].name = n
    BY <1>0, <1>1 DEF KnownFiles, TypeOK
  <2>2. up'[files[n]].st # "none" /\ up'[files[n]].name = n
    BY <2>1, RowsKeep
  <2> QED
    BY <1>1, <2>2
<1>2. ASSUME NEW c \in Conns, task[c].at = "store", task[c].up \in UpIds,
             n = up[task[c].up].name, files'[n] = task[c].up, up' = up
      PROVE  up'[files'[n]].st # "none" /\ up'[files'[n]].name = n
  <2>1. HasUp(c)
    BY <1>2 DEF HasUp, UpPlaces
  <2>2. up[task[c].up].st # "none"
    BY <1>0, <2>1 DEF KnownTasks
  <2> QED
    BY <1>2, <2>2
<1> QED
  BY <1>0, <1>1, <1>2, FileSteps

\* One connection acts at a time, but for a restart.
LEMMA OneMoves ==
  ASSUME TypeOK, Next, NEW c \in Conns, NEW d \in Conns, c # d
  PROVE  \/ conn'[c] = conn[c] /\ task'[c] = task[c]
         \/ conn'[d] = conn[d] /\ task'[d] = task[d]
         \/ HoldsNone(c) /\ HoldsNone(d) /\ TaskLeaves(c) /\ TaskLeaves(d)
<1>1. ASSUME NEW e \in Conns, Visit(e) \/ Transfer(e)
      PROVE  \/ conn'[c] = conn[c] /\ task'[c] = task[c]
             \/ conn'[d] = conn[d] /\ task'[d] = task[d]
  <2>1. CASE e = c
    <3>1. d \in Conns \ {e}
      BY <2>1
    <3> QED
      BY <1>1, <3>1, OthersStay
  <2>2. CASE e # c
    <3>1. c \in Conns \ {e}
      BY <2>2
    <3> QED
      BY <1>1, <3>1, OthersStay
  <2> QED
    BY <2>1, <2>2
<1>2. CASE Restart
  BY <1>2 DEF Restart, NoConn, Idle, HoldsNone, TaskLeaves, UpPlaces
<1>3. CASE RotateToken \/ RevokeLink \/ RevokeSessions \/ UpdateLink \/ Expire \/ SweepList \/ SweepOne
  BY <1>3 DEF RotateToken, RevokeLink, RevokeSessions, UpdateLink, Expire, SweepList, SweepOne
<1> QED
  BY <1>1, <1>2, <1>3 DEF Next

LEMMA HoldersOne == ASSUME IInv, Next PROVE OneHolder'
<1> SUFFICES ASSUME NEW c \in Conns, NEW d \in Conns, c # d, conn'[c].ctx # None
             PROVE  conn'[c].ctx # conn'[d].ctx
  BY DEF OneHolder
<1>0. TypeOK /\ KnownConns /\ OneHolder
  BY DEF IInv, TypeInv, Held
<1>1. \A e \in Conns : conn[e].ctx # None => conn[e].ctx \in UpIds /\ up[conn[e].ctx].st # "none"
  BY <1>0, UpsAre DEF KnownConns
<1>2. ASSUME NEW e \in Conns, NEW f \in Conns, e # f, conn'[f] = conn[f],
             conn'[e].ctx # None
      PROVE  conn'[e].ctx # conn'[f].ctx
  <2>1. HoldsOn(e) \/ HoldsFresh(e) \/ HoldsMore(e)
    BY <1>0, <1>2, ConnSteps DEF HoldsNone
  <2>2. CASE conn'[e].ctx = conn[e].ctx
    BY <1>0, <1>2, <2>2 DEF OneHolder
  <2>3. CASE HoldsFresh(e)
    <3>1. up[conn'[e].ctx].st = "none"
      BY <2>3 DEF HoldsFresh
    <3>2. conn[f].ctx # None => up[conn[f].ctx].st # "none"
      BY <1>1
    <3> QED
      BY <1>2, <3>1, <3>2
  <2> QED
    BY <2>1, <2>2, <2>3 DEF HoldsOn, HoldsMore
<1>3. conn'[c] = conn[c] \/ conn'[d] = conn[d]
  BY <1>0, OneMoves DEF HoldsNone
<1>4. CASE conn'[d] = conn[d]
  BY <1>2, <1>4
<1>5. CASE conn'[c] = conn[c]
  <2>1. conn'[d].ctx # None => conn'[d].ctx # conn'[c].ctx
    BY <1>2, <1>5
  <2> QED
    BY <2>1
<1> QED
  BY <1>3, <1>4, <1>5

LEMMA HandlersOne == ASSUME IInv, Next PROVE OneHandler'
<1> SUFFICES ASSUME NEW c \in Conns, NEW d \in Conns, c # d, HasUp(c)'
             PROVE  conn'[d].ctx # task'[c].up
  BY DEF OneHandler
<1>0. TypeOK /\ NamedRows /\ KnownTasks /\ KnownConns /\ OneHolder /\ OneHandler
  BY DEF IInv, TypeInv, Held
<1>1. \/ conn'[c] = conn[c] /\ task'[c] = task[c]
      \/ conn'[d] = conn[d] /\ task'[d] = task[d]
  BY <1>0, OneMoves DEF TaskLeaves, HasUp
<1>2. TaskStays(c) \/ TaskTakes(c) \/ TaskGoesOn(c)
  BY <1>0, TaskSteps DEF NamedRows, KnownTasks, HasUp, TaskLeaves
<1>3. HoldsNone(d) \/ HoldsOn(d) \/ HoldsFresh(d) \/ HoldsMore(d)
  BY <1>0, ConnSteps
<1>4. CASE conn'[c] = conn[c] /\ task'[c] = task[c]
  <2>1. HasUp(c) /\ task'[c].up = task[c].up
    BY <1>4 DEF HasUp
  <2>2. task[c].up \in UpIds /\ up[task[c].up].st # "none" /\ conn[d].ctx # task[c].up
    BY <1>0, <2>1, UpsAre DEF KnownTasks, OneHandler
  <2>3. task[c].up # None
    BY <2>2 DEF UpIds
  <2> QED
    BY <1>3, <2>1, <2>2, <2>3 DEF HoldsNone, HoldsOn, HoldsFresh, HoldsMore
<1>5. CASE conn'[d] = conn[d] /\ task'[d] = task[d]
  <2>1. CASE HasUp(c) /\ task'[c].up = task[c].up
    BY <1>0, <1>5, <2>1 DEF OneHandler
  <2>2. CASE TaskTakes(c)
    <3>1. conn[c].ctx \in UpIds /\ task'[c].up = conn[c].ctx
      BY <2>2 DEF TaskTakes
    <3>2. conn[c].ctx # None
      BY <3>1 DEF UpIds
    <3>3. conn[c].ctx # conn[d].ctx
      BY <1>0, <3>2 DEF OneHolder
    <3> QED
      BY <1>5, <3>1, <3>3
  <2>3. TaskStays(c) => HasUp(c) /\ task'[c].up = task[c].up
    BY DEF TaskStays, HasUp
  <2> QED
    BY <1>2, <2>1, <2>2, <2>3 DEF TaskGoesOn
<1> QED
  BY <1>1, <1>4, <1>5

LEMMA BytesStayCounted == ASSUME IInv, Next PROVE BytesCounted'
<1> SUFFICES ASSUME NEW c \in Conns, conn'[c].ctx # None
             PROVE  conn'[c].bytes = up'[conn'[c].ctx].got
  BY DEF BytesCounted
<1>0. TypeOK /\ OneHandler /\ BytesCounted /\ KnownConns
  BY DEF IInv, TypeInv, Held
<1>1. HoldsOn(c) \/ HoldsFresh(c) \/ HoldsMore(c)
  BY <1>0, ConnSteps DEF HoldsNone
<1>2. CASE HoldsFresh(c)
  BY <1>2 DEF HoldsFresh
<1> DEFINE u == conn[c].ctx
<1>3. CASE HoldsOn(c) \/ HoldsMore(c)
  <2>1. conn'[c].ctx = u /\ u \in UpIds /\ u # None
    BY <1>0, <1>3, UpsAre DEF HoldsOn, HoldsMore
  <2>2. up[u].st # "none"
    BY <1>0, <2>1 DEF KnownConns
  <2>4. conn[c].bytes = up[u].got
    BY <1>0, <2>1 DEF BytesCounted
  <2>5. CASE HoldsMore(c)
    BY <2>1, <2>4, <2>5 DEF HoldsMore
  <2>6. CASE HoldsOn(c) /\ ~RowGrows(u)
    <3>1. RowStays(u) \/ RowDone(u) \/ RowEnds(u)
      BY <1>0, <2>1, <2>2, <2>6, UploadRows DEF RowStarts
    <3>2. up'[u].got = up[u].got
      BY <3>1 DEF RowStays, RowDone, RowEnds
    <3> QED
      BY <2>1, <2>4, <2>6, <3>2 DEF HoldsOn
  <2>7. CASE HoldsOn(c) /\ RowGrows(u)
    <3>1. PICK d \in Conns : CountBytes(d) /\ u = task[d].up /\ Active(u) /\ up[u].got < Size
                             /\ up'[u].got = up[u].got + 1
      BY <2>7 DEF RowGrows
    <3>2. HasUp(d)
      BY <3>1 DEF CountBytes, HasUp, UpPlaces
    <3>3. d = c
      BY <1>0, <3>1, <3>2 DEF OneHandler
    <3>4. conn' = [conn EXCEPT ![c].bytes = @ + 1]
      BY <3>1, <3>3 DEF CountBytes
    <3>5. conn \in [Conns -> Connection]
      BY <1>0 DEF TypeOK
    <3>6. conn'[c].bytes = conn[c].bytes + 1
      BY <3>4, <3>5 DEF Connection
    <3> QED
      BY <2>1, <2>4, <3>1, <3>6
  <2> QED
    BY <1>3, <2>5, <2>6, <2>7
<1> QED
  BY <1>1, <1>2, <1>3

\* A name that has a file keeps one.
LEMMA FilesStay ==
  ASSUME TypeOK, Next, NEW n \in Names, files[n] # None
  PROVE  files'[n] # None
<1>1. \A u \in UpIds : u # None
  BY DEF UpIds
<1> QED
  BY <1>1, FileSteps

LEMMA FinishStillKnows == ASSUME IInv, Next PROVE FinishKnows'
<1> SUFFICES ASSUME NEW c \in Conns, task'[c].at \in {"create", "store", "check", "complete"}
             PROVE  /\ task'[c].at # "check" => up'[task'[c].up].got = Size
                    /\ task'[c].at \in {"check", "complete"} => files'[up'[task'[c].up].name] # None
  BY DEF FinishKnows
<1>0. TypeOK /\ NamedRows /\ KnownTasks /\ KnownConns /\ BytesCounted /\ FinishKnows
  BY DEF IInv, TypeInv, Held
<1>1. TaskStays(c) \/ TaskTakes(c) \/ TaskGoesOn(c)
  <2>1. TaskStays(c) \/ TaskLeaves(c) \/ TaskTakes(c) \/ TaskGoesOn(c)
    BY <1>0, TaskSteps DEF NamedRows, KnownTasks
  <2> QED
    BY <2>1 DEF TaskLeaves, UpPlaces
<1>2. CASE TaskTakes(c)
  <2> DEFINE u == conn[c].ctx
  <2>1. task'[c].at = "create" /\ task'[c].up = u /\ u \in UpIds /\ u # None
        /\ conn[c].bytes = Size
    BY <1>2 DEF TaskTakes, UpIds
  <2>2. up[u].st # "none" /\ up[u].got = Size
    BY <1>0, <2>1 DEF KnownConns, BytesCounted
  <2>3. up'[u].got = Size
    BY <2>1, <2>2, RowsKeep
  <2> QED
    BY <2>1, <2>3
<1>3. CASE TaskStays(c) \/ TaskGoesOn(c)
  <2> DEFINE u == task[c].up
  <2>1. HasUp(c) /\ task'[c].up = u
    BY <1>3 DEF TaskStays, TaskGoesOn, HasUp, UpPlaces
  <2>2. u \in UpIds /\ up[u].st # "none" /\ up[u].name \in Names
    BY <1>0, <2>1, UpsAre DEF KnownTasks, NamedRows
  <2>3. up'[u].name = up[u].name /\ (up[u].got = Size => up'[u].got = Size)
    BY <2>2, RowsKeep
  <2>4. files[up[u].name] # None => files'[up[u].name] # None
    BY <1>0, <2>2, FilesStay
  <2>5. CASE TaskStays(c)
    <3>1. /\ task[c].at # "check" => up[u].got = Size
          /\ task[c].at \in {"check", "complete"} => files[up[u].name] # None
      BY <1>0, <2>5 DEF FinishKnows, TaskStays
    <3> QED
      BY <2>1, <2>3, <2>4, <2>5, <3>1 DEF TaskStays
  <2>6. CASE TaskGoesOn(c)
    <3>1. CASE task'[c].at = "store"
      BY <1>0, <2>1, <2>3, <2>6, <3>1 DEF TaskGoesOn, FinishKnows
    <3>2. CASE task'[c].at = "check"
      BY <2>1, <2>3, <2>6, <3>2 DEF TaskGoesOn
    <3>3. CASE task'[c].at = "complete"
      <4>1. task[c].at = "check" /\ up[u].got = Size
        BY <2>6, <3>3 DEF TaskGoesOn
      <4>2. files[up[u].name] # None
        BY <1>0, <4>1 DEF FinishKnows
      <4> QED
        BY <2>1, <2>3, <2>4, <3>3, <4>1, <4>2
    <3>4. task'[c].at # "create"
      BY <2>6 DEF TaskGoesOn
    <3> QED
      BY <3>1, <3>2, <3>3, <3>4
  <2> QED
    BY <1>3, <2>5, <2>6
<1> QED
  BY <1>1, <1>2, <1>3

LEMMA CompleteStaysStored == ASSUME IInv, Next PROVE CompleteIsStored'
<1> SUFFICES ASSUME NEW u \in UpIds, up'[u].st = "complete"
             PROVE  /\ up'[u].got = Size /\ files'[up'[u].name] # None
                    /\ files'[up'[u].name] # u => up'[files'[up'[u].name]].name = up'[u].name
  BY DEF CompleteIsStored, Completed
<1>0. TypeOK /\ NamedRows /\ KnownTasks /\ FinishKnows /\ CompleteIsStored /\ KnownFiles'
  BY FilesKnown DEF IInv, TypeInv, Held
<1>1. up[u].st # "none" /\ up[u].got = Size /\ files[up[u].name] # None
  <2>1. CASE up[u].st = "complete"
    BY <1>0, <2>1 DEF CompleteIsStored, Completed
  <2>2. CASE up[u].st # "complete"
    <3>1. RowDone(u)
      <4>1. RowStarts(u) => up'[u].st = "pending"
        BY DEF RowStarts
      <4>2. RowStays(u) => up'[u].st # "complete"
        BY <2>2 DEF RowStays
      <4>3. ~RowGrows(u) /\ ~RowEnds(u)
        BY DEF RowGrows, RowEnds
      <4> QED
        BY <1>0, <4>1, <4>2, <4>3, UploadRows
    <3>2. PICK c \in Conns : task[c].at = "complete" /\ u = task[c].up /\ Active(u)
      BY <3>1 DEF RowDone, Complete
    <3>3. up[u].got = Size /\ files[up[u].name] # None
      BY <1>0, <3>2 DEF FinishKnows
    <3> QED
      BY <3>2, <3>3 DEF Active
  <2> QED
    BY <2>1, <2>2
<1>2. up'[u].name = up[u].name /\ up'[u].got = Size /\ up[u].name \in Names
  BY <1>0, <1>1, RowsKeep DEF NamedRows
<1>3. files'[up[u].name] # None
  BY <1>0, <1>1, <1>2, FilesStay
<1> QED
  BY <1>0, <1>2, <1>3 DEF KnownFiles

-----------------------------------------------------------------------------
(* What the types rest on, kept by every step.                              *)

LEMMA RoomStays == ASSUME IInv, Next PROVE ChunkHasRoom'
<1> SUFFICES ASSUME NEW c \in Conns, task'[c].at = "chunk", conn'[c].ctx = task'[c].up
             PROVE  conn'[c].bytes < Size
  BY DEF ChunkHasRoom
<1>0. TypeOK /\ NamedRows /\ KnownTasks /\ ChunkHasRoom
  BY DEF IInv, TypeInv, Held
<1>1. TaskStays(c) \/ TaskTakes(c)
  <2>1. TaskStays(c) \/ TaskLeaves(c) \/ TaskTakes(c) \/ TaskGoesOn(c)
    BY <1>0, TaskSteps DEF NamedRows, KnownTasks
  <2> QED
    BY <2>1 DEF TaskLeaves, TaskGoesOn, UpPlaces
<1>2. CASE TaskTakes(c)
  BY <1>2 DEF TaskTakes
<1>3. CASE TaskStays(c)
  <2>1. task[c].at = "chunk" /\ HasUp(c) /\ task'[c].up = task[c].up
    BY <1>3 DEF TaskStays, HasUp, UpPlaces
  <2>2. task[c].up \in UpIds /\ up[task[c].up].st # "none" /\ task[c].up # None
    BY <1>0, <2>1, UpsAre DEF KnownTasks, UpIds
  <2>3. ~HoldsNone(c) /\ ~HoldsFresh(c)
    BY <2>1, <2>2 DEF HoldsNone, HoldsFresh
  <2>4. ~HoldsMore(c)
    <3>1. CountBytes(c) => task'[c].at # "chunk"
      <4>1. task \in [Conns -> Handlers]
        BY <1>0 DEF TypeOK
      <4> QED
        BY <4>1 DEF CountBytes, Done, Fail, Go, Idle
    <3> QED
      BY <3>1 DEF HoldsMore
  <2>5. HoldsOn(c)
    BY <1>0, <2>3, <2>4, ConnSteps
  <2> QED
    BY <1>0, <2>1, <2>5 DEF HoldsOn, ChunkHasRoom
<1> QED
  BY <1>1, <1>2, <1>3

LEMMA TokensStayLeft == ASSUME IInv, Next PROVE TokensLeft'
<1>0. link \in LinkRow /\ scene \in Scene /\ TokensLeft
  BY DEF IInv, TypeInv, TypeOK
<1>1. /\ link.tok \in Nat /\ scene.changes \in Nat /\ MaxChanges \in Nat
      /\ link.tok + scene.changes <= MaxChanges
  BY <1>0 DEF TokensLeft, LinkRow, Scene
<1>a. Change => scene'.changes = scene.changes - 1 /\ scene.changes > 0
  BY <1>0 DEF Change, Scene
<1>2. CASE RotateToken
  <2>1. link'.tok = link.tok + 1
    BY <1>0, <1>2 DEF RotateToken, LinkRow
  <2> QED
    BY <1>1, <1>2, <1>a, <2>1 DEF RotateToken, TokensLeft
<1>3. CASE RevokeLink \/ UpdateLink \/ Expire
  <2>1. \/ link' = link \/ link' = [link EXCEPT !.live = FALSE]
        \/ link' = [link EXCEPT !.email = ~@]
    BY <1>3 DEF RevokeLink, UpdateLink, Expire
  <2>2. link'.tok = link.tok
    BY <1>0, <2>1 DEF LinkRow
  <2>3. Change
    BY <1>3 DEF RevokeLink, UpdateLink, Expire
  <2> QED
    BY <1>1, <1>a, <2>2, <2>3 DEF TokensLeft
<1>4. CASE Restart
  <2>1. scene'.changes = scene.changes /\ link' = link
    BY <1>0, <1>4 DEF Restart, Scene
  <2> QED
    BY <1>1, <2>1 DEF TokensLeft
<1>5. ASSUME NEW c \in Conns, CountUpload(c) PROVE TokensLeft'
  <2>1. link'.tok = link.tok /\ scene' = scene
    BY <1>0, <1>5 DEF CountUpload, LinkRow
  <2> QED
    BY <1>1, <2>1 DEF TokensLeft
<1>6. ASSUME UNCHANGED <<link, scene>> PROVE TokensLeft'
  BY <1>1, <1>6 DEF TokensLeft
<1>7. ASSUME NEW c \in Conns, Visit(c) PROVE UNCHANGED <<link, scene>>
  BY <1>7 DEF Visit, Connect, Close, OpenLink, OpenSession, Attach, StartChallenge, ConfirmWrite,
     Verify, ConfirmRead
<1>8. ASSUME NEW c \in Conns, Transfer(c), ~CountUpload(c) PROVE UNCHANGED <<link, scene>>
  BY <1>8 DEF Transfer, StartRead, StartCreate, Chunk, CountBytes, Finish, CreateFile, StoreFile,
     FinishCheck, Complete, Cancel, CancelRow, FailRow
<1>9. CASE RevokeSessions \/ SweepList \/ SweepOne
  BY <1>6, <1>9 DEF RevokeSessions, SweepList, SweepOne
<1> QED
  BY <1>2, <1>3, <1>4, <1>5, <1>6, <1>7, <1>8, <1>9 DEF Next

\* Which handlers count changes only as an upload is completed, as it is
\* counted and as the server restarts.
LEMMA CountingSteps ==
  ASSUME TypeOK, Next, ~Restart,
         \A c \in Conns : ~CountUpload(c) /\ ~(Complete(c) /\ Active(task[c].up))
  PROVE  Counting' = Counting /\ link'.uploads = link.uploads
<1>0. task \in [Conns -> Handlers] /\ link \in LinkRow
  BY DEF TypeOK
<1>a. \A c : Ready(c) => task[c].at = "idle"
  BY DEF Ready, Idle
<1>1. ASSUME NEW c \in Conns, task[c].at # "count", task'[c].at # "count", Visit(c) \/ Transfer(c)
      PROVE  Counting' = Counting
  <2>1. \A d \in Conns : task'[d].at = "count" <=> task[d].at = "count"
    <3> SUFFICES ASSUME NEW d \in Conns PROVE task'[d].at = "count" <=> task[d].at = "count"
      OBVIOUS
    <3>1. CASE d = c
      BY <1>1, <3>1
    <3>2. CASE d # c
      <4>1. d \in Conns \ {c}
        BY <3>2
      <4> QED
        BY <1>1, <4>1, OthersStay
    <3> QED
      BY <3>1, <3>2
  <2> QED
    BY <2>1 DEF Counting
<1>2. ASSUME NEW c \in Conns, Visit(c) PROVE Counting' = Counting /\ link' = link
  <2>1. link' = link
    BY <1>2 DEF Visit, Connect, Close, OpenLink, OpenSession, Attach, StartChallenge, ConfirmWrite,
       Verify, ConfirmRead
  <2>2. CASE task' = task
    BY <2>1, <2>2 DEF Counting
  <2>3. CASE task' # task
    <3>1. task[c].at # "count"
      <4>1. CASE OpenLink(c) \/ \E s \in SessIds, right \in BOOLEAN : ConfirmRead(c, s, right)
        BY <1>a, <4>1 DEF OpenLink, ConfirmRead
      <4>2. CASE OpenSession(c) \/ Attach(c) \/ ConfirmWrite(c) \/ Verify(c)
        BY <4>2 DEF OpenSession, Attach, ConfirmWrite, Verify
      <4>3. CASE Connect(c) \/ Close(c) \/ StartChallenge(c)
        BY <2>3, <4>3 DEF Connect, Close, StartChallenge
      <4> QED
        BY <1>2, <4>1, <4>2, <4>3 DEF Visit
    <3>2. task'[c].at # "count"
      <4>1. CASE OpenLink(c) \/ OpenSession(c) \/ Attach(c)
        BY <1>0, <4>1 DEF OpenLink, OpenSession, Attach, Done, Go, Idle
      <4>2. CASE ConfirmWrite(c) \/ Verify(c)
        BY <1>0, <4>2 DEF ConfirmWrite, Verify, Done, Go, Idle
      <4>3. CASE \E s \in SessIds, right \in BOOLEAN : ConfirmRead(c, s, right)
        BY <1>0, <4>3 DEF ConfirmRead, Go
      <4>4. CASE Connect(c) \/ Close(c) \/ StartChallenge(c)
        BY <2>3, <4>4 DEF Connect, Close, StartChallenge
      <4> QED
        BY <1>2, <4>1, <4>2, <4>3, <4>4 DEF Visit
    <3> QED
      BY <1>1, <1>2, <2>1, <3>1, <3>2
  <2> QED
    BY <2>2, <2>3
<1>3. ASSUME NEW c \in Conns, Transfer(c) PROVE Counting' = Counting /\ link' = link
  <2>0. ~CountUpload(c)
    OBVIOUS
  <2>1. link' = link /\ task[c].at # "count"
    <3>1. CASE (\E n \in Names : StartRead(c, n)) \/ Chunk(c) \/ Finish(c) \/ Cancel(c)
      BY <1>a, <3>1 DEF StartRead, Chunk, Finish, Cancel
    <3>2. CASE StartCreate(c) \/ CountBytes(c) \/ CreateFile(c) \/ StoreFile(c)
      BY <3>2 DEF StartCreate, CountBytes, CreateFile, StoreFile
    <3>3. CASE FinishCheck(c) \/ Complete(c) \/ CancelRow(c) \/ FailRow(c)
      BY <3>3 DEF FinishCheck, Complete, CancelRow, FailRow
    <3> QED
      BY <1>3, <2>0, <3>1, <3>2, <3>3 DEF Transfer
  <2>2. task'[c].at # "count"
    <3>1. CASE Complete(c)
      <4>1. ~Active(task[c].up)
        BY <3>1
      <4> QED
        BY <1>0, <3>1, <4>1 DEF Complete, Fail, Go
    <3>2. CASE (\E n \in Names : StartRead(c, n)) \/ StartCreate(c) \/ Chunk(c) \/ CountBytes(c)
      BY <1>0, <3>2 DEF StartRead, StartCreate, Chunk, CountBytes, Done, Fail, Go, Idle
    <3>3. CASE Finish(c) \/ CreateFile(c) \/ StoreFile(c) \/ FinishCheck(c)
      BY <1>0, <3>3 DEF Finish, CreateFile, StoreFile, FinishCheck, Fail, Go
    <3>4. CASE Cancel(c) \/ CancelRow(c) \/ FailRow(c)
      BY <1>0, <3>4 DEF Cancel, CancelRow, FailRow, Done, Go, Idle
    <3> QED
      BY <1>3, <2>0, <3>1, <3>2, <3>3, <3>4 DEF Transfer
  <2> QED
    BY <1>1, <1>3, <2>1, <2>2
<1>4. CASE RotateToken \/ RevokeLink \/ RevokeSessions \/ UpdateLink \/ Expire \/ SweepList \/ SweepOne
  <2>1. task' = task
    BY <1>4 DEF RotateToken, RevokeLink, RevokeSessions, UpdateLink, Expire, SweepList, SweepOne
  <2>2. \/ link' = link \/ link' = [link EXCEPT !.live = FALSE]
        \/ link' = [link EXCEPT !.email = ~@] \/ link' = [link EXCEPT !.tok = @ + 1]
    BY <1>4 DEF RotateToken, RevokeLink, RevokeSessions, UpdateLink, Expire, SweepList, SweepOne
  <2>3. link'.uploads = link.uploads
    BY <1>0, <2>2 DEF LinkRow
  <2> QED
    BY <2>1, <2>3 DEF Counting
<1> QED
  BY <1>2, <1>3, <1>4 DEF Next

\* The uploads that are complete change only as one is completed.
LEMMA CompletedSteps ==
  ASSUME TypeOK, Next, \A c \in Conns : ~(Complete(c) /\ Active(task[c].up))
  PROVE  Completed' = Completed
<1> SUFFICES ASSUME NEW u \in UpIds PROVE up'[u].st = "complete" <=> up[u].st = "complete"
  BY DEF Completed
<1>1. RowStays(u) \/ RowStarts(u) \/ RowGrows(u) \/ RowEnds(u)
  BY UploadRows DEF RowDone
<1>2. RowStarts(u) => up'[u].st = "pending" /\ up[u].st = "none"
  BY DEF RowStarts
<1>3. RowGrows(u) => up'[u].st = "receiving" /\ Active(u)
  BY DEF RowGrows
<1> QED
  BY <1>1, <1>2, <1>3 DEF RowStays, RowEnds, Active

LEMMA StaysCounted == ASSUME IInv, Next PROVE Counted'
<1>0. TypeOK /\ IsFiniteSet(Counting) /\ link.uploads + Cardinality(Counting) <= Cardinality(Completed)
  BY DEF IInv, TypeInv, Counted
<1>a. task \in [Conns -> Handlers] /\ link \in LinkRow /\ link.uploads \in Nat
      /\ up \in [UpIds -> UploadRow]
  BY <1>0 DEF TypeOK, LinkRow
<1>b. Cardinality(Counting) \in Nat /\ Cardinality(Completed) \in Nat /\ IsFiniteSet(Completed)
  BY <1>0, CompletedCount, FS_CardinalityType
<1>1. ASSUME NEW c \in Conns, Complete(c), Active(task[c].up) PROVE Counted'
  <2> DEFINE u == task[c].up
  <2>0. task[c].at = "complete" /\ u \in UpIds
    BY <1>1, <1>a, HandlerFields DEF Complete, UpPlaces
  <2>1. Completed' = Completed \cup {u} /\ u \notin Completed
    <3>1. up' = [up EXCEPT ![u].st = "complete"]
      BY <1>1 DEF Complete
    <3>2. \A v \in UpIds : up'[v].st = "complete" <=> v = u \/ up[v].st = "complete"
      BY <1>a, <2>0, <3>1 DEF UploadRow
    <3> QED
      BY <1>1, <2>0, <3>2 DEF Completed, Active
  <2>2. Counting' = Counting \cup {c} /\ c \notin Counting
    <3>1. task' = [task EXCEPT ![c] = [at |-> "count"]]
      BY <1>1 DEF Complete, Go
    <3>2. \A d \in Conns : task'[d].at = "count" <=> d = c \/ task[d].at = "count"
      BY <1>a, <3>1
    <3> QED
      BY <2>0, <3>2 DEF Counting
  <2>3. Cardinality(Completed') = Cardinality(Completed) + 1
    BY <1>b, <2>1, FS_AddElement
  <2>4. IsFiniteSet(Counting') /\ Cardinality(Counting') = Cardinality(Counting) + 1
    BY <1>0, <2>2, FS_AddElement
  <2>5. link' = link
    BY <1>1 DEF Complete
  <2> QED
    BY <1>0, <1>a, <1>b, <2>3, <2>4, <2>5 DEF Counted
<1>2. ASSUME NEW c \in Conns, CountUpload(c) PROVE Counted'
  <2>1. task[c].at = "count" /\ c \in Counting
    BY <1>2 DEF CountUpload, Counting
  <2>2. Counting' = Counting \ {c}
    <3>1. task' = [task EXCEPT ![c] = [at |-> "idle"]]
      BY <1>2 DEF CountUpload, Done, Go, Idle
    <3>2. \A d \in Conns : task'[d].at = "count" <=> d # c /\ task[d].at = "count"
      BY <1>a, <3>1
    <3> QED
      BY <3>2 DEF Counting
  <2>3. IsFiniteSet(Counting') /\ Cardinality(Counting') = Cardinality(Counting) - 1
    BY <1>0, <2>1, <2>2, FS_RemoveElement
  <2>4. Completed' = Completed
    BY <1>2 DEF CountUpload, Completed
  <2>5. link'.uploads = link.uploads + 1
    BY <1>2, <1>a DEF CountUpload, LinkRow
  <2> QED
    BY <1>0, <1>a, <1>b, <2>3, <2>4, <2>5 DEF Counted
<1>3. CASE Restart
  <2>1. Counting' = {}
    BY <1>3 DEF Restart, Counting, Idle
  <2>2. IsFiniteSet(Counting') /\ Cardinality(Counting') = 0
    BY <2>1, FS_EmptySet
  <2>3. Completed' = Completed /\ link' = link
    BY <1>3 DEF Restart, Completed
  <2> QED
    BY <1>0, <1>a, <1>b, <2>2, <2>3 DEF Counted
<1>4. CASE ~Restart /\ \A c \in Conns : ~CountUpload(c) /\ ~(Complete(c) /\ Active(task[c].up))
  <2>1. Counting' = Counting /\ link'.uploads = link.uploads
    BY <1>0, <1>4, CountingSteps
  <2>2. Completed' = Completed
    BY <1>0, <1>4, CompletedSteps
  <2> QED
    BY <1>0, <2>1, <2>2 DEF Counted
<1> QED
  BY <1>1, <1>2, <1>3, <1>4

-----------------------------------------------------------------------------
(* The theorems.                                                            *)

LEMMA StepKeepsTypes == ASSUME IInv, Next PROVE TypeOK'
<1>0. TypeInv /\ TypeOK
  BY DEF IInv, TypeInv
<1>1. ASSUME NEW c \in Conns, Visit(c) PROVE TypeOK'
  BY <1>0, <1>1, ConnectionTypeOK, SessionTypeOK DEF Visit
<1>2. ASSUME NEW c \in Conns, Transfer(c) PROVE TypeOK'
  BY <1>0, <1>2, UploadTypeOK, CountingTypeOK DEF Transfer
<1>3. CASE Restart
  BY <1>0, <1>3, ConnectionTypeOK
<1> QED
  BY <1>0, <1>1, <1>2, <1>3, OwnerTypeOK DEF Next

LEMMA InitIInv == Init => IInv
<1> SUFFICES ASSUME Init PROVE IInv
  OBVIOUS
<1>1. TypeOK
  BY InitTypeOK
<1>2. TokensLeft
  BY DEF Init, TokensLeft
<1>3. Counted
  <2>1. Counting = {} /\ link.uploads = 0
    BY DEF Init, Counting, Idle
  <2>2. IsFiniteSet(Counting) /\ Cardinality(Counting) = 0
    BY <2>1, FS_EmptySet
  <2> QED
    BY <2>1, <2>2, CompletedCount DEF Counted
<1>4. \A c \in Conns : conn[c].ctx = None /\ task[c].at = "idle"
  <2>1. CASE scene.begun
    <3>1. conn \in [Conns -> [open : {TRUE}, mode : {"ready"}, ctx : {None},
                              sess : 1 .. scene.sessions, bytes : {0}]]
      BY <2>1 DEF Init
    <3> QED
      BY <3>1 DEF Init, Idle
  <2>2. CASE ~scene.begun
    BY <2>2 DEF Init, Idle, NoConn
  <2> QED
    BY <2>1, <2>2
<1>5. (\A u \in UpIds : up[u].st = "none") /\ (\A n \in Names : files[n] = None)
  BY DEF Init
<1>6. ChunkHasRoom /\ NamedRows /\ KnownTasks /\ KnownConns /\ KnownFiles
      /\ OneHolder /\ OneHandler /\ BytesCounted /\ FinishKnows
  BY <1>4, <1>5 DEF ChunkHasRoom, NamedRows, KnownTasks, KnownConns, KnownFiles, OneHolder, OneHandler,
     BytesCounted, FinishKnows, HasUp, UpPlaces
<1>7. CompleteIsStored
  BY <1>5 DEF CompleteIsStored, Completed
<1> QED
  BY <1>1, <1>2, <1>3, <1>6, <1>7 DEF IInv, TypeInv, Held

LEMMA NextIInv == IInv /\ [Next]_vars => IInv'
<1> SUFFICES ASSUME IInv, [Next]_vars PROVE IInv'
  OBVIOUS
<1>1. CASE Next
  <2>1. TypeInv'
    BY <1>1, StepKeepsTypes, TokensStayLeft, StaysCounted, RoomStays DEF TypeInv
  <2>2. Held'
    BY <1>1, RowsNamed, TasksKnown, ConnsKnown, FilesKnown, HoldersOne, HandlersOne, BytesStayCounted,
       FinishStillKnows, CompleteStaysStored DEF Held
  <2> QED
    BY <2>1, <2>2 DEF IInv
<1>2. CASE UNCHANGED vars
  BY <1>2 DEF vars, IInv, TypeInv, TypeOK, TokensLeft, Counted, Counting, Completed, ChunkHasRoom,
     Held, NamedRows, KnownTasks, KnownConns, KnownFiles, OneHolder, OneHandler, BytesCounted,
     FinishKnows, CompleteIsStored, HasUp, Active
<1> QED
  BY <1>1, <1>2

LEMMA AlwaysIInv == Spec => []IInv
  BY InitIInv, NextIInv, PTL DEF Spec

\* The link, the rows, the connections and their handlers have their types:
\* the token of the link, its count of uploads, the bytes of a connection and
\* the attempts at a challenge stay within their bounds.
THEOREM TypeCorrect == Spec => []TypeOK
<1>1. IInv => TypeOK
  BY DEF IInv, TypeInv
<1> QED
  BY <1>1, AlwaysIInv, PTL

\* An upload that is reported complete has all its bytes and a file of its
\* name in the vault, which only a rival of that name can have replaced.
THEOREM CompleteIsStoredCorrect == Spec => []CompleteIsStored
<1>1. IInv => CompleteIsStored
  BY DEF IInv, Held
<1> QED
  BY <1>1, AlwaysIInv, PTL

\* The connection and the row of an upload that lasts have counted the same.
THEOREM BytesAgreeCorrect == Spec => []BytesAgree
<1>1. IInv => BytesAgree
  BY DEF IInv, Held, BytesCounted, BytesAgree
<1> QED
  BY <1>1, AlwaysIInv, PTL

-----------------------------------------------------------------------------
(* A step of the share manager is a step of one upload, or of none.         *)

\* A step that ends an upload, or otherwise writes a row, writes no other one
\* and no file.
OnlyRow(u) == files' = files /\ \A v \in UpIds \ {u} : up'[v] = up[v]

LEMMA OneRowMoves ==
  ASSUME TypeOK, Next
  PROVE  \/ up' = up /\ files' = files
         \/ \E c \in Conns : StoreFile(c)
         \/ \E u \in UpIds : OnlyRow(u)
<1>0. up \in [UpIds -> UploadRow] /\ task \in [Conns -> Handlers] /\ conn \in [Conns -> Connection]
  BY DEF TypeOK
<1>a. ASSUME NEW u \in UpIds, files' = files,
             up' = up \/ \E r : up' = [up EXCEPT ![u] = r]
      PROVE  OnlyRow(u)
  BY <1>0, <1>a DEF OnlyRow
<1>1. ASSUME NEW c \in Conns, StartCreate(c) PROVE \E u \in UpIds : OnlyRow(u)
  <2>1. Min(FreeUp) \in UpIds
    BY <1>1, NextIsFree DEF StartCreate
  <2>2. files' = files /\ \E r : up' = [up EXCEPT ![Min(FreeUp)] = r]
    BY <1>1 DEF StartCreate
  <2> QED
    BY <1>a, <2>1, <2>2
<1>2. ASSUME NEW c \in Conns,
             CountBytes(c) \/ Complete(c) \/ CancelRow(c) \/ FailRow(c)
      PROVE  \E u \in UpIds : OnlyRow(u)
  <2>1. task[c].up \in UpIds
    BY <1>0, <1>2, HandlerFields DEF CountBytes, Complete, CancelRow, FailRow, UpPlaces
  <2>2. files' = files
    BY <1>2 DEF CountBytes, Complete, CancelRow, FailRow
  <2>3. up' = up \/ \E r : up' = [up EXCEPT ![task[c].up] = r]
    BY <1>2 DEF CountBytes, Complete, CancelRow, FailRow
  <2> QED
    BY <1>a, <2>1, <2>2, <2>3
<1>3. ASSUME NEW c \in Conns, Close(c)
      PROVE  (up' = up /\ files' = files) \/ \E u \in UpIds : OnlyRow(u)
  <2>1. conn[c].ctx # None => conn[c].ctx \in UpIds
    BY <1>0 DEF Connection
  <2>2. /\ files' = files
        /\ up' = up \/ (conn[c].ctx # None /\ \E r : up' = [up EXCEPT ![conn[c].ctx] = r])
    BY <1>3 DEF Close
  <2> QED
    BY <1>a, <2>1, <2>2
<1>4. CASE SweepOne
  <2>1. Min(sweep) \in UpIds
    <3>1. sweep \in SUBSET Nat /\ sweep # {} /\ sweep \subseteq UpIds
      BY <1>4 DEF SweepOne, TypeOK, UpIds
    <3> QED
      BY <3>1, MinIsIn
  <2>2. files' = files /\ (up' = up \/ \E r : up' = [up EXCEPT ![Min(sweep)] = r])
    BY <1>4 DEF SweepOne
  <2> QED
    BY <1>a, <2>1, <2>2
<1>5. ASSUME NEW c \in Conns, Visit(c), ~Close(c) PROVE up' = up /\ files' = files
  BY <1>5 DEF Visit, Connect, OpenLink, OpenSession, Attach, StartChallenge, ConfirmWrite,
     Verify, ConfirmRead
<1>6. ASSUME NEW c \in Conns,
             \/ \E n \in Names : StartRead(c, n)
             \/ Chunk(c) \/ Finish(c) \/ CreateFile(c) \/ FinishCheck(c) \/ CountUpload(c) \/ Cancel(c)
      PROVE  up' = up /\ files' = files
  BY <1>6 DEF StartRead, Chunk, Finish, CreateFile, FinishCheck, CountUpload, Cancel
<1>7. CASE Restart \/ RotateToken \/ RevokeLink \/ RevokeSessions \/ UpdateLink \/ Expire \/ SweepList
  BY <1>7 DEF Restart, RotateToken, RevokeLink, RevokeSessions, UpdateLink, Expire, SweepList
<1>8. ASSUME NEW c \in Conns, Transfer(c)
      PROVE  \/ up' = up /\ files' = files
             \/ \E d \in Conns : StoreFile(d)
             \/ \E u \in UpIds : OnlyRow(u)
  BY <1>1, <1>2, <1>6, <1>8 DEF Transfer
<1> QED
  BY <1>3, <1>4, <1>5, <1>7, <1>8 DEF Next

LEMMA RowRefines ==
  ASSUME IInv, Next, NEW u \in UpIds, OnlyRow(u)
  PROVE  Lifecycle!UploadNext \/ UNCHANGED Lifecycle!uploadVars
<1> DEFINE phase  == [v \in UpIds |-> IF Active(v) THEN "active" ELSE up[v].st]
           bytes  == [v \in UpIds |-> up[v].got]
           target == [v \in UpIds |-> up[v].name]
           taken  == {n \in Names : files[n] # None}
<1>0. TypeOK /\ FinishKnows /\ KnownTasks /\ NamedRows /\ taken' = taken /\ up[u] \in UploadRow
  BY DEF IInv, TypeInv, Held, OnlyRow, TypeOK
<1>1. \A v \in UpIds \ {u} : phase'[v] = phase[v] /\ bytes'[v] = bytes[v] /\ target'[v] = target[v]
  BY DEF OnlyRow, Active
<1>2. /\ phase' = [phase EXCEPT ![u] = phase'[u]]
      /\ bytes' = [bytes EXCEPT ![u] = bytes'[u]]
      /\ target' = [target EXCEPT ![u] = target'[u]]
  BY <1>1
<1>3. /\ phase[u] = IF Active(u) THEN "active" ELSE up[u].st
      /\ phase'[u] = IF up'[u].st \in {"pending", "receiving"} THEN "active" ELSE up'[u].st
      /\ bytes[u] = up[u].got /\ bytes'[u] = up'[u].got
      /\ target[u] = up[u].name /\ target'[u] = up'[u].name
  BY DEF Active
<1>4. /\ phase'[u] = phase[u] => phase' = phase
      /\ bytes'[u] = bytes[u] => bytes' = bytes
      /\ target'[u] = target[u] => target' = target
  BY <1>1
<1>5. CASE RowStays(u)
  <2>1. phase' = phase /\ bytes' = bytes /\ target' = target
    BY <1>3, <1>4, <1>5 DEF RowStays, Active
  <2> QED
    BY <1>0, <2>1 DEF Lifecycle!uploadVars
<1>6. CASE RowStarts(u)
  <2>1. PICK c \in Conns : /\ up[u].st = "none" /\ task[c].name \in Names
                           /\ up'[u] = [st |-> "pending", sess |-> conn[c].sess,
                                        name |-> task[c].name, got |-> 0]
    BY <1>6 DEF RowStarts
  <2>2. phase[u] = "none" /\ phase'[u] = "active" /\ bytes'[u] = 0 /\ target'[u] = task[c].name
    BY <1>3, <2>1 DEF Active
  <2> HIDE DEF phase, bytes, target, taken
  <2>3. /\ phase' = [phase EXCEPT ![u] = "active"] /\ bytes' = [bytes EXCEPT ![u] = 0]
        /\ target' = [target EXCEPT ![u] = task[c].name]
    BY <1>2, <2>2
  <2>4. Lifecycle!Start(u)
    BY <1>0, <2>1, <2>2, <2>3 DEF Lifecycle!Start, phase, bytes, target, taken
  <2> QED
    BY <2>4 DEF Lifecycle!UploadNext
<1>7. CASE RowGrows(u)
  <2>1. phase[u] = "active" /\ bytes[u] < Size /\ bytes'[u] = bytes[u] + 1
    BY <1>3, <1>7 DEF RowGrows
  <2>2. phase'[u] = phase[u] /\ target'[u] = target[u]
    BY <1>3, <1>7 DEF RowGrows, Active
  <2> HIDE DEF phase, bytes, target, taken
  <2>3. bytes' = [bytes EXCEPT ![u] = bytes[u] + 1] /\ phase' = phase /\ target' = target
    BY <1>2, <1>4, <2>1, <2>2
  <2>4. Lifecycle!Receive(u)
    BY <1>0, <2>1, <2>3 DEF Lifecycle!Receive, phase, bytes, target, taken
  <2> QED
    BY <2>4 DEF Lifecycle!UploadNext
<1>8. CASE RowDone(u)
  <2>1. PICK c \in Conns : task[c].at = "complete" /\ u = task[c].up /\ Active(u)
    BY <1>8 DEF RowDone, Complete
  <2>2. up[u].got = Size /\ files[up[u].name] # None /\ up[u].name \in Names
    BY <1>0, <2>1 DEF FinishKnows, NamedRows, Active
  <2>3. /\ phase[u] = "active" /\ bytes[u] = Size /\ target[u] \in taken
        /\ phase'[u] = "complete" /\ bytes'[u] = bytes[u] /\ target'[u] = target[u]
    BY <1>3, <1>8, <2>1, <2>2 DEF RowDone
  <2> HIDE DEF phase, bytes, target, taken
  <2>4. phase' = [phase EXCEPT ![u] = "complete"] /\ bytes' = bytes /\ target' = target
    BY <1>2, <1>4, <2>3
  <2>5. Lifecycle!Complete(u)
    BY <1>0, <2>3, <2>4 DEF Lifecycle!Complete, phase, bytes, target, taken
  <2> QED
    BY <2>5 DEF Lifecycle!UploadNext
<1>9. CASE RowEnds(u)
  <2>1. /\ phase[u] = "active" /\ phase'[u] \in {"failed", "cancelled"}
        /\ bytes'[u] = bytes[u] /\ target'[u] = target[u]
    BY <1>3, <1>9 DEF RowEnds
  <2> HIDE DEF phase, bytes, target, taken
  <2>2. bytes' = bytes /\ target' = target
    BY <1>4, <2>1
  <2>3. Lifecycle!End(u)
    BY <1>0, <1>2, <2>1, <2>2 DEF Lifecycle!End, phase, bytes, target, taken
  <2> QED
    BY <2>3 DEF Lifecycle!UploadNext
<1> QED
  BY <1>0, <1>5, <1>6, <1>7, <1>8, <1>9, UploadRows

\* The file of an upload: Filesystem::createFile comes to its last step with a
\* whole upload.
LEMMA FileRefines ==
  ASSUME IInv, NEW c \in Conns, StoreFile(c), NEW u \in UpIds, u = task[c].up
  PROVE  Lifecycle!UploadNext
<1> DEFINE n == up[u].name
           taken == {m \in Names : files[m] # None}
<1>0. TypeOK /\ FinishKnows /\ KnownTasks /\ NamedRows
  BY DEF IInv, TypeInv, Held
<1>1. HasUp(c) /\ task[c].at = "store"
  BY DEF StoreFile, HasUp, UpPlaces
<1>2. up[u].st # "none" /\ up[u].got = Size /\ n \in Names /\ u # None
  BY <1>0, <1>1 DEF FinishKnows, KnownTasks, NamedRows, UpIds
<1>3. up' = up /\ files' = [files EXCEPT ![n] = u] /\ files \in [Names -> UpIds \cup {None}]
  BY <1>0 DEF StoreFile, TypeOK
<1>4. taken' = taken \cup {n}
  BY <1>2, <1>3
<1>5. /\ [v \in UpIds |-> IF Active(v) THEN "active" ELSE up[v].st][u] # "none"
      /\ [v \in UpIds |-> up[v].got][u] = Size /\ [v \in UpIds |-> up[v].name][u] = n
  BY <1>2
<1>6. UNCHANGED <<[v \in UpIds |-> IF Active(v) THEN "active" ELSE up[v].st],
                  [v \in UpIds |-> up[v].got], [v \in UpIds |-> up[v].name]>>
  BY <1>3 DEF Active
<1>7. Lifecycle!Take(u)
  BY <1>4, <1>5, <1>6 DEF Lifecycle!Take
<1> QED
  BY <1>7 DEF Lifecycle!UploadNext

\* The share manager implements UploadLifecycle: every step moves one upload on,
\* makes the file of a whole one or does neither, whatever visitors, the owner,
\* the janitor and a restart do, and for any number of them (Upload::finish,
\* Manager::finishUpload, Manager::failUpload, Manager::sweepStaleUploads).
THEOREM UploadsRefined == Spec => UploadsKeepToIt
<1>1. Init => Lifecycle!UploadInit
  <2> SUFFICES ASSUME Init PROVE Lifecycle!UploadInit
    OBVIOUS
  <2>1. \A u \in UpIds : up[u] = [st |-> "none", sess |-> None, name |-> None, got |-> 0]
    BY DEF Init
  <2>2. \A n \in Names : files[n] = None
    BY DEF Init
  <2> QED
    BY <2>1, <2>2 DEF Lifecycle!UploadInit, Active
<1>2. IInv /\ [Next]_vars => [Lifecycle!UploadNext]_(Lifecycle!uploadVars)
  <2> SUFFICES ASSUME IInv, [Next]_vars
               PROVE  Lifecycle!UploadNext \/ UNCHANGED Lifecycle!uploadVars
    OBVIOUS
  <2>1. up' = up /\ files' = files => UNCHANGED Lifecycle!uploadVars
    BY DEF Lifecycle!uploadVars, Active
  <2>2. CASE UNCHANGED vars
    BY <2>1, <2>2 DEF vars
  <2>3. CASE Next
    <3>1. TypeOK
      BY DEF IInv, TypeInv
    <3>2. ASSUME NEW c \in Conns, StoreFile(c) PROVE Lifecycle!UploadNext
      <4>1. task[c].up \in UpIds
        BY <3>1, <3>2, UpsAre DEF StoreFile, HasUp, UpPlaces
      <4> QED
        BY <3>2, <4>1, FileRefines
    <3> QED
      BY <2>1, <2>3, <3>1, <3>2, OneRowMoves, RowRefines
  <2> QED
    BY <2>2, <2>3
<1> QED
  BY <1>1, <1>2, AlwaysIInv, PTL DEF Spec, UploadsKeepToIt, Lifecycle!UploadSpec

\* Between two rotations an open session was opened with the token the link
\* has now, unless the revocation passed it by.
THEOREM RotationCorrect == Spec => []RotationEndsSessions
<1>1. Init => RotationEndsSessions
  BY DEF Init, RotationEndsSessions
<1>2. ASSUME TypeOK, RotationEndsSessions, [Next]_vars PROVE RotationEndsSessions'
  <2> SUFFICES ASSUME owner' = "idle", NEW s \in SessIds, row'[s].st = "open", ~row'[s].missed
               PROVE  row'[s].tok = link'.tok
    BY DEF RotationEndsSessions
  <2>0. row \in [SessIds -> SessionRow] /\ link \in LinkRow /\ row[s] \in SessionRow
    BY <1>2 DEF TypeOK
  <2>a. \A st : /\ [row[s] EXCEPT !.st = st].st = st
                /\ [row[s] EXCEPT !.st = st].tok = row[s].tok
                /\ [row[s] EXCEPT !.st = st].missed = row[s].missed
    BY <2>0 DEF SessionRow
  <2>1. ASSUME owner = "idle", link'.tok = link.tok,
               row'[s].st = "open" => /\ row[s].st = "open" /\ row'[s].tok = row[s].tok
                                      /\ row'[s].missed = row[s].missed
        PROVE  row'[s].tok = link'.tok
    BY <1>2, <2>1 DEF RotationEndsSessions
  <2>2. ASSUME NEW c \in Conns, OpenSession(c) PROVE row'[s].tok = link'.tok
    <3>1. owner = "idle" /\ link' = link
      BY <2>2 DEF OpenSession
    <3>2. row' = [row EXCEPT ![Min(FreeSess)] = [st |-> "open", tok |-> task[c].tok, verified |-> FALSE,
                                                 missed |-> link.tok # task[c].tok]]
      BY <2>2 DEF OpenSession
    <3>3. CASE s = Min(FreeSess)
      <4>1. row'[s].tok = task[c].tok /\ row'[s].missed = (link.tok # task[c].tok)
        BY <2>0, <3>2, <3>3
      <4> QED
        BY <3>1, <4>1
    <3>4. CASE s # Min(FreeSess)
      <4>1. row'[s] = row[s]
        BY <2>0, <3>2, <3>4
      <4> QED
        BY <2>1, <3>1, <4>1
    <3> QED
      BY <3>3, <3>4
  <2>3. ASSUME NEW c \in Conns, Verify(c) PROVE row'[s].tok = link'.tok
    <3>1. owner = "idle" /\ link' = link
      BY <2>3 DEF Verify
    <3>2. row'[s].st = row[s].st /\ row'[s].tok = row[s].tok /\ row'[s].missed = row[s].missed
      BY <2>0, <2>3 DEF Verify, SessionRow
    <3> QED
      BY <2>1, <3>1, <3>2
  <2>4. CASE RotateToken \/ RevokeLink
    BY <2>4 DEF RotateToken, RevokeLink
  <2>5. CASE RevokeSessions
    <3>1. row'[s] = IF row[s].st = "open" THEN [row[s] EXCEPT !.st = "ended"] ELSE row[s]
      BY <2>5 DEF RevokeSessions, EndSessions
    <3> QED
      BY <2>a, <3>1
  <2>6. CASE UpdateLink
    <3>1. owner = "idle" /\ row' = row
      BY <2>6 DEF UpdateLink
    <3>2. link'.tok = link.tok
      BY <2>0, <2>6 DEF UpdateLink, LinkRow
    <3> QED
      BY <2>1, <3>1, <3>2
  <2>7. CASE Expire
    <3>1. owner = "idle"
      BY <2>7 DEF Expire
    <3>2. link'.tok = link.tok
      BY <2>0, <2>7 DEF Expire, LinkRow
    <3>3. row' = row \/ \E r \in SessIds : row' = [row EXCEPT ![r].st = "ended"]
      BY <2>7 DEF Expire
    <3>4. row'[s] = row[s] \/ row'[s] = [row[s] EXCEPT !.st = "ended"]
      BY <2>0, <3>3
    <3> QED
      BY <2>1, <2>a, <3>1, <3>2, <3>4
  <2>8. CASE Restart
    <3>1. CASE owner = "idle"
      BY <2>1, <2>8, <3>1 DEF Restart
    <3>2. CASE owner # "idle"
      <4>1. row'[s] = [row[s] EXCEPT !.missed = row[s].st # "none"]
        BY <2>8, <3>2 DEF Restart
      <4>2. row'[s].st = row[s].st /\ row'[s].missed = (row[s].st # "none")
        BY <2>0, <4>1 DEF SessionRow
      <4> QED
        BY <4>2
    <3> QED
      BY <3>1, <3>2
  <2>9. ASSUME NEW c \in Conns, CountUpload(c) PROVE row'[s].tok = link'.tok
    <3>1. owner = "idle" /\ row' = row /\ link'.tok = link.tok
      BY <2>0, <2>9 DEF CountUpload, LinkRow
    <3> QED
      BY <2>1, <3>1
  <2>10. ASSUME UNCHANGED <<link, row, owner>> PROVE row'[s].tok = link'.tok
    BY <2>1, <2>10
  <2>11. ASSUME NEW c \in Conns, Visit(c), ~OpenSession(c), ~Verify(c) PROVE UNCHANGED <<link, row, owner>>
    BY <2>11 DEF Visit, Connect, Close, OpenLink, Attach, StartChallenge, ConfirmWrite, ConfirmRead
  <2>12. ASSUME NEW c \in Conns, Transfer(c), ~CountUpload(c) PROVE UNCHANGED <<link, row, owner>>
    BY <2>12 DEF Transfer, StartRead, StartCreate, Chunk, CountBytes, Finish, CreateFile, StoreFile,
       FinishCheck, Complete, Cancel, CancelRow, FailRow
  <2>13. CASE SweepList \/ SweepOne \/ UNCHANGED vars
    BY <2>10, <2>13 DEF SweepList, SweepOne, vars
  <2> QED
    BY <1>2, <2>2, <2>3, <2>4, <2>5, <2>6, <2>7, <2>8, <2>9, <2>10, <2>11, <2>12, <2>13 DEF Next
<1>3. TypeOK /\ RotationEndsSessions /\ [Next]_vars => RotationEndsSessions'
  BY <1>2
<1> QED
  BY <1>1, <1>3, TypeCorrect, PTL DEF Spec
===============================================================================
