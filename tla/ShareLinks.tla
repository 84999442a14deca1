----------------------------- MODULE ShareLinks -----------------------------
(***************************************************************************)
(* One share link of share::Manager with everything that hangs on it: the  *)
(* share sessions opened with its token, the verification by email, the    *)
(* uploads that the visitors' WebSocket connections send in chunks, the    *)
(* owner who revokes, rotates and updates the link, and the db::Janitor    *)
(* that fails uploads nobody finishes.                                     *)
(*                                                                         *)
(* Every ShareStore call is a database transaction of its own and nothing  *)
(* locks around two of them, so a handler is a chain of steps and "task"   *)
(* holds where each connection's handler stands and what it read before.   *)
(* The messages of one connection are handled one after the other.         *)
(***************************************************************************)
EXTENDS Naturals, FiniteSets, FiniteSetsExt

CONSTANTS
    Conns,          \* the visitors' WebSocket connections
    Names,          \* the file names they upload to
    None,           \* no session, upload or file
    SessionBound,   \* how many share sessions are ever opened
    UploadBound,    \* how many uploads are ever started
    Size,           \* expected_size_bytes of every upload, in chunks
    FileLimit,      \* max_upload_files of the link
    MaxAttempts,    \* challenge_max_attempts
    MaxChanges,     \* how often the link is changed or something expires
    Scenarios       \* what one behaviour has of all this: whether the link
                    \* wants email, whether the visitors start with their
                    \* sessions attached, and how many sessions, uploads,
                    \* changes and restarts there may be

ASSUME BoundsAssumption ==
    {SessionBound, UploadBound, Size, FileLimit, MaxAttempts, MaxChanges}
        \subseteq Nat

ASSUME ScenarioAssumption ==
    Scenarios \subseteq
        [email : BOOLEAN, begun : BOOLEAN, sessions : 0 .. SessionBound,
         uploads : 0 .. UploadBound, changes : 0 .. MaxChanges, restarts : Nat]

ASSUME NoneAssumption == None \notin Nat /\ None \notin Names

SessIds == 1 .. SessionBound
UpIds   == 1 .. UploadBound    \* in the order of started_at

VARIABLES
    link,       \* the share_link row
    row,        \* the share_session rows; "missed" is a history field: a
                \* revocation of the link's sessions has passed this one by
    chal,       \* the email challenge of each session
    up,         \* the share_upload rows
    files,      \* the vault: the upload whose bytes each name holds
    conn,       \* the connections: share state and upload context
    task,       \* the handler each connection is running
    owner,      \* "idle", or "sessions": sessions are still to be revoked
    sweep,      \* the uploads the janitor has listed and not yet failed
    scene       \* the scenario of this behaviour

vars == <<link, row, chal, up, files, conn, task, owner, sweep, scene>>

Idle   == [at |-> "idle"]
NoConn == [open |-> FALSE, mode |-> "new", sess |-> None, ctx |-> None, bytes |-> 0]

(* Upload::isTerminal and the status guard of every UPDATE of share_upload *)
Active(u) == up[u].st \in {"pending", "receiving"}
Completed == {u \in UpIds : up[u].st = "complete"}

(* requireActiveShareContext: link and session are read again *)
ContextActive(s) == link.live /\ row[s].st = "open"

(* Manager::resolvePrincipal: also, a link that requires email wants a     *)
(* verified session                                                        *)
Resolves(s) == ContextActive(s) /\ (link.email => row[s].verified)

(* Where the handler of a connection stands, with what it read before *)
UpPlaces == {"chunk", "create", "store", "check", "complete", "cancel", "fail"}

Handlers ==
    [at : {"idle", "count"}]
        \cup [at : {"open"}, tok : 0 .. MaxChanges, email : BOOLEAN]
        \cup [at : {"attach", "verify"}, sess : SessIds]
        \cup [at : {"confirm"}, sess : SessIds, right : BOOLEAN]
        \cup [at : {"start"}, name : Names]
        \cup [at : UpPlaces, up : UpIds]

LinkRow    == [live : BOOLEAN, tok : 0 .. MaxChanges, email : BOOLEAN, uploads : 0 .. UploadBound]
SessionRow == [st : {"none", "open", "ended"}, tok : 0 .. MaxChanges,
               verified : BOOLEAN, missed : BOOLEAN]
Challenge  == [st : {"none", "sent", "consumed"}, attempts : 0 .. MaxAttempts]
UploadRow  == [st : {"none", "pending", "receiving", "complete", "failed", "cancelled"},
               sess : SessIds \cup {None}, name : Names \cup {None}, got : 0 .. Size]
Connection == [open : BOOLEAN, mode : {"new", "pending", "ready"},
               sess : SessIds \cup {None}, ctx : UpIds \cup {None}, bytes : 0 .. Size]
Scene      == [email : BOOLEAN, begun : BOOLEAN, sessions : 0 .. SessionBound,
               uploads : 0 .. UploadBound, changes : 0 .. MaxChanges, restarts : Nat]

TypeOK ==
    /\ link \in LinkRow
    /\ row \in [SessIds -> SessionRow]
    /\ chal \in [SessIds -> Challenge]
    /\ up \in [UpIds -> UploadRow]
    /\ files \in [Names -> UpIds \cup {None}]
    /\ conn \in [Conns -> Connection]
    /\ task \in [Conns -> Handlers]
    /\ owner \in {"idle", "sessions"}
    /\ sweep \subseteq UpIds
    /\ scene \in Scene

Init ==
    /\ scene \in Scenarios
    /\ link = [live |-> TRUE, tok |-> 0, email |-> scene.email, uploads |-> 0]
    /\ conn \in IF scene.begun
                   THEN {a \in [Conns -> [open : {TRUE}, mode : {"ready"}, ctx : {None},
                                          sess : 1 .. scene.sessions, bytes : {0}]] :
                            \A c, d \in Conns : a[c].sess = a[d].sess => c = d}
                   ELSE {[c \in Conns |-> NoConn]}
    /\ row = [s \in SessIds |->
                 [st |-> IF scene.begun /\ s <= scene.sessions THEN "open" ELSE "none",
                  tok |-> 0, verified |-> FALSE, missed |-> FALSE]]
    /\ chal = [s \in SessIds |-> [st |-> "none", attempts |-> 0]]
    /\ up = [u \in UpIds |-> [st |-> "none", sess |-> None, name |-> None, got |-> 0]]
    /\ files = [n \in Names |-> None]
    /\ task = [c \in Conns |-> Idle]
    /\ owner = "idle"
    /\ sweep = {}

(* share_upload and session ids are never used twice: the next free one *)
FreeSess == {s \in 1 .. scene.sessions : row[s].st = "none"}
FreeUp   == {u \in 1 .. scene.uploads : up[u].st = "none"}

(* the upload context of a connection is given up *)
Drop(c)   == [conn EXCEPT ![c].ctx = None, ![c].bytes = 0]

Go(c, t)  == task' = [task EXCEPT ![c] = t]
Done(c)   == Go(c, Idle)
Ready(c)  == conn[c].open /\ task[c] = Idle
Fail(c, u) == Go(c, [at |-> "fail", up |-> u])

-----------------------------------------------------------------------------
(* The connection *)

Connect(c) ==
    /\ ~conn[c].open /\ task[c] = Idle /\ FreeSess # {}
    /\ conn' = [conn EXCEPT ![c] = [NoConn EXCEPT !.open = TRUE]]
    /\ UNCHANGED <<link, row, chal, up, files, task, owner, sweep, scene>>

(* Session::close, from the reading strand or from the life-cycle sweep:   *)
(* abortActiveUpload drops the upload context and fails its row, whatever  *)
(* the connection's handler is doing.                                      *)
Close(c) ==
    /\ conn[c].open
    /\ conn' = [Drop(c) EXCEPT ![c].open = FALSE]
    /\ up' = IF conn[c].ctx # None /\ Active(conn[c].ctx)
                THEN [up EXCEPT ![conn[c].ctx].st = "failed"] ELSE up
    /\ UNCHANGED <<link, row, chal, files, task, owner, sweep, scene>>

(* The server stops and starts: what was in memory is gone, the rows stay, *)
(* and sessions that were about to be revoked never are.                   *)
Restart ==
    /\ scene.restarts > 0
    /\ scene' = [scene EXCEPT !.restarts = @ - 1]
    /\ conn' = [c \in Conns |-> NoConn]
    /\ task' = [c \in Conns |-> Idle]
    /\ owner' = "idle"
    /\ sweep' = {}
    /\ row' = IF owner = "idle" THEN row
              ELSE [s \in SessIds |-> [row[s] EXCEPT !.missed = row[s].st # "none"]]
    /\ UNCHANGED <<link, chal, up, files>>

-----------------------------------------------------------------------------
(* Opening a session *)

(* Sessions::open and Manager::openPublicSession: the token is looked up,  *)
(* the session row is written in a second transaction.                     *)
OpenLink(c) ==
    /\ Ready(c) /\ conn[c].mode # "ready"
    /\ link.live
    /\ conn' = [conn EXCEPT ![c].mode = "new", ![c].sess = None]
    /\ Go(c, [at |-> "open", tok |-> link.tok, email |-> link.email])
    /\ UNCHANGED <<link, row, chal, up, files, owner, sweep, scene>>

OpenSession(c) ==
    /\ task[c].at = "open"
    /\ FreeSess # {}
    /\ LET s == Min(FreeSess) IN
          /\ row' = [row EXCEPT ![s] = [st |-> "open", tok |-> task[c].tok,
                                        verified |-> FALSE,
                                        missed |-> link.tok # task[c].tok]]
          /\ IF task[c].email
                THEN /\ conn' = [conn EXCEPT ![c].mode = "pending", ![c].sess = s]
                     /\ Done(c)
                ELSE /\ Go(c, [at |-> "attach", sess |-> s])
                     /\ UNCHANGED conn
    /\ UNCHANGED <<link, chal, up, files, owner, sweep, scene>>

(* attachReadyPrincipal *)
Attach(c) ==
    /\ task[c].at = "attach"
    /\ conn' = IF Resolves(task[c].sess)
                  THEN [conn EXCEPT ![c].mode = "ready", ![c].sess = task[c].sess]
                  ELSE conn
    /\ Done(c)
    /\ UNCHANGED <<link, row, chal, up, files, owner, sweep, scene>>

-----------------------------------------------------------------------------
(* Verification by email *)

StartChallenge(c) ==
    LET s == conn[c].sess IN
    /\ Ready(c) /\ conn[c].mode = "pending"
    /\ link.live /\ link.email /\ row[s].st = "open"
    /\ chal[s].st = "none"
    /\ chal' = [chal EXCEPT ![s].st = "sent"]
    /\ UNCHANGED <<link, row, up, files, conn, task, owner, sweep, scene>>

(* The session is named in the message: two connections may confirm the    *)
(* same challenge at the same time.                                        *)
ConfirmRead(c, s, right) ==
    /\ Ready(c) /\ conn[c].mode # "ready"
    /\ link.live /\ link.email /\ row[s].st = "open"
    /\ chal[s].st = "sent" /\ chal[s].attempts < MaxAttempts
    /\ Go(c, [at |-> "confirm", sess |-> s, right |-> right])
    /\ UNCHANGED <<link, row, chal, up, files, conn, owner, sweep, scene>>

(* Mutant: the attempt is counted without the guard of the UPDATE. *)
ConfirmUnguarded(c) ==
    LET s == task[c].sess IN
    /\ task[c].at = "confirm"
    /\ IF task[c].right
          THEN /\ chal' = [chal EXCEPT ![s].st = "consumed"]
               /\ Go(c, [at |-> "verify", sess |-> s])
          ELSE /\ chal' = [chal EXCEPT ![s].attempts = @ + 1]
               /\ Done(c)
    /\ UNCHANGED <<link, row, up, files, conn, owner, sweep, scene>>

(* recordEmailChallengeAttempt or consumeEmailChallenge, each an UPDATE    *)
(* with its own guard that throws when no row matched                      *)
ConfirmWrite(c) ==
    LET s == task[c].sess IN
    /\ task[c].at = "confirm"
    /\ IF task[c].right /\ chal[s].st = "sent"
          THEN /\ chal' = [chal EXCEPT ![s].st = "consumed"]
               /\ Go(c, [at |-> "verify", sess |-> s])
          ELSE /\ chal' = IF ~task[c].right /\ chal[s].st = "sent"
                             /\ chal[s].attempts < MaxAttempts
                             THEN [chal EXCEPT ![s].attempts = @ + 1] ELSE chal
               /\ Done(c)
    /\ UNCHANGED <<link, row, up, files, conn, owner, sweep, scene>>

(* verifySession is an UPDATE without a guard *)
Verify(c) ==
    /\ task[c].at = "verify"
    /\ row' = [row EXCEPT ![task[c].sess].verified = TRUE]
    /\ Go(c, [at |-> "attach", sess |-> task[c].sess])
    /\ UNCHANGED <<link, chal, up, files, conn, owner, sweep, scene>>

-----------------------------------------------------------------------------
(* Uploading *)

(* share::Upload::start up to the second read of Manager::startUpload: the *)
(* principal is resolved again, the target must not exist and the files of *)
(* the finished uploads must be fewer than the link allows.                *)
StartRead(c, n) ==
    /\ Ready(c) /\ conn[c].mode = "ready" /\ Resolves(conn[c].sess)
    /\ files[n] = None
    /\ Cardinality(Completed) < FileLimit
    /\ FreeUp # {}
    /\ Go(c, [at |-> "start", name |-> n])
    /\ UNCHANGED <<link, row, chal, up, files, conn, owner, sweep, scene>>

(* Manager::startUpload inserts the row; startShareUpload then refuses the *)
(* upload when the connection already has one, and the row stays pending.  *)
StartCreate(c) ==
    /\ task[c].at = "start" /\ FreeUp # {}
    /\ LET u == Min(FreeUp) IN
          /\ up' = [up EXCEPT ![u] = [st |-> "pending", sess |-> conn[c].sess,
                                      name |-> task[c].name, got |-> 0]]
          /\ conn' = IF conn[c].open /\ conn[c].ctx = None
                        THEN [conn EXCEPT ![c].ctx = u, ![c].bytes = 0]
                        ELSE conn
    /\ Done(c)
    /\ UNCHANGED <<link, row, chal, files, owner, sweep, scene>>

(* Upload::handleBinaryFrame and Manager::recordUploadChunk up to the      *)
(* UPDATE; a refusal drops the context and fails the row.                  *)
Chunk(c) ==
    LET u == conn[c].ctx IN
    /\ Ready(c) /\ u # None
    /\ IF conn[c].bytes < Size /\ Resolves(conn[c].sess)
          /\ Active(u) /\ up[u].got < Size
          THEN Go(c, [at |-> "chunk", up |-> u]) /\ UNCHANGED conn
          ELSE conn' = Drop(c) /\ Fail(c, u)
    /\ UNCHANGED <<link, row, chal, up, files, owner, sweep, scene>>

(* Mutant: a chunk the row has no room for is counted by the connection. *)
CountRefused(c) ==
    LET u == task[c].up IN
    /\ task[c].at = "chunk"
    /\ up' = IF Active(u) /\ up[u].got + 1 < Size
                THEN [up EXCEPT ![u].st = "receiving", ![u].got = @ + 1] ELSE up
    /\ conn' = IF conn[c].ctx = u THEN [conn EXCEPT ![c].bytes = @ + 1] ELSE conn
    /\ Done(c)
    /\ UNCHANGED <<link, row, chal, files, owner, sweep, scene>>

(* share_upload_add_received_bytes *)
CountBytes(c) ==
    LET u == task[c].up IN
    /\ task[c].at = "chunk"
    /\ IF Active(u) /\ up[u].got < Size
          THEN /\ up' = [up EXCEPT ![u].st = "receiving", ![u].got = @ + 1]
               /\ conn' = IF conn[c].ctx = u
                             THEN [conn EXCEPT ![c].bytes = @ + 1] ELSE conn
               /\ Done(c)
          ELSE /\ conn' = IF conn[c].ctx = u THEN Drop(c) ELSE conn
               /\ Fail(c, u)
               /\ UNCHANGED up
    /\ UNCHANGED <<link, row, chal, files, owner, sweep, scene>>

(* share::Upload::finish: with too few bytes the row is failed and the     *)
(* context kept; else the context is given up, and the principal and the   *)
(* target are looked at again.                                             *)
Finish(c) ==
    LET u == conn[c].ctx IN
    /\ Ready(c) /\ u # None /\ Resolves(conn[c].sess)
    /\ IF conn[c].bytes # Size
          THEN Fail(c, u) /\ UNCHANGED conn
          ELSE /\ conn' = Drop(c)
               /\ IF files[up[u].name] = None
                     THEN Go(c, [at |-> "create", up |-> u])
                     ELSE Fail(c, u)
    /\ UNCHANGED <<link, row, chal, up, files, owner, sweep, scene>>

(* Mutant: what the storage throws is swallowed. *)
CreateAnyway(c) ==
    LET u == task[c].up IN
    /\ task[c].at = "create"
    /\ \E at \in {"store", "check"} :
          /\ at = "store" => files[up[u].name] = None
          /\ Go(c, [at |-> at, up |-> u])
    /\ UNCHANGED <<link, row, chal, up, files, conn, owner, sweep, scene>>

(* Filesystem::createFile without overwrite: an entry that exists by now   *)
(* is returned as if it had been created; the storage may also refuse.     *)
CreateFile(c) ==
    LET u == task[c].up IN
    /\ task[c].at = "create"
    /\ \/ Go(c, [at |-> IF files[up[u].name] = None THEN "store" ELSE "check",
                 up |-> u])
       \/ Fail(c, u)
    /\ UNCHANGED <<link, row, chal, up, files, conn, owner, sweep, scene>>

(* ... its last step: upsertFile and cacheEntry *)
StoreFile(c) ==
    LET u == task[c].up IN
    /\ task[c].at = "store"
    /\ files' = [files EXCEPT ![up[u].name] = u]
    /\ Go(c, [at |-> "check", up |-> u])
    /\ UNCHANGED <<link, row, chal, up, conn, owner, sweep, scene>>

(* Manager::finishUpload: the reads that may refuse it *)
FinishCheck(c) ==
    LET u == task[c].up IN
    /\ task[c].at = "check"
    /\ IF ContextActive(up[u].sess) /\ Active(u) /\ up[u].got = Size
          THEN Go(c, [at |-> "complete", up |-> u])
          ELSE Fail(c, u)
    /\ UNCHANGED <<link, row, chal, up, files, conn, owner, sweep, scene>>

(* Mutant: the UPDATE of share_upload_complete without its status guard. *)
CompleteAnything(c) ==
    /\ task[c].at = "complete"
    /\ up' = [up EXCEPT ![task[c].up].st = "complete"]
    /\ Go(c, [at |-> "count"])
    /\ UNCHANGED <<link, row, chal, files, conn, owner, sweep, scene>>

Complete(c) ==
    LET u == task[c].up IN
    /\ task[c].at = "complete"
    /\ IF Active(u)
          THEN /\ up' = [up EXCEPT ![u].st = "complete"]
               /\ Go(c, [at |-> "count"])
          ELSE Fail(c, u) /\ UNCHANGED up
    /\ UNCHANGED <<link, row, chal, files, conn, owner, sweep, scene>>

(* share_link_increment_upload *)
CountUpload(c) ==
    /\ task[c].at = "count"
    /\ link' = [link EXCEPT !.uploads = @ + 1]
    /\ Done(c)
    /\ UNCHANGED <<row, chal, up, files, conn, owner, sweep, scene>>

(* share::Upload::cancel: the context is given up before the manager asks  *)
(* whether link and session still permit the cancellation.                 *)
Cancel(c) ==
    LET u == conn[c].ctx IN
    /\ Ready(c) /\ u # None /\ Resolves(conn[c].sess)
    /\ conn' = Drop(c)
    /\ Go(c, [at |-> "cancel", up |-> u])
    /\ UNCHANGED <<link, row, chal, up, files, owner, sweep, scene>>

CancelRow(c) ==
    LET u == task[c].up IN
    /\ task[c].at = "cancel"
    /\ up' = IF ContextActive(up[u].sess) /\ Active(u)
                THEN [up EXCEPT ![u].st = "cancelled"] ELSE up
    /\ Done(c)
    /\ UNCHANGED <<link, row, chal, files, conn, owner, sweep, scene>>

(* Manager::failUpload; what it throws is swallowed by its callers *)
FailRow(c) ==
    LET u == task[c].up IN
    /\ task[c].at = "fail"
    /\ up' = IF Active(u) THEN [up EXCEPT ![u].st = "failed"] ELSE up
    /\ Done(c)
    /\ UNCHANGED <<link, row, chal, files, conn, owner, sweep, scene>>

-----------------------------------------------------------------------------
(* The owner *)

(* One change of the link, or one expiry, of those the scenario has *)
Change == scene.changes > 0 /\ scene' = [scene EXCEPT !.changes = @ - 1]

EndSessions == [s \in SessIds |-> IF row[s].st = "open"
                   THEN [row[s] EXCEPT !.st = "ended"] ELSE row[s]]

(* Mutant: the sessions are revoked before the token is replaced. *)
RotateLast ==
    \/ /\ owner = "idle" /\ Change
       /\ row' = EndSessions
       /\ owner' = "rotate"
       /\ UNCHANGED <<link, chal, up, files, conn, task, sweep>>
    \/ /\ owner = "rotate"
       /\ link' = [link EXCEPT !.tok = @ + 1]
       /\ owner' = "idle"
       /\ UNCHANGED <<row, chal, up, files, conn, task, sweep, scene>>

(* Manager::rotateLinkToken *)
RotateToken ==
    /\ owner = "idle" /\ Change
    /\ link' = [link EXCEPT !.tok = @ + 1]
    /\ owner' = "sessions"
    /\ UNCHANGED <<row, chal, up, files, conn, task, sweep>>

(* Manager::revokeLink; its last step, the removal of the vault role,      *)
(* changes nothing a revoked link can still show.                          *)
RevokeLink ==
    /\ owner = "idle" /\ link.live /\ Change
    /\ link' = [link EXCEPT !.live = FALSE]
    /\ owner' = "sessions"
    /\ UNCHANGED <<row, chal, up, files, conn, task, sweep>>

(* Store::revokeSessionsForShare, the second step of both *)
RevokeSessions ==
    /\ owner = "sessions"
    /\ row' = EndSessions
    /\ owner' = "idle"
    /\ UNCHANGED <<link, chal, up, files, conn, task, sweep, scene>>

(* Manager::updateLink writes the whole row, but neither token nor         *)
(* revocation; of its fields only the access mode is kept here.            *)
UpdateLink ==
    /\ owner = "idle" /\ Change
    /\ link' = [link EXCEPT !.email = ~@]
    /\ UNCHANGED <<row, chal, up, files, conn, task, owner, sweep>>

(* expires_at of the link or of a session passes *)
Expire ==
    /\ Change
    /\ \/ link.live /\ link' = [link EXCEPT !.live = FALSE] /\ UNCHANGED row
       \/ /\ \E s \in SessIds : row[s].st = "open"
                                /\ row' = [row EXCEPT ![s].st = "ended"]
          /\ UNCHANGED link
    /\ UNCHANGED <<chal, up, files, conn, task, owner, sweep>>

-----------------------------------------------------------------------------
(* The janitor *)

(* listStaleActiveUploads: those that started long enough ago, oldest first *)
SweepList ==
    /\ sweep = {}
    /\ \E k \in UpIds : sweep' = {u \in UpIds : u <= k /\ Active(u)}
    /\ sweep' # {}
    /\ UNCHANGED <<link, row, chal, up, files, conn, task, owner, scene>>

(* Mutant: the sweep skips what it should fail and goes on. *)
SweepNothing ==
    /\ sweep # {}
    /\ sweep' = sweep \ {Min(sweep)}
    /\ UNCHANGED <<link, row, chal, up, files, conn, task, owner, scene>>

(* One round of the loop: an upload that ended since it was listed makes   *)
(* failUpload throw, and the rest waits for the next sweep.                *)
SweepOne ==
    LET u == Min(sweep) IN
    /\ sweep # {}
    /\ IF Active(u)
          THEN /\ up' = [up EXCEPT ![u].st = "failed"]
               /\ sweep' = sweep \ {u}
          ELSE sweep' = {} /\ UNCHANGED up
    /\ UNCHANGED <<link, row, chal, files, conn, task, owner, scene>>

-----------------------------------------------------------------------------
Visit(c) ==
    \/ Connect(c) \/ Close(c)
    \/ OpenLink(c) \/ OpenSession(c) \/ Attach(c)
    \/ StartChallenge(c) \/ ConfirmWrite(c) \/ Verify(c)
    \/ \E s \in SessIds, right \in BOOLEAN : ConfirmRead(c, s, right)

Transfer(c) ==
    \/ \E n \in Names : StartRead(c, n)
    \/ StartCreate(c)
    \/ Chunk(c) \/ CountBytes(c)
    \/ Finish(c) \/ CreateFile(c) \/ StoreFile(c) \/ FinishCheck(c)
    \/ Complete(c) \/ CountUpload(c)
    \/ Cancel(c) \/ CancelRow(c) \/ FailRow(c)

Next ==
    \/ \E c \in Conns : Visit(c) \/ Transfer(c)
    \/ RotateToken \/ RevokeLink \/ RevokeSessions \/ UpdateLink \/ Expire
    \/ SweepList \/ SweepOne
    \/ Restart

(* The janitor's loop never ends, and whatever stays active grows stale.   *)
Spec == Init /\ [][Next]_vars /\ WF_vars(SweepList) /\ WF_vars(SweepOne)

-----------------------------------------------------------------------------
(* Properties *)

(* Rotating the token ends the sessions that the old token opened, except  *)
(* one whose opening read the old token and wrote its row afterwards, or   *)
(* all of them when the server stops between the two transactions          *)
(* (Manager::openPublicSession against Manager::rotateLinkToken).          *)
RotationEndsSessions ==
    owner = "idle" => \A s \in SessIds :
        row[s].st = "open" /\ ~row[s].missed => row[s].tok = link.tok

(* An upload that is reported complete has delivered all its bytes, a file *)
(* of that name is in the vault, and only a rival upload of the same name  *)
(* can have taken its place (Filesystem::createFile after                  *)
(* ensureNoExistingTarget, Manager::finishUpload).                         *)
CompleteIsStored ==
    \A u \in Completed :
        /\ up[u].got = Size
        /\ files[up[u].name] # None
        /\ files[up[u].name] # u => up[files[up[u].name]].name = up[u].name

(* What UploadLifecycle promises of every upload: it ends once, whoever    *)
(* comes late, a file is made of a whole upload only, and a complete one   *)
(* has its file (Upload::finish, Manager::finishUpload and the guards of   *)
(* the UPDATEs of share_upload).                                           *)
Lifecycle == INSTANCE UploadLifecycle
    WITH Uploads <- UpIds, NoName <- None,
         phase  <- [u \in UpIds |-> IF Active(u) THEN "active" ELSE up[u].st],
         bytes  <- [u \in UpIds |-> up[u].got],
         target <- [u \in UpIds |-> up[u].name],
         taken  <- {n \in Names : files[n] # None}

UploadsKeepToIt == Lifecycle!UploadSpec

(* Every upload ends, although visitors vanish, cancellations are refused  *)
(* and servers restart (Manager::sweepStaleUploads under db::Janitor).     *)
EveryUploadEnds == \A u \in UpIds : Active(u) ~> ~Active(u)

(* The bytes a connection has counted are the bytes of the upload's row    *)
(* while the upload lasts and no chunk is on its way (handleBinaryFrame    *)
(* against recordUploadChunk).                                             *)
BytesAgree ==
    \A c \in Conns :
        conn[c].ctx # None /\ task[c].at # "chunk" /\ Active(conn[c].ctx)
            => conn[c].bytes = up[conn[c].ctx].got

=============================================================================
