----------------------------- MODULE SessionIndex -----------------------------
(***************************************************************************)
(* WebSocket sessions and the maps that find them: auth::session::Manager  *)
(* with its Validator and Issuer, ws::Session from the connection to its   *)
(* end, and the sweep of ws::ConnectionLifecycleManager.                   *)
(*                                                                         *)
(* Each session has a strand, on which its handshake and its commands run  *)
(* one after the other.  The lifecycle thread ends sessions of any strand, *)
(* and an HTTP thread looks sessions up by the cookie of a request.  The   *)
(* mutex of the manager covers its maps, never the session objects.        *)
(*                                                                         *)
(* A refresh token is known by its jti, 0 for none yet.  There is one user *)
(* and one address with one browser.  Public shares, whose sessions and    *)
(* share_refresh cookies have a map of their own, and the multimap by      *)
(* user, which nobody reads, are left out.                                 *)
(***************************************************************************)
EXTENDS Naturals

CONSTANTS
    Sessions,     \* the session objects
    None,         \* no session
    MaxJti,       \* refresh tokens that are issued
    MaxEvents     \* commands, HTTP requests, expired tokens and failures together

ASSUME BoundsAssumption == /\ None \notin Sessions /\ MaxJti \in Nat \ {0} /\ MaxEvents \in Nat
                           /\ {"http", "sweep"} \cap Sessions = {}

Jtis == 1 .. MaxJti
Threads == Sessions \cup {"http", "sweep"}

VARIABLES
    exited,     \* the process has called exit(1)
    listed,     \* sessionsByUUID_
    owner,      \* sessionsByRefreshJti_
    user,       \* Session::user is set
    token,      \* tokens->refreshToken
    access,     \* tokens->accessToken is usable
    open,       \* the connection is open
    late,       \* the time for a log-in is over
    rows,       \* the table refresh_tokens
    issued,     \* the last jti
    cookie,     \* the token in the browser's refresh cookie
    expired,    \* the jtis whose time is over
    at,         \* where a thread is
    job,        \* what it has read before
    queue,      \* the sessions the sweep has still to look at
    out,        \* sessions that have logged out and not come back
    events

session == <<user, token, access>>
maps    == <<listed, owner>>
clock   == <<late, expired>>
store   == <<rows, issued, cookie>>
vars == <<exited, maps, session, open, clock, store, at, job, queue, out, events>>

-----------------------------------------------------------------------------
(* Tokens.  raw is the jti inside the signed text, 0 for an empty text; hit
   tells that an invalidation has revoked this very object. *)

Token == [jti : 0 .. MaxJti, raw : 0 .. MaxJti, hash : BOOLEAN, revoked : BOOLEAN,
          stored : BOOLEAN, hit : BOOLEAN]

FromCookie(j) == [jti |-> 0, raw |-> j, hash |-> FALSE, revoked |-> FALSE,
                  stored |-> FALSE, hit |-> FALSE]
Issued(j)     == [FromCookie(j) EXCEPT !.jti = j, !.hash = TRUE]
FromRow(j, r) == [Issued(j) EXCEPT !.raw = r, !.revoked = rows[j] = "revoked", !.stored = TRUE]

Valid(t) == t.hash /\ ~t.revoked /\ t.jti \notin expired

Work(s, use) == [sess |-> s, jti |-> 0, prior |-> None, use |-> use]
NoJob == Work(None, "none")

Places == {"new", "headers", "idle", "raw", "take", "rotate", "reindex", "cache", "get",
           "insert", "check", "revoke", "store", "erase", "close"}

Jobs == [sess : Sessions \cup {None}, jti : 0 .. MaxJti, prior : Sessions \cup {None},
         use : {"none", "handshake", "command", "login", "logout", "http", "sweep"}]

TypeOK ==
    /\ exited \in BOOLEAN
    /\ listed \subseteq Sessions
    /\ owner \in [Jtis -> Sessions \cup {None}]
    /\ user \in [Sessions -> BOOLEAN]
    /\ token \in [Sessions -> Token] /\ access \in [Sessions -> BOOLEAN]
    /\ open \in [Sessions -> BOOLEAN] /\ late \in [Sessions -> BOOLEAN]
    /\ rows \in [Jtis -> {"none", "active", "revoked"}]
    /\ issued \in 0 .. MaxJti /\ cookie \in 0 .. MaxJti /\ expired \subseteq Jtis
    /\ at \in [Threads -> Places] /\ job \in [Threads -> Jobs]
    /\ queue \subseteq Sessions /\ out \subseteq Sessions
    /\ events \in 0 .. MaxEvents

Init ==
    /\ exited = FALSE
    /\ listed = {} /\ owner = [j \in Jtis |-> None]
    /\ user = [s \in Sessions |-> FALSE]
    /\ token = [s \in Sessions |-> FromCookie(0)] /\ access = [s \in Sessions |-> FALSE]
    /\ open = [s \in Sessions |-> FALSE] /\ late = [s \in Sessions |-> FALSE]
    /\ \/ issued = 0 /\ rows = [j \in Jtis |-> "none"]
       \/ issued = 1 /\ rows = [j \in Jtis |-> IF j = 1 THEN "active" ELSE "none"]
    /\ cookie = issued /\ expired = {}
    /\ at = [t \in Threads |-> IF t \in Sessions THEN "new" ELSE "idle"]
    /\ job = [t \in Threads |-> NoJob]
    /\ queue = {} /\ out = {} /\ events = 0

Goto(t, place) == at' = [at EXCEPT ![t] = place]

(* A thread ends what it does. *)
Done(t) == Goto(t, "idle") /\ job' = [job EXCEPT ![t] = NoJob]

Event == events < MaxEvents /\ events' = events + 1

-----------------------------------------------------------------------------
(* Connecting. *)

(* accept lists the session before a byte is read. *)
Connect(s) ==
    /\ at[s] = "new" /\ Goto(s, "headers")
    /\ open' = [open EXCEPT ![s] = TRUE]
    /\ listed' = listed \cup {s}
    /\ UNCHANGED <<exited, owner, session, clock, store, job, queue, out, events>>

(* After the rehydration: a session that is nobody's must have a valid token, which goes
   to the browser as its cookie. *)
HandshakeEnds(s) ==
    /\ at[s] = "check"
    /\ exited' = (~user[s] /\ ~Valid(token[s]))
    /\ cookie' = IF user[s] THEN cookie ELSE token[s].raw
    /\ Done(s)
    /\ UNCHANGED <<maps, session, open, clock, rows, issued, queue, out, events>>

-----------------------------------------------------------------------------
(* Validator::validateRefreshToken, for a handshake, a command or HTTP. *)

(* Thread t validates the token of session s with the text of jti j: it must decode, and the
   manager is asked for a session of that jti.  A handshake whose validation fails goes on
   with a new token. *)
Validate(t, s, j, use) ==
    IF j # 0 /\ j \notin expired
    THEN /\ Goto(t, "take")
         /\ job' = [job EXCEPT ![t] = [sess |-> s, jti |-> j, prior |-> owner[j], use |-> use]]
    ELSE IF use = "handshake"
         THEN Goto(t, "rotate") /\ job' = [job EXCEPT ![t] = Work(s, use)]
         ELSE Done(t)

ValidationFails(t) ==
    /\ IF job[t].use = "handshake" THEN Goto(t, "rotate") /\ UNCHANGED job ELSE Done(t)
    /\ UNCHANGED <<user, token, access>>

(* hydrateFromRequest *)
Handshake(s) ==
    /\ at[s] = "headers" /\ open[s]
    /\ token' = [token EXCEPT ![s] = FromCookie(cookie)]
    /\ Validate(s, s, cookie, "handshake")
    /\ UNCHANGED <<exited, maps, user, access, open, clock, store, queue, out, events>>

(* tryRehydrateFromPriorSession succeeds. *)
Prior(t) ==
    LET p == job[t].prior
    IN /\ p \notin {None, job[t].sess}
       /\ token[p].raw = job[t].jti /\ token[p].jti = job[t].jti

(* checkForDangerousDiversion: the same hash, and anything else that differs. *)
Diverges(t) ==
    LET mine == token[job[t].sess]
    IN /\ mine.hash /\ mine.jti = job[t].jti
       /\ ~mine.stored \/ mine.revoked # (rows[job[t].jti] = "revoked")

(* rehydrateFromStoredRefreshToken succeeds. *)
Stored(t) == rows[job[t].jti] # "none" /\ ~Diverges(t)

(* From the prior session or from the table; a strand gets a new access token with it. *)
Take(t) ==
    /\ at[t] = "take"
    /\ LET s == job[t].sess
           j == job[t].jti
           rehydrated ==
               /\ access' = [access EXCEPT ![s] = @ \/ t = s]
               /\ IF t = s THEN Goto(t, "cache") /\ UNCHANGED job ELSE Done(t)
       IN \/ /\ j \notin expired /\ Prior(t) /\ rehydrated
             /\ token' = [token EXCEPT ![s] = [token[job[t].prior] EXCEPT !.hit = FALSE]]
             /\ user' = [user EXCEPT ![s] = @ \/ user[job[t].prior]]
          \/ /\ j \notin expired /\ ~Prior(t) /\ Stored(t) /\ rehydrated
             /\ token' = [token EXCEPT ![s] = FromRow(j, j)]
             /\ user' = [user EXCEPT ![s] = TRUE]
          \/ (j \in expired \/ ~(Prior(t) \/ Stored(t))) /\ ValidationFails(t)
    /\ UNCHANGED <<exited, maps, open, clock, store, queue, out, events>>

-----------------------------------------------------------------------------
(* The maps. *)

(* Mutant: an entry of an earlier token of the session is left. *)
ReindexedKeeping(s, old) == [j \in Jtis |-> IF j = token[s].jti THEN s ELSE owner[j]]

(* reindexHumanRefreshTokenLocked *)
Reindexed(s, old) ==
    [j \in Jtis |-> IF j = token[s].jti THEN s
                    ELSE IF j = old \/ owner[j] = s THEN None ELSE owner[j]]

(* What the strand does when its session is in the maps. *)
Listed(s) ==
    /\ listed' = listed \cup {s}
    /\ out' = out \ {s}
    /\ IF job[s].use = "handshake" THEN Goto(s, "check") /\ UNCHANGED job ELSE Done(s)

Cache(s) ==
    /\ at[s] = "cache"
    /\ owner' = Reindexed(s, 0)
    /\ Listed(s)
    /\ UNCHANGED <<exited, session, open, clock, store, queue, events>>

(* rotateRefreshToken: a new token, then the maps. *)
Rotate(s) ==
    /\ at[s] = "rotate" /\ issued < MaxJti
    /\ issued' = issued + 1
    /\ token' = [token EXCEPT ![s] = Issued(issued + 1)]
    /\ job' = [job EXCEPT ![s].jti = token[s].jti]
    /\ Goto(s, "reindex")
    /\ UNCHANGED <<exited, maps, user, access, open, clock, rows, cookie, queue, out, events>>

RotateIndex(s) ==
    /\ at[s] = "reindex"
    /\ owner' = Reindexed(s, job[s].jti)
    /\ IF job[s].use = "login"
       THEN listed' = listed \cup {s} /\ out' = out \ {s} /\ Goto(s, "get") /\ UNCHANGED job
       ELSE Listed(s)
    /\ UNCHANGED <<exited, session, open, clock, store, queue, events>>

-----------------------------------------------------------------------------
(* Commands. *)

Takes(s) == at[s] = "idle" /\ open[s]

(* loginUser: the user is set, then promote asks for a valid token. *)
Login(s) ==
    /\ Takes(s) /\ Event
    /\ user' = [user EXCEPT ![s] = TRUE]
    /\ job' = [job EXCEPT ![s] = Work(s, "login")]
    /\ Goto(s, IF Valid(token[s]) THEN "get" ELSE "rotate")
    /\ UNCHANGED <<exited, maps, token, access, open, clock, store, queue, out>>

(* The access token, softValidateActiveSession, and the stored token if there is one. *)
GetStored(s) ==
    /\ at[s] = "get"
    /\ access' = [access EXCEPT ![s] = TRUE]
    /\ LET j == token[s].jti
       IN \/ ~Valid(token[s]) /\ Done(s) /\ UNCHANGED <<token, events>>
          \/ Event /\ Done(s) /\ UNCHANGED token
          \/ /\ Valid(token[s]) /\ rows[j] # "none"
             /\ token' = [token EXCEPT ![s] = FromRow(j, 0)]
             /\ Goto(s, "cache") /\ UNCHANGED <<job, events>>
          \/ /\ Valid(token[s]) /\ rows[j] = "none"
             /\ job' = [job EXCEPT ![s].jti = j]
             /\ Goto(s, "insert") /\ UNCHANGED <<token, events>>
    /\ UNCHANGED <<exited, maps, user, open, clock, store, queue, out>>

(* A second row of the jti is refused by the primary key. *)
Insert(s) ==
    /\ at[s] = "insert"
    /\ LET j == job[s].jti
       IN \/ /\ rows[j] = "none"
             /\ rows' = [rows EXCEPT ![j] = "active"]
             /\ token' = [token EXCEPT ![s] = FromRow(j, 0)]
             /\ Goto(s, "cache") /\ UNCHANGED <<job, events>>
          \/ rows[j] # "none" /\ Done(s) /\ UNCHANGED <<rows, token, events>>
          \/ Event /\ Done(s) /\ UNCHANGED <<rows, token>>
    /\ UNCHANGED <<exited, maps, user, access, open, clock, issued, cookie, queue, out>>

(* A command of a user, with the access token or, without it, by the refresh token. *)
Command(s) ==
    /\ Takes(s) /\ Event /\ user[s]
    /\ \/ access[s] /\ Goto(s, "cache") /\ job' = [job EXCEPT ![s] = Work(s, "command")]
       \/ Validate(s, s, token[s].raw, "command")
    /\ UNCHANGED <<exited, maps, session, open, clock, store, queue, out>>

Logout(s) ==
    /\ Takes(s) /\ Event
    /\ job' = [job EXCEPT ![s] = Work(s, "logout")]
    /\ Goto(s, "revoke")
    /\ UNCHANGED <<exited, maps, session, open, clock, store, queue, out>>

ClientCloses(s) ==
    /\ Takes(s) /\ Event
    /\ open' = [open EXCEPT ![s] = FALSE]
    /\ UNCHANGED <<exited, maps, session, clock, store, at, job, queue, out>>

-----------------------------------------------------------------------------
(* HTTP: validateRawRefreshToken with the browser's cookie. *)

HttpCall ==
    /\ at["http"] = "idle" /\ Event
    /\ cookie \notin expired \cup {0} /\ owner[cookie] # None
    /\ job' = [job EXCEPT !["http"] = [Work(owner[cookie], "http") EXCEPT !.jti = cookie]]
    /\ Goto("http", "raw")
    /\ UNCHANGED <<exited, maps, session, open, clock, store, queue, out>>

(* A stored token has no text until a request brings it. *)
HttpValidate ==
    /\ at["http"] = "raw"
    /\ LET s == job["http"].sess
           j == job["http"].jti
       IN IF token[s].raw \in {0, j}
          THEN token' = [token EXCEPT ![s].raw = j] /\ Validate("http", s, j, "http")
          ELSE Done("http") /\ UNCHANGED token
    /\ UNCHANGED <<exited, maps, user, access, open, clock, store, queue, out, events>>

-----------------------------------------------------------------------------
(* Manager::invalidate, by the strand at a log-out and by the sweep. *)

(* The tokens in memory; a connection without headers has none. *)
Revoke(t) ==
    /\ at[t] = "revoke"
    /\ LET s == job[t].sess
       IN /\ job' = [job EXCEPT ![t].jti = token[s].jti]
          /\ IF at[s] = "headers"
             THEN UNCHANGED <<token, access>> /\ Goto(t, "erase")
             ELSE /\ token' = [token EXCEPT ![s].revoked = TRUE, ![s].hit = TRUE]
                  /\ access' = [access EXCEPT ![s] = FALSE]
                  /\ Goto(t, "store")
    /\ UNCHANGED <<exited, maps, user, open, clock, store, queue, out, events>>

(* The row is revoked, then the object is emptied.  A token without a jti is no UUID for
   the database, which refuses the statement. *)
RevokeStored(t) ==
    /\ at[t] = "store"
    /\ LET s == job[t].sess
           j == job[t].jti
       IN \/ /\ j # 0
             /\ rows' = [rows EXCEPT ![j] = IF @ = "none" THEN @ ELSE "revoked"]
             /\ token' = [token EXCEPT ![s] = IF @.hit THEN [@ EXCEPT !.raw = 0, !.hash = FALSE] ELSE @]
             /\ Goto(t, "erase") /\ UNCHANGED <<job, events>>
          \/ j = 0 /\ Done(t) /\ UNCHANGED <<rows, token, events>>
          \/ Event /\ Done(t) /\ UNCHANGED <<rows, token>>
    /\ UNCHANGED <<exited, maps, user, access, open, clock, issued, cookie, queue, out>>

Unlisted(s) == listed \ {s}

(* Under the mutex: the session, and every entry of its jti, whoever owns it. *)
Erase(t) ==
    /\ at[t] = "erase"
    /\ LET s == job[t].sess
       IN /\ listed' = Unlisted(s)
          /\ owner' = [j \in Jtis |-> IF j = job[t].jti \/ owner[j] = s THEN None ELSE owner[j]]
          /\ out' = IF t = s THEN out \cup {s} ELSE out
    /\ IF t = "sweep" THEN Goto(t, "close") /\ UNCHANGED job ELSE Done(t)
    /\ UNCHANGED <<exited, session, open, clock, store, queue, events>>

-----------------------------------------------------------------------------
(* The lifecycle thread. *)

(* Mutant: the token of a session that has one is not looked at. *)
DeadAnonymous(s) == ~user[s] /\ late[s]

Dead(s) == (~user[s] /\ late[s]) \/ ~Valid(token[s])

Sweep ==
    /\ at["sweep"] = "idle" /\ queue = {} /\ listed # {}
    /\ queue' = listed
    /\ UNCHANGED <<exited, maps, session, open, clock, store, at, job, out, events>>

SweepCheck(s) ==
    /\ at["sweep"] = "idle" /\ s \in queue
    /\ queue' = queue \ {s}
    /\ IF Dead(s)
       THEN /\ job' = [job EXCEPT !["sweep"] = Work(s, "sweep")]
            /\ Goto("sweep", "revoke")
       ELSE UNCHANGED <<at, job>>
    /\ UNCHANGED <<exited, maps, session, open, clock, store, out, events>>

(* Mutant: the session is only taken from the maps. *)
StillOpen(s) == open

Closed(s) == [open EXCEPT ![s] = FALSE]

CloseSwept ==
    /\ at["sweep"] = "close"
    /\ open' = Closed(job["sweep"].sess)
    /\ Done("sweep")
    /\ UNCHANGED <<exited, maps, session, clock, store, queue, out, events>>

-----------------------------------------------------------------------------
(* Time. *)

Elapse(s) ==
    /\ at[s] # "new" /\ ~user[s] /\ ~late[s]
    /\ late' = [late EXCEPT ![s] = TRUE]
    /\ UNCHANGED <<exited, maps, session, open, expired, store, at, job, queue, out, events>>

Expire(j) ==
    /\ j \in 1 .. issued /\ j \notin expired /\ Event
    /\ expired' = expired \cup {j}
    /\ UNCHANGED <<exited, maps, session, open, late, store, at, job, queue, out>>

-----------------------------------------------------------------------------
Invalidation(t) == Revoke(t) \/ RevokeStored(t) \/ Erase(t)

StrandStep(s) ==
    \/ HandshakeEnds(s) \/ Take(s) \/ Cache(s) \/ Rotate(s) \/ RotateIndex(s)
    \/ GetStored(s) \/ Insert(s) \/ Invalidation(s)

SweepStep == Sweep \/ (\E s \in Sessions : SweepCheck(s)) \/ Invalidation("sweep") \/ CloseSwept

Next ==
    /\ ~exited
    /\ \/ \E s \in Sessions :
            \/ Connect(s) \/ Handshake(s) \/ Login(s) \/ Command(s) \/ Logout(s) \/ ClientCloses(s)
            \/ StrandStep(s) \/ Elapse(s)
       \/ \E j \in Jtis : Expire(j)
       \/ HttpCall \/ HttpValidate \/ Take("http")
       \/ SweepStep

Spec == Init /\ [][Next]_vars

(* A strand goes on with what it has begun, and the lifecycle thread sweeps again and again
   and comes to every session of its list. *)
FairSpec ==
    /\ Spec
    /\ \A s \in Sessions : WF_vars(~exited /\ StrandStep(s))
    /\ WF_vars(~exited /\ SweepStep)

-----------------------------------------------------------------------------
(* Properties. *)

(* The map by jti leads to listed sessions, and a session is found under one jti only,
   through rehydration, log-in, rotation, HTTP look-ups and invalidation by other threads:
   a token that was replaced no longer reaches the session that had it
   (reindexHumanRefreshTokenLocked). *)
OneTokenPerSession ==
    \A j \in Jtis : owner[j] # None =>
        /\ owner[j] \in listed
        /\ \A k \in Jtis \ {j} : owner[k] # owner[j]

(* An open connection is in the list the sweep reads, unless its client has logged out or
   the sweep is about to close it: no connection is forgotten (ConnectionLifecycleManager
   knows of no other list). *)
OpenIsListed ==
    \A s \in Sessions : open[s] =>
        \/ s \in listed \cup out
        \/ at["sweep"] = "close" /\ job["sweep"].sess = s

(* A listed session without a usable token, or without a log-in in time, does not stay
   listed, whatever its strand, HTTP requests and a failing database do meanwhile
   (sweepActiveSessions). *)
DeadAreEnded ==
    \A s \in Sessions :
        LET ended == ~Valid(token[s]) \/ (~user[s] /\ late[s])
        IN (s \in listed /\ ended) ~> (s \notin listed \/ ~ended \/ exited)

(* A new session that is nobody's has a valid token when its handshake ends: of the
   opposite the code says "this should never happen" (Session::hydrateFromRequest). *)
NeverExits == ~exited
===============================================================================
