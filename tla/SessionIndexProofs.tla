-------------------------- MODULE SessionIndexProofs --------------------------
(***************************************************************************)
(* What holds of SessionIndex for every number of sessions, tokens and     *)
(* events.                                                                 *)
(***************************************************************************)
EXTENDS SessionIndex, TLAPS

\* Inside an invalidation a strand works on its own session, and the sweep on some session.
InvalidatesItsOwn ==
    /\ \A s \in Sessions : at[s] \in {"revoke", "store", "erase"} => job[s].sess = s
    /\ at["sweep"] \in {"revoke", "store", "erase", "close"} => job["sweep"].sess \in Sessions

USE BoundsAssumption DEF BoundsAssumption

-----------------------------------------------------------------------------
(* The tokens and jobs the steps make.                                      *)

\* A token made of a cookie, issued, or read from a row is a token.
LEMMA TokensAreTokens ==
  ASSUME NEW j \in 0 .. MaxJti, NEW r \in 0 .. MaxJti
  PROVE  FromCookie(j) \in Token /\ Issued(j) \in Token /\ FromRow(j, r) \in Token
<1>1. FromCookie(j) \in Token
  BY DEF FromCookie, Token
<1>2. Issued(j) \in Token
  BY <1>1 DEF Issued, Token
<1>3. FromRow(j, r) \in Token
  <2>1. (rows[j] = "revoked") \in BOOLEAN
    OBVIOUS
  <2> QED
    BY <1>2, <2>1 DEF FromRow, Token
<1> QED
  BY <1>1, <1>2, <1>3

\* A new job is a job.
LEMMA WorkIsAJob ==
  ASSUME NEW s \in Sessions \cup {None},
         NEW use \in {"none", "handshake", "command", "login", "logout", "http", "sweep"}
  PROVE  Work(s, use) \in Jobs
  BY DEF Work, Jobs

\* A job with another jti is a job.
LEMMA JobOfJti ==
  ASSUME NEW jobs \in [Threads -> Jobs], NEW t, NEW j \in 0 .. MaxJti
  PROVE  [jobs EXCEPT ![t].jti = j] \in [Threads -> Jobs]
<1>1. \A work \in Jobs : [work EXCEPT !.jti = j] \in Jobs
  BY DEF Jobs
<1> QED
  BY <1>1

\* A token that is emptied where it was revoked is a token.
LEMMA EmptiedTokens ==
  ASSUME NEW tokens \in [Sessions -> Token], NEW s
  PROVE  [tokens EXCEPT ![s] = IF @.hit THEN [@ EXCEPT !.raw = 0, !.hash = FALSE] ELSE @]
           \in [Sessions -> Token]
<1> DEFINE Emptied(t) == IF t.hit THEN [t EXCEPT !.raw = 0, !.hash = FALSE] ELSE t
<1>1. ASSUME NEW t \in Token PROVE [t EXCEPT !.raw = 0, !.hash = FALSE] \in Token
  <2>1. 0 \in 0 .. MaxJti
    OBVIOUS
  <2>2. [t EXCEPT !.raw = 0] \in Token
    BY <2>1 DEF Token
  <2>3. \A u \in Token : [u EXCEPT !.hash = FALSE] \in Token
    BY DEF Token
  <2> QED
    BY <2>2, <2>3
<1>2. \A t \in Token : Emptied(t) \in Token
  BY <1>1
<1> HIDE DEF Emptied
<1>3. [tokens EXCEPT ![s] = Emptied(@)] \in [Sessions -> Token]
  BY <1>2
<1> QED
  BY <1>3 DEF Emptied

\* A thread that has ended what it did is idle and has no job.
LEMMA DoneTypes ==
  ASSUME TypeOK, NEW t \in Threads, Done(t)
  PROVE  at' \in [Threads -> Places] /\ job' \in [Threads -> Jobs]
<1>1. NoJob \in Jobs
  BY WorkIsAJob DEF NoJob
<1> QED
  BY <1>1 DEF TypeOK, Done, Goto, Places, Jobs

\* A thread that goes on is at a place of the code.
LEMMA GotoTypes ==
  ASSUME TypeOK, NEW t, NEW place \in Places, Goto(t, place)
  PROVE  at' \in [Threads -> Places]
  BY DEF TypeOK, Goto, Places

\* A validation leaves the thread at a place, with a job.
LEMMA ValidateTypes ==
  ASSUME TypeOK, NEW t \in Threads, NEW s \in Sessions \cup {None}, NEW j \in 0 .. MaxJti,
         NEW use \in {"handshake", "command", "http"}, Validate(t, s, j, use)
  PROVE  at' \in [Threads -> Places] /\ job' \in [Threads -> Jobs]
<1>1. CASE j # 0 /\ j \notin expired
  <2>1. owner[j] \in Sessions \cup {None}
    BY <1>1 DEF TypeOK, Jtis
  <2>2. [sess |-> s, jti |-> j, prior |-> owner[j], use |-> use] \in Jobs
    BY <2>1 DEF Jobs
  <2>3. /\ Goto(t, "take")
        /\ job' = [job EXCEPT ![t] = [sess |-> s, jti |-> j, prior |-> owner[j], use |-> use]]
    BY <1>1 DEF Validate
  <2>4. job \in [Threads -> Jobs] /\ "take" \in Places
    BY DEF TypeOK, Jobs, Places
  <2> QED
    BY <2>2, <2>3, <2>4, GotoTypes
<1>2. CASE ~(j # 0 /\ j \notin expired) /\ use = "handshake"
  <2>1. Goto(t, "rotate") /\ job' = [job EXCEPT ![t] = Work(s, use)]
    BY <1>2 DEF Validate
  <2>2. job \in [Threads -> Jobs] /\ "rotate" \in Places /\ Work(s, use) \in Jobs
    BY WorkIsAJob DEF TypeOK, Jobs, Places
  <2> QED
    BY <2>1, <2>2, GotoTypes
<1>3. CASE ~(j # 0 /\ j \notin expired) /\ use # "handshake"
  BY <1>3, DoneTypes DEF Validate
<1> QED
  BY <1>1, <1>2, <1>3

-----------------------------------------------------------------------------
(* Types.                                                                   *)

LEMMA InitTypeOK == Init => TypeOK
<1> SUFFICES ASSUME Init PROVE TypeOK
  OBVIOUS
<1>1. token \in [Sessions -> Token]
  BY TokensAreTokens DEF Init
<1>2. job \in [Threads -> Jobs]
  BY WorkIsAJob DEF Init, NoJob
<1>3. /\ owner \in [Jtis -> Sessions \cup {None}]
      /\ rows \in [Jtis -> {"none", "active", "revoked"}]
      /\ at \in [Threads -> Places]
  BY DEF Init, Places
<1>4. issued \in 0 .. MaxJti /\ cookie \in 0 .. MaxJti
  BY DEF Init
<1>5. /\ exited \in BOOLEAN /\ listed \subseteq Sessions
      /\ user \in [Sessions -> BOOLEAN] /\ access \in [Sessions -> BOOLEAN]
      /\ open \in [Sessions -> BOOLEAN] /\ late \in [Sessions -> BOOLEAN]
      /\ expired \subseteq Jtis /\ queue \subseteq Sessions /\ out \subseteq Sessions
  BY DEF Init
<1>6. events \in 0 .. MaxEvents
  BY DEF Init
<1> QED
  BY <1>1, <1>2, <1>3, <1>4, <1>5, <1>6 DEF TypeOK

\* A step of the handshake keeps the types.
LEMMA ConnectionTypeOK ==
  ASSUME TypeOK, NEW s \in Sessions, Connect(s) \/ Handshake(s) \/ HandshakeEnds(s)
  PROVE  TypeOK'
<1> USE DEF session, maps, clock, store
<1>0. s \in Threads
  BY DEF Threads
<1>1. CASE Connect(s)
  <2>1. at' \in [Threads -> Places]
    BY <1>1, GotoTypes DEF Connect, Places
  <2>2. open' \in [Sessions -> BOOLEAN] /\ listed' \subseteq Sessions
    BY <1>1 DEF Connect, TypeOK
  <2> QED
    BY <1>1, <2>1, <2>2 DEF Connect, TypeOK
<1>2. CASE Handshake(s)
  <2>1. cookie \in 0 .. MaxJti
    BY DEF TypeOK
  <2>2. at' \in [Threads -> Places] /\ job' \in [Threads -> Jobs]
    BY <1>0, <1>2, <2>1, ValidateTypes DEF Handshake
  <2>3. token' \in [Sessions -> Token]
    BY <1>2, <2>1, TokensAreTokens DEF Handshake, TypeOK
  <2> QED
    BY <1>2, <2>2, <2>3 DEF Handshake, TypeOK
<1>3. CASE HandshakeEnds(s)
  <2>1. at' \in [Threads -> Places] /\ job' \in [Threads -> Jobs]
    BY <1>0, <1>3, DoneTypes DEF HandshakeEnds
  <2>2. exited' \in BOOLEAN
    BY <1>3 DEF HandshakeEnds
  <2>3. cookie' \in 0 .. MaxJti
    BY <1>3 DEF HandshakeEnds, TypeOK, Token
  <2> QED
    BY <1>3, <2>1, <2>2, <2>3 DEF HandshakeEnds, TypeOK
<1> QED
  BY <1>1, <1>2, <1>3

\* A validation, by a strand or for HTTP, keeps the types.
LEMMA TakeTypeOK ==
  ASSUME TypeOK, NEW t \in Threads, Take(t)
  PROVE  TypeOK'
<1> USE DEF session, maps, clock, store
<1>1. job[t].sess \in Sessions \cup {None} /\ job[t].prior \in Sessions \cup {None} /\ job[t].jti \in 0 .. MaxJti
  BY DEF TypeOK, Jobs
<1>2. at' \in [Threads -> Places] /\ job' \in [Threads -> Jobs]
  <2>1. CASE Goto(t, "cache") /\ UNCHANGED job
    BY <2>1, GotoTypes DEF TypeOK, Places
  <2>2. CASE Goto(t, "rotate") /\ UNCHANGED job
    BY <2>2, GotoTypes DEF TypeOK, Places
  <2>3. CASE Done(t)
    BY <2>3, DoneTypes
  <2> QED
    BY <2>1, <2>2, <2>3 DEF Take, ValidationFails
<1>3. access' \in [Sessions -> BOOLEAN]
  <2>1. access' = [access EXCEPT ![job[t].sess] = @ \/ t = job[t].sess] \/ access' = access
    BY DEF Take, ValidationFails
  <2> QED
    BY <2>1 DEF TypeOK
<1>4. token' \in [Sessions -> Token]
  <2>1. CASE /\ Prior(t)
             /\ token' = [token EXCEPT ![job[t].sess] = [token[job[t].prior] EXCEPT !.hit = FALSE]]
    <3>1. token[job[t].prior] \in Token
      BY <1>1, <2>1 DEF Prior, TypeOK
    <3>2. [token[job[t].prior] EXCEPT !.hit = FALSE] \in Token
      BY <3>1 DEF Token
    <3> QED
      BY <2>1, <3>2 DEF TypeOK
  <2>2. CASE token' = [token EXCEPT ![job[t].sess] = FromRow(job[t].jti, job[t].jti)]
    BY <1>1, <2>2, TokensAreTokens DEF TypeOK
  <2>3. CASE UNCHANGED token
    BY <2>3 DEF TypeOK
  <2> QED
    BY <2>1, <2>2, <2>3 DEF Take, ValidationFails
<1>5. user' \in [Sessions -> BOOLEAN]
  <2>1. CASE Prior(t) /\ user' = [user EXCEPT ![job[t].sess] = @ \/ user[job[t].prior]]
    BY <1>1, <2>1 DEF Prior, TypeOK
  <2>2. CASE user' = [user EXCEPT ![job[t].sess] = TRUE]
    BY <2>2 DEF TypeOK
  <2>3. CASE UNCHANGED user
    BY <2>3 DEF TypeOK
  <2> QED
    BY <2>1, <2>2, <2>3 DEF Take, ValidationFails
<1>6. UNCHANGED <<exited, maps, open, clock, store, queue, out, events>>
  BY DEF Take
<1> QED
  BY <1>2, <1>3, <1>4, <1>5, <1>6 DEF TypeOK

\* The maps stay maps of sessions.
LEMMA ReindexedTypes ==
  ASSUME TypeOK, NEW s \in Sessions, NEW old
  PROVE  Reindexed(s, old) \in [Jtis -> Sessions \cup {None}]
  BY DEF TypeOK, Reindexed

\* What a strand does when its session is in the maps keeps the types.
LEMMA ListedTypes ==
  ASSUME TypeOK, NEW s \in Sessions, Listed(s)
  PROVE  /\ listed' \subseteq Sessions /\ out' \subseteq Sessions
         /\ at' \in [Threads -> Places] /\ job' \in [Threads -> Jobs]
<1>1. listed' \subseteq Sessions /\ out' \subseteq Sessions
  BY DEF Listed, TypeOK
<1>2. CASE Goto(s, "check") /\ UNCHANGED job
  BY <1>1, <1>2, GotoTypes DEF TypeOK, Places
<1>3. CASE Done(s)
  BY <1>1, <1>3, DoneTypes DEF Threads
<1> QED
  BY <1>2, <1>3 DEF Listed

\* The steps of a strand on the maps keep the types.
LEMMA MapTypeOK ==
  ASSUME TypeOK, NEW s \in Sessions, Cache(s) \/ Rotate(s) \/ RotateIndex(s)
  PROVE  TypeOK'
<1> USE DEF session, maps, clock, store
<1>1. CASE Cache(s)
  BY <1>1, ListedTypes, ReindexedTypes DEF Cache, TypeOK
<1>2. CASE Rotate(s)
  <2>1. at' \in [Threads -> Places]
    BY <1>2, GotoTypes DEF Rotate, Places
  <2>2. issued' \in 0 .. MaxJti /\ issued + 1 \in 0 .. MaxJti
    BY <1>2 DEF Rotate, TypeOK
  <2>3. token' \in [Sessions -> Token]
    BY <1>2, <2>2, TokensAreTokens DEF Rotate, TypeOK
  <2>4. job' \in [Threads -> Jobs]
    <3>1. token[s].jti \in 0 .. MaxJti
      BY DEF TypeOK, Token
    <3>2. job \in [Threads -> Jobs] /\ job' = [job EXCEPT ![s].jti = token[s].jti]
      BY <1>2 DEF Rotate, TypeOK
    <3> QED
      BY <3>1, <3>2, JobOfJti
  <2> QED
    BY <1>2, <2>1, <2>2, <2>3, <2>4 DEF Rotate, TypeOK
<1>3. CASE RotateIndex(s)
  <2>1. /\ listed' \subseteq Sessions /\ out' \subseteq Sessions
        /\ at' \in [Threads -> Places] /\ job' \in [Threads -> Jobs]
    <3>1. CASE listed' = listed \cup {s} /\ out' = out \ {s} /\ Goto(s, "get") /\ UNCHANGED job
      BY <3>1, GotoTypes DEF TypeOK, Places
    <3>2. CASE Listed(s)
      BY <3>2, ListedTypes
    <3> QED
      BY <1>3, <3>1, <3>2 DEF RotateIndex
  <2>2. owner' \in [Jtis -> Sessions \cup {None}]
    BY <1>3, ReindexedTypes DEF RotateIndex
  <2> QED
    BY <1>3, <2>1, <2>2 DEF RotateIndex, TypeOK
<1> QED
  BY <1>1, <1>2, <1>3

\* A command of the client, and what the strand does for a log-in, keeps the types.
LEMMA CommandTypeOK ==
  ASSUME TypeOK, NEW s \in Sessions,
         Login(s) \/ GetStored(s) \/ Insert(s) \/ Command(s) \/ Logout(s) \/ ClientCloses(s)
  PROVE  TypeOK'
<1> USE DEF session, maps, clock, store
<1>0. s \in Threads /\ events \in 0 .. MaxEvents /\ job \in [Threads -> Jobs]
  BY DEF Threads, TypeOK
<1>a. Event => events' \in 0 .. MaxEvents
  BY <1>0 DEF Event
<1>b. /\ token[s].jti \in 0 .. MaxJti /\ token[s].raw \in 0 .. MaxJti
      /\ job[s].jti \in 0 .. MaxJti
  BY <1>0 DEF TypeOK, Token, Jobs
<1>1. CASE Login(s)
  <2>1. at' \in [Threads -> Places]
    <3>1. (IF Valid(token[s]) THEN "get" ELSE "rotate") \in Places
      BY DEF Places
    <3> QED
      BY <1>1, <3>1, GotoTypes DEF Login
  <2>2. job' \in [Threads -> Jobs]
    <3>1. Work(s, "login") \in Jobs
      BY WorkIsAJob
    <3> QED
      BY <1>0, <1>1, <3>1 DEF Login
  <2>3. user' \in [Sessions -> BOOLEAN]
    BY <1>1 DEF Login, TypeOK
  <2>4. events' \in 0 .. MaxEvents
    BY <1>a, <1>1 DEF Login
  <2> QED
    BY <1>1, <2>1, <2>2, <2>3, <2>4 DEF Login, TypeOK
<1>2. CASE GetStored(s)
  <2>1. access' \in [Sessions -> BOOLEAN]
    BY <1>2 DEF GetStored, TypeOK
  <2>2. UNCHANGED <<exited, maps, user, open, clock, store, queue, out>>
    BY <1>2 DEF GetStored
  <2>3. CASE ~Valid(token[s]) /\ Done(s) /\ UNCHANGED <<token, events>>
    BY <1>0, <2>1, <2>2, <2>3, DoneTypes DEF TypeOK
  <2>4. CASE Event /\ Done(s) /\ UNCHANGED token
    BY <1>0, <1>a, <2>1, <2>2, <2>4, DoneTypes DEF TypeOK
  <2>5. CASE /\ token' = [token EXCEPT ![s] = FromRow(token[s].jti, 0)]
             /\ Goto(s, "cache") /\ UNCHANGED <<job, events>>
    <3>1. token' \in [Sessions -> Token]
      <4>1. FromRow(token[s].jti, 0) \in Token
        BY <1>b, TokensAreTokens
      <4> QED
        BY <2>5, <4>1 DEF TypeOK
    <3>2. at' \in [Threads -> Places]
      BY <2>5, GotoTypes DEF Places
    <3> QED
      BY <2>1, <2>2, <2>5, <3>1, <3>2 DEF TypeOK
  <2>6. CASE /\ job' = [job EXCEPT ![s].jti = token[s].jti]
             /\ Goto(s, "insert") /\ UNCHANGED <<token, events>>
    <3>1. at' \in [Threads -> Places]
      BY <2>6, GotoTypes DEF Places
    <3>2. job' \in [Threads -> Jobs]
      BY <1>0, <1>b, <2>6, JobOfJti
    <3> QED
      BY <2>1, <2>2, <2>6, <3>1, <3>2 DEF TypeOK
  <2> QED
    BY <1>2, <2>3, <2>4, <2>5, <2>6 DEF GetStored
<1>3. CASE Insert(s)
  <2>1. UNCHANGED <<exited, maps, user, access, open, clock, issued, cookie, queue, out>>
    BY <1>3 DEF Insert
  <2>2. CASE /\ rows' = [rows EXCEPT ![job[s].jti] = "active"]
             /\ token' = [token EXCEPT ![s] = FromRow(job[s].jti, 0)]
             /\ Goto(s, "cache") /\ UNCHANGED <<job, events>>
    <3>1. token' \in [Sessions -> Token]
      <4>1. FromRow(job[s].jti, 0) \in Token
        BY <1>b, TokensAreTokens
      <4> QED
        BY <2>2, <4>1 DEF TypeOK
    <3>2. rows' \in [Jtis -> {"none", "active", "revoked"}]
      BY <2>2 DEF TypeOK
    <3>3. at' \in [Threads -> Places]
      BY <2>2, GotoTypes DEF Places
    <3> QED
      BY <2>1, <2>2, <3>1, <3>2, <3>3 DEF TypeOK
  <2>3. CASE Done(s) /\ UNCHANGED <<rows, token, events>>
    BY <1>0, <2>1, <2>3, DoneTypes DEF TypeOK
  <2>4. CASE Event /\ Done(s) /\ UNCHANGED <<rows, token>>
    BY <1>0, <1>a, <2>1, <2>4, DoneTypes DEF TypeOK
  <2> QED
    BY <1>3, <2>2, <2>3, <2>4 DEF Insert
<1>4. CASE Command(s)
  <2>1. events' \in 0 .. MaxEvents /\ UNCHANGED <<exited, maps, session, open, clock, store, queue, out>>
    BY <1>a, <1>4 DEF Command
  <2>2. CASE Goto(s, "cache") /\ job' = [job EXCEPT ![s] = Work(s, "command")]
    <3>1. at' \in [Threads -> Places] /\ Work(s, "command") \in Jobs
      BY <2>2, GotoTypes, WorkIsAJob DEF Places
    <3>2. job' \in [Threads -> Jobs]
      BY <1>0, <2>2, <3>1
    <3> QED
      BY <2>1, <3>1, <3>2 DEF TypeOK
  <2>3. CASE Validate(s, s, token[s].raw, "command")
    BY <1>0, <1>b, <2>1, <2>3, ValidateTypes DEF TypeOK
  <2> QED
    BY <1>4, <2>2, <2>3 DEF Command
<1>5. CASE Logout(s)
  <2>1. at' \in [Threads -> Places] /\ Work(s, "logout") \in Jobs
    BY <1>5, GotoTypes, WorkIsAJob DEF Logout, Places
  <2>2. job' \in [Threads -> Jobs]
    BY <1>0, <1>5, <2>1 DEF Logout
  <2> QED
    BY <1>a, <1>5, <2>1, <2>2 DEF Logout, TypeOK
<1>6. CASE ClientCloses(s)
  BY <1>a, <1>6 DEF ClientCloses, TypeOK
<1> QED
  BY <1>1, <1>2, <1>3, <1>4, <1>5, <1>6

\* A look-up by HTTP keeps the types.
LEMMA HttpTypeOK ==
  ASSUME TypeOK, HttpCall \/ HttpValidate
  PROVE  TypeOK'
<1> USE DEF session, maps, clock, store
<1>0. "http" \in Threads /\ events \in 0 .. MaxEvents /\ job \in [Threads -> Jobs]
  BY DEF Threads, TypeOK
<1>1. CASE HttpCall
  <2>1. at' \in [Threads -> Places]
    BY <1>1, GotoTypes DEF HttpCall, Places
  <2>2. job' \in [Threads -> Jobs]
    <3>1. cookie \in Jtis /\ owner[cookie] \in Sessions \cup {None}
      BY <1>1 DEF HttpCall, TypeOK, Jtis
    <3>2. Work(owner[cookie], "http") \in Jobs
      BY <3>1, WorkIsAJob
    <3>3. [Work(owner[cookie], "http") EXCEPT !.jti = cookie] \in Jobs
      BY <3>1, <3>2 DEF Jobs, Jtis
    <3> QED
      BY <1>0, <1>1, <3>3 DEF HttpCall
  <2>3. events' \in 0 .. MaxEvents
    BY <1>0, <1>1 DEF HttpCall, Event
  <2> QED
    BY <1>1, <2>1, <2>2, <2>3 DEF HttpCall, TypeOK
<1>2. CASE HttpValidate
  <2> DEFINE s == job["http"].sess
             j == job["http"].jti
  <2>1. s \in Sessions \cup {None} /\ j \in 0 .. MaxJti
    BY <1>0 DEF Jobs
  <2>2. CASE token' = [token EXCEPT ![s].raw = j] /\ Validate("http", s, j, "http")
    <3>1. \A t \in Token : [t EXCEPT !.raw = j] \in Token
      BY <2>1 DEF Token
    <3>2. token' \in [Sessions -> Token]
      BY <2>2, <3>1 DEF TypeOK
    <3>3. at' \in [Threads -> Places] /\ job' \in [Threads -> Jobs]
      BY <1>0, <2>1, <2>2, ValidateTypes
    <3> QED
      BY <1>2, <3>2, <3>3 DEF HttpValidate, TypeOK
  <2>3. CASE Done("http") /\ UNCHANGED token
    BY <1>0, <1>2, <2>3, DoneTypes DEF HttpValidate, TypeOK
  <2> QED
    BY <1>2, <2>2, <2>3 DEF HttpValidate
<1> QED
  BY <1>1, <1>2

\* A step of an invalidation keeps the types.
LEMMA InvalidationTypeOK ==
  ASSUME TypeOK, InvalidatesItsOwn, NEW t \in Sessions \cup {"sweep"}, Invalidation(t)
  PROVE  TypeOK'
<1> USE DEF session, maps, clock, store
<1> DEFINE s == job[t].sess
<1>0. t \in Threads /\ job \in [Threads -> Jobs] /\ events \in 0 .. MaxEvents /\ job[t].jti \in 0 .. MaxJti
  BY DEF Threads, TypeOK, Jobs
<1>a. s \in Sessions /\ token[s] \in Token
  BY DEF InvalidatesItsOwn, Invalidation, Revoke, RevokeStored, Erase, TypeOK
<1>1. CASE Revoke(t)
  <2>1. job' \in [Threads -> Jobs]
    <3>1. token[s].jti \in 0 .. MaxJti
      BY <1>a DEF Token
    <3>2. job' = [job EXCEPT ![t].jti = token[s].jti]
      BY <1>1 DEF Revoke
    <3> QED
      BY <1>0, <3>1, <3>2, JobOfJti
  <2>2. at' \in [Threads -> Places]
    BY <1>1, GotoTypes DEF Revoke, Places
  <2>3. token' \in [Sessions -> Token] /\ access' \in [Sessions -> BOOLEAN]
    <3>1. \A t0 \in Token : [t0 EXCEPT !.revoked = TRUE] \in Token /\ [t0 EXCEPT !.hit = TRUE] \in Token
      BY DEF Token
    <3>2. \/ UNCHANGED <<token, access>>
          \/ /\ token' = [token EXCEPT ![s].revoked = TRUE, ![s].hit = TRUE]
             /\ access' = [access EXCEPT ![s] = FALSE]
      BY <1>1 DEF Revoke
    <3>3. [token EXCEPT ![s].revoked = TRUE, ![s].hit = TRUE] \in [Sessions -> Token]
      <4> DEFINE revoked == [token EXCEPT ![s].revoked = TRUE]
      <4>1. revoked \in [Sessions -> Token]
        BY <3>1 DEF TypeOK
      <4> HIDE DEF revoked
      <4>2. [revoked EXCEPT ![s].hit = TRUE] \in [Sessions -> Token]
        BY <3>1, <4>1
      <4> QED
        BY <4>2 DEF revoked
    <3> QED
      BY <3>2, <3>3 DEF TypeOK
  <2> QED
    BY <1>1, <2>1, <2>2, <2>3 DEF Revoke, TypeOK
<1>2. CASE RevokeStored(t)
  <2>1. UNCHANGED <<exited, maps, user, access, open, clock, issued, cookie, queue, out>>
    BY <1>2 DEF RevokeStored
  <2>2. CASE /\ rows' = [rows EXCEPT ![job[t].jti] = IF @ = "none" THEN @ ELSE "revoked"]
             /\ token' = [token EXCEPT ![s] = IF @.hit THEN [@ EXCEPT !.raw = 0, !.hash = FALSE] ELSE @]
             /\ Goto(t, "erase") /\ UNCHANGED <<job, events>>
    <3>1. token' \in [Sessions -> Token]
      BY <2>2, EmptiedTokens DEF TypeOK
    <3>2. rows' \in [Jtis -> {"none", "active", "revoked"}]
      BY <2>2 DEF TypeOK
    <3>3. at' \in [Threads -> Places]
      BY <2>2, GotoTypes DEF Places
    <3> QED
      BY <2>1, <2>2, <3>1, <3>2, <3>3 DEF TypeOK
  <2>3. CASE Done(t) /\ UNCHANGED <<rows, token, events>>
    BY <1>0, <2>1, <2>3, DoneTypes DEF TypeOK
  <2>4. CASE Event /\ Done(t) /\ UNCHANGED <<rows, token>>
    <3>1. events' \in 0 .. MaxEvents
      BY <1>0, <2>4 DEF Event
    <3> QED
      BY <1>0, <2>1, <2>4, <3>1, DoneTypes DEF TypeOK
  <2> QED
    BY <1>2, <2>2, <2>3, <2>4 DEF RevokeStored
<1>3. CASE Erase(t)
  <2>1. /\ listed' \subseteq Sessions /\ out' \subseteq Sessions
        /\ owner' \in [Jtis -> Sessions \cup {None}]
    BY <1>a, <1>3 DEF Erase, Unlisted, TypeOK
  <2>2. at' \in [Threads -> Places] /\ job' \in [Threads -> Jobs]
    <3>1. CASE Goto(t, "close") /\ UNCHANGED job
      BY <1>0, <3>1, GotoTypes DEF Places
    <3>2. CASE Done(t)
      BY <1>0, <3>2, DoneTypes
    <3> QED
      BY <1>3, <3>1, <3>2 DEF Erase
  <2> QED
    BY <1>3, <2>1, <2>2 DEF Erase, TypeOK
<1> QED
  BY <1>1, <1>2, <1>3 DEF Invalidation

\* A step of the sweep, or of time, keeps the types.
LEMMA SweepTypeOK ==
  ASSUME TypeOK,
         \/ Sweep \/ CloseSwept \/ \E s \in Sessions : SweepCheck(s) \/ Elapse(s)
         \/ \E j \in Jtis : Expire(j)
  PROVE  TypeOK'
<1> USE DEF session, maps, clock, store
<1>0. "sweep" \in Threads /\ events \in 0 .. MaxEvents /\ job \in [Threads -> Jobs]
  BY DEF Threads, TypeOK
<1>1. CASE Sweep
  BY <1>1 DEF Sweep, TypeOK
<1>2. CASE CloseSwept
  <2>1. open' \in [Sessions -> BOOLEAN]
    BY <1>2 DEF CloseSwept, Closed, TypeOK
  <2>2. at' \in [Threads -> Places] /\ job' \in [Threads -> Jobs]
    BY <1>0, <1>2, DoneTypes DEF CloseSwept
  <2> QED
    BY <1>2, <2>1, <2>2 DEF CloseSwept, TypeOK
<1>3. ASSUME NEW s \in Sessions, SweepCheck(s) PROVE TypeOK'
  <2>1. at' \in [Threads -> Places] /\ job' \in [Threads -> Jobs]
    <3>1. CASE Goto("sweep", "revoke") /\ job' = [job EXCEPT !["sweep"] = Work(s, "sweep")]
      <4>1. Work(s, "sweep") \in Jobs
        BY WorkIsAJob
      <4> QED
        BY <1>0, <3>1, <4>1, GotoTypes DEF Places
    <3>2. CASE UNCHANGED <<at, job>>
      BY <3>2 DEF TypeOK
    <3> QED
      BY <1>3, <3>1, <3>2 DEF SweepCheck
  <2>2. queue' \subseteq Sessions
    BY <1>3 DEF SweepCheck, TypeOK
  <2> QED
    BY <1>3, <2>1, <2>2 DEF SweepCheck, TypeOK
<1>4. ASSUME NEW s \in Sessions, Elapse(s) PROVE TypeOK'
  BY <1>4 DEF Elapse, TypeOK
<1>5. ASSUME NEW j \in Jtis, Expire(j) PROVE TypeOK'
  <2>1. events' \in 0 .. MaxEvents
    BY <1>0, <1>5 DEF Expire, Event
  <2> QED
    BY <1>5, <2>1 DEF Expire, TypeOK
<1> QED
  BY <1>1, <1>2, <1>3, <1>4, <1>5

-----------------------------------------------------------------------------
(* Who is in an invalidation.                                               *)

\* The places and jobs that InvalidatesItsOwn speaks of, after a step of one thread.
LEMMA OthersStay ==
  ASSUME TypeOK, InvalidatesItsOwn, NEW t \in Threads,
         at' = [at EXCEPT ![t] = at'[t]], job' = [job EXCEPT ![t] = job'[t]],
         t \in Sessions => (at'[t] \in {"revoke", "store", "erase"} => job'[t].sess = t),
         t = "sweep" => (at'[t] \in {"revoke", "store", "erase", "close"} => job'[t].sess \in Sessions)
  PROVE  InvalidatesItsOwn'
<1>1. ASSUME NEW u \in Sessions, at'[u] \in {"revoke", "store", "erase"} PROVE job'[u].sess = u
  BY <1>1 DEF InvalidatesItsOwn, TypeOK, Threads
<1>2. ASSUME at'["sweep"] \in {"revoke", "store", "erase", "close"} PROVE job'["sweep"].sess \in Sessions
  BY <1>2 DEF InvalidatesItsOwn, TypeOK, Threads
<1> QED
  BY <1>1, <1>2 DEF InvalidatesItsOwn

\* A thread that goes to a place outside an invalidation does not matter.
LEMMA GoesElsewhere ==
  ASSUME TypeOK, InvalidatesItsOwn, NEW t \in Threads,
         at' = [at EXCEPT ![t] = at'[t]], job' = [job EXCEPT ![t] = job'[t]],
         at'[t] \notin {"revoke", "store", "erase", "close"}
  PROVE  InvalidatesItsOwn'
  BY OthersStay

\* A thread that is done, or goes elsewhere, changes its own place and job.
LEMMA OwnPlace ==
  ASSUME TypeOK, NEW t \in Threads
  PROVE  /\ Done(t) => /\ at' = [at EXCEPT ![t] = at'[t]] /\ job' = [job EXCEPT ![t] = job'[t]]
                       /\ at'[t] = "idle"
         /\ \A place : Goto(t, place) => at' = [at EXCEPT ![t] = at'[t]] /\ at'[t] = place
         /\ UNCHANGED job => job' = [job EXCEPT ![t] = job'[t]]
  BY DEF Done, Goto, TypeOK

\* A validation goes elsewhere.
LEMMA ValidatesElsewhere ==
  ASSUME TypeOK, InvalidatesItsOwn, NEW t \in Threads, NEW s, NEW j, NEW use, Validate(t, s, j, use)
  PROVE  InvalidatesItsOwn'
  BY OwnPlace, GoesElsewhere DEF Validate

\* Every step keeps the sessions of the invalidations.
LEMMA KeepsOwn ==
  ASSUME TypeOK, InvalidatesItsOwn, Next
  PROVE  InvalidatesItsOwn'
<1>0. \A s \in Sessions : s \in Threads
  BY DEF Threads
<1>0a. "http" \in Threads /\ "sweep" \in Threads
  BY DEF Threads
<1>1. ASSUME NEW s \in Sessions, Connect(s) PROVE InvalidatesItsOwn'
  BY <1>0, <1>1, OwnPlace, GoesElsewhere DEF Connect
<1>2. ASSUME NEW s \in Sessions, Handshake(s) \/ Command(s) PROVE InvalidatesItsOwn'
  <2>1. CASE Goto(s, "cache") /\ job' = [job EXCEPT ![s] = Work(s, "command")]
    <3>1. job' = [job EXCEPT ![s] = job'[s]]
      BY <1>0, <2>1 DEF TypeOK
    <3>2. at' = [at EXCEPT ![s] = at'[s]] /\ at'[s] = "cache"
      BY <1>0, <2>1 DEF Goto, TypeOK
    <3> QED
      BY <1>0, <3>1, <3>2, GoesElsewhere
  <2>2. ASSUME NEW j, NEW use, Validate(s, s, j, use) PROVE InvalidatesItsOwn'
    BY <1>0, <2>2, ValidatesElsewhere
  <2> QED
    BY <1>2, <2>1, <2>2 DEF Handshake, Command
<1>3. ASSUME NEW s \in Sessions, HandshakeEnds(s) \/ Cache(s) \/ Rotate(s) \/ RotateIndex(s)
      PROVE  InvalidatesItsOwn'
  <2>1. CASE Done(s)
    BY <1>0, <2>1, OwnPlace, GoesElsewhere
  <2>2. ASSUME NEW place \in {"check", "get"}, Goto(s, place) /\ UNCHANGED job PROVE InvalidatesItsOwn'
    BY <1>0, <2>2, OwnPlace, GoesElsewhere
  <2>3. CASE Goto(s, "reindex") /\ job' = [job EXCEPT ![s].jti = token[s].jti]
    <3>1. job' = [job EXCEPT ![s] = job'[s]]
      BY <1>0, <2>3 DEF TypeOK
    <3>2. at' = [at EXCEPT ![s] = at'[s]] /\ at'[s] = "reindex"
      BY <1>0, <2>3 DEF Goto, TypeOK
    <3> QED
      BY <1>0, <3>1, <3>2, GoesElsewhere
  <2> QED
    BY <1>3, <2>1, <2>2, <2>3 DEF HandshakeEnds, Cache, Rotate, RotateIndex, Listed
<1>4. ASSUME NEW t \in Threads, Take(t) PROVE InvalidatesItsOwn'
  <2>1. CASE Done(t)
    BY <2>1, OwnPlace, GoesElsewhere
  <2>2. ASSUME NEW place \in {"cache", "rotate"}, Goto(t, place) /\ UNCHANGED job PROVE InvalidatesItsOwn'
    BY <2>2, OwnPlace, GoesElsewhere
  <2> QED
    BY <1>4, <2>1, <2>2 DEF Take, ValidationFails
<1>5. ASSUME NEW s \in Sessions, Login(s) PROVE InvalidatesItsOwn'
  <2>1. PICK place \in {"get", "rotate"} : Goto(s, place) /\ job' = [job EXCEPT ![s] = Work(s, "login")]
    BY <1>5 DEF Login
  <2>2. job' = [job EXCEPT ![s] = job'[s]]
    BY <1>0, <2>1 DEF TypeOK
  <2>3. at' = [at EXCEPT ![s] = at'[s]] /\ at'[s] \in {"get", "rotate"}
    BY <1>0, <2>1 DEF Goto, TypeOK
  <2> QED
    BY <1>0, <2>2, <2>3, GoesElsewhere
<1>6. ASSUME NEW s \in Sessions, GetStored(s) \/ Insert(s) PROVE InvalidatesItsOwn'
  <2>1. CASE Done(s)
    BY <1>0, <2>1, OwnPlace, GoesElsewhere
  <2>2. CASE Goto(s, "cache") /\ UNCHANGED job
    BY <1>0, <2>2, OwnPlace, GoesElsewhere
  <2>3. CASE Goto(s, "insert") /\ job' = [job EXCEPT ![s].jti = token[s].jti]
    <3>1. job' = [job EXCEPT ![s] = job'[s]]
      BY <1>0, <2>3 DEF TypeOK
    <3>2. at' = [at EXCEPT ![s] = at'[s]] /\ at'[s] = "insert"
      BY <1>0, <2>3 DEF Goto, TypeOK
    <3> QED
      BY <1>0, <3>1, <3>2, GoesElsewhere
  <2> QED
    BY <1>6, <2>1, <2>2, <2>3 DEF GetStored, Insert
<1>7. ASSUME NEW s \in Sessions, Logout(s) PROVE InvalidatesItsOwn'
  <2>1. /\ at' = [at EXCEPT ![s] = at'[s]] /\ job' = [job EXCEPT ![s] = job'[s]]
        /\ job'[s].sess = s
    BY <1>0, <1>7 DEF Logout, Work, Goto, TypeOK
  <2>2. s # "sweep"
    OBVIOUS
  <2> QED
    BY <1>0, <2>1, <2>2, OthersStay
<1>8. ASSUME UNCHANGED <<at, job>> PROVE InvalidatesItsOwn'
  BY <1>8 DEF InvalidatesItsOwn
<1>9. CASE HttpCall
  <2>1. /\ at' = [at EXCEPT !["http"] = at'["http"]] /\ job' = [job EXCEPT !["http"] = job'["http"]]
        /\ at'["http"] = "raw"
    BY <1>0a, <1>9 DEF HttpCall, Goto, TypeOK
  <2> QED
    BY <1>0a, <2>1, GoesElsewhere
<1>10. CASE HttpValidate
  <2>1. CASE Done("http")
    BY <1>0a, <2>1, OwnPlace, GoesElsewhere
  <2>2. ASSUME NEW s, NEW j, Validate("http", s, j, "http") PROVE InvalidatesItsOwn'
    BY <1>0a, <2>2, ValidatesElsewhere
  <2> QED
    BY <1>10, <2>1, <2>2 DEF HttpValidate
<1>11. ASSUME NEW t \in Sessions \cup {"sweep"}, Invalidation(t) PROVE InvalidatesItsOwn'
  <2>0. t \in Threads
    BY DEF Threads
  <2>1. CASE Done(t)
    BY <2>0, <2>1, OwnPlace, GoesElsewhere
  <2>2. ASSUME ~Done(t) PROVE InvalidatesItsOwn'
    <3>1. /\ at' = [at EXCEPT ![t] = at'[t]]
          /\ t \in Sessions => at'[t] # "close"
      BY <1>11, <2>0, <2>2, OwnPlace DEF Invalidation, Revoke, RevokeStored, Erase
    <3>2. job' = [job EXCEPT ![t] = job'[t]] /\ job'[t].sess = job[t].sess
      <4>1. job' = job \/ job' = [job EXCEPT ![t].jti = token[job[t].sess].jti]
        BY <1>11, <2>2 DEF Invalidation, Revoke, RevokeStored, Erase
      <4>2. job \in [Threads -> Jobs]
        BY DEF TypeOK
      <4>3. \A j : [job EXCEPT ![t].jti = j][t].sess = job[t].sess
        BY <2>0, <4>2 DEF Jobs
      <4> QED
        BY <2>0, <4>1, <4>2, <4>3
    <3>3. at[t] \in {"revoke", "store", "erase"}
      BY <1>11 DEF Invalidation, Revoke, RevokeStored, Erase
    <3>4. (t \in Sessions => job[t].sess = t) /\ job[t].sess \in Sessions
      BY <3>3 DEF InvalidatesItsOwn
    <3> QED
      BY <2>0, <3>1, <3>2, <3>4, OthersStay
  <2> QED
    BY <2>1, <2>2
<1>12. ASSUME NEW s \in Sessions, SweepCheck(s) PROVE InvalidatesItsOwn'
  <2>1. CASE Goto("sweep", "revoke") /\ job' = [job EXCEPT !["sweep"] = Work(s, "sweep")]
    <3>1. /\ at' = [at EXCEPT !["sweep"] = at'["sweep"]] /\ job' = [job EXCEPT !["sweep"] = job'["sweep"]]
          /\ job'["sweep"].sess \in Sessions
      BY <1>0a, <2>1 DEF Work, Goto, TypeOK
    <3>2. "sweep" \notin Sessions
      OBVIOUS
    <3> QED
      BY <1>0a, <3>1, <3>2, OthersStay
  <2> QED
    BY <1>8, <1>12, <2>1 DEF SweepCheck
<1>13. CASE CloseSwept
  BY <1>0a, <1>13, OwnPlace, GoesElsewhere DEF CloseSwept
<1>14. ASSUME NEW s \in Sessions, ClientCloses(s) \/ Elapse(s) PROVE InvalidatesItsOwn'
  BY <1>8, <1>14 DEF ClientCloses, Elapse
<1>15. CASE Sweep \/ \E j \in Jtis : Expire(j)
  BY <1>8, <1>15 DEF Sweep, Expire
<1> QED
  BY <1>0, <1>0a, <1>1, <1>2, <1>3, <1>4, <1>5, <1>6, <1>7, <1>9, <1>10, <1>11, <1>12, <1>13, <1>14, <1>15
     DEF Next, StrandStep, SweepStep

\* Every variable keeps its type, and every invalidation its session, whatever the number of
\* sessions and tokens.
THEOREM TypeCorrect == Spec => [](TypeOK /\ InvalidatesItsOwn)
<1>1. Init => TypeOK /\ InvalidatesItsOwn
  <2>1. Init => InvalidatesItsOwn
    BY DEF Init, InvalidatesItsOwn, Threads
  <2> QED
    BY <2>1, InitTypeOK
<1>2. TypeOK /\ InvalidatesItsOwn /\ [Next]_vars => (TypeOK /\ InvalidatesItsOwn)'
  <2> SUFFICES ASSUME TypeOK, InvalidatesItsOwn, [Next]_vars PROVE (TypeOK /\ InvalidatesItsOwn)'
    OBVIOUS
  <2>1. CASE UNCHANGED vars
    BY <2>1 DEF TypeOK, InvalidatesItsOwn, vars, session, maps, clock, store
  <2>2. CASE Next
    <3>0. "http" \in Threads /\ \A s \in Sessions : s \in Threads
      BY DEF Threads
    <3>1. TypeOK'
      BY <2>2, <3>0, ConnectionTypeOK, TakeTypeOK, MapTypeOK, CommandTypeOK, HttpTypeOK,
         InvalidationTypeOK, SweepTypeOK DEF Next, StrandStep, SweepStep
    <3> QED
      BY <2>2, <3>1, KeepsOwn
  <2> QED
    BY <2>1, <2>2
<1> QED
  BY <1>1, <1>2, PTL DEF Spec

-----------------------------------------------------------------------------
(* The maps of the manager.                                                 *)

\* Putting a session under the jti of its token, and listing it, keeps the maps right.
LEMMA ReindexingKeeps ==
  ASSUME OneTokenPerSession, NEW s \in Sessions, NEW old,
         owner' = Reindexed(s, old), listed' = listed \cup {s}
  PROVE  OneTokenPerSession'
<1> SUFFICES ASSUME NEW j \in Jtis, owner'[j] # None
             PROVE  owner'[j] \in listed' /\ \A k \in Jtis \ {j} : owner'[k] # owner'[j]
  BY DEF OneTokenPerSession
<1>1. \A k \in Jtis : owner'[k] = s => k = token[s].jti
  BY DEF Reindexed
<1>2. \A k \in Jtis : owner'[k] \notin {s, None} => owner'[k] = owner[k]
  BY DEF Reindexed
<1>3. CASE owner'[j] = s
  BY <1>1, <1>3
<1>4. CASE owner'[j] # s
  BY <1>2, <1>4 DEF OneTokenPerSession
<1> QED
  BY <1>3, <1>4

\* The manager erases a session with every entry that leads to it.
LEMMA ErasingKeeps ==
  ASSUME OneTokenPerSession, NEW t, Erase(t)
  PROVE  OneTokenPerSession'
  BY DEF OneTokenPerSession, Erase, Unlisted

\* A step that leaves the maps alone, or only lists a session, keeps them right.
LEMMA ListingKeeps ==
  ASSUME OneTokenPerSession, UNCHANGED owner, listed \subseteq listed'
  PROVE  OneTokenPerSession'
  BY DEF OneTokenPerSession

\* The map by jti leads to listed sessions and to each under one jti, for every number of
\* sessions and tokens (reindexHumanRefreshTokenLocked, invalidate).
THEOREM OneTokenCorrect == Spec => []OneTokenPerSession
<1>1. Init => OneTokenPerSession
  BY DEF Init, OneTokenPerSession
<1>2. OneTokenPerSession /\ [Next]_vars => OneTokenPerSession'
  <2> SUFFICES ASSUME OneTokenPerSession, [Next]_vars PROVE OneTokenPerSession'
    OBVIOUS
  <2>1. CASE UNCHANGED maps
    BY <2>1, ListingKeeps DEF maps
  <2>2. ASSUME NEW s \in Sessions, Connect(s) PROVE OneTokenPerSession'
    BY <2>2, ListingKeeps DEF Connect
  <2>3. ASSUME NEW s \in Sessions, Cache(s) \/ RotateIndex(s) PROVE OneTokenPerSession'
    BY <2>3, ReindexingKeeps DEF Cache, RotateIndex, Listed
  <2>4. ASSUME NEW t, Erase(t) PROVE OneTokenPerSession'
    BY <2>4, ErasingKeeps
  <2>5. ASSUME NEW s \in Sessions,
               \/ Handshake(s) \/ Login(s) \/ Command(s) \/ Logout(s) \/ ClientCloses(s)
               \/ HandshakeEnds(s) \/ Rotate(s) \/ GetStored(s) \/ Insert(s)
               \/ SweepCheck(s) \/ Elapse(s)
        PROVE  UNCHANGED maps
    BY <2>5 DEF Handshake, Login, Command, Logout, ClientCloses, HandshakeEnds, Rotate, GetStored,
                Insert, SweepCheck, Elapse, maps
  <2>6. ASSUME NEW t, Take(t) \/ Revoke(t) \/ RevokeStored(t) PROVE UNCHANGED maps
    BY <2>6 DEF Take, Revoke, RevokeStored, maps
  <2>7. CASE HttpCall \/ HttpValidate \/ Sweep \/ CloseSwept \/ \E j \in Jtis : Expire(j)
    BY <2>1, <2>7 DEF HttpCall, HttpValidate, Sweep, CloseSwept, Expire, maps
  <2>8. CASE UNCHANGED vars
    BY <2>1, <2>8 DEF vars
  <2> QED
    BY <2>1, <2>2, <2>3, <2>4, <2>5, <2>6, <2>7, <2>8 DEF Next, StrandStep, SweepStep, Invalidation
<1> QED
  BY <1>1, <1>2, PTL DEF Spec

-----------------------------------------------------------------------------
(* The sweep finds every open connection.                                   *)

\* A step that opens nothing, unlists nobody and leaves the sweep where it is.
LEMMA QuietStep ==
  ASSUME OpenIsListed, UNCHANGED <<listed, out>>, \A s \in Sessions : open'[s] => open[s],
         at["sweep"] = "close" => at'["sweep"] = "close" /\ job'["sweep"] = job["sweep"]
  PROVE  OpenIsListed'
  BY DEF OpenIsListed

\* The sweep is where it was, with the session it had.
SweepUntouched == at'["sweep"] = at["sweep"] /\ job'["sweep"] = job["sweep"]

\* A thread that is done, goes elsewhere, or gets another job is not the sweep.
LEMMA OthersWork ==
  ASSUME TypeOK, NEW t \in Sessions \cup {"http"},
         \/ Done(t)
         \/ /\ \E place : Goto(t, place)
            /\ \/ UNCHANGED job
               \/ \E work : job' = [job EXCEPT ![t] = work]
               \/ \E j : job' = [job EXCEPT ![t].jti = j]
  PROVE  SweepUntouched
<1>1. "sweep" \in Threads /\ t # "sweep"
  BY DEF Threads
<1> QED
  BY <1>1 DEF TypeOK, Goto, Done, SweepUntouched

\* A validation by a strand or for HTTP does not touch the sweep.
LEMMA OthersValidate ==
  ASSUME TypeOK, NEW t \in Sessions \cup {"http"}, NEW s, NEW j, NEW use, Validate(t, s, j, use)
  PROVE  SweepUntouched
  BY OthersWork DEF Validate

\* No step of a strand or of HTTP touches the sweep.
LEMMA StrandsLeaveSweep ==
  ASSUME TypeOK,
         \/ HttpCall \/ HttpValidate \/ Take("http")
         \/ \E s \in Sessions :
              \/ Connect(s) \/ Handshake(s) \/ Login(s) \/ Command(s) \/ Logout(s)
              \/ ClientCloses(s) \/ StrandStep(s) \/ Elapse(s)
  PROVE  SweepUntouched
<1>0. "http" \in Sessions \cup {"http"} /\ \A s \in Sessions : s \in Sessions \cup {"http"}
  OBVIOUS
<1>1. ASSUME NEW s \in Sessions, Connect(s) \/ Login(s) \/ Logout(s) PROVE SweepUntouched
  <2>1. \E place : Goto(s, place)
    BY <1>1 DEF Connect, Login, Logout
  <2>2. UNCHANGED job \/ \E work : job' = [job EXCEPT ![s] = work]
    BY <1>1 DEF Connect, Login, Logout
  <2> QED
    BY <1>0, <2>1, <2>2, OthersWork
<1>2. ASSUME NEW s \in Sessions, Handshake(s) \/ Command(s) PROVE SweepUntouched
  <2>1. CASE Goto(s, "cache") /\ job' = [job EXCEPT ![s] = Work(s, "command")]
    BY <1>0, <2>1, OthersWork
  <2>2. ASSUME NEW j, NEW use, Validate(s, s, j, use) PROVE SweepUntouched
    BY <1>0, <2>2, OthersValidate
  <2> QED
    BY <1>2, <2>1, <2>2 DEF Handshake, Command
<1>3. ASSUME NEW s \in Sessions, ClientCloses(s) \/ Elapse(s) PROVE SweepUntouched
  BY <1>3 DEF ClientCloses, Elapse, SweepUntouched
<1>4. ASSUME NEW t \in Sessions \cup {"http"}, Take(t) PROVE SweepUntouched
  <2>1. Done(t) \/ (UNCHANGED job /\ \E place : Goto(t, place))
    BY <1>4 DEF Take, ValidationFails
  <2> QED
    BY <2>1, OthersWork
<1>5. ASSUME NEW s \in Sessions, HandshakeEnds(s) \/ Cache(s) \/ RotateIndex(s) \/ Erase(s)
      PROVE  SweepUntouched
  <2>1. s # "sweep"
    OBVIOUS
  <2>2. Done(s) \/ (UNCHANGED job /\ \E place : Goto(s, place))
    BY <1>5, <2>1 DEF HandshakeEnds, Cache, RotateIndex, Listed, Erase
  <2> QED
    BY <1>0, <2>2, OthersWork
<1>6. ASSUME NEW s \in Sessions, Rotate(s) \/ Revoke(s) PROVE SweepUntouched
  <2>1. (\E j : job' = [job EXCEPT ![s].jti = j]) /\ \E place : Goto(s, place)
    BY <1>6 DEF Rotate, Revoke
  <2> QED
    BY <1>0, <2>1, OthersWork
<1>7. ASSUME NEW s \in Sessions, GetStored(s) \/ Insert(s) \/ RevokeStored(s) PROVE SweepUntouched
  <2>1. CASE Done(s)
    BY <1>0, <2>1, OthersWork
  <2>2. CASE UNCHANGED job /\ \E place : Goto(s, place)
    BY <1>0, <2>2, OthersWork
  <2>3. CASE (\E j : job' = [job EXCEPT ![s].jti = j]) /\ \E place : Goto(s, place)
    BY <1>0, <2>3, OthersWork
  <2> QED
    BY <1>7, <2>1, <2>2, <2>3 DEF GetStored, Insert, RevokeStored
<1>8. CASE HttpCall
  <2>1. (\E place : Goto("http", place)) /\ \E work : job' = [job EXCEPT !["http"] = work]
    BY <1>8 DEF HttpCall
  <2> QED
    BY <1>0, <2>1, OthersWork
<1>9. CASE HttpValidate
  <2>1. CASE Done("http")
    BY <1>0, <2>1, OthersWork
  <2>2. ASSUME NEW s, NEW j, Validate("http", s, j, "http") PROVE SweepUntouched
    BY <1>0, <2>2, OthersValidate
  <2> QED
    BY <1>9, <2>1, <2>2 DEF HttpValidate
<1> QED
  BY <1>0, <1>1, <1>2, <1>3, <1>4, <1>5, <1>6, <1>7, <1>8, <1>9 DEF StrandStep, Invalidation

\* A step of the sweep keeps every open connection in its sight.
LEMMA SweepKeepsOpen ==
  ASSUME TypeOK, InvalidatesItsOwn, OpenIsListed, SweepStep
  PROVE  OpenIsListed'
<1>0. "sweep" \in Threads /\ "sweep" \notin Sessions
  BY DEF Threads
<1>1. CASE Sweep
  BY <1>1, QuietStep DEF Sweep, maps
<1>2. ASSUME NEW s \in Sessions, SweepCheck(s) PROVE OpenIsListed'
  BY <1>2, QuietStep DEF SweepCheck, maps
<1>3. CASE Revoke("sweep") \/ RevokeStored("sweep")
  BY <1>3, QuietStep DEF Revoke, RevokeStored, maps
<1>4. CASE Erase("sweep")
  <2>1. /\ listed' = listed \ {job["sweep"].sess} /\ out' = out /\ open' = open
        /\ at["sweep"] = "erase" /\ at'["sweep"] = "close" /\ job' = job
    BY <1>0, <1>4 DEF Erase, Unlisted, Goto, TypeOK, InvalidatesItsOwn
  <2> QED
    BY <2>1 DEF OpenIsListed
<1>5. CASE CloseSwept
  BY <1>0, <1>5 DEF CloseSwept, Closed, OpenIsListed, TypeOK, maps
<1> QED
  BY <1>1, <1>2, <1>3, <1>4, <1>5 DEF SweepStep, Invalidation

\* A step of another thread keeps every open connection in the sight of the sweep.
LEMMA OthersKeepOpen ==
  ASSUME TypeOK, InvalidatesItsOwn, OpenIsListed, SweepUntouched,
         \/ HttpCall \/ HttpValidate \/ Take("http") \/ \E j \in Jtis : Expire(j)
         \/ \E s \in Sessions :
              \/ Connect(s) \/ Handshake(s) \/ Login(s) \/ Command(s) \/ Logout(s)
              \/ ClientCloses(s) \/ StrandStep(s) \/ Elapse(s)
  PROVE  OpenIsListed'
<1> USE DEF SweepUntouched
<1>1. ASSUME NEW s \in Sessions, Connect(s) PROVE OpenIsListed'
  BY <1>1 DEF Connect, OpenIsListed, TypeOK
<1>2. ASSUME NEW s \in Sessions, listed' = listed \cup {s}, out' = out \ {s}, open' = open
      PROVE  OpenIsListed'
  BY <1>2 DEF OpenIsListed
<1>3. ASSUME NEW s \in Sessions, Cache(s) \/ RotateIndex(s) PROVE OpenIsListed'
  <2>1. listed' = listed \cup {s} /\ out' = out \ {s} /\ open' = open
    BY <1>3 DEF Cache, RotateIndex, Listed
  <2> QED
    BY <1>2, <2>1
<1>4. ASSUME NEW s \in Sessions, Erase(s) PROVE OpenIsListed'
  <2>1. job[s].sess = s
    BY <1>4 DEF Erase, InvalidatesItsOwn
  <2>2. listed' = listed \ {s} /\ out' = out \cup {s} /\ open' = open
    BY <1>4, <2>1 DEF Erase, Unlisted
  <2> QED
    BY <2>2 DEF OpenIsListed
<1>5. ASSUME NEW s \in Sessions, ClientCloses(s) PROVE OpenIsListed'
  BY <1>5, QuietStep DEF ClientCloses, maps, TypeOK
<1>6. CASE UNCHANGED <<listed, out, open>>
  BY <1>6, QuietStep
<1>7. ASSUME NEW s \in Sessions,
             \/ Handshake(s) \/ Login(s) \/ Command(s) \/ Logout(s)
             \/ HandshakeEnds(s) \/ Rotate(s) \/ GetStored(s) \/ Insert(s) \/ Elapse(s)
      PROVE  UNCHANGED <<listed, out, open>>
  BY <1>7 DEF Handshake, Login, Command, Logout, HandshakeEnds, Rotate, GetStored, Insert, Elapse, maps
<1>8. ASSUME NEW t, Take(t) \/ Revoke(t) \/ RevokeStored(t) PROVE UNCHANGED <<listed, out, open>>
  BY <1>8 DEF Take, Revoke, RevokeStored, maps
<1>9. CASE HttpCall \/ HttpValidate \/ \E j \in Jtis : Expire(j)
  BY <1>6, <1>9 DEF HttpCall, HttpValidate, Expire, maps
<1> QED
  BY <1>1, <1>3, <1>4, <1>5, <1>6, <1>7, <1>8, <1>9 DEF StrandStep, Invalidation

\* An open connection is in the list the sweep reads, unless its client has logged out or the
\* sweep is about to close it, for every number of sessions (ConnectionLifecycleManager).
THEOREM OpenIsListedCorrect == Spec => []OpenIsListed
<1>1. Init => OpenIsListed
  BY DEF Init, OpenIsListed
<1>2. TypeOK /\ InvalidatesItsOwn /\ OpenIsListed /\ [Next]_vars => OpenIsListed'
  <2> SUFFICES ASSUME TypeOK, InvalidatesItsOwn, OpenIsListed, [Next]_vars PROVE OpenIsListed'
    OBVIOUS
  <2>1. CASE UNCHANGED vars
    BY <2>1 DEF OpenIsListed, vars, maps
  <2>2. CASE SweepStep
    BY <2>2, SweepKeepsOpen
  <2>3. ASSUME NEW j \in Jtis, Expire(j) PROVE OpenIsListed'
    <3>1. SweepUntouched
      BY <2>3 DEF Expire, SweepUntouched
    <3> QED
      BY <2>3, <3>1, OthersKeepOpen
  <2>4. CASE \/ HttpCall \/ HttpValidate \/ Take("http")
             \/ \E s \in Sessions :
                  \/ Connect(s) \/ Handshake(s) \/ Login(s) \/ Command(s) \/ Logout(s)
                  \/ ClientCloses(s) \/ StrandStep(s) \/ Elapse(s)
    BY <2>4, StrandsLeaveSweep, OthersKeepOpen
  <2> QED
    BY <2>1, <2>2, <2>3, <2>4 DEF Next
<1> QED
  BY <1>1, <1>2, TypeCorrect, PTL DEF Spec
===============================================================================
