---------------------------- MODULE VaultPolicy ----------------------------
(***************************************************************************)
(* Who may do what to a path of a vault: the override rules of a role and  *)
(* the evaluator that decides by them (rbac::fs::policy::Evaluator), the   *)
(* globs the rules are written in (rbac::fs::glob) and what a share link   *)
(* allows by its grant and the role that is assigned to it                 *)
(* (rbac::fs::policy::Share, share::Manager).                              *)
(*                                                                         *)
(* The module is about one subject.  A user's role keeps its rules as rows *)
(* of vault_permission_overrides, stored, replaced and removed one by one; *)
(* a public share link has a row with the operations it grants and an      *)
(* assignment, the role with its rules, which its owner writes in separate *)
(* transactions.  Paths and globs are sequences of one-character strings;  *)
(* paths are normalized and vault-absolute.  Which of a user's roles is    *)
(* asked (his own, a group's, the global one) is left out, and so are the  *)
(* roles of the recipients of links that require email.                    *)
(***************************************************************************)
EXTENDS Naturals, Sequences, FiniteSets, SequencesExt

CONSTANTS
    Globs,         \* the globs rules are written with, in the order of glob_path
    Permissions,   \* the permissions rules are about, in the order of bit_position
    Base,          \* the permissions the role itself grants
    AskedPaths,    \* the paths asked about
    Actions,       \* the FilesystemActions asked about
    Grants,        \* the grants of share links
    Roles,         \* the roles, with their rules, that a link may be given
    MaxRules,      \* how many rules a role has at most
    Nothing        \* no link, no role, no permission

Operations == {"Metadata", "List", "Preview", "Download", "Upload", "Mkdir", "Overwrite"}

FilesystemActions ==
    {"Preview", "List", "Write", "Read", "Touch", "Overwrite", "Rename", "Delete", "Move",
     "Copy", "ShareInternal", "SharePublic", "SharePublicValidated", "Lookup"}

(* Tokenizer::validate: a glob begins with a slash and has no three stars in a row.
   A backslash, which it refuses too, is a character like any other here. *)
IsGlob(g) ==
    /\ g \in Seq(STRING) /\ g # <<>> /\ g[1] = "/"
    /\ \A k \in 3 .. Len(g) : \E i \in k - 2 .. k : g[i] # "*"

(* Normalized and vault-absolute. *)
IsPath(p) ==
    /\ p \in Seq(STRING) /\ p # <<>> /\ p[1] = "/"
    /\ Len(p) > 1 => p[Len(p)] # "/"

ASSUME RulesAssumption ==
    /\ Globs \in Seq(ToSet(Globs)) /\ IsInjective(Globs)
    /\ \A g \in ToSet(Globs) : IsGlob(g)
    /\ Permissions \in Seq(ToSet(Permissions)) /\ IsInjective(Permissions)
    /\ \A p \in AskedPaths : IsPath(p)
    /\ Actions \subseteq FilesystemActions
    /\ Nothing \notin FilesystemActions \cup {"Upload", "Download"}
    /\ MaxRules \in Nat

Effects == {"ALLOW", "DENY"}

Rules == [permission : ToSet(Permissions), glob : ToSet(Globs), effect : Effects,
          enabled : BOOLEAN]

(* UNIQUE in 060_acl.sql and 072_share_vault_role_assignments.sql. *)
OnePerKey(stored) ==
    \A r, s \in stored : r.permission = s.permission /\ r.glob = s.glob => r = s

(* What is set for a link; a link that has no role yet resolves no principal. *)
Settings == [ops : SUBSET Operations, role : Roles \cup {Nothing}]

Links == [root : {g.root : g \in Grants}, type : {"directory", "file"},
          ops : SUBSET Operations, role : Roles \cup {Nothing}]

Asked == [old : Settings, new : Settings, stage : {"assign", "update", "stored", "halfway"}]

ASSUME GrantsAssumption ==
    /\ Grants \subseteq [root : {g.root : g \in Grants}, type : {"directory", "file"},
                         ops : SUBSET Operations]
    /\ \A g \in Grants : IsPath(g.root)
    /\ \A role \in Roles : /\ role.rules \subseteq Rules /\ IsFiniteSet(role.rules)
                            /\ OnePerKey(role.rules)
    /\ Nothing \notin Roles \cup Links

VARIABLES
    rows,    \* the rows of the assignment of a user's role
    link,    \* the share link: its row and the role assigned to it
    asked    \* what its owner asked for last, what it was like before, and how
             \* far that has come

policyVars == <<rows, link, asked>>

(* The rows are rules, one for a permission and a glob, and a subject is either a
   user's role with rules or a share link. *)
PolicyTypeOK ==
    /\ rows \subseteq Rules /\ Cardinality(rows) <= MaxRules
    /\ OnePerKey(rows)
    /\ \/ link = Nothing /\ asked = Nothing
       \/ link \in Links /\ asked \in Asked /\ rows = {}

-----------------------------------------------------------------------------
(* Globs. *)

Special == {"*", "?", "/"}

Kind(c) == IF c \in Special THEN c ELSE "literal"

(* Tokenizer::parse: where the tokens begin.  A run of other characters is one token,
   so is a run of stars; a slash and a question mark are tokens each. *)
Starts(glob) ==
    {k \in 1 .. Len(glob) :
        k > 1 => glob[k] \in {"/", "?"} \/ Kind(glob[k]) # Kind(glob[k - 1])}

(* Where the token after the one at k begins, and of what type that at k is. *)
After(glob, k) == Min({e \in Starts(glob) \cup {Len(glob) + 1} : e > k})

Type(glob, k) == IF glob[k] = "*" /\ After(glob, k) = k + 2 THEN "**" ELSE Kind(glob[k])

SlashFollows(glob, k) == After(glob, k) <= Len(glob) /\ glob[After(glob, k)] = "/"

\* Mutant: * may stand for no character at all.
TakesEmpty(glob, k, path, j) ==
    LET type == Type(glob, k)
    IN  {n \in 0 .. Len(path) + 1 - j :
            /\ type \in {"literal", "/"} =>
                   SubSeq(path, j, j + n - 1) = SubSeq(glob, k, After(glob, k) - 1)
            /\ type = "?"  => n = 1 /\ path[j] # "/"
            /\ type = "*"  => \A i \in j .. j + n - 1 : path[i] # "/"
            /\ type = "**" /\ SlashFollows(glob, k) => n = 0 \/ path[j + n - 1] = "/"}

(* How many characters of path, from j on, the token at k may stand for. *)
Takes(glob, k, path, j) ==
    LET type == Type(glob, k)
    IN  {n \in 0 .. Len(path) + 1 - j :
            /\ type \in {"literal", "/"} =>
                   SubSeq(path, j, j + n - 1) = SubSeq(glob, k, After(glob, k) - 1)
            /\ type = "?"  => n = 1 /\ path[j] # "/"
            /\ type = "*"  => n > 0 /\ \A i \in j .. j + n - 1 : path[i] # "/"
            /\ type = "**" /\ SlashFollows(glob, k) => n = 0 \/ path[j + n - 1] = "/"}

(* The token to go on with: "**" before a slash takes the slash with it. *)
Resume(glob, k) ==
    IF Type(glob, k) = "**" /\ SlashFollows(glob, k) THEN After(glob, k) + 1
                                                    ELSE After(glob, k)

(* matchRecursive: from[k] is where in path the glob may match from its token at k on. *)
Match(glob, path) ==
    LET from[k \in 1 .. Len(glob) + 1] ==
            IF k > Len(glob) THEN {Len(path) + 1}
            ELSE LET rest == from[Resume(glob, k)]
                 IN  {j \in 1 .. Len(path) + 1 : \E n \in Takes(glob, k, path, j) : j + n \in rest}
    IN  1 \in from[1]

Matched == [glob \in ToSet(Globs) |-> {p \in AskedPaths : Match(glob, p)}]

Matches(glob, path) == path \in Matched[glob]

(* scorePattern: ten for each literal and one for each of its characters, one for a
   slash, two for a question mark and nothing for stars. *)
Score(glob) ==
    10 * Cardinality({k \in Starts(glob) : glob[k] \notin Special})
    + Cardinality({k \in 1 .. Len(glob) : glob[k] \notin {"*", "?"}})
    + 2 * Cardinality({k \in 1 .. Len(glob) : glob[k] = "?"})

(* literalTraversalPrefix: what comes before the first wildcard. *)
LiteralPrefix(glob) ==
    LET wild == {k \in 1 .. Len(glob) : glob[k] \in {"*", "?"}}
    IN  SubSeq(glob, 1, Min(wild \cup {Len(glob) + 1}) - 1)

\* Mutant: the root is told like any other directory.
IsBelow(dir, path) ==
    /\ IsPrefix(dir, path)
    /\ Len(dir) < Len(path) => path[Len(dir) + 1] = "/"

(* isAncestorOrSelf. *)
IsAncestorOrSelf(dir, path) ==
    \/ dir = <<"/">>
    \/ /\ IsPrefix(dir, path)
       /\ Len(dir) < Len(path) => path[Len(dir) + 1] = "/"

(* Matcher::requiresTraversalThrough: once the directory is an ancestor of the
   prefix or the prefix itself, each of its last tests lets it pass. *)
LeadsThrough(glob, dir) ==
    ~Matches(glob, dir) /\ IsAncestorOrSelf(dir, LiteralPrefix(glob))

-----------------------------------------------------------------------------
(* The evaluator. *)

(* filePermissionForAction and directoryPermissionForAction. *)
FilePermission(action) ==
    CASE action = "Lookup" -> "Preview"
      [] action = "Write"  -> "Upload"
      [] action = "Read"   -> "Download"
      [] action \in {"Preview", "Overwrite", "Rename", "Delete", "Move", "Copy"} -> action
      [] OTHER -> Nothing

DirectoryPermission(action) ==
    CASE action = "Lookup" -> "List"
      [] action = "Write"  -> "Upload"
      [] action = "Read"   -> "Download"
      [] action \in {"List", "Rename", "Delete", "Move", "Copy", "Touch"} -> action
      [] OTHER -> Nothing

RequiresExistingEntry(action) == action \notin {"Touch", "Write"}

IsValidFor(directory, action) ==
    action \notin IF directory THEN {"Preview", "Overwrite"} ELSE {"List", "Touch"}

(* A rule speaks of an action when it names the action's permission on files or
   its permission on directories, whichever the target is. *)
SpeaksOf(rule, action) ==
    \/ rule.permission = <<"file", FilePermission(action)>>
    \/ rule.permission = <<"directory", DirectoryPermission(action)>>

(* findBestOverride over the list of rules: the first of the highest score. *)
Fitting(list, action, path) ==
    {i \in DOMAIN list : /\ list[i].enabled
                         /\ SpeaksOf(list[i], action)
                         /\ Matches(list[i].glob, path)}

Decisive(list, fitting) ==
    CHOOSE i \in fitting : \A j \in fitting :
        \/ Score(list[i].glob) > Score(list[j].glob)
        \/ Score(list[i].glob) = Score(list[j].glob) /\ i <= j

AllowedByBase(base, directory, action) ==
    IF directory THEN <<"directory", DirectoryPermission(action)>> \in base
                 ELSE <<"file", FilePermission(action)>> \in base

(* resolveStage: the rules first, then what the role grants. *)
StageAllows(list, base, request) ==
    LET fitting == Fitting(list, request.action, request.path)
    IN  IF fitting # {} THEN list[Decisive(list, fitting)].effect = "ALLOW"
        ELSE AllowedByBase(base, request.directory, request.action)

\* Mutant: rules that deny open the way as well.
AnyRuleLeads(list, path) ==
    \E i \in DOMAIN list : list[i].enabled /\ LeadsThrough(list[i].glob, path)

(* Looking a directory up on the way to an allowed path is always allowed. *)
TraversalAllows(list, path) ==
    \E i \in DOMAIN list : /\ list[i].enabled
                           /\ list[i].effect = "ALLOW"
                           /\ LeadsThrough(list[i].glob, path)

(* Evaluator::evaluate of the rules and permissions of one role. *)
Evaluate(list, base, request) ==
    /\ RequiresExistingEntry(request.action) => request.exists
    /\ IsValidFor(request.directory, request.action)
    /\ \/ StageAllows(list, base, request)
       \/ request.action = "Lookup" /\ TraversalAllows(list, request.path)

Index(seq, x) == CHOOSE i \in DOMAIN seq : seq[i] = x

(* The rows are listed by bit_position and glob_path. *)
Before(r, s) ==
    LET i == Index(Permissions, r.permission)
        j == Index(Permissions, s.permission)
    IN  i < j \/ (i = j /\ Index(Globs, r.glob) < Index(Globs, s.glob))

Listed(stored) ==
    CHOOSE list \in [1 .. Cardinality(stored) -> stored] :
        \A i, j \in DOMAIN list : i < j => Before(list[i], list[j])

Requests == [action : Actions, path : AskedPaths, exists : BOOLEAN, directory : BOOLEAN]

Targets == [path : AskedPaths, exists : BOOLEAN, directory : BOOLEAN]

Allowed(stored) ==
    LET list == Listed(stored) IN {q \in Requests : Evaluate(list, Base, q)}

-----------------------------------------------------------------------------
(* Share links. *)

ActionForOperation(op) ==
    CASE op = "Metadata" -> "Lookup"
      [] op = "Download" -> "Read"
      [] op = "Upload"   -> "Write"
      [] op = "Mkdir"    -> "Touch"
      [] op = "Overwrite" -> Nothing
      [] OTHER -> op

(* Manager::resolvePrincipal and Share::evaluate: what a visitor may do with a
   target.  No principal is without a role. *)
ShareAllows(root, set, op, target) ==
    /\ set.role # Nothing
    /\ IsAncestorOrSelf(root, target.path)
    /\ ActionForOperation(op) # Nothing
    /\ op \in set.ops
    /\ Evaluate(Listed(set.role.rules), set.role.base,
                [action |-> ActionForOperation(op), path |-> target.path,
                 exists |-> target.exists, directory |-> target.directory])

-----------------------------------------------------------------------------
(* What happens to the rules. *)

PolicyInit == rows = {} /\ link = Nothing /\ asked = Nothing

(* Override::upsert and Assignments::assign: ON CONFLICT DO UPDATE. *)
Upserted(stored, r) ==
    {s \in stored : s.permission # r.permission \/ s.glob # r.glob} \cup {r}

Store(r) ==
    /\ link = Nothing
    /\ Cardinality(Upserted(rows, r)) <= MaxRules
    /\ rows' = Upserted(rows, r)
    /\ UNCHANGED <<link, asked>>

(* Override::remove. *)
RemoveRule(r) == r \in rows /\ rows' = rows \ {r} /\ UNCHANGED <<link, asked>>

(* Assignments::unassign: the rows go with the assignment. *)
Unassign == rows # {} /\ rows' = {} /\ UNCHANGED <<link, asked>>

-----------------------------------------------------------------------------
(* What happens to a link. *)

(* Grant::requireValid, for what is modelled of a grant. *)
Valid(type, ops) == type = "file" => "Mkdir" \notin ops

Setting(l) == [ops |-> l.ops, role |-> l.role]

(* Manager::createLink: the row of the link comes first. *)
CreateLink(g, role) ==
    /\ rows = {} /\ link = Nothing
    /\ Valid(g.type, g.ops)
    /\ link' = [root |-> g.root, type |-> g.type, ops |-> g.ops, role |-> Nothing]
    /\ asked' = [old |-> Setting(link'), new |-> [ops |-> g.ops, role |-> role],
                 stage |-> "assign"]
    /\ UNCHANGED rows

(* persistPublicAssignment: the assignment, and its rules in the place of others. *)
AssignRole ==
    /\ asked # Nothing /\ asked.stage = "assign"
    /\ link' = [link EXCEPT !.role = asked.new.role]
    /\ asked' = [asked EXCEPT !.stage = "stored"]
    /\ UNCHANGED rows

\* Mutant: the rules of the old assignment are not deleted.
UpdateOnTop(ops, role) ==
    /\ asked # Nothing /\ asked.stage \in {"stored", "halfway"}
    /\ Valid(link.type, ops)
    /\ link' = [link EXCEPT !.role =
                    IF Nothing \in {role, link.role} THEN role
                    ELSE [role EXCEPT !.rules = role.rules \cup
                            {s \in link.role.rules : \A r \in role.rules :
                                s.permission # r.permission \/ s.glob # r.glob}]]
    /\ asked' = [old |-> Setting(link), new |-> [ops |-> ops, role |-> role],
                 stage |-> "update"]
    /\ UNCHANGED rows

(* Manager::updateLink writes the assignment first, unless the request has none. *)
UpdateLink(ops, role) ==
    /\ asked # Nothing /\ asked.stage \in {"stored", "halfway"}
    /\ Valid(link.type, ops)
    /\ link' = [link EXCEPT !.role = role]
    /\ asked' = [old |-> Setting(link), new |-> [ops |-> ops, role |-> role],
                 stage |-> "update"]
    /\ UNCHANGED rows

(* store_->updateLink: what is shared stays as it is. *)
StoreGrant ==
    /\ asked # Nothing /\ asked.stage = "update"
    /\ link' = [link EXCEPT !.ops = asked.new.ops]
    /\ asked' = [asked EXCEPT !.stage = "stored"]
    /\ UNCHANGED rows

(* The second transaction fails or the server dies before it.  A createLink that
   fails revokes its link, which Revoke has. *)
StopHalfway ==
    /\ asked # Nothing /\ asked.stage \in {"assign", "update"}
    /\ asked' = [asked EXCEPT !.stage = "halfway"]
    /\ UNCHANGED <<rows, link>>

(* Manager::revokeLink: no principal is resolved from now on. *)
Revoke ==
    /\ link # Nothing
    /\ link' = Nothing /\ asked' = Nothing
    /\ UNCHANGED rows

PolicyNext ==
    \/ \E r \in Rules : Store(r) \/ RemoveRule(r)
    \/ Unassign
    \/ \E g \in Grants, role \in Roles : CreateLink(g, role)
    \/ \E g \in Grants, role \in Roles \cup {l.role : l \in {link} \ {Nothing}} :
           UpdateLink(g.ops, role)
    \/ AssignRole \/ StoreGrant \/ StopHalfway \/ Revoke

PolicySpec == PolicyInit /\ [][PolicyNext]_policyVars

-----------------------------------------------------------------------------
(* What a glob means, told by segments: "**" stands for any number of whole
   segments, at the end for at least one, "*" for one or more characters of a
   name and "?" for one.  A segment is told by the slash before it. *)
Slashes(s) == {k \in 1 .. Len(s) : s[k] = "/"}

Ends(s) == Slashes(s) \cup {Len(s) + 1}

SegmentEnd(s, k) == Min({e \in Ends(s) : e > k})

Segment(s, k) == SubSeq(s, k + 1, SegmentEnd(s, k) - 1)

NameFits(glob, name) ==
    LET fits[i \in 1 .. Len(glob) + 1] ==
            IF i > Len(glob) THEN {Len(name) + 1}
            ELSE {j \in 1 .. Len(name) : \E n \in 1 .. Len(name) + 1 - j :
                     /\ j + n \in fits[i + 1]
                     /\ glob[i] # "*" => n = 1 /\ glob[i] \in {"?", name[j]}}
    IN  1 \in fits[1]

SegmentsFit(glob, path) ==
    LET fits[g \in Ends(glob)] ==
            IF g > Len(glob) THEN {Len(path) + 1}
            ELSE LET end  == SegmentEnd(glob, g)
                     more == fits[end]
                 IN  {p \in Slashes(path) :
                         IF Segment(glob, g) = <<"*", "*">>
                         THEN end > Len(glob) \/ \E q \in more : q >= p
                         ELSE /\ NameFits(Segment(glob, g), Segment(path, p))
                              /\ SegmentEnd(path, p) \in more}
    IN  1 \in fits[1]

(* Two stars are a segment of their own. *)
StarsApart(glob) ==
    \A k \in 2 .. Len(glob) : glob[k - 1] = "*" /\ glob[k] = "*" =>
        /\ glob[k - 2] = "/"
        /\ k < Len(glob) => glob[k + 1] = "/"

(* The matcher walks characters and tokens and tries every length; what it finds
   is what the globs mean, segment by segment.  Two stars that are part of a name
   are an exception: /a**/b also matches /ab. *)
MatchesBySegments ==
    \A r \in rows : StarsApart(r.glob) =>
        \A p \in AskedPaths : Matches(r.glob, p) <=> SegmentsFit(r.glob, p)

(* Fewer rules that allow and more that deny never allow anything new, more that
   allow and fewer that deny never forbid anything: not by the scores, nor by the
   order of rules of one score, nor by the way to a directory. *)
Of(effect, stored) == {r \in stored : r.enabled /\ r.effect = effect}

Stricter(old, new) == /\ Of("ALLOW", new) \subseteq Of("ALLOW", old)
                      /\ Of("DENY", old) \subseteq Of("DENY", new)

EditsAreMonotone ==
    [][rows' # rows =>
           /\ Stricter(rows, rows') => Allowed(rows') \subseteq Allowed(rows)
           /\ Stricter(rows', rows) => Allowed(rows) \subseteq Allowed(rows')]_policyVars

(* A path that a rule allows something on can be reached: every directory above
   it can be looked up, whatever the other rules say.  This is for globs with
   wildcards in the last name only: beyond a wildcard the evaluator gives up. *)
Ancestors(path) ==
    {<<"/">>} \cup {SubSeq(path, 1, n) : n \in {k \in 1 .. Len(path) - 1 : path[k + 1] = "/"}}

HasTwoStars(glob) == \E k \in 2 .. Len(glob) : glob[k] = "*" /\ glob[k - 1] = "*"

OnlyLastIsWild(glob) ==
    /\ ~HasTwoStars(glob)
    /\ \A k, l \in 1 .. Len(glob) : glob[k] \in {"*", "?"} /\ glob[l] = "/" => l < k

AllowedIsReachable ==
    \A r \in Of("ALLOW", rows) : OnlyLastIsWild(r.glob) =>
        \A p \in {q \in AskedPaths : Matches(r.glob, q)} : \A dir \in (Ancestors(p) \cap AskedPaths) \ {p} :
            Evaluate(Listed(rows), Base,
                     [action |-> "Lookup", path |-> dir, exists |-> TRUE, directory |-> TRUE])

(* What a link allows is what its owner has set, although operations and role are
   written one after the other and a request may come, or the server stop, in
   between: once all is stored the link allows what was asked for, and a change
   that only takes away, or only adds, is at every moment between what was and
   what shall be.  A change that takes operations away and gives a role with more
   rights is an exception: half way, the new role holds for the old operations. *)
Rights(root, set) ==
    {r \in set.ops \X Targets : ShareAllows(root, set, r[1], r[2])}

Narrower(new, old) ==
    /\ new.ops \subseteq old.ops
    /\ \/ new.role = Nothing
       \/ /\ old.role # Nothing
          /\ Stricter(old.role.rules, new.role.rules)
          /\ new.role.base \subseteq old.role.base

Between(low, set, high) ==
    /\ Rights(link.root, low) \subseteq Rights(link.root, set)
    /\ Rights(link.root, set) \subseteq Rights(link.root, high)

LinkIsAsAsked ==
    link # Nothing =>
        /\ asked.stage = "stored" => Between(asked.new, Setting(link), asked.new)
        /\ Narrower(asked.new, asked.old) => Between(asked.new, Setting(link), asked.old)
        /\ Narrower(asked.old, asked.new) => Between(asked.old, Setting(link), asked.new)
=============================================================================
