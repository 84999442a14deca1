---------------------------- MODULE MCFilesystem ----------------------------
(* FsCache and VaultPolicy for TLC.  The two share no state, so that while one *)
(* of them moves the other one is as it was at the start.                      *)
EXTENDS FsCache, VaultPolicy

CacheSymmetry == Permutations(Paths) \cup Permutations(Threads)

CacheUntouched == nextInode = 2 /\ restarts = 0 /\ \A t \in Threads : task[t] = None

PolicyUntouched == rows = {} /\ link = Nothing

FilesystemInit == Init /\ PolicyInit

FilesystemSpec ==
    /\ FilesystemInit
    /\ [][\/ PolicyUntouched /\ Next /\ UNCHANGED policyVars
          \/ CacheUntouched /\ PolicyNext /\ UNCHANGED vars]_<<vars, policyVars>>

(* Globs, paths, grants and roles: a name is one letter, "?" matches any. *)
root == <<"/">>
MCGlobs == <<root, <<"/", "*">>, <<"/", "*", "*">>, <<"/", "*", "*", "/", "b">>,
             <<"/", "*", "/", "b">>, <<"/", "?">>, <<"/", "a">>, <<"/", "a", "*">>,
             <<"/", "a", "/", "*">>, <<"/", "a", "/", "*", "*">>,
             <<"/", "a", "/", "?", "b">>, <<"/", "a", "/", "b">>>>
MCPermissions == <<<<"file", "Preview">>, <<"directory", "List">>>>
MCBase == {<<"file", "Preview">>}
MCPaths == {root, <<"/", "a">>, <<"/", "b">>, <<"/", "?">>, <<"/", "a", "b">>,
            <<"/", "a", "/", "b">>, <<"/", "a", "/", "a">>, <<"/", "?", "/", "a">>,
            <<"/", "a", "/", "a", "b">>, <<"/", "b", "/", "b">>,
            <<"/", "a", "/", "b", "/", "b">>, <<"/", "*", "*", "/", "a">>}
MCGrants == [root : {root, <<"/", "a">>}, type : {"directory"},
             ops : {{"Metadata"}, {"Metadata", "List", "Mkdir"}, {"List", "Preview", "Overwrite"}}]
            \cup [root : {<<"/", "a", "/", "b">>}, type : {"file"},
                  ops : {{"Metadata"}, {"Metadata", "Preview"}}]
MCRule(permission, glob, effect) ==
    [permission |-> permission, glob |-> glob, effect |-> effect, enabled |-> TRUE]
MCPreview(glob, effect) == MCRule(<<"file", "Preview">>, glob, effect)
MCList(glob, effect)    == MCRule(<<"directory", "List">>, glob, effect)
MCRoles ==
    {[base |-> {}, rules |-> {}],
     [base |-> ToSet(MCPermissions), rules |-> {}],
     [base |-> {}, rules |-> {MCPreview(<<"/", "a", "/", "b">>, "ALLOW")}],
     [base |-> {}, rules |-> {MCPreview(<<"/", "a", "/", "b">>, "ALLOW"), MCList(<<"/", "a">>, "ALLOW")}],
     [base |-> MCBase, rules |-> {MCPreview(<<"/", "a", "/", "*">>, "DENY")}]}
=============================================================================
