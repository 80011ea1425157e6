------------------------------- MODULE Scopes -------------------------------
(***************************************************************************)
(* The scopes of a run (engine/scopes.go): what they put into the context  *)
(* that the conditions of a rule are evaluated in, and which incidents     *)
(* they take away.                                                         *)
(*                                                                         *)
(* A scope is [kind, paths]: the paths that are "included", or the         *)
(* patterns that are "excluded", where a pattern is the set of the files   *)
(* that it matches.  A context has the incidents stored by the chained     *)
(* conditions and the scope entry, with the paths and the patterns.        *)
(* Incidents are the set of their files.                                   *)
(***************************************************************************)
EXTENDS Naturals, Sequences

NoScopes == [filepaths |-> {}, excluded |-> {}]

EmptyContext == [chain |-> <<>>, scope |-> NoScopes]

(* includedPathScope.AddToContext: nothing if any template has file paths; *)
(* otherwise the scope entry is replaced, its excluded patterns with it.   *)
IncludedAddToContext(tmpl, paths) ==
    IF tmpl.scope.filepaths # {} \/ \E n \in DOMAIN tmpl.chain : tmpl.chain[n] # {}
    THEN tmpl
    ELSE [tmpl EXCEPT !.scope = [filepaths |-> paths, excluded |-> {}]]

(* excludedPathsScope.AddToContext.                                        *)
ExcludedAddToContext(tmpl, patterns) == [tmpl EXCEPT !.scope.excluded = patterns]

IncludedFilterResponse(paths, file) == paths # {} /\ file \notin paths

ExcludedFilterResponse(patterns, file) == \E p \in patterns : file \in p

(* scopeWrapper.AddToContext: the context after each of the scopes.        *)
AddScope(tmpl, s) == IF s.kind = "included" THEN IncludedAddToContext(tmpl, s.paths)
                     ELSE ExcludedAddToContext(tmpl, s.paths)

AddToContextSteps(scopes, tmpl) ==
    LET After[n \in 0..Len(scopes)] ==
            IF n = 0 THEN tmpl ELSE AddScope(After[n - 1], scopes[n])
    IN  After

AddToContext(scopes, tmpl) == AddToContextSteps(scopes, tmpl)[Len(scopes)]

FilterResponse(scopes, file) ==
    \E i \in 1..Len(scopes) :
        IF scopes[i].kind = "included"
        THEN IncludedFilterResponse(scopes[i].paths, file)
        ELSE ExcludedFilterResponse(scopes[i].paths, file)

(* ChainTemplate.FilterIncidentsByFilePaths.                               *)
FilterIncidentsByFilePaths(scope, incidents) ==
    {f \in incidents : /\ ~IncludedFilterResponse(scope.filepaths, f)
                       /\ ~ExcludedFilterResponse(scope.excluded, f)}
-----------------------------------------------------------------------------
(* The scopes of a run over the files S: at most one of each kind, the     *)
(* included paths first.                                                   *)
ScopeLists(S) ==
    {s \in Seq([kind : {"included"}, paths : SUBSET S]
               \cup [kind : {"excluded"}, paths : SUBSET SUBSET S]) :
        Len(s) =< 2 /\ (Len(s) = 2 => s[1].kind = "included" /\ s[2].kind = "excluded")}

(* The incidents that pass the scopes put into the context are those that  *)
(* the scopes pass themselves, when the included paths are listed first,   *)
(* so filtering in the provider and again in the engine changes nothing.   *)
ScopesAgree(scopes, files) ==
    FilterIncidentsByFilePaths(AddToContext(scopes, EmptyContext).scope, files)
        = {f \in files : ~FilterResponse(scopes, f)}
=============================================================================
