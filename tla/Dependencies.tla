---------------------------- MODULE Dependencies ----------------------------
(***************************************************************************)
(* Dependencies and provider conditions (provider/provider.go): how the    *)
(* answers of the service clients of a provider are put together, what a   *)
(* dependency condition matches, and which incidents the dependency label  *)
(* selector of a provider condition leaves.                                *)
(*                                                                         *)
(* A text is a sequence of words, so that putting texts one behind the     *)
(* other, and asking for a prefix, do what they do in the code.  A         *)
(* dependency is a record: name, ver, res (the resolved identifier),       *)
(* indirect, base (what Extras has under baseDep, or NoBase), prefix (the  *)
(* directory of its files, without a slash behind it, or NoPrefix) and     *)
(* kept (whether the label selector keeps it).  A version is its text and  *)
(* what can be read of it: "plain" is the number n, with the prerelease p  *)
(* when p # 0 (5.0-SNAPSHOT); of "suffix" only the number is read          *)
(* (5.0.Final); of "other" nothing is.                                     *)
(***************************************************************************)
EXTENDS Integers, Sequences

NoVersion == [text |-> <<>>, k |-> "none", n |-> 0, p |-> 0]
NoBase == <<>>
NoPrefix == <<>>
-----------------------------------------------------------------------------
(* Answers of several service clients                                      *)

Id(d) == d.name \o d.ver.text \o d.res
DirectKey(d) == Append(Id(d), "direct")
IndirectKey(d) == Append(Append(Id(d), "in"), "direct")

Put(f, k, v) == [x \in DOMAIN f \cup {k} |-> IF x = k THEN v ELSE f[x]]

\* Mutant: the first occurrence says whether a dependency is direct.
AddDepFirst(acc, d) ==
    IF {DirectKey(d), IndirectKey(d)} \cap DOMAIN acc.seen # {} THEN acc
    ELSE [out |-> Append(acc.out, d),
          seen |-> Put(acc.seen, IF d.indirect THEN IndirectKey(d) ELSE DirectKey(d),
                       Len(acc.out) + 1)]

(* One turn of the loop of deduplicateDependencies over the list of a      *)
(* file: out is what is kept so far and seen says where, under keys that   *)
(* are texts put together.                                                 *)
AddDep(acc, d) ==
    IF DirectKey(d) \in DOMAIN acc.seen THEN acc
    ELSE IF IndirectKey(d) \in DOMAIN acc.seen
         THEN IF d.indirect THEN acc
              ELSE LET at == acc.seen[IndirectKey(d)]
                   IN  [out |-> [acc.out EXCEPT ![at] = [@ EXCEPT !.indirect = FALSE]],
                        seen |-> Put(acc.seen, DirectKey(d), at)]
         ELSE [out |-> Append(acc.out, d),
               seen |-> Put(acc.seen, IF d.indirect THEN IndirectKey(d) ELSE DirectKey(d),
                            Len(acc.out) + 1)]

NoneSeen == [out |-> <<>>, seen |-> <<>>]

DedupSteps(ds) ==
    LET After[n \in 0..Len(ds)] == IF n = 0 THEN NoneSeen ELSE AddDep(After[n - 1], ds[n])
    IN  After

Dedup(ds) == DedupSteps(ds)[Len(ds)].out

deduplicateDependencies(deps) == [u \in DOMAIN deps |-> Dedup(deps[u])]

Override(f, g) == [u \in DOMAIN f \cup DOMAIN g |-> IF u \in DOMAIN g THEN g[u] ELSE f[u]]

NoDeps == [err |-> TRUE, deps |-> <<>>]

(* FullDepDAGResponse: the list of a later client replaces the one of the  *)
(* same file; one client that fails fails the call.                        *)
DepDAGSteps(answers) ==
    LET After[n \in 0..Len(answers)] ==
            IF n = 0 THEN [err |-> FALSE, deps |-> <<>>]
            ELSE LET acc == After[n - 1]
                     r == answers[n]
                 IN  IF acc.err \/ r.err THEN NoDeps
                     ELSE [err |-> FALSE, deps |-> Override(acc.deps, r.deps)]
    IN  After

FullDepDAGResponse(answers) == DepDAGSteps(answers)[Len(answers)]

(* FullDepsResponse: the same, with the lists deduplicated after each.     *)
DepsSteps(answers) ==
    LET After[n \in 0..Len(answers)] ==
            IF n = 0 THEN [err |-> FALSE, deps |-> <<>>]
            ELSE LET acc == After[n - 1]
                     r == answers[n]
                 IN  IF acc.err \/ r.err THEN NoDeps
                     ELSE [err |-> FALSE,
                           deps |-> deduplicateDependencies(Override(acc.deps, r.deps))]
    IN  After

FullDepsResponse(answers) == DepsSteps(answers)[Len(answers)]

(* FullResponseFromServiceClients: clients are asked in turn until one     *)
(* fails.                                                                  *)
ResponseSteps(answers) ==
    LET After[n \in 0..Len(answers)] ==
            IF n = 0 THEN [err |-> FALSE, matched |-> FALSE, incidents |-> <<>>, context |-> <<>>]
            ELSE LET acc == After[n - 1]
                     r == answers[n]
                 IN  IF acc.err THEN acc
                     ELSE IF r.err THEN [acc EXCEPT !.err = TRUE]
                     ELSE [err |-> FALSE, matched |-> acc.matched \/ r.matched,
                           incidents |-> acc.incidents \o r.incidents,
                           context |-> Override(acc.context, r.context)]
    IN  After

FullResponseFromServiceClients(answers) == ResponseSteps(answers)[Len(answers)]
-----------------------------------------------------------------------------
(* Dependency conditions: c is [name, regex, lower, upper], regex the set  *)
(* of the names that the expression matches, {} when there is none         *)

Reading(n, p) == [ok |-> TRUE, n |-> n, p |-> p]
NoReading == [ok |-> FALSE, n |-> 0, p |-> 0]

getVersion(v) ==
    IF v.k = "plain" THEN Reading(v.n, v.p)
    ELSE IF v.k = "suffix" THEN Reading(v.n, 0)
    ELSE NoReading

\* go-version: a prerelease comes before its release.
Before(a, b) == a.n < b.n \/ (a.n = b.n /\ a.p # 0 /\ (b.p = 0 \/ a.p < b.p))

\* go-version: a prerelease meets no bound but a prerelease of the same number.
prereleaseCheck(v, b) == v.p # 0 => b.p # 0 /\ b.n = v.n

InBounds(c, v) ==
    /\ c.lower # NoVersion =>
          prereleaseCheck(v, getVersion(c.lower)) /\ ~Before(v, getVersion(c.lower))
    /\ c.upper # NoVersion =>
          prereleaseCheck(v, getVersion(c.upper)) /\ ~Before(getVersion(c.upper), v)

(* The positions in a list that match by name: nothing after the first     *)
(* dependency with the very name is looked at.                             *)
NameMatches(c, ds) ==
    {i \in 1..Len(ds) :
        /\ ds[i].name = c.name \/ ds[i].name \in c.regex
        /\ \A h \in 1..i - 1 : ds[h].name # c.name}

Unbounded(c, d) == d.ver = NoVersion \/ (c.lower = NoVersion /\ c.upper = NoVersion)

(* DependencyCondition.Evaluate.  One version that cannot be read, of a    *)
(* dependency or of a bound, fails the condition.  The location is asked   *)
(* for the base dependency only where the bounds were looked at.           *)
DependencyEvaluate(c, deps) ==
    LET found == UNION {{<<u, deps[u][i]>> : i \in NameMatches(c, deps[u])} : u \in DOMAIN deps}
        asked == {p \in found : ~Unbounded(c, p[2])}
        bad == asked # {} /\ (\/ \E p \in asked : ~getVersion(p[2].ver).ok
                              \/ \E b \in {c.lower, c.upper} \ {NoVersion} : ~getVersion(b).ok)
        in == {p \in asked : InBounds(c, getVersion(p[2].ver))} \cup (found \ asked)
        Incident(p) == [uri |-> p[1], name |-> p[2].name, ver |-> p[2].ver,
                        at |-> IF p \in asked /\ p[2].base # NoBase
                               THEN p[2].base ELSE p[2].name]
    IN  IF bad THEN [err |-> TRUE, matched |-> FALSE, incidents |-> {}]
        ELSE [err |-> FALSE, matched |-> in # {}, incidents |-> {Incident(p) : p \in in}]
-----------------------------------------------------------------------------
(* Provider conditions: an incident is [uri, dep], the text of its file    *)
(* (<<>> without one) and whether it is in a dependency                    *)

HasPrefix(text, prefix) ==
    Len(prefix) =< Len(text) /\ \A i \in 1..Len(prefix) : text[i] = prefix[i]

matchDepLabelSelector(useSelector, inc, deps) ==
    \/ ~inc.dep \/ ~useSelector \/ DOMAIN deps = {} \/ inc.uri = <<>>
    \/ \E u \in DOMAIN deps : \E i \in 1..Len(deps[u]) :
          LET d == deps[u][i] IN d.kept /\ d.prefix # NoPrefix /\ HasPrefix(inc.uri, d.prefix)

(* ProviderCondition.Evaluate, of an answer without error, with the set of *)
(* its incidents.  The condition still says that it matched when the       *)
(* selector leaves no incident.                                            *)
ProviderEvaluate(resp, useSelector, deps) ==
    IF resp.incidents = {} THEN [matched |-> FALSE, incidents |-> {}]
    ELSE [matched |-> resp.matched,
          incidents |-> {i \in resp.incidents :
              matchDepLabelSelector(useSelector, i, deduplicateDependencies(deps))}]
-----------------------------------------------------------------------------
(* What is given to them, over the words S                                 *)

Texts(S) == Seq(S) \ {<<>>}
DepVersions(S) ==
    [text : Texts(S), k : {"plain"}, n : Nat, p : Nat]
    \cup [text : Texts(S), k : {"suffix"}, n : Nat, p : {0}]
    \cup [text : Texts(S), k : {"other"}, n : {0}, p : {0}]
    \cup {NoVersion}
Deps(S) == [name : Texts(S), ver : DepVersions(S), res : Seq(S), indirect : BOOLEAN,
            base : Seq(S), prefix : Seq(S), kept : BOOLEAN]
DepMaps(S) == UNION {[U -> Seq(Deps(S))] : U \in SUBSET S}
Answers(S) ==
    [err : BOOLEAN, matched : BOOLEAN, incidents : Seq(S), deps : DepMaps(S),
     context : UNION {[U -> S] : U \in SUBSET S}]
DepConditions(S) ==
    [name : Seq(S), regex : SUBSET Seq(S), lower : DepVersions(S), upper : DepVersions(S)]
-----------------------------------------------------------------------------
(* Properties                                                              *)

Coord(d) == <<d.name, d.ver, d.res>>

(* The keys of deduplicateDependencies tell the dependencies of a list     *)
(* apart.  Those of lib1 in version 1.0 and of lib in version 11.0 do not, *)
(* nor do those of two whose texts differ by an "in" at their end.         *)
NoClash(ds) ==
    \A i, k \in 1..Len(ds) :
        /\ Id(ds[i]) = Id(ds[k]) => Coord(ds[i]) = Coord(ds[k])
        /\ Id(ds[i]) # Append(Id(ds[k]), "in")

(* What deduplicateDependencies leaves, out[k], is what it was given at    *)
(* at[k], in that order, at most made direct, and no two have the same     *)
(* text.  Where the keys tell dependencies apart, the first of those alike *)
(* is left, it is direct exactly when one of them is, and doing it again   *)
(* changes nothing (FullDepsResponse does it once for every client).       *)
DedupExact(ds) ==
    LET out == Dedup(ds)
        First(i) == \A h \in 1..i - 1 : Coord(ds[h]) # Coord(ds[i])
    IN  /\ \E at \in [1..Len(out) -> 1..Len(ds)] :
              /\ \A i, k \in 1..Len(out) : i < k => at[i] < at[k]
              /\ \A k \in 1..Len(out) : /\ out[k] = [ds[at[k]] EXCEPT !.indirect = out[k].indirect]
                                        /\ out[k].indirect => ds[at[k]].indirect
              /\ NoClash(ds) =>
                    \A i \in 1..Len(ds) : First(i) <=> \E k \in 1..Len(out) : at[k] = i
        /\ \A i, k \in 1..Len(out) : Id(out[i]) = Id(out[k]) => i = k
        /\ NoClash(ds) =>
              /\ \A k \in 1..Len(out) :
                    out[k].indirect <=>
                        \A i \in 1..Len(ds) : Coord(ds[i]) = Coord(out[k]) => ds[i].indirect
              /\ Dedup(out) = out

(* Whichever client of a provider knows it: the answers of its clients to  *)
(* one question, put together, have every incident, and a dependency is    *)
(* lost only where a later client lists the same file, or where the keys   *)
(* of deduplicateDependencies do not tell it from another of its file.     *)
ClientsHeard(answers) ==
    LET r == FullResponseFromServiceClients(answers)
        d == FullDepsResponse(answers)
        dag == FullDepDAGResponse(answers)
        n == Len(answers)
        Coords(ds) == {Coord(ds[i]) : i \in 1..Len(ds)}
    IN  /\ r.err <=> \E i \in 1..n : answers[i].err
        /\ d.err = r.err /\ dag.err = r.err
        /\ ~r.err =>
             /\ r.matched <=> \E i \in 1..n : answers[i].matched
             /\ \A i \in 1..n : \A h \in 1..Len(answers[i].incidents) :
                   \E k \in 1..Len(r.incidents) : r.incidents[k] = answers[i].incidents[h]
             /\ \A i \in 1..n : \A u \in DOMAIN answers[i].deps :
                   (\A k \in i + 1..n : u \notin DOMAIN answers[k].deps) =>
                      /\ u \in DOMAIN d.deps
                      /\ NoClash(answers[i].deps[u]) =>
                            Coords(d.deps[u]) = Coords(answers[i].deps[u])
                      /\ u \in DOMAIN dag.deps /\ dag.deps[u] = answers[i].deps[u]

(* A condition on a name, or on an expression for names, finds no          *)
(* dependency outside of the bounds and every release inside, where a name *)
(* occurs once in a list; and it finds the same in the deduplicated lists. *)
(* A prerelease inside of the bounds may be missed: go-version takes one   *)
(* only next to a bound that is a prerelease of the same number.           *)
ConditionExact(c, deps) ==
    LET r == DependencyEvaluate(c, deps)
        again == DependencyEvaluate(c, deduplicateDependencies(deps))
        Once(ds) == \A i, k \in 1..Len(ds) : ds[i].name = ds[k].name => i = k
        Named(d) == d.name = c.name \/ d.name \in c.regex
        Within(v) == v # NoVersion => /\ c.lower = NoVersion \/ ~Before(v, c.lower)
                                      /\ c.upper = NoVersion \/ ~Before(c.upper, v)
        Inside(d) == Named(d) /\ Within(d.ver)
        Seen(a) == {<<i.uri, i.name>> : i \in a.incidents}
    IN  /\ ~r.err => \A x \in Seen(r) : \E u \in DOMAIN deps : \E i \in 1..Len(deps[u]) :
              x = <<u, deps[u][i].name>> /\ Inside(deps[u][i])
        /\ ~r.err /\ (c.name = <<>> \/ c.regex = {}) /\ (\A u \in DOMAIN deps : Once(deps[u])) =>
              \A u \in DOMAIN deps : \A i \in 1..Len(deps[u]) :
                 Inside(deps[u][i]) /\ deps[u][i].ver.p = 0 => <<u, deps[u][i].name>> \in Seen(r)
        /\ (\A u \in DOMAIN deps : NoClash(deps[u])) =>
              r.err = again.err /\ r.matched = again.matched /\ Seen(r) = Seen(again)

(* The dependency label selector keeps the incidents in files below the    *)
(* directory of a dependency it keeps, and takes away those of             *)
(* dependencies in whose files the directory of none is a prefix of the    *)
(* text, although the list is deduplicated first, where dependencies alike *)
(* have the same labels and files.  Between the two are the files of       *)
(* .../1.10, which stay for a directory .../1.1.                           *)
SelectorExact(incs, deps) ==
    LET kept == ProviderEvaluate([matched |-> TRUE, incidents |-> incs], TRUE, deps).incidents
        alike == \A u \in DOMAIN deps :
                    /\ NoClash(deps[u])
                    /\ \A i, k \in 1..Len(deps[u]) : Coord(deps[u][i]) = Coord(deps[u][k]) =>
                          deps[u][i].kept = deps[u][k].kept /\ deps[u][i].prefix = deps[u][k].prefix
        Some(uri, end) ==
            \E u \in DOMAIN deps : \E i \in 1..Len(deps[u]) :
                /\ deps[u][i].kept /\ deps[u][i].prefix # NoPrefix
                /\ HasPrefix(uri, deps[u][i].prefix \o end)
    IN  (DOMAIN deps # {} /\ alike /\ \A i \in incs : i.uri # <<>>) =>
          \A i \in incs : /\ ~i.dep \/ Some(i.uri, <<"/">>) => i \in kept
                          /\ i \in kept => ~i.dep \/ Some(i.uri, <<>>)
=============================================================================
