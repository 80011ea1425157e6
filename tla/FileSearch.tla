----------------------------- MODULE FileSearch -----------------------------
(***************************************************************************)
(* FileSearcher of provider/lib.go: which files a search returns under the *)
(* constraints of the condition, of the rule's scopes and of the provider. *)
(* It is used by the builtin provider, on the file system and on the index *)
(* made by Prepare (searchFilesFromFS and filterCachedFiles).              *)
(*                                                                         *)
(* A file is a record of its directory and its name.  A path or pattern is *)
(*   [k |-> "file", f |-> a file]        the path of a file;               *)
(*   [k |-> "dir", d |-> a directory]    the absolute path of a directory; *)
(*   [k |-> "rel", d |-> a directory]    one relative to the base path,    *)
(*                                       which os.Stat does not find;      *)
(*   [k |-> "pattern", files, dirs]      an expression, as the files and   *)
(*                                       the directories that it matches.  *)
(* A file index is a set, so what dedupSlice does needs no step of its own.*)
(*                                                                         *)
(* Left out: paths with a space, which the code splits there (lib.go:112), *)
(* and a path that is the bare name of a file directly below the base      *)
(* path, which also matches files of that name in any directory (lib.go:   *)
(* 167 and 266).                                                           *)
(***************************************************************************)
EXTENDS Naturals, Sequences, FiniteSets

CONSTANTS Directories,  \* the directories below the base path
          Names         \* the names of files

\* Working copies are kept in a directory of their own.
Copied == "wc"
ASSUME CopiesApart == Copied \notin Directories

Files == [dir : Directories, name : Names]
File(d, n) == [dir |-> d, name |-> n]
Path(f) == [k |-> "file", f |-> f]
Paths == [k : {"file"}, f : Files] \cup [k : {"dir", "rel"}, d : Directories]
         \cup [k : {"pattern"}, files : SUBSET [dir : Directories \cup {Copied}, name : Names],
               dirs : SUBSET Directories]

(* What a search is asked for, by a rule with a scope from a provider with *)
(* one, and the files that have a working copy.                            *)
Constraints == [incl : SUBSET Paths, excl : SUBSET Paths]
SearchInputs ==
    [s : [provider : Constraints, rule : Constraints, cond : SUBSET Paths, extra : {{}},
          base : SUBSET Directories, patterns : SUBSET Paths],
     copies : SUBSET Files, tree : SUBSET Files]

(* splitPathsAndPatterns: a relative directory is not found, hence taken   *)
(* for a pattern (without a wildcard).                                     *)
Dirs(ps) == {p.d : p \in {q \in ps : q.k = "dir"}}
FilesOf(ps) == {p.f : p \in {q \in ps : q.k = "file"}}
Patterns(ps) == {p \in ps : p.k \in {"rel", "pattern"}}

(* What filterFilesByPathsOrPatterns matches: here a relative path is      *)
(* joined with the base path and is found.                                 *)
PatternMatched(p, f) ==
    CASE p.k = "file" -> p.f = f
      [] p.k \in {"dir", "rel"} -> f.dir = p.d
      [] p.k = "pattern" -> f \in p.files

filterFiles(ps, files, filterOut) ==
    IF ps = {} THEN files
    ELSE {f \in files : (\E p \in ps : PatternMatched(p, f)) # filterOut}

(* newCachedWalkDir: directories that an excluded pattern matches are not  *)
(* entered; an excluded directory is compared with a relative path and     *)
(* only the filter at the end removes its files.                           *)
walkDir(tree, dirs, excludedPatterns) ==
    {f \in tree : /\ f.dir \in dirs
                  /\ \A p \in excludedPatterns : p.k = "pattern" => f.dir \notin p.dirs}

(* The exclusions of the rule replace those of the provider.               *)
Excluded(s) == IF s.rule.excl # {} THEN s.rule.excl ELSE s.provider.excl

(* So do its inclusions.                                                   *)
Included(s) == IF s.rule.incl # {} THEN s.rule.incl ELSE s.provider.incl

(* search: s has the constraints, `cond` and `patterns` of the criteria,   *)
(* the files `extra` at the additional paths, and the directories `base`   *)
(* below the base path; `reached` are the files that walks find, a walk of *)
(* a directory those of them below it.                                     *)
Walk(dirs, reached) == {f \in reached : f.dir \in dirs}

criteriaFiles(s, reached) ==
    FilesOf(s.cond)
    \cup IF Patterns(s.cond) = {} THEN {}
         ELSE filterFiles(Patterns(s.cond), s.extra \cup Walk(s.base, reached), FALSE)

includedFiles(s, reached) == FilesOf(Included(s)) \cup Walk(Dirs(Included(s)), reached)

intersectedFiles(s, reached) ==
    IF includedFiles(s, reached) = {} THEN criteriaFiles(s, reached)
    ELSE includedFiles(s, reached) \cap criteriaFiles(s, reached)

scopedFiles(s, reached) ==
    IF intersectedFiles(s, reached) # {} THEN intersectedFiles(s, reached)
    ELSE IF includedFiles(s, reached) # {}
    THEN includedFiles(s, reached)
         \cup IF Patterns(Included(s)) = {} THEN {}
              ELSE filterFiles(Patterns(Included(s)), Walk(s.base, reached), FALSE)
    ELSE Walk(s.base, reached)

search(s, reached) ==
    LET included == filterFiles(Patterns(Included(s)), s.extra \cup scopedFiles(s, reached), FALSE)
        matched == filterFiles(s.cond, filterFiles(s.patterns, included, FALSE), FALSE)
    IN  filterFiles(Excluded(s), matched, TRUE)

(* Search and SearchFromIndex.                                             *)
Search(s, tree) ==
    search(s, walkDir(tree, {f.dir : f \in tree}, Patterns(Excluded(s))))

(* Nothing is pruned in the index.                                         *)
SearchFromIndex(s, index) == search(s, index)
-----------------------------------------------------------------------------
(* The builtin provider                                                    *)

(* Prepare: the index is a search with the constraints of the provider.    *)
FileIndex(s, tree) ==
    Search([s EXCEPT !.rule = [incl |-> {}, excl |-> {}], !.cond = {},
                     !.patterns = {}, !.extra = {}], tree)

(* searchFilesFromFS: a file with a working copy is excluded by the scope  *)
(* of the rule, and the copy is an additional path.                        *)
\* Mutant: the originals stay.
searchFilesBoth(s, copies, tree) ==
    Search([s EXCEPT !.extra = {File(Copied, f.name) : f \in copies}], tree)

searchFilesFromFS(s, copies, tree) ==
    Search([s EXCEPT !.extra = {File(Copied, f.name) : f \in copies},
                     !.rule.excl = @ \cup {Path(f) : f \in copies}], tree)

(* filterCachedFiles.                                                      *)
filterCachedFiles(s, index) == SearchFromIndex([s EXCEPT !.extra = {}], index)
-----------------------------------------------------------------------------
(* Properties, for one search                                              *)

(* An included directory in which a walk that finds `files` has nothing is *)
(* taken for no inclusion at all: search goes on with the base path.       *)
InclusionFound(s, files) ==
    Dirs(Included(s)) = {} \/ \E f \in files : f.dir \in Dirs(Included(s))
Walked(s, tree) == walkDir(tree, s.base, Patterns(Excluded(s)))

(* Evaluating from the index of Prepare finds the files that the walk of   *)
(* the file system finds (SearchFromIndex, "applies the same filtering     *)
(* logic as Search"), provided that                                        *)
(*   - the rule's scope lifts no inclusion or exclusion of the provider,   *)
(*     for the index cannot have the files;                                *)
(*   - a walk finds something in the included directories, either way;     *)
(*   - the inclusions are all paths or all patterns, and the condition     *)
(*     does not ask for a directory along with files or patterns: what     *)
(*     they have in common decides whether a search falls back on less     *)
(*     narrow ones, and that is looked at before the exclusions;           *)
(*   - the files and directories are below the base path, and an excluded  *)
(*     pattern that keeps a walk out of a directory matches its files.     *)
IndexComparable(s, tree) ==
    /\ s.rule.incl = {} \/ s.provider.incl = {}
    /\ s.rule.excl = {} \/ s.provider.excl = {}
    /\ InclusionFound(s, FileIndex(s, tree)) /\ InclusionFound(s, Walked(s, tree))
    /\ Patterns(Included(s)) \in {{}, Included(s)}
    /\ Dirs(s.cond) = {} \/ (FilesOf(s.cond) = {} /\ Patterns(s.cond) = {})
    /\ FilesOf(Included(s)) \subseteq tree /\ \A f \in tree : f.dir \in s.base
    /\ \A p \in Patterns(s.rule.excl \cup s.provider.excl) :
          p.k = "pattern" => {f \in tree : f.dir \in p.dirs} \subseteq p.files

IndexAgrees(s, tree) ==
    IndexComparable(s, tree) =>
        filterCachedFiles(s, FileIndex(s, tree)) = searchFilesFromFS(s, {}, tree)

(* A search never returns a file that the rule's scope excludes or, when   *)
(* there is none, the provider, whichever way the file was found, nor one  *)
(* outside of the inclusions, except for working copies.                   *)
ScopesRespected(s, copies, tree) ==
    \A f \in searchFilesFromFS(s, copies, tree) :
        /\ \A p \in s.rule.excl : ~PatternMatched(p, f)
        /\ s.rule.excl = {} /\ copies = {} =>
              \A p \in s.provider.excl : ~PatternMatched(p, f)
        /\ Included(s) # {} /\ InclusionFound(s, Walked(s, tree)) /\ f.dir # Copied =>
              \E p \in Included(s) : PatternMatched(p, f)

(* A file with a working copy is never searched itself, and in a search    *)
(* without a chain and without patterns of the scope its copy is.          *)
CopiesReplace(s, copies, tree) ==
    /\ searchFilesFromFS(s, copies, tree) \cap copies = {}
    /\ s.cond = {} /\ s.patterns = {} /\ Patterns(Included(s)) = {} /\ s.rule.excl = {} =>
          {File(Copied, f.name) : f \in copies} \subseteq searchFilesFromFS(s, copies, tree)

(* A chained condition that was given paths searches no other files; one   *)
(* that is given patterns only what they match.                            *)
ChainScopesDown(s, copies, tree) ==
    s.cond # {} => \A f \in searchFilesFromFS(s, copies, tree) :
                       \E p \in s.cond : PatternMatched(p, f)
=============================================================================
