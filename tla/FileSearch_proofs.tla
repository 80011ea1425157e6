-------------------------- MODULE FileSearch_proofs --------------------------
(***************************************************************************)
(* What a file search promises, for every file tree and every set of       *)
(* constraints.  The proofs go file by file: a lemma says what each stage  *)
(* of search lets through.                                                 *)
(***************************************************************************)
EXTENDS FileSearch, TLAPS

Matched(ps, f) == \E p \in ps : PatternMatched(p, f)

LEMMA FilterIn ==
    ASSUME NEW ps, NEW fs, NEW f
    PROVE  f \in filterFiles(ps, fs, FALSE) <=> f \in fs /\ (ps = {} \/ Matched(ps, f))
<1>1. Matched(ps, f) \in BOOLEAN
  BY DEF Matched
<1> QED
  BY <1>1 DEF filterFiles, Matched

LEMMA FilterOut ==
    ASSUME NEW ps, NEW fs, NEW f
    PROVE  f \in filterFiles(ps, fs, TRUE) <=> f \in fs /\ ~Matched(ps, f)
<1>1. Matched(ps, f) \in BOOLEAN
  BY DEF Matched
<1> QED
  BY <1>1 DEF filterFiles, Matched

\* The stages of search, for one file.
LEMMA SearchKeeps ==
    ASSUME NEW s, NEW reached, NEW f
    PROVE  f \in search(s, reached) <=>
               /\ f \in s.extra \/ f \in scopedFiles(s, reached)
               /\ Patterns(Included(s)) = {} \/ Matched(Patterns(Included(s)), f)
               /\ s.patterns = {} \/ Matched(s.patterns, f)
               /\ s.cond = {} \/ Matched(s.cond, f)
               /\ ~Matched(Excluded(s), f)
<1> DEFINE included == filterFiles(Patterns(Included(s)), s.extra \cup scopedFiles(s, reached), FALSE)
           named == filterFiles(s.patterns, included, FALSE)
           matched == filterFiles(s.cond, named, FALSE)
           all == s.extra \cup scopedFiles(s, reached)
<1>1. f \in search(s, reached) <=> f \in matched /\ ~Matched(Excluded(s), f)
  BY FilterOut DEF search
<1>2. f \in matched <=> f \in named /\ (s.cond = {} \/ Matched(s.cond, f))
  BY FilterIn
<1>3. f \in named <=> f \in included /\ (s.patterns = {} \/ Matched(s.patterns, f))
  BY FilterIn
<1>4. f \in included <=> /\ f \in s.extra \/ f \in scopedFiles(s, reached)
                         /\ Patterns(Included(s)) = {} \/ Matched(Patterns(Included(s)), f)
  <2>1. f \in included <=> f \in all
                          /\ (\/ Patterns(Included(s)) = {}
                              \/ Matched(Patterns(Included(s)), f))
    BY FilterIn, Zenon
  <2> QED
    BY <2>1
<1> QED
  BY <1>1, <1>2, <1>3, <1>4

\* What the three stages of the scope find.
LEMMA Stages ==
    ASSUME NEW s, NEW reached, NEW f
    PROVE  /\ f \in criteriaFiles(s, reached) <=>
                 \/ f \in FilesOf(s.cond)
                 \/ /\ Patterns(s.cond) # {} /\ Matched(Patterns(s.cond), f)
                    /\ f \in s.extra \/ f \in Walk(s.base, reached)
           /\ f \in includedFiles(s, reached) <=>
                 \/ f \in FilesOf(Included(s))
                 \/ f \in reached /\ f.dir \in Dirs(Included(s))
           /\ f \in Walk(s.base, reached) <=> f \in reached /\ f.dir \in s.base
<1>1. f \in Walk(s.base, reached) <=> f \in reached /\ f.dir \in s.base
  BY DEF Walk
<1>2. f \in includedFiles(s, reached) <=>
         f \in FilesOf(Included(s)) \/ (f \in reached /\ f.dir \in Dirs(Included(s)))
  BY DEF includedFiles, Walk
<1>3. f \in filterFiles(Patterns(s.cond), s.extra \cup Walk(s.base, reached), FALSE) <=>
        /\ f \in s.extra \/ f \in Walk(s.base, reached)
        /\ Patterns(s.cond) = {} \/ Matched(Patterns(s.cond), f)
  <2> DEFINE all == s.extra \cup Walk(s.base, reached)
  <2>1. f \in filterFiles(Patterns(s.cond), all, FALSE) <=>
          f \in all /\ (Patterns(s.cond) = {} \/ Matched(Patterns(s.cond), f))
    BY FilterIn, Zenon
  <2> QED
    BY <2>1
<1>4. f \in criteriaFiles(s, reached) <=>
         \/ f \in FilesOf(s.cond)
         \/ /\ Patterns(s.cond) # {} /\ Matched(Patterns(s.cond), f)
            /\ f \in s.extra \/ f \in Walk(s.base, reached)
  BY <1>3 DEF criteriaFiles
<1> QED
  BY <1>1, <1>2, <1>4

-----------------------------------------------------------------------------
(* Search on the file system, with working copies                          *)

CopyOf(copies) == {File(Copied, f.name) : f \in copies}
FSInput(s, copies) == [s EXCEPT !.extra = CopyOf(copies),
                                !.rule.excl = @ \cup {Path(f) : f \in copies}]
Requests == [provider : Constraints, rule : Constraints, cond : SUBSET Paths, extra : {{}},
             base : SUBSET Directories, patterns : SUBSET Paths]

\* What searchFilesFromFS changes of a request.
LEMMA FSRequest ==
    ASSUME NEW s \in Requests, NEW copies
    PROVE  LET t == FSInput(s, copies)
           IN  /\ t.cond = s.cond /\ t.patterns = s.patterns /\ t.base = s.base
               /\ t.extra = CopyOf(copies)
               /\ t.rule.excl = s.rule.excl \cup {Path(f) : f \in copies}
               /\ Included(t) = Included(s)
               /\ t.provider = s.provider
<1> DEFINE t == FSInput(s, copies)
<1>1. /\ t.cond = s.cond /\ t.patterns = s.patterns /\ t.base = s.base
      /\ t.extra = CopyOf(copies) /\ t.provider = s.provider
  BY DEF Requests, FSInput
<1>2. /\ t.rule.excl = s.rule.excl \cup {Path(f) : f \in copies}
      /\ t.rule.incl = s.rule.incl
  BY DEF Requests, FSInput, Constraints
<1> QED
  BY <1>1, <1>2 DEF Included

FSReached(s, copies, tree) ==
    walkDir(tree, {f.dir : f \in tree}, Patterns(Excluded(FSInput(s, copies))))

LEMMA FSSearch ==
    ASSUME NEW s, NEW copies, NEW tree
    PROVE  searchFilesFromFS(s, copies, tree)
             = search(FSInput(s, copies), FSReached(s, copies, tree))
  BY DEF searchFilesFromFS, Search, FSInput, FSReached, CopyOf

LEMMA FSKeeps ==
    ASSUME NEW s \in Requests, NEW copies, NEW tree, NEW f
    PROVE  f \in searchFilesFromFS(s, copies, tree) <=>
               /\ \/ f \in CopyOf(copies)
                  \/ f \in scopedFiles(FSInput(s, copies), FSReached(s, copies, tree))
               /\ Patterns(Included(s)) = {} \/ Matched(Patterns(Included(s)), f)
               /\ s.patterns = {} \/ Matched(s.patterns, f)
               /\ s.cond = {} \/ Matched(s.cond, f)
               /\ ~Matched(Excluded(FSInput(s, copies)), f)
  BY FSSearch, FSRequest, SearchKeeps

(* A chained condition searches nothing but what it was given (paths or    *)
(* patterns): search in provider/lib.go filters by the criteria last.      *)
THEOREM ChainScoped ==
    ASSUME NEW x \in SearchInputs
    PROVE  ChainScopesDown(x.s, x.copies, x.tree)
<1>1. x.s \in Requests
  BY DEF SearchInputs, Requests
<1> QED
  BY <1>1, FSKeeps DEF ChainScopesDown, Matched

LEMMA FSExcluded ==
    ASSUME NEW s \in Requests, NEW copies
    PROVE  /\ s.rule.excl \subseteq Excluded(FSInput(s, copies)) \/ s.rule.excl = {}
           /\ \A f \in copies : Path(f) \in Excluded(FSInput(s, copies))
           /\ s.rule.excl = {} /\ copies # {} =>
                 Excluded(FSInput(s, copies)) = {Path(f) : f \in copies}
           /\ s.rule.excl = {} /\ copies = {} =>
                 Excluded(FSInput(s, copies)) = s.provider.excl
           /\ s.rule.excl # {} /\ copies = {} => Excluded(FSInput(s, copies)) = s.rule.excl
<1>1. /\ FSInput(s, copies).rule.excl = s.rule.excl \cup {Path(f) : f \in copies}
      /\ FSInput(s, copies).provider = s.provider
  BY FSRequest
<1> QED
  BY <1>1 DEF Excluded

\* A file is matched by its path and by the path of its directory, and by
\* what matches it among some of the paths.
LEMMA PathMatches ==
    ASSUME NEW ps, NEW f
    PROVE  /\ f \in FilesOf(ps) => Matched(ps, f)
           /\ f.dir \in Dirs(ps) => Matched(ps, f)
           /\ Matched(Patterns(ps), f) => Matched(ps, f)
<1>1. ASSUME f \in FilesOf(ps) PROVE Matched(ps, f)
  <2>1. PICK p \in ps : p.k = "file" /\ p.f = f
    BY <1>1 DEF FilesOf
  <2>2. PatternMatched(p, f)
    BY <2>1 DEF PatternMatched
  <2> QED
    BY <2>2 DEF Matched
<1>2. ASSUME f.dir \in Dirs(ps) PROVE Matched(ps, f)
  <2>1. PICK p \in ps : p.k = "dir" /\ p.d = f.dir
    BY <1>2 DEF Dirs
  <2>2. PatternMatched(p, f)
    BY <2>1 DEF PatternMatched
  <2> QED
    BY <2>2 DEF Matched
<1>3. Matched(Patterns(ps), f) => Matched(ps, f)
  BY DEF Patterns, Matched
<1> QED
  BY <1>1, <1>2, <1>3

\* The walk of the search finds at least what a walk under the exclusions
\* of the request finds: excluding the originals of working copies prunes
\* nothing.
LEMMA WalkedReached ==
    ASSUME NEW s \in Requests, NEW copies, NEW tree
    PROVE  Walked(s, tree) \subseteq FSReached(s, copies, tree)
<1>1. Patterns(Excluded(FSInput(s, copies))) \subseteq Patterns(Excluded(s))
  <2> SUFFICES ASSUME NEW p \in Excluded(FSInput(s, copies)), p.k \in {"rel", "pattern"}
               PROVE  p \in Excluded(s)
    BY DEF Patterns
  <2>1. \A g \in copies : p # Path(g)
    BY DEF Path
  <2> QED
    BY <2>1, FSRequest DEF Excluded
<1> QED
  BY <1>1 DEF Walked, FSReached, walkDir

\* What is in scope is included, unless an included directory is empty.
LEMMA ScopedIncluded ==
    ASSUME NEW s \in Requests, NEW copies, NEW tree,
           InclusionFound(s, Walked(s, tree)), Included(s) # {},
           Included(s) \subseteq Paths, Patterns(Included(s)) = {},
           NEW f \in scopedFiles(FSInput(s, copies), FSReached(s, copies, tree))
    PROVE  Matched(Included(s), f)
<1> DEFINE t == FSInput(s, copies)
           r == FSReached(s, copies, tree)
<1>0. Included(t) = Included(s)
  BY FSRequest
<1>1. includedFiles(t, r) # {}
  <2>1. CASE Dirs(Included(s)) = {}
    <3>1. PICK p : p \in Included(s)
      OBVIOUS
    <3>2. p.k = "file"
      BY <2>1, <3>1 DEF Dirs, Patterns, Paths
    <3>3. p.f \in FilesOf(Included(s))
      BY <3>1, <3>2 DEF FilesOf
    <3> QED
      BY <1>0, <3>3 DEF includedFiles
  <2>2. CASE Dirs(Included(s)) # {}
    <3>1. PICK g \in Walked(s, tree) : g.dir \in Dirs(Included(s))
      BY <2>2 DEF InclusionFound
    <3>2. g \in r
      BY <3>1, WalkedReached
    <3>3. g \in includedFiles(t, r)
      BY <1>0, <3>1, <3>2, Stages
    <3> QED
      BY <3>3
  <2> QED
    BY <2>1, <2>2
<1>2. f \in includedFiles(t, r)
  BY <1>0, <1>1 DEF scopedFiles, intersectedFiles
<1>3. f \in FilesOf(Included(s)) \/ f.dir \in Dirs(Included(s))
  BY <1>0, <1>2, Stages
<1> QED
  BY <1>3, PathMatches

(* A search returns nothing that the rule's scope excludes or, without one *)
(* and without working copies, the provider's, and nothing outside of the  *)
(* inclusions but working copies: search in provider/lib.go, whichever of  *)
(* its fallbacks found the file.                                           *)
THEOREM ScopesKept ==
    ASSUME NEW x \in SearchInputs
    PROVE  ScopesRespected(x.s, x.copies, x.tree)
<1> DEFINE s == x.s
           copies == x.copies
           tree == x.tree
<1>1. s \in Requests
  BY DEF SearchInputs, Requests
<1> HIDE DEF s, copies, tree
<1> SUFFICES ASSUME NEW f \in searchFilesFromFS(s, copies, tree)
             PROVE  /\ \A p \in s.rule.excl : ~PatternMatched(p, f)
                    /\ s.rule.excl = {} /\ copies = {} =>
                          \A p \in s.provider.excl : ~PatternMatched(p, f)
                    /\ Included(s) # {} /\ InclusionFound(s, Walked(s, tree)) /\ f.dir # Copied =>
                          \E p \in Included(s) : PatternMatched(p, f)
  BY DEF ScopesRespected, s, copies, tree
<1>2. ~Matched(Excluded(FSInput(s, copies)), f)
  BY <1>1, FSKeeps
<1>3. \A p \in s.rule.excl : ~PatternMatched(p, f)
  BY <1>1, <1>2, FSExcluded DEF Matched
<1>4. ASSUME s.rule.excl = {}, copies = {} PROVE \A p \in s.provider.excl : ~PatternMatched(p, f)
  BY <1>1, <1>2, <1>4, FSExcluded DEF Matched
<1>5. ASSUME Included(s) # {}, InclusionFound(s, Walked(s, tree)), f.dir # Copied
      PROVE  Matched(Included(s), f)
  <2>1. CASE Patterns(Included(s)) # {}
    BY <1>1, <2>1, FSKeeps, PathMatches
  <2>2. CASE Patterns(Included(s)) = {}
    <3>1. f \notin CopyOf(copies)
      BY <1>5 DEF CopyOf, File
    <3>2. Included(s) \subseteq Paths
      BY <1>1 DEF Requests, Constraints, Included
    <3>3. f \in scopedFiles(FSInput(s, copies), FSReached(s, copies, tree))
      BY <1>1, <3>1, FSKeeps
    <3> QED
      BY <1>1, <1>5, <2>2, <3>2, <3>3, ScopedIncluded
  <2> QED
    BY <2>1, <2>2
<1> QED
  BY <1>3, <1>4, <1>5 DEF Matched

(* A file with a working copy is not searched itself and, where neither a  *)
(* chain nor patterns narrow the search, its copy is: searchFilesFromFS in *)
(* the builtin provider.                                                   *)
THEOREM CopiesInPlace ==
    ASSUME NEW x \in SearchInputs
    PROVE  CopiesReplace(x.s, x.copies, x.tree)
<1> DEFINE s == x.s
           copies == x.copies
           tree == x.tree
<1>1. s \in Requests /\ copies \subseteq Files
  BY DEF SearchInputs, Requests
<1> HIDE DEF s, copies, tree
<1>2. ASSUME NEW f \in copies, f \in searchFilesFromFS(s, copies, tree) PROVE FALSE
  <2>1. Path(f) \in Excluded(FSInput(s, copies))
    BY <1>1, <1>2, FSExcluded
  <2>2. PatternMatched(Path(f), f)
    BY DEF PatternMatched, Path
  <2> QED
    BY <1>1, <1>2, <2>1, <2>2, FSKeeps DEF Matched
<1>3. ASSUME s.cond = {}, s.patterns = {}, Patterns(Included(s)) = {}, s.rule.excl = {},
             NEW f \in copies
      PROVE  File(Copied, f.name) \in searchFilesFromFS(s, copies, tree)
  <2> DEFINE c == File(Copied, f.name)
  <2>1. c \in CopyOf(copies)
    BY DEF CopyOf
  <2>2. Excluded(FSInput(s, copies)) = {Path(g) : g \in copies}
    BY <1>1, <1>3, FSExcluded
  <2>3. ASSUME NEW g \in copies PROVE ~PatternMatched(Path(g), c)
    <3>1. g.dir # Copied
      BY <1>1, CopiesApart DEF Files
    <3> QED
      BY <3>1 DEF PatternMatched, Path, File
  <2>4. ~Matched(Excluded(FSInput(s, copies)), c)
    BY <2>2, <2>3 DEF Matched
  <2> HIDE DEF c
  <2>5. c \in searchFilesFromFS(s, copies, tree)
    BY <1>1, <1>3, <2>1, <2>4, FSKeeps
  <2> QED
    BY <2>5 DEF c
<1>4. searchFilesFromFS(s, copies, tree) \cap copies = {}
  BY <1>2
<1>5. s.cond = {} /\ s.patterns = {} /\ Patterns(Included(s)) = {} /\ s.rule.excl = {} =>
        {File(Copied, f.name) : f \in copies} \subseteq searchFilesFromFS(s, copies, tree)
  BY <1>3
<1> QED
  BY <1>4, <1>5 DEF CopiesReplace, s, copies, tree

-----------------------------------------------------------------------------
(* The index of Prepare                                                    *)

(* What both searches come to, for the constraints of an IndexComparable   *)
(* request: a file of the tree, or one that the condition names, which no  *)
(* stage leaves out.                                                       *)
Wanted(s, tree, f) ==
    /\ ~Matched(Excluded(s), f)
    /\ s.patterns = {} \/ Matched(s.patterns, f)
    /\ s.cond = {} \/ Matched(s.cond, f)
    /\ Included(s) = {} \/ Matched(Included(s), f)
    /\ f \in tree \/ (f \in FilesOf(s.cond) /\ Patterns(Included(s)) = Included(s))

(* What a walk must reach for that: of the tree, and all of it that the    *)
(* inclusions and exclusions leave.                                        *)
Reaches(s, tree, r) ==
    /\ r \subseteq tree
    /\ InclusionFound(s, r)
    /\ \A f \in tree : ~Matched(Excluded(s), f) /\ (Included(s) = {} \/ Matched(Included(s), f))
                          => f \in r

\* A condition that finds files by paths or patterns has no directories, so
\* a file that it matches is one of those it found.
LEMMA CriteriaFound ==
    ASSUME NEW s \in Requests, NEW u, NEW r, NEW f \in r, f.dir \in s.base,
           u.cond = s.cond, u.base = s.base, u.extra = {},
           Dirs(s.cond) = {} \/ (FilesOf(s.cond) = {} /\ Patterns(s.cond) = {}),
           s.cond = {} \/ Matched(s.cond, f), criteriaFiles(u, r) # {}
    PROVE  f \in criteriaFiles(u, r)
<1>1. PICK g : g \in criteriaFiles(u, r)
  OBVIOUS
<1>2. FilesOf(s.cond) # {} \/ Patterns(s.cond) # {}
  BY <1>1, Stages
<1>3. Dirs(s.cond) = {} /\ s.cond # {}
  BY <1>2 DEF FilesOf, Patterns
<1>4. PICK p \in s.cond : PatternMatched(p, f)
  BY <1>3 DEF Matched
<1>5. p \in Paths /\ p.k # "dir"
  BY <1>3, <1>4 DEF Requests, Dirs
<1>6. p.k \in {"file", "rel", "pattern"}
  BY <1>5 DEF Paths
<1>7. CASE p.k = "file"
  <2>1. p.f = f
    BY <1>4, <1>7 DEF PatternMatched
  <2>2. f \in FilesOf(s.cond)
    BY <1>4, <1>7, <2>1 DEF FilesOf
  <2> QED
    BY <2>2, Stages
<1>8. CASE p.k \in {"rel", "pattern"}
  <2>1. p \in Patterns(s.cond)
    BY <1>4, <1>8 DEF Patterns
  <2>2. Matched(Patterns(s.cond), f) /\ Patterns(s.cond) # {}
    BY <1>4, <2>1 DEF Matched
  <2>3. f \in Walk(u.base, r)
    BY DEF Walk
  <2> QED
    BY <2>2, <2>3, Stages
<1> QED
  BY <1>6, <1>7, <1>8

\* A file of a walk that paths match is among the included files.
LEMMA IncludedFound ==
    ASSUME NEW s \in Requests, NEW u, NEW r, NEW f \in r, Included(u) = Included(s),
           Patterns(Included(s)) = {}, Matched(Included(s), f)
    PROVE  f \in includedFiles(u, r)
<1>1. PICK p \in Included(s) : PatternMatched(p, f)
  BY DEF Matched
<1>2. p \in Paths /\ p.k \notin {"rel", "pattern"}
  BY <1>1 DEF Requests, Constraints, Included, Patterns
<1>3. p.k \in {"file", "dir"}
  BY <1>2 DEF Paths
<1>4. CASE p.k = "file"
  BY <1>1, <1>4, Stages DEF PatternMatched, FilesOf
<1>5. CASE p.k = "dir"
  BY <1>1, <1>5, Stages DEF PatternMatched, Dirs
<1> QED
  BY <1>3, <1>4, <1>5

LEMMA NoPathsIncluded ==
    ASSUME NEW u, NEW r, Patterns(Included(u)) = Included(u)
    PROVE  includedFiles(u, r) = {}
<1>1. FilesOf(Included(u)) = {} /\ Dirs(Included(u)) = {}
  BY DEF FilesOf, Dirs, Patterns
<1> QED
  BY <1>1 DEF includedFiles, Walk

\* With paths for inclusions, there are included files.
LEMMA PathsIncluded ==
    ASSUME NEW s \in Requests, NEW u, NEW r, Included(u) = Included(s),
           Patterns(Included(s)) = {}, Included(s) # {}, InclusionFound(s, r)
    PROVE  includedFiles(u, r) # {}
<1>1. CASE Dirs(Included(s)) = {}
  <2>1. PICK p : p \in Included(s)
    OBVIOUS
  <2>2. p \in Paths /\ p.k \notin {"rel", "pattern"} /\ p.k # "dir"
    BY <1>1, <2>1 DEF Requests, Constraints, Included, Patterns, Dirs
  <2>3. p.k = "file"
    BY <2>2 DEF Paths
  <2>4. p.f \in FilesOf(Included(s))
    BY <2>1, <2>3 DEF FilesOf
  <2> QED
    BY <2>4 DEF includedFiles
<1>2. CASE Dirs(Included(s)) # {}
  <2>1. PICK g \in r : g.dir \in Dirs(Included(s))
    BY <1>2 DEF InclusionFound
  <2>2. g \in includedFiles(u, r)
    BY <2>1, Stages
  <2> QED
    BY <2>2
<1> QED
  BY <1>1, <1>2

\* A search that reaches enough returns what is wanted.
LEMMA SearchWanted ==
    ASSUME NEW s \in Requests, NEW tree, IndexComparable(s, tree),
           NEW u, u.cond = s.cond, u.patterns = s.patterns, u.base = s.base, u.extra = {},
           Included(u) = Included(s), Excluded(u) = Excluded(s),
           NEW r, Reaches(s, tree, r), NEW f
    PROVE  f \in search(u, r) <=> Wanted(s, tree, f)
<1>0. /\ Patterns(Included(s)) \in {{}, Included(s)}
      /\ Dirs(s.cond) = {} \/ (FilesOf(s.cond) = {} /\ Patterns(s.cond) = {})
      /\ FilesOf(Included(s)) \subseteq tree /\ \A g \in tree : g.dir \in s.base
  BY DEF IndexComparable
<1>1. f \in search(u, r) <=>
        /\ f \in scopedFiles(u, r)
        /\ Patterns(Included(s)) = {} \/ Matched(Patterns(Included(s)), f)
        /\ s.patterns = {} \/ Matched(s.patterns, f)
        /\ s.cond = {} \/ Matched(s.cond, f)
        /\ ~Matched(Excluded(s), f)
  BY SearchKeeps
<1>2. ASSUME f \in tree, ~Matched(Excluded(s), f), Included(s) = {} \/ Matched(Included(s), f),
             s.cond = {} \/ Matched(s.cond, f)
      PROVE  f \in r /\ f.dir \in s.base /\ (criteriaFiles(u, r) # {} => f \in criteriaFiles(u, r))
  <2>1. f \in r /\ f.dir \in s.base
    BY <1>0, <1>2 DEF Reaches
  <2> QED
    BY <1>0, <1>2, <2>1, CriteriaFound
<1>3. CASE Patterns(Included(s)) = Included(s)
  <2>1. includedFiles(u, r) = {}
    BY <1>3, NoPathsIncluded
  <2>2. scopedFiles(u, r) = IF criteriaFiles(u, r) # {} THEN criteriaFiles(u, r)
                            ELSE Walk(u.base, r)
    BY <2>1 DEF scopedFiles, intersectedFiles
  <2>3. f \in scopedFiles(u, r) => f \in tree \/ f \in FilesOf(s.cond)
    BY <2>2, Stages DEF Reaches
  <2>4. ASSUME Wanted(s, tree, f) PROVE f \in scopedFiles(u, r)
    <3>1. CASE f \in tree
      BY <1>2, <2>2, <2>4, <3>1, Stages DEF Wanted
    <3>2. CASE f \in FilesOf(s.cond)
      BY <2>2, <3>2, Stages
    <3> QED
      BY <2>4, <3>1, <3>2 DEF Wanted
  <2> QED
    BY <1>1, <1>3, <2>3, <2>4 DEF Wanted
<1>4. CASE Patterns(Included(s)) = {} /\ Included(s) # {}
  <2>1. includedFiles(u, r) # {}
    BY <1>4, PathsIncluded DEF Reaches
  <2>2. scopedFiles(u, r) = IF includedFiles(u, r) \cap criteriaFiles(u, r) # {}
                            THEN includedFiles(u, r) \cap criteriaFiles(u, r)
                            ELSE includedFiles(u, r)
    BY <1>4, <2>1 DEF scopedFiles, intersectedFiles
  <2>3. ASSUME f \in scopedFiles(u, r) PROVE f \in tree /\ Matched(Included(s), f)
    <3>1. f \in includedFiles(u, r)
      BY <2>2, <2>3
    <3>2. \/ f \in FilesOf(Included(s))
          \/ f \in r /\ f.dir \in Dirs(Included(s))
      BY <3>1, Stages
    <3> QED
      BY <1>0, <3>2, PathMatches DEF Reaches
  <2>4. ASSUME Wanted(s, tree, f) PROVE f \in scopedFiles(u, r)
    <3>1. /\ f \in tree /\ Matched(Included(s), f) /\ ~Matched(Excluded(s), f)
          /\ s.cond = {} \/ Matched(s.cond, f)
      BY <1>4, <2>4 DEF Wanted
    <3>2. f \in r /\ (criteriaFiles(u, r) # {} => f \in criteriaFiles(u, r))
      BY <1>2, <3>1
    <3>3. f \in includedFiles(u, r)
      BY <1>4, <3>1, <3>2, IncludedFound
    <3> QED
      BY <2>2, <3>2, <3>3
  <2> QED
    BY <1>1, <1>4, <2>3, <2>4 DEF Wanted
<1> QED
  BY <1>0, <1>3, <1>4

\* A walk enters every directory that has a file left.
LEMMA WalkKeeps ==
    ASSUME NEW s \in Requests, NEW tree, IndexComparable(s, tree),
           NEW ex, ex = s.rule.excl \/ ex = s.provider.excl,
           NEW f \in tree, ~Matched(ex, f)
    PROVE  f \in walkDir(tree, {g.dir : g \in tree}, Patterns(ex))
<1> SUFFICES ASSUME NEW p \in Patterns(ex), p.k = "pattern", f.dir \in p.dirs PROVE FALSE
  BY DEF walkDir
<1>1. p \in ex /\ p \in Patterns(s.rule.excl \cup s.provider.excl)
  BY DEF Patterns
<1>2. f \in p.files
  BY <1>1 DEF IndexComparable
<1>3. PatternMatched(p, f)
  BY <1>2 DEF PatternMatched
<1> QED
  BY <1>1, <1>3 DEF Matched

LEMMA WalkReaches ==
    ASSUME NEW s \in Requests, NEW tree, IndexComparable(s, tree)
    PROVE  Reaches(s, tree, FSReached(s, {}, tree)) /\ Excluded(FSInput(s, {})) = Excluded(s)
<1> DEFINE r == FSReached(s, {}, tree)
<1>1. Excluded(FSInput(s, {})) = Excluded(s)
  BY FSExcluded DEF Excluded
<1>2. r \subseteq tree
  BY DEF FSReached, walkDir
<1>3. InclusionFound(s, r)
  BY WalkedReached DEF IndexComparable, InclusionFound
<1>4. Excluded(s) = s.rule.excl \/ Excluded(s) = s.provider.excl
  BY DEF Excluded
<1>5. ASSUME NEW f \in tree, ~Matched(Excluded(s), f) PROVE f \in r
  BY <1>1, <1>4, <1>5, WalkKeeps DEF FSReached
<1> QED
  BY <1>1, <1>2, <1>3, <1>5 DEF Reaches

IndexInput(s) == [s EXCEPT !.rule = [incl |-> {}, excl |-> {}], !.cond = {},
                           !.patterns = {}, !.extra = {}]

LEMMA IndexRequest ==
    ASSUME NEW s \in Requests
    PROVE  LET i == IndexInput(s)
           IN  /\ i.cond = {} /\ i.patterns = {} /\ i.extra = {} /\ i.base = s.base
               /\ Included(i) = s.provider.incl /\ Excluded(i) = s.provider.excl
  BY DEF Requests, IndexInput, Included, Excluded

LEMMA IndexReaches ==
    ASSUME NEW s \in Requests, NEW tree, IndexComparable(s, tree)
    PROVE  Reaches(s, tree, FileIndex(s, tree))
<1> DEFINE i == IndexInput(s)
           w == walkDir(tree, {g.dir : g \in tree}, Patterns(s.provider.excl))
<1>0. /\ i.cond = {} /\ i.patterns = {} /\ i.extra = {} /\ i.base = s.base
      /\ Included(i) = s.provider.incl /\ Excluded(i) = s.provider.excl
  BY IndexRequest
<1>1. FileIndex(s, tree) = search(i, w)
  BY <1>0 DEF FileIndex, Search, IndexInput
<1> HIDE DEF i
<1>2. w \subseteq tree
  BY DEF walkDir
<1>3. FilesOf(i.cond) = {} /\ Patterns(i.cond) = {}
  BY <1>0 DEF FilesOf, Patterns
<1>4. criteriaFiles(i, w) = {}
  BY <1>3 DEF criteriaFiles
<1>5. s.provider.incl = {} \/ s.provider.incl = Included(s)
  BY DEF IndexComparable, Included
<1>6. scopedFiles(i, w) =
        IF includedFiles(i, w) # {}
        THEN includedFiles(i, w)
             \cup IF Patterns(Included(i)) = {} THEN {}
                  ELSE filterFiles(Patterns(Included(i)), Walk(i.base, w), FALSE)
        ELSE Walk(i.base, w)
  BY <1>4 DEF scopedFiles, intersectedFiles
<1>7. ASSUME NEW f \in FileIndex(s, tree) PROVE f \in tree
  <2>1. f \in scopedFiles(i, w)
    BY <1>0, <1>1, <1>7, SearchKeeps
  <2>2. \/ f \in includedFiles(i, w) \/ f \in Walk(i.base, w)
    BY <1>6, <2>1, FilterIn
  <2>3. f \in FilesOf(s.provider.incl) \/ f \in w
    BY <1>0, <2>2, Stages
  <2>4. FilesOf(s.provider.incl) \subseteq tree
    BY <1>5 DEF IndexComparable, FilesOf
  <2> QED
    BY <1>2, <2>3, <2>4
<1>8. ASSUME NEW f \in tree, ~Matched(Excluded(s), f),
             Included(s) = {} \/ Matched(Included(s), f)
      PROVE  f \in FileIndex(s, tree)
  <2>1. ~Matched(s.provider.excl, f)
    BY <1>8 DEF IndexComparable, Excluded, Matched
  <2>2. f \in w
    BY <2>1, WalkKeeps
  <2>3. f \in Walk(i.base, w)
    BY <1>0, <2>2 DEF IndexComparable, Walk
  <2>4. CASE Patterns(s.provider.incl) = s.provider.incl
    <3>1. includedFiles(i, w) = {}
      BY <1>0, <2>4, NoPathsIncluded
    <3>2. f \in scopedFiles(i, w)
      BY <1>6, <2>3, <3>1
    <3>3. s.provider.incl = {} \/ Matched(s.provider.incl, f)
      BY <1>5, <1>8
    <3> QED
      BY <1>0, <1>1, <2>1, <2>4, <3>2, <3>3, SearchKeeps
  <2>5. CASE Patterns(s.provider.incl) # s.provider.incl
    <3>1. s.provider.incl = Included(s) /\ Included(s) # {}
      BY <1>5, <2>5 DEF Patterns
    <3>2. Patterns(Included(s)) = {} /\ Matched(Included(s), f)
      BY <1>8, <2>5, <3>1 DEF IndexComparable
    <3>3. f \in includedFiles(i, w)
      BY <1>0, <2>2, <3>1, <3>2, IncludedFound
    <3>4. f \in scopedFiles(i, w)
      BY <1>6, <3>3
    <3> QED
      BY <1>0, <1>1, <2>1, <3>1, <3>2, <3>4, SearchKeeps
  <2> QED
    BY <2>4, <2>5
<1> QED
  BY <1>7, <1>8 DEF Reaches, IndexComparable

(* For a request that the index can answer (IndexComparable), evaluating   *)
(* on the index made by Prepare finds exactly the files that walking the   *)
(* file system finds: SearchFromIndex against Search in provider/lib.go,   *)
(* filterCachedFiles against searchFilesFromFS in the builtin provider.    *)
THEOREM IndexFindsSame ==
    ASSUME NEW x \in SearchInputs
    PROVE  IndexAgrees(x.s, x.tree)
<1> DEFINE s == x.s
           tree == x.tree
           c == [s EXCEPT !.extra = {}]
<1>1. s \in Requests
  BY DEF SearchInputs, Requests
<1> HIDE DEF s, tree
<1> SUFFICES ASSUME IndexComparable(s, tree)
             PROVE  filterCachedFiles(s, FileIndex(s, tree)) = searchFilesFromFS(s, {}, tree)
  BY DEF IndexAgrees, s, tree
<1>2. /\ c.cond = s.cond /\ c.patterns = s.patterns /\ c.base = s.base /\ c.extra = {}
      /\ Included(c) = Included(s) /\ Excluded(c) = Excluded(s)
  BY <1>1 DEF Requests, Included, Excluded
<1>3. filterCachedFiles(s, FileIndex(s, tree)) = search(c, FileIndex(s, tree))
  BY DEF filterCachedFiles, SearchFromIndex
<1>4. searchFilesFromFS(s, {}, tree) = search(FSInput(s, {}), FSReached(s, {}, tree))
  BY FSSearch
<1>5. FSInput(s, {}).extra = {}
  BY <1>1, FSRequest DEF CopyOf
<1> HIDE DEF c
<1>6. \A f : f \in search(c, FileIndex(s, tree)) <=> Wanted(s, tree, f)
  BY <1>1, <1>2, IndexReaches, SearchWanted
<1>7. \A f : f \in search(FSInput(s, {}), FSReached(s, {}, tree)) <=> Wanted(s, tree, f)
  BY <1>1, <1>5, WalkReaches, FSRequest, SearchWanted
<1> QED
  BY <1>3, <1>4, <1>6, <1>7
=============================================================================
