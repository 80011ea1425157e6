------------------------------- MODULE Inputs -------------------------------
(***************************************************************************)
(* The pure parts of the program around a variable `input`, which holds    *)
(* what one of them is given: None, or [alg, x] with the part and its      *)
(* arguments.                                                              *)
(***************************************************************************)
EXTENDS FileSearch, Violations, Labels, Dependencies

VARIABLE input

None == [alg |-> "none"]

Is(alg) == input # None /\ input.alg = alg

(* What the parts can be given, over a set S of texts (names of files,     *)
(* messages, keys and values of labels, words of dependencies).            *)
InputsOver(S) ==
    [scopes |-> [scopes : ScopeLists(S), files : SUBSET S],
     search |-> SearchInputs,
     ranges |-> [m : LabelValues(S), w : LabelValues(S), c : LabelValues(S)],
     selection |-> [expr : Expressions(S), rs : Seq(AllLabels(S)), rules : Seq(Seq(AllLabels(S)))],
     violation |-> [incidents : Seq(Incidents(S)), limit : Nat, snips : Nat,
                    scope : ScopeLists(S), unselected : SUBSET Incidents(S)],
     snippet |-> [lines : Nat, start : Nat, end : Nat, context : Nat],
     deps |-> Seq(Deps(S)),
     clients |-> Seq(Answers(S)),
     depCondition |-> [c : DepConditions(S), deps : DepMaps(S)],
     depSelector |-> [deps : DepMaps(S), incs : SUBSET [uri : Seq(S), dep : BOOLEAN]]]

InputOver(S) == \A alg \in DOMAIN InputsOver(S) : Is(alg) => input.x \in InputsOver(S)[alg]
-----------------------------------------------------------------------------
(* Scopes in the engine and in the file search of the providers do what    *)
(* they say: Scopes!ScopesAgree and the properties of FileSearch.          *)
ScopesHold ==
    /\ Is("scopes") => ScopesAgree(input.x.scopes, input.x.files)
    /\ Is("search") =>
          LET s == input.x.s
              copies == input.x.copies
              tree == input.x.tree
          IN  /\ IndexAgrees(s, tree)
              /\ ScopesRespected(s, copies, tree)
              /\ CopiesReplace(s, copies, tree)
              /\ ChainScopesDown(s, copies, tree)

(* A label selector selects the same rules wherever it is applied, and a   *)
(* wider label is selected by more (engine/labels/labels.go).              *)
LabelsSelect ==
    /\ Is("ranges") => WiderMatchesMore(input.x.m, input.x.w, input.x.c)
    /\ Is("selection") => SelectionAgrees(input.x.expr, input.x.rs, input.x.rules)

(* createViolation and getCodeLocation neither lose nor repeat anything.   *)
ViolationsComplete ==
    /\ Is("violation") => ViolationComplete(input.x.incidents, input.x.limit, input.x.snips,
                                            input.x.scope, input.x.unselected)
    /\ Is("snippet") => SnippetExact(input.x.lines, input.x.start, input.x.end, input.x.context)

(* Deduplication, dependency conditions and the dependency label selector  *)
(* of provider/provider.go find what they should.                          *)
DependenciesFound ==
    /\ Is("deps") => DedupExact(input.x)
    /\ Is("clients") => ClientsHeard(input.x)
    /\ Is("depCondition") => ConditionExact(input.x.c, input.x.deps)
    /\ Is("depSelector") => SelectorExact(input.x.incs, input.x.deps)
=============================================================================
