------------------------------- MODULE MCParts -------------------------------
(***************************************************************************)
(* The parts of the program around the engine and the caches.  A behaviour *)
(* runs one of the machines (ProviderStart, ProgressBus, GrpcPrepare and   *)
(* RuleLoader), or goes through the inputs of the pure parts one at a      *)
(* time: `which` says which of them it is and never changes.               *)
(***************************************************************************)
EXTENDS ProviderStart, ProgressBus, GrpcPrepare, RuleLoader, Inputs

CONSTANTS Nil, Error, Panic     \* see GrpcWire

VARIABLE which

vars == <<which, input, startVars, busVars, prepareVars, loadVars>>

Cond == INSTANCE RuleConditions
G == INSTANCE GrpcWire
P == INSTANCE LspWire

UpTo(S, n) == UNION {[1..m -> S] : m \in 0..n}
NonEmpty(S, n) == UpTo(S, n) \ {<<>>}
-----------------------------------------------------------------------------
(* Inputs of the pure parts                                                *)

Leaf(from, as, not, hits, provider) ==
    [op |-> "leaf", from |-> from, as |-> as, ignore |-> FALSE, not |-> not, hits |-> hits,
     kids |-> <<>>, provider |-> provider]
Nested(op, not, kids) ==
    [op |-> op, from |-> "", as |-> "", ignore |-> FALSE, not |-> not, hits |-> {},
     kids |-> kids, provider |-> "ok"]

(* A `when` with two entries, each a condition or a list of conditions;    *)
(* and one with three conditions, linked in every way.                     *)
Whens ==
    LET Inner == {Leaf("", "", FALSE, h, p) : h \in {{}, {"f"}}, p \in {"ok", "missing"}}
        Outer == {Leaf("", "", n, h, p) : n \in BOOLEAN, h \in {{}, {"f"}}, p \in {"ok", "missing", "none", "bad"}}
                 \cup {Nested(op, n, k) : op \in {"and", "or"}, n \in BOOLEAN, k \in NonEmpty(Inner, 2)}
    IN  {Nested(op, FALSE, k) : op \in {"and", "or"}, k \in NonEmpty(Outer, 2)}
Chains ==
    LET Linked == {Leaf(from, as, FALSE, {}, "ok") : from \in {"", "x", "y"}, as \in {"", "x", "y"}}
    IN  {Nested("and", FALSE, k) : k \in NonEmpty(Linked, 3)}

Scoped ==
    LET Inclusions == [kind : {"included"}, paths : SUBSET {"f", "g", "h"}]
        Exclusions == [kind : {"excluded"}, paths : SUBSET {{"f"}, {"f", "g"}, {"h"}}]
    IN  [scopes : {<<>>} \cup {<<s>> : s \in Inclusions \cup Exclusions}
                  \cup {<<i, e>> : i \in Inclusions, e \in Exclusions},
         files : {{"f", "g", "h"}}]

Tree == {File("d1", "a"), File("d1", "b"), File("d2", "c")}
Searches ==
    LET Ps == {{}, {Path(File("d1", "a"))}, {[k |-> "dir", d |-> "d1"]}, {[k |-> "dir", d |-> "d2"]},
               {[k |-> "rel", d |-> "d2"]},
               {[k |-> "pattern", files |-> {File("d2", "c")}, dirs |-> {"d2"}]}}
        Scope == [incl : Ps, excl : Ps]
    IN  [s : [provider : Scope, rule : Scope, cond : Ps, extra : {{}}, base : {{"d1", "d2"}},
              patterns : {{}, {[k |-> "pattern", files |-> {File("d1", "a"), File("d2", "c")},
                                dirs |-> {}]}}],
         copies : {{}, {File("d1", "a")}}, tree : {Tree}]

Ranges == LET Of == [name : {"eap"}, ver : 1..3, sym : {"", "+", "-"}]
          IN  [m : Of, w : Of, c : [name : {"eap"}, ver : 0..3, sym : {""}]]
Selections ==
    LET Lab == {Label("t", NoValue), Label("t", Value("eap", 1, "")),
                Label("s", Value("eap", 2, "+")),
                Label(IncludeKey, SelectAlways), Label(IncludeKey, SelectNever)}
        Atom == {[op |-> "label", key |-> "t", val |-> Value("eap", 1, ""), l |-> 0, r |-> 0],
                 [op |-> "label", key |-> "s", val |-> Value("eap", 3, ""), l |-> 0, r |-> 0],
                 [op |-> "label", key |-> "t", val |-> NoValue, l |-> 0, r |-> 0]}
        Part(op, l, r) == [op |-> op, key |-> "", val |-> NoValue, l |-> l, r |-> r]
    IN  [expr : {<<a>> : a \in Atom} \cup {<<a, Part("not", 1, 1)>> : a \in Atom}
                \cup {<<a, b, Part(op, 1, 2)>> : a, b \in Atom, op \in {"and", "or"}}
                \cup {<<a, b, Part("not", 2, 2), Part(op, 1, 3)>> :
                         a, b \in Atom, op \in {"and", "or"}},
         rs : UpTo(Lab, 1), rules : UpTo(UpTo(Lab, 1), 2)]
Found ==
    LET Inc == {[file |-> f, line |-> 1, message |-> m, place |-> p] :
                    f \in {"f", "g"}, m \in {"m", "n"}, p \in BOOLEAN}
               \cup {[file |-> "f", line |-> 0, message |-> "m", place |-> FALSE]}
    IN  [incidents : UpTo(Inc, 3), limit : 0..2, snips : 0..2,
         scope : {<<>>, <<[kind |-> "excluded", paths |-> {{"g"}}]>>},
         unselected : {{}, {i \in Inc : i.line = 0}}]
Snippets == [lines : 0..4, start : 0..4, end : 0..6, context : 0..2]

Ver(text, k, n, p) == [text |-> text, k |-> k, n |-> n, p |-> p]
V1 == Ver(<<"1">>, "plain", 1, 0)
V2Final == Ver(<<"2", ".Final">>, "suffix", 2, 0)
V1Snapshot == Ver(<<"1", "-snapshot">>, "plain", 1, 1)
V2Snapshot == Ver(<<"2", "-snapshot">>, "plain", 2, 1)
Vers == {NoVersion, V1, V2Final, V1Snapshot, V2Snapshot, Ver(<<"x">>, "other", 0, 0)}
Dep(n, v, r, i) == [name |-> n, ver |-> v, res |-> r, indirect |-> i,
                    base |-> IF i THEN <<"a">> ELSE NoBase,
                    prefix |-> IF n = <<"c">> THEN NoPrefix ELSE <<"m2">> \o n,
                    kept |-> n # <<"b">>]
\* The texts of the second and the third are the same, that of the fourth
\* and the first differ by an "in".
DepLists ==
    LET Some == {<<<<"a">>, NoVersion>>, <<<<"b", "1">>, NoVersion>>, <<<<"b">>, V1>>,
                 <<<<"a", "in">>, NoVersion>>}
    IN  UpTo({Dep(p[1], p[2], <<>>, i) : p \in Some, i \in BOOLEAN}, 4)
DepQuestions ==
    LET Some == {Dep(n, v, <<"r">>, n = <<"b">>) : n \in {<<"a">>, <<"b">>}, v \in Vers}
    IN  [deps : [u : UpTo(Some, 2), v : UpTo(Some, 1)],
         c : [name : {<<"a">>}, regex : {{}}, lower : {NoVersion, V1, V1Snapshot},
              upper : {NoVersion, V1, V2Final}]
             \cup [name : {<<>>}, regex : {{<<"a">>, <<"b">>}}, lower : {NoVersion}, upper : Vers]]
ClientAnswers ==
    LET a(i) == Dep(<<"a">>, NoVersion, <<"r">>, i)
    IN  UpTo([err : BOOLEAN, matched : BOOLEAN, incidents : {<<>>, <<"i">>}, context : {<<>>},
              deps : {<<>>, [u |-> <<a(TRUE), a(FALSE)>>]}], 2)
DepGraphs == LET Node == {"a", "b"}
                 Leaves == [dep : Node, added : {<<>>}]
             IN  UpTo([dep : Node, added : UpTo(Leaves, 2)], 2)
Selectors ==
    LET Name == {<<"a", "1.1">>, <<"a", "1.1", "0">>, <<"b">>, <<"c">>}
        Uri == {<<"m2">> \o n \o <<"/", "f">> : n \in Name} \cup {<<"x">>}
    IN  [deps : {<<>>} \cup [u : UpTo({Dep(n, NoVersion, <<>>, i) : n \in Name, i \in BOOLEAN}, 2)],
         incs : {{[uri |-> f, dep |-> TRUE], [uri |-> f, dep |-> FALSE]} : f \in Uri}]

Number == [k |-> "int"]
Typed == [k |-> "typed", of |-> <<Number>>]
Around(S, n) == S \cup [k : {"list", "map"}, of : UpTo(S, n)]
                  \cup [k : {"imap"}, of : UpTo(S, n), text : BOOLEAN]
Proxies == {Nil, [HTTPProxy |-> "set", HTTPSProxy |-> "zero", NoProxy |-> "set"]}
Configs ==
    LET Atom == {G!NilValue, Number, Typed, G!NilMap, [k |-> "niltyped"]}
    IN  [v : Around(Around(Atom, 2), 1), proxy : Proxies, icProxy : Proxies]
Place == [StartPosition |-> [Line |-> "zero", Character |-> "set"], EndPosition |-> G!ZeroPosition]
WireAnswers ==
    LET Vars == {G!NilMap} \cup [k : {"map"}, of : UpTo({Number, Typed, [k |-> "bytes"]}, 1)]
        Inc == [FileURI : {"set"}, Effort : {Nil, "zero"}, CodeLocation : {Nil, Place},
                LineNumber : {Nil, "zero", "set"}, Variables : Vars,
                Links : {Nil, <<>>, <<[Url |-> "set", Title |-> "zero"]>>},
                IsDependencyIncident : {"zero", "set"}]
    IN  [matched : {"zero", "set"}, context : Vars, incidents : UpTo(Inc, 1)]
Graphs ==
    LET Extra == {G!NilMap} \cup [k : {"map"}, of : UpTo({Number, Typed}, 1)]
        Key == [Name : {"set"}, Version : {"zero", "set"}, Classifier : {"zero"}, Type : {"zero"},
                ResolvedIdentifier : {"zero"}, FileURIPrefix : {"set"}, Indirect : {"zero", "set"},
                Extras : Extra, Labels : {Nil, <<>>, <<"set">>}]
        Leaves == [dep : {d \in Key : d.Labels = <<>> /\ d.Version = "set"}, added : {<<>>}]
    IN  UpTo([dep : Key, added : UpTo(Leaves, 2)], 1)
Changes == UpTo([path : {"set"}, content : {"zero", "set", "bytes"}, saved : {"zero", "set"}], 2)

\* The inputs below are some of those that the theorems are about.
ASSUME InputsCovered ==
    LET In == InputsOver({"f", "g", "h", "m", "n", "s", "t", "", "eap", "always", "never", IncludeKey,
                          "a", "b", "in", "m2", "1"})
    IN  /\ Scoped \subseteq In.scopes /\ Searches \subseteq In.search
        /\ Ranges \subseteq In.ranges /\ Selections \subseteq In.selection
        /\ Found \subseteq In.violation /\ Snippets \subseteq In.snippet /\ DepLists \subseteq In.deps
-----------------------------------------------------------------------------
Init ==
    /\ which \in {"input", "start", "bus", "grpc", "load"} /\ input = None
    /\ StartInit /\ (which # "start" => opts = [timeout |-> TRUE, ignore |-> TRUE])
    /\ BusInit /\ PrepareInit /\ LoadInit

Choose(alg, x) == input' = [alg |-> alg, x |-> x]

TakeInput ==
    /\ which = "input" /\ input = None
    /\ \/ \E x \in Whens : Choose("when", x)
       \/ \E x \in Chains : Choose("chain", x)
       \/ \E x \in Scoped : Choose("scopes", x)
       \/ \E x \in Searches : Choose("search", x)
       \/ \E x \in Ranges : Choose("ranges", x)
       \/ \E x \in Selections : Choose("selection", x)
       \/ \E x \in Found : Choose("violation", x)
       \/ \E x \in Snippets : Choose("snippet", x)
       \/ \E x \in DepLists : Choose("deps", x)
       \/ \E x \in ClientAnswers : Choose("clients", x)
       \/ \E x \in DepGraphs : Choose("depGraph", x)
       \/ \E x \in DepQuestions : Choose("depCondition", x)
       \/ \E x \in Selectors : Choose("depSelector", x)
       \/ \E x \in DOMAIN P!Structs : Choose("lsp", x)
       \/ \E x \in DOMAIN P!Unions : Choose("union", x)
       \/ \E x \in DOMAIN P!Provider : Choose("supports", x)
       \/ \E x \in Configs : Choose("config", x)
       \/ \E x \in WireAnswers : Choose("answer", x)
       \/ \E x \in Graphs : Choose("graph", x)
       \/ \E x \in Changes : Choose("change", x)
       \/ \E x \in [Location : {"zero", "set"}, DependencyPath : {"zero", "set"}] :
             Choose("builtin", x)
    /\ UNCHANGED <<which, startVars, busVars, prepareVars, loadVars>>

PutBack ==
    /\ input # None /\ input' = None
    /\ UNCHANGED <<which, startVars, busVars, prepareVars, loadVars>>

Next ==
    \/ TakeInput \/ PutBack
    \/ which = "start" /\ StartNext /\ UNCHANGED <<which, input, busVars, prepareVars, loadVars>>
    \/ which = "bus" /\ BusNext /\ UNCHANGED <<which, input, startVars, prepareVars, loadVars>>
    \/ which = "grpc" /\ PrepareNext /\ UNCHANGED <<which, input, startVars, busVars, loadVars>>
    \/ which = "load" /\ LoadNext /\ UNCHANGED <<which, input, startVars, busVars, prepareVars>>

Spec ==
    /\ Init /\ [][Next]_vars
    /\ WF_vars(which = "start" /\ StartStep /\ UNCHANGED <<which, input, busVars, prepareVars, loadVars>>)
    /\ WF_vars(which = "bus" /\ BusStep /\ UNCHANGED <<which, input, startVars, prepareVars, loadVars>>)
    /\ WF_vars(which = "load" /\ LoadStep /\ UNCHANGED <<which, input, startVars, busVars, prepareVars>>)
-----------------------------------------------------------------------------
(* Properties                                                              *)

(* Loading, parsing and evaluating a rule keep what it says: RuleLoader!   *)
(* LoadExact (LoadRules), RuleConditions!KeepsMeaning and ChainsInOrder    *)
(* (getConditions, sortConditionEntries).                                  *)
RulesKeepMeaning ==
    /\ Is("when") => Cond!KeepsMeaning(input.x)
    /\ Is("chain") => Cond!ChainsInOrder(input.x)
    /\ LoadTypeOK /\ LoadExact


(* Starting the providers and loading the rules both return (see           *)
(* ProviderStart and RuleLoader).                                          *)
StartReturns == ProvidersStarted /\ LoadReturns
=============================================================================
