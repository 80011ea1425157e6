------------------------------- MODULE Labels -------------------------------
(***************************************************************************)
(* Label selectors (engine/labels/labels.go) and which rules they select   *)
(* in the parser and in the engine.                                        *)
(*                                                                         *)
(* A label is [key, val]; a value is NoValue or [name, ver, sym], the name *)
(* with a version (0: none) and the symbol of a range ("+", "-" or "").    *)
(* An expression is the sequence of its parts, each after the ones it is   *)
(* made of: [op, key, val, l, r], where op is "label", for one with key    *)
(* and val, or the operator for the parts at l and r ("not": at l).        *)
(***************************************************************************)
EXTENDS Integers, Sequences

NoValue == [name |-> "", ver |-> 0, sym |-> ""]
Value(n, v, s) == [name |-> n, ver |-> v, sym |-> s]
Label(k, v) == [key |-> k, val |-> v]
IncludeKey == "konveyor.io/include"
SelectAlways == Value("always", 0, "")
SelectNever == Value("never", 0, "")

InRange(m, c) ==
    CASE m.sym = "+" -> c.ver >= m.ver [] m.sym = "-" -> c.ver =< m.ver
      [] OTHER -> c.ver = m.ver

(* labelValueMatches: m is the value of the label, c the one that is asked *)
(* for, whose own symbol is not looked at.                                 *)
labelValueMatches(m, c) ==
    IF m.ver = 0 THEN c = m
    ELSE m.name = c.name /\ (c.ver = 0 \/ InRange(m, c))

matchesAny(elem, items) == \E i \in items : i = NoValue \/ labelValueMatches(i, elem)

(* ParseLabels: where a key is among the labels, and its values.           *)
At(labels, key) == {i \in 1..Len(labels) : labels[i].key = key}
ValuesOf(labels, key) == {labels[i].val : i \in At(labels, key)}

LabelHolds(e, labels) ==
    LET vals == ValuesOf(labels, e.key)
    IN  vals # {} /\ (e.val = NoValue \/ matchesAny(e.val, vals))

(* getBooleanExpression and the evaluation of its result: what gval makes  *)
(* of each part.                                                           *)
PartsHold(expr, labels) ==
    LET Is[i \in 1..Len(expr)] ==
            CASE expr[i].op = "label" -> LabelHolds(expr[i], labels)
              [] expr[i].op = "not" -> ~Is[expr[i].l]
              [] expr[i].op = "and" -> Is[expr[i].l] /\ Is[expr[i].r]
              [] expr[i].op = "or" -> Is[expr[i].l] \/ Is[expr[i].r]
    IN  Is

Holds(expr, labels) == PartsHold(expr, labels)[Len(expr)]

(* LabelSelector.Matches: the first value of konveyor.io/include goes      *)
(* before the expression.                                                  *)
Include(labels) ==
    LET at == At(labels, IncludeKey)
    IN  IF at = {} THEN NoValue
        ELSE labels[CHOOSE i \in at : \A k \in at : i =< k].val

Matches(expr, labels) ==
    \/ Include(labels) = SelectAlways
    \/ Include(labels) # SelectNever /\ Holds(expr, labels)
-----------------------------------------------------------------------------
(* Selection of the rules of a rule set: rs is the sequence of its labels, *)
(* rules those of its rules in the order they are loaded; the result is    *)
(* the set of the places of the rules selected                             *)

(* loadRule: the labels of the rule set come first.                        *)
Loaded(expr, rs, rules) == {i \in 1..Len(rules) : Matches(expr, rs \o rules[i])}

(* The labels of the rule set with those of the rules in `kept` behind     *)
(* them, after each of the rules.                                          *)
MetaLabels(rs, rules, kept) ==
    LET After[n \in 0..Len(rules)] ==
            IF n = 0 THEN rs
            ELSE IF n \in kept THEN After[n - 1] \o rules[n] ELSE After[n - 1]
    IN  After

\* Mutant: the rule set is asked with its own labels only.
LoadRulesByHeader(expr, rs, rules) ==
    IF Matches(expr, rs) THEN Loaded(expr, rs, rules) ELSE {}

(* LoadRules: the rule set is left out unless the selector matches all the *)
(* labels of its rules taken together.                                     *)
LoadRules(expr, rs, rules) ==
    LET kept == Loaded(expr, rs, rules)
    IN  IF kept # {} /\ Matches(expr, MetaLabels(rs, rules, kept)[Len(rules)])
        THEN kept ELSE {}

(* filterRules of the engine, for the rules that were loaded: the labels   *)
(* of the rule come first.                                                 *)
filterRules(expr, rs, rules, kept) == {i \in kept : Matches(expr, rules[i] \o rs)}
-----------------------------------------------------------------------------
(* Properties                                                              *)

LabelValues(S) ==
    [name : S, ver : Nat \ {0}, sym : {"", "+", "-"}] \cup [name : S, ver : {0}, sym : {""}]
AllLabels(S) == [key : S, val : LabelValues(S)]

(* The expressions over the labels.                                        *)
Expressions(S) ==
    {e \in Seq([op : {"label", "not", "and", "or"}, key : S, val : LabelValues(S),
                l : Nat, r : Nat]) :
        /\ e # <<>>
        /\ \A i \in 1..Len(e) : e[i].op # "label" => e[i].l \in 1..i - 1 /\ e[i].r \in 1..i - 1}

(* Every version that the range m has, the range w has.                    *)
Wider(w, m) ==
    /\ m.name = w.name /\ m.ver # 0 /\ w.ver # 0
    /\ CASE w.sym = "+" -> m.sym # "-" /\ m.ver >= w.ver
         [] w.sym = "-" -> m.sym # "+" /\ m.ver =< w.ver
         [] OTHER -> m = w

(* A wider range on a label is selected by at least as much: what matches  *)
(* eap8+ matches eap7+, and what matches a version matches every range it  *)
(* is in (labelValueMatches, "falls within the version range of            *)
(* matchWith").                                                            *)
WiderMatchesMore(m, w, c) ==
    Wider(w, m) /\ labelValueMatches(m, c) => labelValueMatches(w, c)

(* The three places that apply a selector agree: without a negation, the   *)
(* check of the whole rule set drops no rule that is selected itself, and  *)
(* the engine keeps what the parser kept, unless the rule set and the rule *)
(* contradict each other on konveyor.io/include.                           *)
SelectionAgrees(expr, rs, rules) ==
    LET positive == \A i \in 1..Len(expr) : expr[i].op # "not"
        consistent == \A i \in 1..Len(rules) :
            At(rs, IncludeKey) = {} \/ At(rules[i], IncludeKey) = {}
        kept == LoadRules(expr, rs, rules)
    IN  /\ positive => kept = Loaded(expr, rs, rules)
        /\ consistent => filterRules(expr, rs, rules, kept) = kept
=============================================================================
