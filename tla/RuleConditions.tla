--------------------------- MODULE RuleConditions ---------------------------
(***************************************************************************)
(* Conditions of a rule (engine/conditions.go), evaluated in the context   *)
(* of Scopes, and how a rule's `when` becomes a condition (getConditions   *)
(* in parser/rule_parser.go).                                              *)
(*                                                                         *)
(* A condition entry is a record: op is "leaf", "and" or "or"; from, as,   *)
(* ignore and not are its fields; a leaf has the set `hits` of the files a *)
(* provider finds incidents in, the others the sequence `kids` of entries. *)
(* An entry of the rule file also says whether its provider is "ok",       *)
(* "missing", lacks the capability ("bad": an error), or gives no          *)
(* condition ("none": dependency rules are off).                           *)
(* Incidents are the set of their files; the order and the number of the   *)
(* incidents of a file are left out.  Template is a function of chain      *)
(* names to the files of the incidents stored under that name.             *)
(***************************************************************************)
EXTENDS Scopes, SequencesExt, FiniteSets

NoName == ""
Failed == [err |-> TRUE]
-----------------------------------------------------------------------------
(* Chains                                                                  *)

RECURSIVE gatherChain(_, _)
gatherChain(start, entries) ==
    <<start>> \o FlattenSeq([i \in 1..Len(entries) |->
        IF start.as # NoName /\ start.as = entries[i].from
        THEN gatherChain(entries[i], entries) ELSE <<>>])

(* Entries that begin a chain, each with the entries that follow from it;  *)
(* an entry whose `from` nobody here defines is in no chain.               *)
sortConditionEntries(entries) ==
    FlattenSeq([i \in 1..Len(entries) |->
        IF entries[i].from = NoName THEN gatherChain(entries[i], entries) ELSE <<>>])
-----------------------------------------------------------------------------
(* Evaluation: a response and the template it leaves, or Failed            *)

Response(matched, incidents, tmpl) ==
    [err |-> FALSE, matched |-> matched, incidents |-> incidents, tmpl |-> tmpl]

(* A provider finds the hits of a leaf; a chained leaf takes the paths of  *)
(* the template as its filepaths argument, where no path is no limit.      *)
LeafEvaluate(e, tmpl) ==
    LET limit == IF e.from \in DOMAIN tmpl.chain THEN tmpl.chain[e.from] ELSE {}
        found == IF limit = {} THEN e.hits ELSE e.hits \cap limit
    IN  Response(found # {}, found, tmpl)

\* Mutant: `not` is applied before a response without incidents is taken
\* for one that did not match.
EntryMatchedNotFirst(e, r, found) == found # {} /\ (r.matched # e.not)

(* ConditionEntry.Evaluate, after the filter by the scopes.                *)
EntryMatched(e, r, found) == (r.matched /\ found # {}) # e.not

Combine(op, acc, matched) == IF op = "and" THEN acc /\ matched ELSE acc \/ matched

RECURSIVE Evaluate(_, _)
ConditionEntryEvaluate(e, tmpl) ==
    LET r == IF e.op = "leaf" THEN LeafEvaluate(e, tmpl) ELSE Evaluate(e, tmpl)
        found == FilterIncidentsByFilePaths(r.tmpl.scope, r.incidents)
    IN  IF r.err THEN r ELSE Response(EntryMatched(e, r, found), found, r.tmpl)

(* AndCondition.Evaluate and OrCondition.Evaluate: every entry is          *)
(* evaluated, in the order of the chains; the template is shared with the  *)
(* nested conditions and outlives them.                                    *)
Evaluate(c, tmpl) ==
    LET Step(acc, e) ==
            IF acc.err \/ (e.from # NoName /\ e.from \notin DOMAIN acc.tmpl.chain)
            THEN Failed
            ELSE LET r == ConditionEntryEvaluate(e, acc.tmpl)
                     named == [n \in DOMAIN r.tmpl.chain \cup {e.as} |->
                                  IF n = e.as THEN r.incidents ELSE r.tmpl.chain[n]]
                 IN  IF r.err THEN Failed
                     ELSE Response(Combine(c.op, acc.matched, r.matched),
                                   IF e.ignore THEN acc.incidents
                                   ELSE acc.incidents \cup r.incidents,
                                   IF e.as = NoName THEN r.tmpl
                                   ELSE [r.tmpl EXCEPT !.chain = named])
    IN  IF c.kids = <<>> THEN Failed
        ELSE FoldLeft(Step, Response(c.op = "and", {}, tmpl),
                      sortConditionEntries(c.kids))
-----------------------------------------------------------------------------
(* The parser: [err, kids] with the entries that have a condition          *)

(* A nested `and` that lost a condition is dropped, a nested `or` that     *)
(* lost all of them.                                                       *)
Dropped(e, parsed) ==
    IF e.op = "and" THEN Len(parsed.kids) # Len(e.kids) ELSE parsed.kids = <<>>

(* The place of an entry: before the entries that follow from it where it  *)
(* is known, else first; the recorded index is not moved by later entries. *)
Place(acc, e) ==
    CASE e.as # NoName /\ e.as \in DOMAIN acc.index ->
           [acc EXCEPT !.kids = InsertAt(@, acc.index[e.as], e), !.found = @ \cup {e.as}]
      [] e.as # NoName /\ e.as \notin DOMAIN acc.index ->
           [acc EXCEPT !.kids = <<e>> \o @, !.found = @ \cup {e.as}]
      [] e.as = NoName /\ e.from # NoName ->
           [acc EXCEPT !.kids = Append(@, e),
                       !.index = [n \in DOMAIN @ \cup {e.from} |->
                                     IF n = e.from THEN Len(acc.kids) + 1 ELSE @[n]]]
      [] OTHER -> [acc EXCEPT !.kids = Append(@, e)]

RECURSIVE getConditions(_)
getConditions(entries) ==
    LET Step(acc, e) ==
            LET nested == getConditions(e.kids)
                ce == IF e.op = "leaf" THEN e ELSE [e EXCEPT !.kids = nested.kids]
            IN  CASE acc.err -> acc
                  [] e.op = "leaf" /\ e.provider = "bad" -> [acc EXCEPT !.err = TRUE]
                  [] e.op = "leaf" /\ e.provider \in {"missing", "none"} -> acc
                  [] e.op # "leaf" /\ nested.err -> [acc EXCEPT !.err = TRUE]
                  [] e.op # "leaf" /\ ~nested.err /\ Dropped(e, nested) -> acc
                  [] OTHER ->
                       IF e.as # NoName /\ (e.as = e.from \/ e.as \in acc.found)
                       THEN [acc EXCEPT !.err = TRUE]
                       ELSE Place(acc, ce)
    IN  FoldLeft(Step, [err |-> FALSE, kids |-> <<>>, index |-> <<>>, found |-> {}], entries)

(* The `when` of loadRule: kids is empty when the rule is skipped, else it *)
(* has the one condition of the rule.                                      *)
LoadWhen(when) ==
    IF when.op = "leaf" THEN getConditions(<<when>>)
    ELSE LET p == getConditions(when.kids)
         IN  IF p.err THEN p
             ELSE [p EXCEPT !.kids = IF Dropped(when, p) THEN <<>>
                                     ELSE <<[when EXCEPT !.kids = p.kids]>>]

(* What the engine asks of a parsed rule.                                  *)
RuleEvaluate(when, tmpl) ==
    IF when.op = "leaf" THEN ConditionEntryEvaluate(when, tmpl) ELSE Evaluate(when, tmpl)
-----------------------------------------------------------------------------
(* Properties, for one `when` of a rule file                               *)

(* What a rule means: what cannot be asked because a provider is missing   *)
(* is false, `and` and `or` are the connectives (docs/rules.md, "performs  *)
(* a logical").                                                            *)
RECURSIVE Available(_)
Available(e) ==
    CASE e.op = "leaf" -> e.provider = "ok"
      [] e.op = "and" -> \A i \in 1..Len(e.kids) : Available(e.kids[i])
      [] e.op = "or" -> \E i \in 1..Len(e.kids) : Available(e.kids[i])
RECURSIVE Means(_)
Means(e) ==
    Available(e) /\ (CASE e.op = "leaf" -> e.hits # {}
                       [] e.op = "and" -> \A i \in 1..Len(e.kids) : Means(e.kids[i])
                       [] e.op = "or" -> \E i \in 1..Len(e.kids) : Means(e.kids[i])) # e.not

(* Neither the parser, when it drops conditions of missing providers, nor  *)
(* the evaluation changes what a rule means, as long as `not` is only used *)
(* in the outermost list.                                                  *)
KeepsMeaning(when) ==
    LET p == LoadWhen(when)
    IN  ~p.err => IF p.kids = <<>> THEN ~Means(when)
                  ELSE RuleEvaluate(p.kids[1], EmptyContext).matched = Means(when)

(* The list the engine works through has every entry that follows from a   *)
(* condition without `from` exactly once, each after the one that defines  *)
(* its chain: no cycle survives the parser, no entry runs twice.           *)
Chained(entries) ==
    LET Grow[n \in 0..Len(entries)] ==
            IF n = 0 THEN {NoName}
            ELSE Grow[n - 1] \cup {e.as : e \in {x \in ToSet(entries) : x.from \in Grow[n - 1]}}
    IN  {i \in 1..Len(entries) : entries[i].from \in Grow[Len(entries)] \ {NoName}
                                 \/ entries[i].from = NoName}

ChainsInOrder(when) ==
    LET p == getConditions(when.kids)
        sorted == sortConditionEntries(p.kids)
    IN  ~p.err =>
        /\ Len(sorted) = Cardinality(Chained(p.kids))
        /\ ToSet(sorted) = {p.kids[i] : i \in Chained(p.kids)}
        /\ \A i \in 1..Len(sorted) : sorted[i].from # NoName =>
               \E h \in 1..i - 1 : sorted[h].as = sorted[i].from
=============================================================================
