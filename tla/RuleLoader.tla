----------------------------- MODULE RuleLoader -----------------------------
(***************************************************************************)
(* LoadRules of the parser for a directory (parser/rule_parser.go): every  *)
(* rule file is parsed by a goroutine of its own, which sends the result   *)
(* to a channel; the caller collects the results until the channel is      *)
(* closed or five minutes are over.                                        *)
(*                                                                         *)
(* A file that is no YAML, that has no rule for the selector or only ones  *)
(* of missing providers gives no rules ("none").  A subdirectory is loaded *)
(* before, by a call of its own, and is left out.                          *)
(***************************************************************************)
EXTENDS Naturals, Sequences, SequencesExt, FiniteSets

CONSTANTS
    RuleFiles,
    LoadCap         \* the buffer of ruleLoadChan (10 in the code)

(* A directory has finitely many files.                                    *)
ASSUME LoadBounds == IsFiniteSet(RuleFiles) /\ LoadCap \in Nat

VARIABLES
    loader,         \* the caller: "new", "loading" or how it returned
    parse,          \* file -> its goroutine: "off", "parsing", "parsed", "sent", "left"
    result,         \* file -> what loadRule returned of it
    ruleParserWG,
    ruleLoadChan,   \* a sequence of <<file, result>>
    closed,         \* ruleLoadChan is closed
    expired,        \* loadCtx is done, by the timeout or because the call returned
    rules,          \* the files whose rules were collected
    parseErr        \* the files whose error was collected

loadVars == <<loader, parse, result, ruleParserWG, ruleLoadChan, closed, expired, rules, parseErr>>

Results == {"rules", "none", "error"}

LoadTypeOK ==
    /\ loader \in {"new", "loading", "done", "no rule set"}
    /\ parse \in [RuleFiles -> {"off", "parsing", "parsed", "sent", "left"}]
    /\ result \in [RuleFiles -> {"not yet", "missing"} \cup Results]
    /\ ruleParserWG \in 0..Cardinality(RuleFiles)
    /\ Len(ruleLoadChan) =< LoadCap /\ ToSet(ruleLoadChan) \subseteq RuleFiles \X Results
    /\ closed \in BOOLEAN /\ expired \in BOOLEAN
    /\ rules \subseteq RuleFiles /\ parseErr \subseteq RuleFiles

LoadInit ==
    /\ loader = "new" /\ parse = [f \in RuleFiles |-> "off"]
    /\ result = [f \in RuleFiles |-> "not yet"]
    /\ ruleParserWG = 0 /\ ruleLoadChan = <<>> /\ closed = FALSE /\ expired = FALSE
    /\ rules = {} /\ parseErr = {}
-----------------------------------------------------------------------------
(* The file of the rule set is read first; without it nothing is started.  *)
NoRuleSet ==
    /\ loader = "new"
    /\ loader' = "no rule set" /\ expired' = TRUE
    /\ UNCHANGED <<parse, result, ruleParserWG, ruleLoadChan, closed, rules, parseErr>>

(* Add and `go` for the rule files of the directory; one that os.Stat does *)
(* not find is an error at once.                                           *)
StartParsing(found) ==
    /\ loader = "new"
    /\ loader' = "loading"
    /\ parse' = [f \in RuleFiles |-> IF f \in found THEN "parsing" ELSE "off"]
    /\ result' = [f \in RuleFiles |-> IF f \in found THEN "not yet" ELSE "missing"]
    /\ ruleParserWG' = Cardinality(found)
    /\ parseErr' = RuleFiles \ found
    /\ UNCHANGED <<ruleLoadChan, closed, expired, rules>>

loadRule(f, r) ==
    /\ parse[f] = "parsing"
    /\ parse' = [parse EXCEPT ![f] = "parsed"]
    /\ result' = [result EXCEPT ![f] = r]
    /\ UNCHANGED <<loader, ruleParserWG, ruleLoadChan, closed, expired, rules, parseErr>>

SendResult(f) ==
    /\ parse[f] = "parsed" /\ Len(ruleLoadChan) < LoadCap
    /\ ruleLoadChan' = Append(ruleLoadChan, <<f, result[f]>>)
    /\ parse' = [parse EXCEPT ![f] = "sent"]
    /\ UNCHANGED <<loader, result, ruleParserWG, closed, expired, rules, parseErr>>

(* The context is done; the goroutine returns without Done.                *)
LeaveResult(f) ==
    /\ parse[f] = "parsed" /\ expired
    /\ parse' = [parse EXCEPT ![f] = "left"]
    /\ UNCHANGED <<loader, result, ruleParserWG, ruleLoadChan, closed, expired, rules, parseErr>>

(* ruleParserWG.Wait returns and the channel is closed.                    *)
CloseLoadChan ==
    /\ loader \in {"loading", "done"} /\ ruleParserWG = 0 /\ ~closed
    /\ closed' = TRUE
    /\ UNCHANGED <<loader, parse, result, ruleParserWG, ruleLoadChan, expired, rules, parseErr>>

(* The caller takes a result; Done comes after it was added.               *)
CollectResult ==
    /\ loader = "loading" /\ ruleLoadChan # <<>>
    /\ LET f == Head(ruleLoadChan)[1]
           r == Head(ruleLoadChan)[2]
       IN  /\ rules' = IF r = "rules" THEN rules \cup {f} ELSE rules
           /\ parseErr' = IF r = "error" THEN parseErr \cup {f} ELSE parseErr
    /\ ruleLoadChan' = Tail(ruleLoadChan)
    /\ ruleParserWG' = ruleParserWG - 1
    /\ UNCHANGED <<loader, parse, result, closed, expired>>

(* The loop ends with the channel, or with the context: then LoadRules     *)
(* returns what it has, and no error for what is missing.                  *)
LoadReturn ==
    /\ loader = "loading"
    /\ (closed /\ ruleLoadChan = <<>>) \/ expired
    /\ loader' = "done" /\ expired' = TRUE
    /\ UNCHANGED <<parse, result, ruleParserWG, ruleLoadChan, closed, rules, parseErr>>

LoadTimeout ==
    /\ loader = "loading" /\ ~expired
    /\ expired' = TRUE
    /\ UNCHANGED <<loader, parse, result, ruleParserWG, ruleLoadChan, closed, rules, parseErr>>

LoadStep ==
    \/ CloseLoadChan \/ CollectResult \/ LoadReturn
    \/ \E f \in RuleFiles : SendResult(f) \/ LeaveResult(f)
    \/ \E f \in RuleFiles, r \in Results : loadRule(f, r)

LoadNext ==
    \/ LoadStep \/ NoRuleSet \/ LoadTimeout
    \/ \E found \in SUBSET RuleFiles : StartParsing(found)

LoadSpec == LoadInit /\ [][LoadNext]_loadVars /\ WF_loadVars(LoadStep)
-----------------------------------------------------------------------------
(* Properties                                                              *)

(* The WaitGroup has a Done for every result that was collected, and       *)
(* nothing is sent to the closed channel, which would panic.  Unless the   *)
(* time was over, what LoadRules returns has every file once: its rules,   *)
(* or its error.                                                           *)
Waiting == {f \in RuleFiles : parse[f] \in {"parsing", "parsed", "left"}}
LoadExact ==
    /\ ruleParserWG = Cardinality(Waiting) + Len(ruleLoadChan)
    /\ closed => Waiting = {} /\ ruleLoadChan = <<>>
    /\ rules \subseteq {f \in RuleFiles : result[f] = "rules"}
    /\ loader = "done" /\ closed =>
          /\ rules = {f \in RuleFiles : result[f] = "rules"}
          /\ parseErr = {f \in RuleFiles : result[f] \in {"error", "missing"}}

(* LoadRules returns, also when files are broken or the buffer is full.    *)
LoadReturns == loader = "loading" ~> loader = "done"
=============================================================================
