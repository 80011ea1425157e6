----------------------------- MODULE RuleEngine -----------------------------
(***************************************************************************)
(* The rule engine of engine/engine.go: a pool of workers fed through one  *)
(* buffered channel and shared by every call of RunRulesScopedWithOptions. *)
(* A call runs its tagging rules itself, then fans the other rules out to  *)
(* the workers and fans the responses in through a handler goroutine of    *)
(* its own, counting the outstanding rules with a WaitGroup.  The caller   *)
(* may cancel its context at any time and anyone may call Stop.            *)
(*                                                                         *)
(* What a condition finds is not modelled here: an evaluation has one of   *)
(* the outcomes the engine tells apart.  Rules are picked from sets in any *)
(* order, which covers the order of the rule files and the unstable sort.  *)
(***************************************************************************)
EXTENDS Integers, Sequences, FiniteSets

CONSTANTS
    Workers,     \* the goroutines running processRuleWorker
    Runs,        \* calls of RunRulesScopedWithOptions, each made at most once
    Rules,       \* rule IDs
    BufferSize,  \* capacity of the ruleProcessing channel (10 in the code)
    Selected,    \* rules every selector matches
    Tagging,     \* rules whose Perform.Tag is set
    Message,     \* rules whose Perform.Message.Text is set
    Effort,      \* rules whose effort is set and is not zero
    HasTags,     \* HasTags[q]: rules whose tags the condition of q asks for
    MayCancel,   \* runs whose caller may cancel the context
    MayStop,     \* whether Stop may be called
    NoMsg, NoRule

ASSUME ConstantsAssumption ==
    /\ IsFiniteSet(Rules)
    /\ BufferSize \in Nat
    /\ Selected \subseteq Rules /\ Tagging \subseteq Rules
    /\ Message \subseteq Rules  /\ Effort \subseteq Rules
    /\ HasTags \in [Rules -> SUBSET Rules]
    /\ MayCancel \subseteq Runs
    /\ MayStop \in BOOLEAN
    /\ NoRule \notin Rules

(***************************************************************************)
(* filterRules: a selected rule with tags is a tagging rule; if it also    *)
(* has a message and a non-zero effort, its message part is split off into *)
(* a second rule with the same ID, run with the rules that have no tags.   *)
(***************************************************************************)
TaggingRules == Selected \intersect Tagging
OtherRules   == Selected \ (Tagging \ (Message \intersect Effort))
SplitRules   == TaggingRules \intersect OtherRules

\* cfg.totalRules
TotalRules == Cardinality(OtherRules) + Cardinality(TaggingRules)

Outcomes == {"error", "matched", "filtered", "unmatched"}
Msg      == [run : Runs, rule : Rules, out : Outcomes \cup {"none"}]
ASSUME NoMsgAssumption == NoMsg \notin Msg

Categories == {"errors", "violations", "insights", "unmatched", "skipped"}
NoResults  == [c \in Categories |-> {}]

(***************************************************************************)
(* What evaluating the condition of q can give, tags being the tags in its *)
(* context: a hasTags condition cannot match before its tags are there.    *)
(* "filtered" is a match all of whose incidents createViolation dropped.   *)
(***************************************************************************)
processRule(q, tagged) ==
    IF HasTags[q] \subseteq tagged THEN Outcomes ELSE {"error", "unmatched"}

VARIABLES
    pc,        \* pc[r]: where the goroutine that called RunRules is
    ctxDone,   \* ctxDone[r]: the run's context is cancelled
    tagging,   \* tagging[r]: tagging rules still to evaluate
    toSend,    \* toSend[r]: other rules not yet taken by the sending loop
    sending,   \* sending[r]: the rule the loop is sending
    wg,        \* wg[r]: the WaitGroup of the run
    doneChan,  \* doneChan[r]: the channel done is closed
    hst, hmsg, \* the handler goroutine of a run and the response it holds
    completed, \* completed[r]: matched + unmatched + failed rules
    tags,      \* tags[r]: rules whose tags are in the condition context
    results,   \* results[r]: mapRuleSets, the rule IDs by category
    reported,  \* reported[r]: the last progress event
    ret,       \* ret[r]: what the call returned
    ruleProcessing,  \* the buffered channel
    wst, wmsg, \* the workers and the messages they hold
    engineDone, stopPc  \* the engine's context, the caller of Stop

runVars    == <<pc, ctxDone, tagging, toSend, sending, wg, doneChan, hst, hmsg,
                completed, tags, results, reported, ret>>
engineVars == <<ruleProcessing, wst, wmsg, engineDone, stopPc>>
vars       == <<runVars, engineVars>>

Event(stage, n) == [stage |-> stage, current |-> n]

\* Record that rule q of run r goes into category c of its rule set.
Record(r, q, c) == results' = [results EXCEPT ![r][c] = @ \cup {q}]

\* CreateRuleEngine starts the workers; no run has begun.
Init ==
    /\ pc = [r \in Runs |-> "idle"]
    /\ ctxDone = [r \in Runs |-> FALSE]
    /\ tagging = [r \in Runs |-> {}]
    /\ toSend = [r \in Runs |-> {}]
    /\ sending = [r \in Runs |-> NoRule]
    /\ wg = [r \in Runs |-> 0]
    /\ doneChan = [r \in Runs |-> FALSE]
    /\ hst = [r \in Runs |-> "off"]
    /\ hmsg = [r \in Runs |-> NoMsg]
    /\ completed = [r \in Runs |-> 0]
    /\ tags = [r \in Runs |-> {}]
    /\ results = [r \in Runs |-> NoResults]
    /\ reported = [r \in Runs |-> Event("none", 0)]
    /\ ret = [r \in Runs |-> NoResults]
    /\ ruleProcessing = <<>>
    /\ wst = [w \in Workers |-> "idle"]
    /\ wmsg = [w \in Workers |-> NoMsg]
    /\ engineDone = FALSE
    /\ stopPc = "none"

-----------------------------------------------------------------------------
(***************************************************************************)
(* The goroutine that calls RunRulesScopedWithOptions.                     *)
(***************************************************************************)

\* The scope cannot be added to the context: the call returns no rule set.
StartBadScope(r) ==
    /\ pc[r] = "idle"
    /\ pc' = [pc EXCEPT ![r] = "returned"]
    /\ UNCHANGED <<ctxDone, tagging, toSend, sending, wg, doneChan, hst, hmsg,
                   completed, tags, results, reported, ret, engineVars>>

\* filterRules, then the first progress event.
StartRun(r) ==
    /\ pc[r] = "idle"
    /\ pc' = [pc EXCEPT ![r] = "tagging"]
    /\ tagging' = [tagging EXCEPT ![r] = TaggingRules]
    /\ toSend' = [toSend EXCEPT ![r] = OtherRules]
    /\ results' = [results EXCEPT ![r]["skipped"] = Rules \ Selected]
    /\ reported' = [reported EXCEPT ![r] = Event("executing", 0)]
    /\ UNCHANGED <<ctxDone, sending, wg, doneChan, hst, hmsg, completed, tags,
                   ret, engineVars>>

\* Faulty: the rules are not sorted.
TagOrderUnsorted(S, q) == q \in S

\* The sort of runTaggingRules: rules that use hasTags come last.
TagOrder(S, q) ==
    /\ q \in S
    /\ HasTags[q] # {} => \A p \in S : HasTags[p] # {}

(***************************************************************************)
(* One iteration of the loop of runTaggingRules.  Its event is numbered by *)
(* the iteration, counting from 0.  A rule whose incidents were all        *)
(* filtered out is put in no category (the continue of the loop), and one  *)
(* that matched adds no tag when its tag templates cannot be rendered.     *)
(***************************************************************************)
RunTaggingRule(r, q, out) ==
    /\ pc[r] = "tagging"
    /\ TagOrder(tagging[r], q)
    /\ out \in processRule(q, tags[r])
    /\ tagging' = [tagging EXCEPT ![r] = @ \ {q}]
    /\ reported' = [reported EXCEPT ![r] = Event("executing",
                       Cardinality(TaggingRules) - Cardinality(tagging[r]))]
    /\ \/ out = "error"     /\ Record(r, q, "errors")    /\ UNCHANGED tags
       \/ out = "unmatched" /\ Record(r, q, "unmatched") /\ UNCHANGED tags
       \/ out = "filtered"  /\ UNCHANGED <<tags, results>>
       \/ /\ out = "matched"
          /\ tags' \in {tags, [tags EXCEPT ![r] = @ \cup {q}]}
          /\ Record(r, q, IF q \in Effort THEN "violations" ELSE "insights")
    /\ UNCHANGED <<pc, ctxDone, toSend, sending, wg, doneChan, hst, hmsg,
                   completed, ret, engineVars>>

\* The tagging rules are done: start the goroutine that handles responses.
StartHandler(r) ==
    /\ pc[r] = "tagging"
    /\ tagging[r] = {}
    /\ pc' = [pc EXCEPT ![r] = "add"]
    /\ hst' = [hst EXCEPT ![r] = "recv"]
    /\ UNCHANGED <<ctxDone, tagging, toSend, sending, wg, doneChan, hmsg,
                   completed, tags, results, reported, ret, engineVars>>

\* Faulty: the rule is sent without having been counted.
AddRuleUncounted(r, q) ==
    /\ pc[r] = "add"
    /\ q \in toSend[r]
    /\ pc' = [pc EXCEPT ![r] = "send"]
    /\ toSend' = [toSend EXCEPT ![r] = @ \ {q}]
    /\ sending' = [sending EXCEPT ![r] = q]
    /\ UNCHANGED <<ctxDone, tagging, wg, doneChan, hst, hmsg, completed, tags,
                   results, reported, ret, engineVars>>

\* The loop takes the next rule and counts it before it is sent.
AddRule(r, q) ==
    /\ pc[r] = "add"
    /\ q \in toSend[r]
    /\ pc' = [pc EXCEPT ![r] = "send"]
    /\ toSend' = [toSend EXCEPT ![r] = @ \ {q}]
    /\ sending' = [sending EXCEPT ![r] = q]
    /\ wg' = [wg EXCEPT ![r] = @ + 1]
    /\ UNCHANGED <<ctxDone, tagging, doneChan, hst, hmsg, completed, tags,
                   results, reported, ret, engineVars>>

(***************************************************************************)
(* r.ruleProcessing <- rule: blocks while the buffer is full, whether or   *)
(* not the run is cancelled or the engine stopped.                         *)
(***************************************************************************)
SendRule(r) ==
    /\ pc[r] = "send"
    /\ Len(ruleProcessing) < BufferSize
    /\ ruleProcessing' = Append(ruleProcessing,
                           [run |-> r, rule |-> sending[r], out |-> "none"])
    /\ sending' = [sending EXCEPT ![r] = NoRule]
    /\ pc' = [pc EXCEPT ![r] = "add"]
    /\ UNCHANGED <<ctxDone, tagging, toSend, wg, doneChan, hst, hmsg, completed,
                   tags, results, reported, ret, wst, wmsg, engineDone, stopPc>>

\* Every rule is sent: the waiting goroutine starts, the caller selects.
AllSent(r) ==
    /\ pc[r] = "add"
    /\ toSend[r] = {}
    /\ pc' = [pc EXCEPT ![r] = "wait"]
    /\ UNCHANGED <<ctxDone, tagging, toSend, sending, wg, doneChan, hst, hmsg,
                   completed, tags, results, reported, ret, engineVars>>

\* wg.Wait() returns in the waiting goroutine, which closes done; it goes on
\* waiting after the call has returned.
WaitGroupZero(r) ==
    /\ pc[r] \in {"wait", "collect", "returned"}
    /\ hst[r] # "off"
    /\ wg[r] = 0
    /\ ~doneChan[r]
    /\ doneChan' = [doneChan EXCEPT ![r] = TRUE]
    /\ UNCHANGED <<pc, ctxDone, tagging, toSend, sending, wg, hst, hmsg,
                   completed, tags, results, reported, ret, engineVars>>

\* select, first case: every rule is answered; the final event is reported.
RunCompleted(r) ==
    /\ pc[r] = "wait"
    /\ doneChan[r]
    /\ pc' = [pc EXCEPT ![r] = "collect"]
    /\ reported' = [reported EXCEPT ![r] = Event("complete", TotalRules)]
    /\ UNCHANGED <<ctxDone, tagging, toSend, sending, wg, doneChan, hst, hmsg,
                   completed, tags, results, ret, engineVars>>

\* select, second case: the context is done.
RunCancelled(r) ==
    /\ pc[r] = "wait"
    /\ ctxDone[r]
    /\ pc' = [pc EXCEPT ![r] = "collect"]
    /\ UNCHANGED <<ctxDone, tagging, toSend, sending, wg, doneChan, hst, hmsg,
                   completed, tags, results, reported, ret, engineVars>>

\* The rule sets are copied into the answer and the run's context cancelled.
Collect(r) ==
    /\ pc[r] = "collect"
    /\ pc' = [pc EXCEPT ![r] = "returned"]
    /\ ret' = [ret EXCEPT ![r] = results[r]]
    /\ ctxDone' = [ctxDone EXCEPT ![r] = TRUE]
    /\ UNCHANGED <<tagging, toSend, sending, wg, doneChan, hst, hmsg, completed,
                   tags, results, reported, engineVars>>

\* The caller cancels the context it passed to the run.
CancelRun(r) ==
    /\ r \in MayCancel
    /\ ~ctxDone[r]
    /\ ctxDone' = [ctxDone EXCEPT ![r] = TRUE]
    /\ UNCHANGED <<pc, tagging, toSend, sending, wg, doneChan, hst, hmsg,
                   completed, tags, results, reported, ret, engineVars>>

-----------------------------------------------------------------------------
(***************************************************************************)
(* The goroutine that handles the responses of a run.                      *)
(***************************************************************************)

\* The rendezvous on the unbuffered channel ret of the run.
Respond(w) ==
    LET r == wmsg[w].run IN
    /\ wst[w] = "respond"
    /\ hst[r] = "recv"
    /\ hst' = [hst EXCEPT ![r] = "got"]
    /\ hmsg' = [hmsg EXCEPT ![r] = wmsg[w]]
    /\ wst' = [wst EXCEPT ![w] = "idle"]
    /\ wmsg' = [wmsg EXCEPT ![w] = NoMsg]
    /\ UNCHANGED <<pc, ctxDone, tagging, toSend, sending, wg, doneChan,
                   completed, tags, results, reported, ret, ruleProcessing,
                   engineDone, stopPc>>

\* The category of a response; a rule without effort gives an insight.
Category(m) ==
    CASE m.out = "error"   -> "errors"
      [] m.out = "matched" -> IF m.rule \in Effort THEN "violations" ELSE "insights"
      [] OTHER             -> "unmatched"

\* Faulty: a failed rule falls through to the unmatched ones.
HandlerRecordFallsThrough(r) ==
    /\ hst[r] = "got"
    /\ hst' = [hst EXCEPT ![r] = "recorded"]
    /\ completed' = [completed EXCEPT ![r] = @ + 1]
    /\ results' = [results EXCEPT ![r][Category(hmsg[r])] = @ \cup {hmsg[r].rule},
                     ![r]["unmatched"] =
                        IF hmsg[r].out = "matched" THEN @ ELSE @ \cup {hmsg[r].rule}]
    /\ UNCHANGED <<pc, ctxDone, tagging, toSend, sending, wg, doneChan, hmsg,
                   tags, reported, ret, engineVars>>

HandlerRecord(r) ==
    /\ hst[r] = "got"
    /\ hst' = [hst EXCEPT ![r] = "recorded"]
    /\ completed' = [completed EXCEPT ![r] = @ + 1]
    /\ Record(r, hmsg[r].rule, Category(hmsg[r]))
    /\ UNCHANGED <<pc, ctxDone, tagging, toSend, sending, wg, doneChan, hmsg,
                   tags, reported, ret, engineVars>>

\* Faulty: the event does not count the tagging rules.
HandlerReportOthers(r) ==
    /\ hst[r] = "recorded"
    /\ hst' = [hst EXCEPT ![r] = "reported"]
    /\ reported' = [reported EXCEPT ![r] = Event("executing", completed[r])]
    /\ UNCHANGED <<pc, ctxDone, tagging, toSend, sending, wg, doneChan, hmsg,
                   completed, tags, results, ret, engineVars>>

HandlerReport(r) ==
    /\ hst[r] = "recorded"
    /\ hst' = [hst EXCEPT ![r] = "reported"]
    /\ reported' = [reported EXCEPT ![r] = Event("executing",
                       completed[r] + Cardinality(TaggingRules))]
    /\ UNCHANGED <<pc, ctxDone, tagging, toSend, sending, wg, doneChan, hmsg,
                   completed, tags, results, ret, engineVars>>

\* Faulty: the early return for a failed rule skips wg.Done().
HandlerDoneUnlessError(r) ==
    /\ hst[r] = "reported"
    /\ hst' = [hst EXCEPT ![r] = "recv"]
    /\ hmsg' = [hmsg EXCEPT ![r] = NoMsg]
    /\ wg' = [wg EXCEPT ![r] = IF hmsg[r].out = "error" THEN @ ELSE @ - 1]
    /\ UNCHANGED <<pc, ctxDone, tagging, toSend, sending, doneChan, completed,
                   tags, results, reported, ret, engineVars>>

\* Faulty: a rule that failed is discounted once more.
HandlerDoneErrorTwice(r) ==
    /\ hst[r] = "reported"
    /\ hst' = [hst EXCEPT ![r] = "recv"]
    /\ hmsg' = [hmsg EXCEPT ![r] = NoMsg]
    /\ wg' = [wg EXCEPT ![r] = IF hmsg[r].out = "error" THEN @ - 2 ELSE @ - 1]
    /\ UNCHANGED <<pc, ctxDone, tagging, toSend, sending, doneChan, completed,
                   tags, results, reported, ret, engineVars>>

\* The deferred wg.Done().
HandlerDone(r) ==
    /\ hst[r] = "reported"
    /\ hst' = [hst EXCEPT ![r] = "recv"]
    /\ hmsg' = [hmsg EXCEPT ![r] = NoMsg]
    /\ wg' = [wg EXCEPT ![r] = @ - 1]
    /\ UNCHANGED <<pc, ctxDone, tagging, toSend, sending, doneChan, completed,
                   tags, results, reported, ret, engineVars>>

\* Faulty: the handler watches the engine's context too.
HandlerExitOnStop(r) ==
    /\ hst[r] = "recv"
    /\ ctxDone[r] \/ engineDone
    /\ hst' = [hst EXCEPT ![r] = "exited"]
    /\ UNCHANGED <<pc, ctxDone, tagging, toSend, sending, wg, doneChan, hmsg,
                   completed, tags, results, reported, ret, engineVars>>

HandlerExit(r) ==
    /\ hst[r] = "recv"
    /\ ctxDone[r]
    /\ hst' = [hst EXCEPT ![r] = "exited"]
    /\ UNCHANGED <<pc, ctxDone, tagging, toSend, sending, wg, doneChan, hmsg,
                   completed, tags, results, reported, ret, engineVars>>

-----------------------------------------------------------------------------
(***************************************************************************)
(* The workers, and Stop.                                                  *)
(***************************************************************************)

TakeRule(w) ==
    /\ wst[w] = "idle"
    /\ ruleProcessing # <<>>
    /\ wst' = [wst EXCEPT ![w] = "eval"]
    /\ wmsg' = [wmsg EXCEPT ![w] = Head(ruleProcessing)]
    /\ ruleProcessing' = Tail(ruleProcessing)
    /\ UNCHANGED <<runVars, engineDone, stopPc>>

Evaluate(w, out) ==
    /\ wst[w] = "eval"
    /\ out \in processRule(wmsg[w].rule, tags[wmsg[w].run])
    /\ wst' = [wst EXCEPT ![w] = "respond"]
    /\ wmsg' = [wmsg EXCEPT ![w].out = out]
    /\ UNCHANGED <<runVars, ruleProcessing, engineDone, stopPc>>

WorkerExit(w) ==
    /\ wst[w] = "idle"
    /\ engineDone
    /\ wst' = [wst EXCEPT ![w] = "exited"]
    /\ UNCHANGED <<runVars, ruleProcessing, wmsg, engineDone, stopPc>>

Stop ==
    /\ MayStop
    /\ stopPc = "none"
    /\ engineDone' = TRUE
    /\ stopPc' = "waiting"
    /\ UNCHANGED <<runVars, ruleProcessing, wst, wmsg>>

\* r.wg.Wait() in Stop.
StopReturns ==
    /\ stopPc = "waiting"
    /\ \A w \in Workers : wst[w] = "exited"
    /\ stopPc' = "stopped"
    /\ UNCHANGED <<runVars, ruleProcessing, wst, wmsg, engineDone>>

-----------------------------------------------------------------------------
Main(r) ==
    \/ StartBadScope(r)
    \/ StartRun(r)
    \/ \E q \in Rules, out \in Outcomes : RunTaggingRule(r, q, out)
    \/ StartHandler(r)
    \/ \E q \in Rules : AddRule(r, q)
    \/ SendRule(r)
    \/ AllSent(r)
    \/ RunCompleted(r)
    \/ RunCancelled(r)
    \/ Collect(r)

Handler(r) ==
    \/ HandlerRecord(r)
    \/ HandlerReport(r)
    \/ HandlerDone(r)
    \/ HandlerExit(r)

Worker(w) ==
    \/ TakeRule(w)
    \/ \E out \in Outcomes : Evaluate(w, out)
    \/ Respond(w)
    \/ WorkerExit(w)

Next ==
    \/ \E r \in Runs : Main(r) \/ WaitGroupZero(r) \/ CancelRun(r) \/ Handler(r)
    \/ \E w \in Workers : Worker(w)
    \/ Stop
    \/ StopReturns

Spec == Init /\ [][Next]_vars

(***************************************************************************)
(* The Go scheduler runs every goroutine that can run, and conditions end: *)
(* weak fairness of each goroutine.  No one has to start a run, to cancel  *)
(* it or to call Stop.                                                     *)
(***************************************************************************)
Fairness ==
    /\ \A r \in Runs :
          /\ WF_vars(pc[r] # "idle" /\ Main(r))
          /\ WF_vars(WaitGroupZero(r))
          /\ WF_vars(Handler(r))
    /\ \A w \in Workers : WF_vars(Worker(w))
    /\ WF_vars(StopReturns)

FairSpec == Spec /\ Fairness
-----------------------------------------------------------------------------
(***************************************************************************)
(* Properties.                                                             *)
(***************************************************************************)

\* The values the variables range over.
StateOK ==
    /\ pc \in [Runs -> {"idle", "tagging", "add", "send", "wait", "collect",
                        "returned"}]
    /\ ctxDone \in [Runs -> BOOLEAN]
    /\ tagging \in [Runs -> SUBSET Rules]
    /\ toSend \in [Runs -> SUBSET Rules]
    /\ sending \in [Runs -> Rules \cup {NoRule}]
    /\ wg \in [Runs -> Int]
    /\ doneChan \in [Runs -> BOOLEAN]
    /\ hst \in [Runs -> {"off", "recv", "got", "recorded", "reported", "exited"}]
    /\ hmsg \in [Runs -> Msg \cup {NoMsg}]
    /\ completed \in [Runs -> Nat]
    /\ tags \in [Runs -> SUBSET Rules]
    /\ results \in [Runs -> [Categories -> SUBSET Rules]]
    /\ reported \in [Runs -> [stage : {"none", "executing", "complete"},
                              current : Int]]
    /\ ret \in [Runs -> [Categories -> SUBSET Rules]]
    /\ ruleProcessing \in Seq(Msg)
    /\ Len(ruleProcessing) <= BufferSize
    /\ wst \in [Workers -> {"idle", "eval", "respond", "exited"}]
    /\ wmsg \in [Workers -> Msg \cup {NoMsg}]
    /\ engineDone \in BOOLEAN
    /\ stopPc \in {"none", "waiting", "stopped"}

\* The type of the state.  wg \in Nat is the panic sync.WaitGroup raises on a
\* negative counter: wg.Done (engine.go:305) is never called more often than
\* wg.Add, whatever becomes of the rule.
TypeOK == StateOK /\ wg \in [Runs -> Nat]

\* The places a rule of run r can be in between wg.Add(1) and wg.Done().
InQueue(r, q) ==
    \E i \in 1..Len(ruleProcessing) :
        ruleProcessing[i].run = r /\ ruleProcessing[i].rule = q
AtWorker(w, r, q) ==
    wst[w] \in {"eval", "respond"} /\ wmsg[w].run = r /\ wmsg[w].rule = q
AtHandler(r, q) ==
    hst[r] \in {"got", "recorded", "reported"} /\ hmsg[r].rule = q
Outstanding(r) ==
    {q \in Rules : \/ sending[r] = q
                   \/ InQueue(r, q)
                   \/ \E w \in Workers : AtWorker(w, r, q)
                   \/ AtHandler(r, q)}

(***************************************************************************)
(* The WaitGroup of a run counts exactly the rules that are being sent,    *)
(* wait in the shared buffer, are at a worker or at the handler, whatever  *)
(* the other runs, a cancellation or Stop do: it never goes negative and   *)
(* no Done is lost (wg.Add at engine.go:358, the deferred Done at 305).    *)
(***************************************************************************)
WaitGroupCounts ==
    \A r \in Runs : wg[r] = Cardinality(Outstanding(r))

\* The categories rule q of run r is in.
CategoriesOf(res, q) == {c \in Categories : q \in res[c]}

(***************************************************************************)
(* A rule is never put in two categories, unless filterRules split it into *)
(* a tagging part and a message part; a skipped rule is in no other.       *)
(***************************************************************************)
OneCategory ==
    \A r \in Runs, q \in Rules \ SplitRules :
        Cardinality(CategoriesOf(results[r], q)) <= 1

(***************************************************************************)
(* A run that reported StageComplete returns an answer for every rule it   *)
(* sent to the workers: each is in the returned errors, violations,        *)
(* insights or unmatched rules, and the answer is the final one.           *)
(***************************************************************************)
CompleteRunAnswersAll ==
    \A r \in Runs : pc[r] = "returned" /\ reported[r].stage = "complete" =>
        /\ ret[r] = results[r]
        /\ \A q \in OtherRules : CategoriesOf(ret[r], q) \ {"skipped"} # {}

(***************************************************************************)
(* Once a run reported StageComplete nothing of it is left in the engine:  *)
(* no message in the buffer, at a worker or at the handler that a later    *)
(* run would have to wait for.                                             *)
(***************************************************************************)
CompleteRunLeavesNothing ==
    \A r \in Runs : reported[r].stage = "complete" =>
        Outstanding(r) = {} /\ toSend[r] = {} /\ wg[r] = 0

(***************************************************************************)
(* A tagging rule whose condition asks for tags is not evaluated while a   *)
(* rule that may still set one of them is to come (the sort at             *)
(* engine.go:450), unless that one asks for tags itself: the order of two  *)
(* rules that use hasTags is left open.                                    *)
(***************************************************************************)
TagsBeforeHasTags ==
    \A r \in Runs : pc[r] # "idle" =>
        \A q \in TaggingRules \ tagging[r] :
            \A p \in HasTags[q] \intersect tagging[r] : HasTags[p] # {}

(***************************************************************************)
(* Progress events of one run, though sent by the caller's goroutine and   *)
(* by the handler, never go back or beyond the total, and nothing follows  *)
(* the completion event.                                                   *)
(***************************************************************************)
ProgressMonotone ==
    [][\A r \in Runs :
          /\ reported'[r].current >= reported[r].current
          /\ reported'[r].current <= TotalRules
          /\ reported[r].stage = "complete" => reported'[r] = reported[r]]_vars

\* The maps handed to the caller of a completed run are not written again.
CompleteResultsStable ==
    [][\A r \in Runs : reported[r].stage = "complete"
          => results'[r] = results[r]]_vars

(***************************************************************************)
(* RunRules returns: every run that was started, unless the engine is      *)
(* stopped under it, whatever other runs share its workers.                *)
(***************************************************************************)
RunReturns == \A r \in Runs : pc[r] # "idle" ~> pc[r] = "returned" \/ engineDone

(***************************************************************************)
(* Stop "stops the rule engine and waits for all workers to complete"      *)
(* (engine.go:46): a call of Stop returns.                                 *)
(***************************************************************************)
StopReturned == stopPc = "waiting" ~> stopPc = "stopped"
=============================================================================
