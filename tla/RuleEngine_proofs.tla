------------------------- MODULE RuleEngine_proofs -------------------------
(***************************************************************************)
(* Proofs about RuleEngine, for any number of workers, runs and rules.     *)
(***************************************************************************)
EXTENDS RuleEngine, FiniteSetTheorems, TLAPS

\* A goroutine that works on a message holds one.
HoldsMsg ==
    /\ \A w \in Workers : wst[w] \in {"eval", "respond"} => wmsg[w] \in Msg
    /\ \A r \in Runs :
          hst[r] \in {"got", "recorded", "reported"} => hmsg[r] \in Msg
    /\ \A r \in Runs : pc[r] = "send" <=> sending[r] \in Rules

TypeInv == StateOK /\ HoldsMsg

\* filterRules gives finitely many rules of each kind.
LEMMA RuleCounts ==
    /\ TaggingRules \subseteq Rules /\ OtherRules \subseteq Rules
    /\ IsFiniteSet(TaggingRules) /\ IsFiniteSet(OtherRules)
    /\ Cardinality(TaggingRules) \in Nat
    /\ TotalRules \in Nat
<1>1. TaggingRules \subseteq Rules /\ OtherRules \subseteq Rules
  BY ConstantsAssumption DEF TaggingRules, OtherRules
<1>2. IsFiniteSet(TaggingRules) /\ IsFiniteSet(OtherRules)
  BY <1>1, FS_Subset, ConstantsAssumption
<1>3. Cardinality(TaggingRules) \in Nat /\ Cardinality(OtherRules) \in Nat
  BY <1>2, FS_CardinalityType
<1> QED
  BY <1>1, <1>2, <1>3 DEF TotalRules

\* Every response goes into one of the categories of a rule set.
LEMMA CategoryType == \A m : Category(m) \in Categories \ {"skipped"}
  BY DEF Category, Categories

\* Putting a rule into a category keeps the rule sets well formed.
LEMMA RecordType ==
    ASSUME StateOK, NEW r \in Runs, NEW q \in Rules, NEW c \in Categories,
           Record(r, q, c)
    PROVE  results' \in [Runs -> [Categories -> SUBSET Rules]]
  BY DEF StateOK, Record

LEMMA InitTypeInv == Init => TypeInv
<1> SUFFICES ASSUME Init PROVE TypeInv
  OBVIOUS
<1>1. NoResults \in [Categories -> SUBSET Rules]
  BY DEF NoResults
<1>2. /\ results \in [Runs -> [Categories -> SUBSET Rules]]
      /\ ret \in [Runs -> [Categories -> SUBSET Rules]]
  BY <1>1 DEF Init
<1>3. ruleProcessing \in Seq(Msg) /\ Len(ruleProcessing) <= BufferSize
  BY ConstantsAssumption DEF Init
<1>4. /\ ctxDone \in [Runs -> BOOLEAN] /\ doneChan \in [Runs -> BOOLEAN]
      /\ engineDone \in BOOLEAN
  BY DEF Init
<1>5. reported \in [Runs -> [stage : {"none", "executing", "complete"},
                             current : Int]]
  BY DEF Init, Event
<1>6. StateOK
  BY <1>2, <1>3, <1>4, <1>5 DEF Init, StateOK
<1>7. HoldsMsg
  BY ConstantsAssumption DEF Init, HoldsMsg
<1> QED
  BY <1>6, <1>7 DEF TypeInv

\* The rule parts of TypeInv that the goroutine running a call can disturb.
LEMMA MainTypeInv ==
    ASSUME TypeInv, NEW r \in Runs, Main(r) \/ WaitGroupZero(r) \/ CancelRun(r)
    PROVE  TypeInv'
<1> USE DEF TypeInv, StateOK, HoldsMsg, runVars, engineVars
<1>1. CASE StartBadScope(r)
  BY <1>1, ConstantsAssumption DEF StartBadScope
<1>2. CASE StartRun(r)
  BY <1>2, RuleCounts, ConstantsAssumption DEF StartRun, Event, Categories
<1>3. ASSUME NEW q \in Rules, NEW out \in Outcomes, RunTaggingRule(r, q, out)
      PROVE  TypeInv'
  <2>1. Cardinality(TaggingRules) - Cardinality(tagging[r]) \in Int
    <3>1. IsFiniteSet(tagging[r])
      BY FS_Subset, ConstantsAssumption
    <3> QED BY <3>1, FS_CardinalityType, RuleCounts
  <2>2. /\ tags' \in [Runs -> SUBSET Rules]
        /\ results' \in [Runs -> [Categories -> SUBSET Rules]]
    <3>1. CASE out = "filtered"
      BY <1>3, <3>1 DEF RunTaggingRule
    <3>2. CASE out = "error"
      BY <1>3, <3>2, RecordType DEF RunTaggingRule, Categories
    <3>3. CASE out = "unmatched"
      BY <1>3, <3>3, RecordType DEF RunTaggingRule, Categories
    <3>4. CASE out = "matched"
      <4>1. tags' \in [Runs -> SUBSET Rules]
        <5>1. tags' \in {tags, [tags EXCEPT ![r] = @ \cup {q}]}
          BY <1>3, <3>4, Zenon DEF RunTaggingRule
        <5>2. [tags EXCEPT ![r] = @ \cup {q}] \in [Runs -> SUBSET Rules]
          OBVIOUS
        <5> QED
          BY <5>1, <5>2
      <4>2. Record(r, q, IF q \in Effort THEN "violations" ELSE "insights")
        BY <1>3, <3>4 DEF RunTaggingRule
      <4> QED
        BY <4>1, <4>2, RecordType DEF Categories
    <3> QED
      BY <3>1, <3>2, <3>3, <3>4 DEF Outcomes
  <2> QED
    BY <1>3, <2>1, <2>2 DEF RunTaggingRule, Event
<1>4. CASE StartHandler(r)
  BY <1>4 DEF StartHandler
<1>5. ASSUME NEW q \in Rules, AddRule(r, q) PROVE TypeInv'
  BY <1>5 DEF AddRule
<1>6. CASE SendRule(r)
  <2>1. [run |-> r, rule |-> sending[r], out |-> "none"] \in Msg
    BY <1>6 DEF SendRule, Msg
  <2>2. ruleProcessing' \in Seq(Msg) /\ Len(ruleProcessing') <= BufferSize
    BY <1>6, <2>1, ConstantsAssumption DEF SendRule
  <2> QED
    BY <1>6, <2>2, ConstantsAssumption DEF SendRule
<1>7. CASE AllSent(r)
  BY <1>7 DEF AllSent
<1>8. CASE RunCompleted(r)
  BY <1>8, RuleCounts DEF RunCompleted, Event
<1>9. CASE RunCancelled(r)
  BY <1>9 DEF RunCancelled
<1>10. CASE Collect(r)
  BY <1>10 DEF Collect
<1>11. CASE WaitGroupZero(r)
  BY <1>11 DEF WaitGroupZero
<1>12. CASE CancelRun(r)
  BY <1>12 DEF CancelRun
<1> QED
  BY <1>1, <1>2, <1>3, <1>4, <1>5, <1>6, <1>7, <1>8, <1>9, <1>10, <1>11, <1>12
  DEF Main

LEMMA HandlerTypeInv ==
    ASSUME TypeInv, NEW r \in Runs, Handler(r)
    PROVE  TypeInv'
<1> USE DEF TypeInv, StateOK, HoldsMsg, engineVars
<1>1. CASE HandlerRecord(r)
  <2>1. hmsg[r].rule \in Rules
    BY <1>1 DEF HandlerRecord, Msg
  <2>2. results' \in [Runs -> [Categories -> SUBSET Rules]]
    <3>1. Record(r, hmsg[r].rule, Category(hmsg[r]))
      BY <1>1 DEF HandlerRecord
    <3>2. Category(hmsg[r]) \in Categories
      BY CategoryType
    <3> QED
      BY <2>1, <3>1, <3>2, RecordType
  <2> QED
    BY <1>1, <2>2 DEF HandlerRecord, Record
<1>2. CASE HandlerReport(r)
  BY <1>2, RuleCounts DEF HandlerReport, Event
<1>3. CASE HandlerDone(r)
  BY <1>3 DEF HandlerDone
<1>4. CASE HandlerExit(r)
  BY <1>4 DEF HandlerExit
<1> QED
  BY <1>1, <1>2, <1>3, <1>4 DEF Handler

LEMMA WorkerTypeInv ==
    ASSUME TypeInv, NEW w \in Workers, Worker(w)
    PROVE  TypeInv'
<1> USE DEF TypeInv, StateOK, HoldsMsg, runVars
<1>1. CASE TakeRule(w)
  <2>1. Head(ruleProcessing) \in Msg /\ Tail(ruleProcessing) \in Seq(Msg)
        /\ Len(Tail(ruleProcessing)) <= BufferSize
    BY <1>1, ConstantsAssumption DEF TakeRule
  <2> QED
    BY <1>1, <2>1 DEF TakeRule
<1>2. ASSUME NEW out \in Outcomes, Evaluate(w, out) PROVE TypeInv'
  <2>0. wmsg \in [Workers -> Msg \cup {NoMsg}] /\ wmsg[w] \in Msg
    BY <1>2 DEF Evaluate
  <2>e. wmsg' = [wmsg EXCEPT ![w] = [wmsg[w] EXCEPT !.out = out]]
    BY <1>2 DEF Evaluate
  <2>m. [wmsg[w] EXCEPT !.out = out] \in Msg
    BY <2>0 DEF Msg
  <2>1. wmsg'[w] \in Msg
    BY <2>0, <2>e, <2>m
  <2> QED
    BY <1>2, <2>1 DEF Evaluate
<1>3. CASE Respond(w)
  <2>1. wmsg[w] \in Msg /\ wmsg[w].run \in Runs
    BY <1>3 DEF Respond, Msg
  <2> QED
    BY <1>3, <2>1 DEF Respond
<1>4. CASE WorkerExit(w)
  BY <1>4 DEF WorkerExit
<1> QED
  BY <1>1, <1>2, <1>3, <1>4 DEF Worker

LEMMA NextTypeInv == TypeInv /\ [Next]_vars => TypeInv'
<1> SUFFICES ASSUME TypeInv, [Next]_vars PROVE TypeInv'
  OBVIOUS
<1>1. CASE Stop
  BY <1>1 DEF TypeInv, StateOK, HoldsMsg, Stop, runVars
<1>2. CASE StopReturns
  BY <1>2 DEF TypeInv, StateOK, HoldsMsg, StopReturns, runVars
<1>3. CASE UNCHANGED vars
  BY <1>3 DEF TypeInv, StateOK, HoldsMsg, vars, runVars, engineVars
<1> QED
  BY <1>1, <1>2, <1>3, MainTypeInv, HandlerTypeInv, WorkerTypeInv DEF Next

-----------------------------------------------------------------------------
(***************************************************************************)
(* The inductive invariant.  A rule of a run is in at most one place       *)
(* (Unique), the WaitGroup counts the rules that are in some place         *)
(* (WaitGroupCounts), a rule that has left the last place was answered     *)
(* (Answers) and the control points agree with all this (Control).         *)
(***************************************************************************)
AtSomeWorker(r, q) == \E w \in Workers : AtWorker(w, r, q)

DistinctQueue ==
    \A i, j \in 1..Len(ruleProcessing) :
        /\ ruleProcessing[i].run = ruleProcessing[j].run
        /\ ruleProcessing[i].rule = ruleProcessing[j].rule
        => i = j

Unique ==
    /\ DistinctQueue
    /\ \A r \in Runs, q \in Rules :
          /\ q \in toSend[r] => q \notin Outstanding(r)
          /\ sending[r] = q =>
                ~InQueue(r, q) /\ ~AtSomeWorker(r, q) /\ ~AtHandler(r, q)
          /\ InQueue(r, q) => ~AtSomeWorker(r, q) /\ ~AtHandler(r, q)
          /\ AtSomeWorker(r, q) => ~AtHandler(r, q)
          /\ \A v, w \in Workers :
                AtWorker(v, r, q) /\ AtWorker(w, r, q) => v = w

Answered(r, q) == \E c \in Categories \ {"skipped"} : q \in results[r][c]

Answers ==
    /\ \A r \in Runs : hst[r] # "off" =>
          \A q \in OtherRules :
             q \in toSend[r] \/ q \in Outstanding(r) \/ Answered(r, q)
    /\ \A r \in Runs : hst[r] \in {"recorded", "reported"} =>
          Answered(r, hmsg[r].rule)

ControlOf(r) ==
    /\ hst[r] = "off" => Outstanding(r) = {} /\ ~doneChan[r]
    /\ pc[r] = "idle" => hst[r] = "off" /\ toSend[r] = {}
    /\ pc[r] = "tagging" => hst[r] = "off" /\ toSend[r] = OtherRules
    /\ pc[r] \in {"add", "send", "wait", "collect"} => hst[r] # "off"
    /\ pc[r] \in {"wait", "collect", "returned"} => toSend[r] = {}
    /\ doneChan[r] =>
          pc[r] \in {"wait", "collect", "returned"} /\ Outstanding(r) = {}
    /\ reported[r].stage = "complete" =>
          doneChan[r] /\ pc[r] \in {"collect", "returned"}
    /\ pc[r] = "returned" /\ reported[r].stage = "complete" =>
          ret[r] = results[r]

Control == \A r \in Runs : ControlOf(r)

EngineInv == TypeInv /\ Unique /\ WaitGroupCounts /\ Answers /\ Control
\* What a send on the ruleProcessing channel does to the rules in it.
LEMMA AppendQueue ==
    ASSUME StateOK, NEW m \in Msg, ruleProcessing' = Append(ruleProcessing, m)
    PROVE  /\ \A r, q : InQueue(r, q)' <=>
                 InQueue(r, q) \/ (m.run = r /\ m.rule = q)
           /\ DistinctQueue /\ ~InQueue(m.run, m.rule) => DistinctQueue'
<1> DEFINE n == Len(ruleProcessing)
<1>1. /\ n \in Nat /\ Len(ruleProcessing') = n + 1
      /\ ruleProcessing'[n + 1] = m
      /\ \A i \in 1..n : ruleProcessing'[i] = ruleProcessing[i]
  BY DEF StateOK
<1>2. \A r, q : InQueue(r, q)' <=> InQueue(r, q) \/ (m.run = r /\ m.rule = q)
  BY <1>1 DEF InQueue
<1>3. ASSUME DistinctQueue, ~InQueue(m.run, m.rule) PROVE DistinctQueue'
  BY <1>1, <1>3 DEF DistinctQueue, InQueue
<1> QED
  BY <1>2, <1>3

\* What a receive from the ruleProcessing channel does to the rules in it.
LEMMA TailQueue ==
    ASSUME StateOK, ruleProcessing # <<>>, ruleProcessing' = Tail(ruleProcessing)
    PROVE  LET m == Head(ruleProcessing)
           IN  /\ \A r, q : InQueue(r, q) <=>
                     InQueue(r, q)' \/ (m.run = r /\ m.rule = q)
               /\ DistinctQueue =>
                     /\ DistinctQueue'
                     /\ \A r, q : m.run = r /\ m.rule = q => ~InQueue(r, q)'
<1> DEFINE n == Len(ruleProcessing)
           m == Head(ruleProcessing)
<1>1. /\ n \in Nat /\ n > 0 /\ Len(ruleProcessing') = n - 1
      /\ ruleProcessing[1] = m
      /\ \A i \in 1..(n - 1) : ruleProcessing'[i] = ruleProcessing[i + 1]
  BY DEF StateOK
<1>2. ASSUME NEW r, NEW q
      PROVE  InQueue(r, q) <=> InQueue(r, q)' \/ (m.run = r /\ m.rule = q)
  <2>1. ASSUME InQueue(r, q), ~(m.run = r /\ m.rule = q) PROVE InQueue(r, q)'
    <3>1. PICK i \in 1..n : ruleProcessing[i].run = r /\ ruleProcessing[i].rule = q
      BY <2>1 DEF InQueue
    <3>2. i # 1
      BY <1>1, <2>1, <3>1
    <3>3. i - 1 \in 1..(n - 1) /\ ruleProcessing'[i - 1] = ruleProcessing[i]
      BY <1>1, <3>1, <3>2
    <3> QED
      BY <1>1, <3>1, <3>3 DEF InQueue
  <2>2. ASSUME InQueue(r, q)' PROVE InQueue(r, q)
    <3>1. PICK i \in 1..(n - 1) :
             ruleProcessing'[i].run = r /\ ruleProcessing'[i].rule = q
      BY <1>1, <2>2 DEF InQueue
    <3>2. i + 1 \in 1..n /\ ruleProcessing[i + 1] = ruleProcessing'[i]
      BY <1>1, <3>1
    <3> QED
      BY <3>1, <3>2 DEF InQueue
  <2>3. m.run = r /\ m.rule = q => InQueue(r, q)
    <3>1. 1 \in 1..n
      BY <1>1
    <3> QED
      BY <1>1, <3>1 DEF InQueue
  <2> QED
    BY <2>1, <2>2, <2>3
<1>3. ASSUME DistinctQueue
      PROVE  /\ DistinctQueue'
             /\ \A r, q : m.run = r /\ m.rule = q => ~InQueue(r, q)'
  <2>1. \A i \in 1..(n - 1) : i + 1 \in 1..n /\ i + 1 # 1
    BY <1>1
  <2>2. DistinctQueue'
    BY <1>1, <1>3, <2>1 DEF DistinctQueue
  <2>3. 1 \in 1..n
    BY <1>1
  <2>4. ASSUME NEW r, NEW q, m.run = r, m.rule = q, InQueue(r, q)' PROVE FALSE
    <3>1. PICK i \in 1..(n - 1) :
             ruleProcessing'[i].run = r /\ ruleProcessing'[i].rule = q
      BY <1>1, <2>4 DEF InQueue
    <3>2. i + 1 = 1
      BY <1>1, <1>3, <2>1, <2>3, <2>4, <3>1 DEF DistinctQueue
    <3> QED
      BY <3>2
  <2> QED
    BY <2>2, <2>4
<1> QED
  BY <1>2, <1>3

(***************************************************************************)
(* A step that leaves every rule where it is.                              *)
(***************************************************************************)
SamePlaces ==
    /\ UNCHANGED <<sending, ruleProcessing>>
    /\ \A w \in Workers : \A r, q : AtWorker(w, r, q)' <=> AtWorker(w, r, q)
    /\ \A r \in Runs : \A q : AtHandler(r, q)' <=> AtHandler(r, q)

LEMMA SamePlacesOutstanding ==
    ASSUME SamePlaces
    PROVE  \A r \in Runs : Outstanding(r)' = Outstanding(r)
  BY DEF SamePlaces, Outstanding, InQueue

LEMMA SamePlacesInv ==
    ASSUME SamePlaces, Unique, WaitGroupCounts, UNCHANGED <<toSend, wg>>
    PROVE  Unique' /\ WaitGroupCounts'
<1>1. \A r \in Runs : Outstanding(r)' = Outstanding(r)
  BY SamePlacesOutstanding
<1>2. \A r \in Runs, q \in Rules : AtSomeWorker(r, q)' <=> AtSomeWorker(r, q)
  BY DEF SamePlaces, AtSomeWorker
<1>3. \A r, q : InQueue(r, q)' <=> InQueue(r, q)
  BY DEF SamePlaces, InQueue
<1>4. DistinctQueue'
  BY DEF SamePlaces, DistinctQueue, Unique
<1> QED
  BY <1>1, <1>2, <1>3, <1>4 DEF SamePlaces, Unique, WaitGroupCounts
LEMMA OutstandingFinite ==
    \A r : IsFiniteSet(Outstanding(r)) /\ Cardinality(Outstanding(r)) \in Nat
<1>1. \A r : Outstanding(r) \subseteq Rules
  BY DEF Outstanding
<1> QED
  BY <1>1, FS_Subset, FS_CardinalityType, ConstantsAssumption

\* wg.Add(1) and the rule it counts.
LEMMA AddRuleMoves ==
    ASSUME EngineInv, NEW r \in Runs, NEW q \in Rules, AddRule(r, q)
    PROVE  /\ Outstanding(r)' = Outstanding(r) \cup {q}
           /\ \A x \in Runs \ {r} : Outstanding(x)' = Outstanding(x)
           /\ Unique' /\ WaitGroupCounts'
<1> USE DEF AddRule, engineVars, EngineInv, TypeInv
<1>1. sending[r] \notin Rules
  BY DEF HoldsMsg
<1>2. /\ \A x, p : InQueue(x, p)' <=> InQueue(x, p)
      /\ \A w \in Workers : \A x, p : AtWorker(w, x, p)' <=> AtWorker(w, x, p)
      /\ \A x \in Runs : \A p : AtHandler(x, p)' <=> AtHandler(x, p)
      /\ \A x \in Runs : \A p : AtSomeWorker(x, p)' <=> AtSomeWorker(x, p)
  BY DEF InQueue, AtWorker, AtHandler, AtSomeWorker
<1>3. sending' = [sending EXCEPT ![r] = q] /\ sending \in [Runs -> Rules \cup {NoRule}]
  BY DEF StateOK
<1>4. Outstanding(r)' = Outstanding(r) \cup {q}
  BY <1>1, <1>2, <1>3 DEF Outstanding
<1>5. \A x \in Runs \ {r} : Outstanding(x)' = Outstanding(x)
  BY <1>2, <1>3 DEF Outstanding
<1>6. q \notin Outstanding(r)
  BY DEF Unique
<1>7. Unique'
  <2>1. DistinctQueue'
    BY DEF Unique, DistinctQueue
  <2>2. toSend' = [toSend EXCEPT ![r] = toSend[r] \ {q}] /\ toSend \in [Runs -> SUBSET Rules]
    BY DEF StateOK
  <2>3. ~InQueue(r, q) /\ ~AtSomeWorker(r, q) /\ ~AtHandler(r, q)
    BY <1>6 DEF Outstanding, AtSomeWorker
  <2>4. ASSUME NEW x \in Runs, NEW p \in Rules
        PROVE  /\ p \in toSend'[x] => p \notin Outstanding(x)'
               /\ sending'[x] = p =>
                    ~InQueue(x, p)' /\ ~AtSomeWorker(x, p)' /\ ~AtHandler(x, p)'
    BY <1>2, <1>3, <1>4, <1>5, <2>2, <2>3 DEF Unique
  <2> QED
    BY <1>2, <2>1, <2>4 DEF Unique
<1>8. WaitGroupCounts'
  <2>1. Cardinality(Outstanding(r) \cup {q}) = Cardinality(Outstanding(r)) + 1
    BY <1>6, OutstandingFinite, FS_AddElement
  <2> QED
    BY <1>4, <1>5, <2>1 DEF WaitGroupCounts, StateOK
<1> QED
  BY <1>4, <1>5, <1>7, <1>8

\* The steps that move a rule from one place to the next.
LEMMA SendRuleMoves ==
    ASSUME EngineInv, NEW r \in Runs, SendRule(r)
    PROVE  /\ \A x \in Runs : Outstanding(x)' = Outstanding(x)
           /\ Unique' /\ WaitGroupCounts'
<1> USE DEF SendRule, EngineInv, TypeInv
<1> DEFINE m == [run |-> r, rule |-> sending[r], out |-> "none"]
<1>1. sending[r] \in Rules /\ sending \in [Runs -> Rules \cup {NoRule}]
      /\ NoRule \notin Rules
  BY ConstantsAssumption DEF HoldsMsg, StateOK
<1>2. PICK q \in Rules : q = sending[r]
  BY <1>1
<1>3. m \in Msg /\ m.run = r /\ m.rule = q
  BY <1>2 DEF Msg
<1>4. ~InQueue(r, q) /\ ~AtSomeWorker(r, q) /\ ~AtHandler(r, q)
  BY <1>2 DEF Unique
<1>5. /\ \A x, p : InQueue(x, p)' <=> InQueue(x, p) \/ (r = x /\ q = p)
      /\ DistinctQueue'
  <2>1. /\ \A x, p : InQueue(x, p)' <=> InQueue(x, p) \/ (m.run = x /\ m.rule = p)
        /\ DistinctQueue /\ ~InQueue(m.run, m.rule) => DistinctQueue'
    <3>1. \E y \in Msg : y = m /\ ruleProcessing' = Append(ruleProcessing, y)
      BY <1>3
    <3> HIDE DEF m
    <3> QED
      BY <3>1, AppendQueue
  <2>2. DistinctQueue /\ ~InQueue(m.run, m.rule)
    BY <1>2, <1>3, <1>4 DEF Unique
  <2> QED
    BY <1>3, <2>1, <2>2
<1>6. /\ \A w \in Workers : \A x, p : AtWorker(w, x, p)' <=> AtWorker(w, x, p)
      /\ \A x \in Runs : \A p : AtHandler(x, p)' <=> AtHandler(x, p)
      /\ \A x \in Runs : \A p : AtSomeWorker(x, p)' <=> AtSomeWorker(x, p)
  BY DEF AtWorker, AtHandler, AtSomeWorker
<1>7. \A x \in Runs, p \in Rules :
         sending'[x] = p <=> sending[x] = p /\ x # r
  BY <1>1
<1>8. \A x \in Runs : Outstanding(x)' = Outstanding(x)
  BY <1>2, <1>5, <1>6, <1>7 DEF Outstanding
<1>9. Unique'
  <2>1. ASSUME NEW x \in Runs, NEW p \in Rules
        PROVE  /\ p \in toSend'[x] => p \notin Outstanding(x)'
               /\ sending'[x] = p =>
                    ~InQueue(x, p)' /\ ~AtSomeWorker(x, p)' /\ ~AtHandler(x, p)'
               /\ InQueue(x, p)' => ~AtSomeWorker(x, p)' /\ ~AtHandler(x, p)'
    BY <1>4, <1>5, <1>6, <1>7, <1>8 DEF Unique
  <2> QED
    BY <1>5, <1>6, <2>1 DEF Unique
<1> QED
  BY <1>8, <1>9 DEF WaitGroupCounts
LEMMA TakeRuleMoves ==
    ASSUME EngineInv, NEW w \in Workers, TakeRule(w)
    PROVE  /\ \A x \in Runs : Outstanding(x)' = Outstanding(x)
           /\ Unique' /\ WaitGroupCounts'
<1> USE DEF TakeRule, EngineInv, TypeInv, runVars
<1>1. Head(ruleProcessing) \in Msg
  BY DEF StateOK
<1>2. PICK m \in Msg : m = Head(ruleProcessing)
  BY <1>1
<1>3. PICK r \in Runs, q \in Rules : r = m.run /\ q = m.rule
  BY DEF Msg
<1>4. /\ \A x, p : InQueue(x, p) <=> InQueue(x, p)' \/ (r = x /\ q = p)
      /\ DistinctQueue' /\ ~InQueue(r, q)'
  BY <1>2, <1>3, TailQueue DEF Unique
<1>5. /\ wst \in [Workers -> {"idle", "eval", "respond", "exited"}]
      /\ wmsg \in [Workers -> Msg \cup {NoMsg}]
  BY DEF StateOK
<1>6. \A v \in Workers : \A x, p :
         AtWorker(v, x, p)' <=> AtWorker(v, x, p) \/ (v = w /\ r = x /\ q = p)
  BY <1>2, <1>3, <1>5 DEF AtWorker
<1>7. \A x \in Runs : \A p :
         /\ AtHandler(x, p)' <=> AtHandler(x, p)
         /\ AtSomeWorker(x, p)' <=> AtSomeWorker(x, p) \/ (r = x /\ q = p)
  BY <1>6 DEF AtHandler, AtSomeWorker
<1>8. InQueue(r, q) /\ ~AtSomeWorker(r, q) /\ ~AtHandler(r, q) /\ sending[r] # q
  BY <1>4 DEF Unique
<1>9. \A x \in Runs : Outstanding(x)' = Outstanding(x)
  BY <1>4, <1>6, <1>7 DEF Outstanding
<1>10. Unique'
  <2>1. ASSUME NEW x \in Runs, NEW p \in Rules
        PROVE  /\ p \in toSend'[x] => p \notin Outstanding(x)'
               /\ sending'[x] = p =>
                    ~InQueue(x, p)' /\ ~AtSomeWorker(x, p)' /\ ~AtHandler(x, p)'
               /\ InQueue(x, p)' => ~AtSomeWorker(x, p)' /\ ~AtHandler(x, p)'
               /\ AtSomeWorker(x, p)' => ~AtHandler(x, p)'
    BY <1>4, <1>7, <1>8, <1>9 DEF Unique
  <2>2. ASSUME NEW x \in Runs, NEW p \in Rules, NEW u \in Workers, NEW v \in Workers,
               AtWorker(u, x, p)', AtWorker(v, x, p)'
        PROVE  u = v
    BY <1>6, <1>8, <2>2 DEF Unique, AtSomeWorker
  <2> QED
    BY <1>4, <2>1, <2>2 DEF Unique
<1> QED
  BY <1>9, <1>10 DEF WaitGroupCounts

LEMMA RespondMoves ==
    ASSUME EngineInv, NEW w \in Workers, Respond(w)
    PROVE  /\ \A x \in Runs : Outstanding(x)' = Outstanding(x)
           /\ Unique' /\ WaitGroupCounts'
<1> USE DEF Respond, EngineInv, TypeInv
<1>1. wmsg[w] \in Msg
  BY DEF HoldsMsg
<1>2. PICK r \in Runs, q \in Rules : r = wmsg[w].run /\ q = wmsg[w].rule
  BY <1>1 DEF Msg
<1>3. /\ wst \in [Workers -> {"idle", "eval", "respond", "exited"}]
      /\ wmsg \in [Workers -> Msg \cup {NoMsg}]
      /\ hmsg \in [Runs -> Msg \cup {NoMsg}]
      /\ hst \in [Runs -> {"off", "recv", "got", "recorded", "reported", "exited"}]
  BY DEF StateOK
<1>4. \A v \in Workers : \A x, p :
         AtWorker(v, x, p)' <=> AtWorker(v, x, p) /\ v # w
  BY <1>3 DEF AtWorker
<1>5. \A x \in Runs : \A p :
         AtHandler(x, p)' <=> AtHandler(x, p) \/ (r = x /\ q = p)
  BY <1>2, <1>3 DEF AtHandler
<1>6. \A x, p : InQueue(x, p)' <=> InQueue(x, p)
  BY DEF InQueue
<1>7. AtWorker(w, r, q)
  BY <1>2 DEF AtWorker
<1>8. /\ AtSomeWorker(r, q) /\ ~AtSomeWorker(r, q)'
      /\ \A x \in Runs, p \in Rules : AtSomeWorker(x, p)' => AtSomeWorker(x, p)
      /\ \A x \in Runs, p \in Rules :
            AtSomeWorker(x, p) /\ ~AtSomeWorker(x, p)' => x = r /\ p = q
  <2>1. \A x, p : AtWorker(w, x, p) => x = r /\ p = q
    BY <1>2 DEF AtWorker
  <2>2. \A v \in Workers : AtWorker(v, r, q) => v = w
    BY <1>7 DEF Unique
  <2> QED
    BY <1>4, <1>7, <2>1, <2>2 DEF AtSomeWorker
<1>9. \A x \in Runs : Outstanding(x)' = Outstanding(x)
  <2>1. ASSUME NEW x \in Runs, NEW p \in Rules
        PROVE  p \in Outstanding(x) <=>
                  \/ sending[x] = p \/ InQueue(x, p)
                  \/ AtSomeWorker(x, p) \/ AtHandler(x, p)
    BY DEF Outstanding, AtSomeWorker
  <2>2. ASSUME NEW x \in Runs, NEW p \in Rules
        PROVE  p \in Outstanding(x)' <=>
                  \/ sending[x] = p \/ InQueue(x, p)'
                  \/ AtSomeWorker(x, p)' \/ AtHandler(x, p)'
    BY DEF Outstanding, AtSomeWorker
  <2>3. \A x \in Runs : Outstanding(x) \subseteq Rules /\ Outstanding(x)' \subseteq Rules
    BY DEF Outstanding
  <2>4. ASSUME NEW x \in Runs, NEW p \in Rules
        PROVE  p \in Outstanding(x)' <=> p \in Outstanding(x)
    BY <1>5, <1>6, <1>8, <2>1, <2>2
  <2> QED
    BY <2>3, <2>4
<1>10. InQueue(r, q) = FALSE /\ sending[r] # q
  BY <1>8 DEF Unique
<1>11. Unique'
  <2>1. DistinctQueue'
    BY DEF Unique, DistinctQueue
  <2>2. ASSUME NEW x \in Runs, NEW p \in Rules
        PROVE  /\ p \in toSend'[x] => p \notin Outstanding(x)'
               /\ sending'[x] = p =>
                    ~InQueue(x, p)' /\ ~AtSomeWorker(x, p)' /\ ~AtHandler(x, p)'
               /\ InQueue(x, p)' => ~AtSomeWorker(x, p)' /\ ~AtHandler(x, p)'
               /\ AtSomeWorker(x, p)' => ~AtHandler(x, p)'
    BY <1>5, <1>6, <1>8, <1>9, <1>10 DEF Unique
  <2>3. ASSUME NEW x \in Runs, NEW p \in Rules, NEW u \in Workers, NEW v \in Workers,
               AtWorker(u, x, p)', AtWorker(v, x, p)'
        PROVE  u = v
    BY <1>4, <2>3 DEF Unique
  <2> QED
    BY <2>1, <2>2, <2>3 DEF Unique
<1> QED
  BY <1>9, <1>11 DEF WaitGroupCounts

\* wg.Done() and the rule it discounts.
LEMMA HandlerDoneMoves ==
    ASSUME EngineInv, NEW r \in Runs, HandlerDone(r)
    PROVE  /\ Outstanding(r)' = Outstanding(r) \ {hmsg[r].rule}
           /\ \A x \in Runs \ {r} : Outstanding(x)' = Outstanding(x)
           /\ Unique' /\ WaitGroupCounts'
<1> USE DEF HandlerDone, EngineInv, TypeInv, engineVars
<1>1. PICK q \in Rules : q = hmsg[r].rule
  BY DEF HoldsMsg, Msg
<1>2. /\ hmsg \in [Runs -> Msg \cup {NoMsg}]
      /\ hst \in [Runs -> {"off", "recv", "got", "recorded", "reported", "exited"}]
  BY DEF StateOK
<1>3. \A x \in Runs : \A p : AtHandler(x, p)' <=> AtHandler(x, p) /\ x # r
  BY <1>2 DEF AtHandler
<1>4. /\ \A x, p : InQueue(x, p)' <=> InQueue(x, p)
      /\ \A w \in Workers : \A x, p : AtWorker(w, x, p)' <=> AtWorker(w, x, p)
      /\ \A x \in Runs : \A p : AtSomeWorker(x, p)' <=> AtSomeWorker(x, p)
  BY DEF InQueue, AtWorker, AtSomeWorker
<1>5. AtHandler(r, q) /\ \A p : AtHandler(r, p) => p = q
  BY <1>1 DEF AtHandler
<1>6. ~InQueue(r, q) /\ ~AtSomeWorker(r, q) /\ sending[r] # q
  BY <1>5 DEF Unique
<1>7. Outstanding(r)' = Outstanding(r) \ {q} /\ q \in Outstanding(r)
  BY <1>3, <1>4, <1>5, <1>6 DEF Outstanding, AtSomeWorker
<1>8. \A x \in Runs \ {r} : Outstanding(x)' = Outstanding(x)
  BY <1>3, <1>4 DEF Outstanding
<1>9. Unique'
  <2>1. DistinctQueue'
    BY DEF Unique, DistinctQueue
  <2>2. \A x \in Runs, p \in Rules :
           p \in toSend'[x] => p \notin Outstanding(x)'
    BY <1>7, <1>8 DEF Unique
  <2> QED
    BY <1>3, <1>4, <2>1, <2>2 DEF Unique
<1>10. WaitGroupCounts'
  <2>1. Cardinality(Outstanding(r) \ {q}) = Cardinality(Outstanding(r)) - 1
    BY <1>7, OutstandingFinite, FS_RemoveElement
  <2> QED
    BY <1>7, <1>8, <2>1 DEF WaitGroupCounts, StateOK
<1> QED
  BY <1>1, <1>7, <1>8, <1>9, <1>10
\* A step that keeps the outstanding rules and every answer keeps Answers.
LEMMA AnswersKept ==
    ASSUME EngineInv,
           \A r \in Runs : Outstanding(r)' = Outstanding(r),
           UNCHANGED toSend,
           \A r \in Runs : hst'[r] # "off" => hst[r] # "off",
           \A r \in Runs, q \in Rules : Answered(r, q) => Answered(r, q)',
           \A r \in Runs : hst'[r] \in {"recorded", "reported"} =>
              hst[r] \in {"recorded", "reported"} /\ hmsg'[r] = hmsg[r]
    PROVE  Answers'
<1>1. \A r \in Runs : hst[r] \in {"recorded", "reported"} => hmsg[r].rule \in Rules
  BY DEF EngineInv, TypeInv, HoldsMsg, Msg
<1>2. \A r \in Runs : hst'[r] \in {"recorded", "reported"} =>
         Answered(r, hmsg[r].rule)'
  <2> SUFFICES ASSUME NEW r \in Runs, hst'[r] \in {"recorded", "reported"}
               PROVE  Answered(r, hmsg[r].rule)'
    OBVIOUS
  <2>1. PICK q \in Rules : q = hmsg[r].rule
    BY <1>1
  <2>2. Answered(r, q)
    BY <2>1 DEF EngineInv, Answers
  <2>3. Answered(r, q)'
    BY <2>2
  <2> QED
    BY <2>1, <2>3 DEF Answered
<1>3. \A r \in Runs : hst'[r] # "off" => \A q \in OtherRules :
         q \in toSend'[r] \/ q \in Outstanding(r)' \/ Answered(r, q)'
  BY RuleCounts DEF EngineInv, Answers
<1> QED
  BY <1>2, <1>3 DEF Answers

\* The control steps of the caller, and the waiting goroutine.
LEMMA QuietMainStep ==
    ASSUME EngineInv, NEW r \in Runs,
           \/ StartBadScope(r) \/ AllSent(r) \/ RunCompleted(r)
           \/ RunCancelled(r) \/ Collect(r) \/ WaitGroupZero(r) \/ CancelRun(r)
    PROVE  EngineInv'
<1> USE DEF engineVars
<1> DEFINE A == \/ StartBadScope(r) \/ AllSent(r) \/ RunCompleted(r)
                \/ RunCancelled(r) \/ Collect(r) \/ WaitGroupZero(r) \/ CancelRun(r)
<1>1. TypeInv'
  BY MainTypeInv DEF EngineInv, Main
<1>2. /\ UNCHANGED <<sending, ruleProcessing, wst, wmsg, hst, hmsg, toSend, wg, results>>
      /\ pc'[r] # "idle" \/ pc' = pc
  BY DEF StartBadScope, AllSent, RunCompleted, RunCancelled, Collect,
         WaitGroupZero, CancelRun, EngineInv, TypeInv, StateOK
<1>3. SamePlaces
  BY <1>2 DEF SamePlaces, AtWorker, AtHandler
<1>4. Unique' /\ WaitGroupCounts' /\ \A x \in Runs : Outstanding(x)' = Outstanding(x)
  BY <1>2, <1>3, SamePlacesInv, SamePlacesOutstanding DEF EngineInv
<1>5. Answers'
  <2>1. \A x \in Runs, q \in Rules : Answered(x, q) => Answered(x, q)'
    BY <1>2 DEF Answered
  <2> QED
    BY <1>2, <1>4, <2>1, AnswersKept
<1>6. Control'
  <2>1. StateOK /\ ControlOf(r)
    BY DEF EngineInv, TypeInv, Control
  <2>2. ASSUME NEW x \in Runs, x # r PROVE ControlOf(x)'
    BY <1>2, <1>4, <2>1, <2>2
    DEF StartBadScope, AllSent, RunCompleted, RunCancelled, Collect,
        WaitGroupZero, CancelRun, EngineInv, Control, ControlOf, StateOK
  <2>3. CASE WaitGroupZero(r)
    <3>1. Outstanding(r) = {}
      BY <2>3, OutstandingFinite, FS_EmptySet
      DEF WaitGroupZero, EngineInv, WaitGroupCounts
    <3> QED
      BY <1>2, <1>4, <2>1, <2>2, <2>3, <3>1 DEF WaitGroupZero, Control, ControlOf, StateOK
  <2>4. CASE RunCompleted(r)
    BY <1>2, <1>4, <2>1, <2>2, <2>4 DEF RunCompleted, Control, ControlOf, StateOK, Event
  <2>5. CASE StartBadScope(r)
    BY <1>2, <1>4, <2>1, <2>2, <2>5 DEF StartBadScope, Control, ControlOf, StateOK
  <2>6. CASE AllSent(r)
    BY <1>2, <1>4, <2>1, <2>2, <2>6 DEF AllSent, Control, ControlOf, StateOK
  <2>7. CASE RunCancelled(r)
    BY <1>2, <1>4, <2>1, <2>2, <2>7 DEF RunCancelled, Control, ControlOf, StateOK
  <2>8. CASE Collect(r)
    BY <1>2, <1>4, <2>1, <2>2, <2>8 DEF Collect, Control, ControlOf, StateOK
  <2>9. CASE CancelRun(r)
    BY <1>2, <1>4, <2>1, <2>2, <2>9 DEF CancelRun, Control, ControlOf, StateOK
  <2> QED
    BY <2>3, <2>4, <2>5, <2>6, <2>7, <2>8, <2>9
<1> QED
  BY <1>1, <1>4, <1>5, <1>6 DEF EngineInv
\* filterRules and the tagging rules, before anything is sent.
LEMMA TaggingStep ==
    ASSUME EngineInv, NEW r \in Runs,
           \/ StartRun(r) \/ StartHandler(r)
           \/ \E q \in Rules, out \in Outcomes : RunTaggingRule(r, q, out)
    PROVE  EngineInv'
<1> USE DEF engineVars
<1>1. TypeInv'
  BY MainTypeInv DEF EngineInv, Main
<1>2. StateOK /\ ControlOf(r)
  BY DEF EngineInv, TypeInv, Control
<1>3. /\ UNCHANGED <<sending, ruleProcessing, wst, wmsg, hmsg, wg, ret, doneChan>>
      /\ \A x \in Runs \ {r} : /\ hst'[x] = hst[x] /\ toSend'[x] = toSend[x]
                               /\ pc'[x] = pc[x] /\ reported'[x] = reported[x]
      /\ hst[r] = "off" /\ hst'[r] \in {"off", "recv"}
      /\ toSend'[r] = OtherRules /\ toSend \in [Runs -> SUBSET Rules]
      /\ toSend' = [toSend EXCEPT ![r] = OtherRules]
  BY <1>2 DEF StartRun, StartHandler, RunTaggingRule, ControlOf, StateOK
<1>4. SamePlaces
  BY <1>3 DEF SamePlaces, AtWorker, AtHandler
<1>5. /\ \A x \in Runs : Outstanding(x)' = Outstanding(x)
      /\ Outstanding(r) = {} /\ ~doneChan[r]
  BY <1>2, <1>3, <1>4, SamePlacesOutstanding DEF ControlOf
<1>6. Unique'
  <2>1. \A x \in Runs, q \in Rules :
           /\ AtSomeWorker(x, q)' <=> AtSomeWorker(x, q)
           /\ InQueue(x, q)' <=> InQueue(x, q)
    BY <1>4 DEF SamePlaces, AtSomeWorker, InQueue
  <2>2. DistinctQueue'
    BY <1>3 DEF EngineInv, Unique, DistinctQueue
  <2>3. \A x \in Runs, q \in Rules : q \in toSend'[x] => q \notin Outstanding(x)'
    BY <1>3, <1>5 DEF EngineInv, Unique
  <2> QED
    BY <1>4, <2>1, <2>2, <2>3 DEF SamePlaces, EngineInv, Unique
<1>7. WaitGroupCounts'
  BY <1>3, <1>5 DEF EngineInv, WaitGroupCounts
<1>8. \A x \in Runs \ {r} : results'[x] = results[x]
  BY <1>2 DEF StartRun, StartHandler, RunTaggingRule, Record, StateOK
<1>9. Answers'
  <2>1. ASSUME NEW x \in Runs \ {r}, NEW q \in OtherRules, hst'[x] # "off"
        PROVE  q \in toSend'[x] \/ q \in Outstanding(x)' \/ Answered(x, q)'
    BY <1>3, <1>5, <1>8, <2>1 DEF EngineInv, Answers, Answered
  <2>2. ASSUME NEW x \in Runs, hst'[x] \in {"recorded", "reported"}
        PROVE  Answered(x, hmsg[x].rule)'
    BY <1>3, <1>8, <2>2 DEF EngineInv, Answers, Answered
  <2> QED
    BY <1>3, <2>1, <2>2 DEF Answers
<1>10. Control'
  <2>1. ASSUME NEW x \in Runs, x # r PROVE ControlOf(x)'
    BY <1>3, <1>5, <1>8, <2>1 DEF EngineInv, Control, ControlOf
  <2>2. ControlOf(r)'
    <3>1. CASE StartRun(r)
      BY <1>2, <1>3, <1>5, <3>1 DEF StartRun, ControlOf, StateOK, Event
    <3>2. CASE StartHandler(r)
      BY <1>2, <1>3, <1>5, <3>2 DEF StartHandler, ControlOf, StateOK
    <3>3. ASSUME NEW q \in Rules, NEW out \in Outcomes, RunTaggingRule(r, q, out)
          PROVE  ControlOf(r)'
      <4>1. reported'[r].stage = "executing" /\ pc' = pc /\ hst' = hst /\ pc[r] = "tagging"
        BY <1>2, <3>3 DEF RunTaggingRule, StateOK, Event
      <4> QED
        BY <1>2, <1>3, <1>5, <4>1 DEF ControlOf
    <3> QED
      BY <3>1, <3>2, <3>3
  <2> QED
    BY <2>1, <2>2 DEF Control
<1> QED
  BY <1>1, <1>6, <1>7, <1>9, <1>10 DEF EngineInv

LEMMA AddRuleStep ==
    ASSUME EngineInv, NEW r \in Runs, NEW q \in Rules, AddRule(r, q)
    PROVE  EngineInv'
<1> USE DEF engineVars
<1>1. TypeInv'
  BY MainTypeInv DEF EngineInv, Main
<1>2. StateOK /\ Control
  BY DEF EngineInv, TypeInv
<1>3. /\ Outstanding(r)' = Outstanding(r) \cup {q}
      /\ \A x \in Runs \ {r} : Outstanding(x)' = Outstanding(x)
      /\ Unique' /\ WaitGroupCounts'
  BY AddRuleMoves
<1>4. Answers'
  BY <1>2, <1>3 DEF AddRule, EngineInv, Answers, Answered, StateOK
<1>5. Control'
  <2>1. ControlOf(r)'
    BY <1>2, <1>3 DEF AddRule, Control, ControlOf, StateOK
  <2>2. \A x \in Runs \ {r} : ControlOf(x)'
    BY <1>2, <1>3 DEF AddRule, Control, ControlOf, StateOK
  <2> QED
    BY <2>1, <2>2 DEF Control
<1> QED
  BY <1>1, <1>3, <1>4, <1>5 DEF EngineInv

\* The steps that hand a rule over, between goroutines or into the buffer.
LEMMA HandOverStep ==
    ASSUME EngineInv,
           \/ \E r \in Runs : SendRule(r)
           \/ \E w \in Workers : TakeRule(w) \/ Respond(w)
    PROVE  EngineInv'
<1>1. TypeInv'
  BY MainTypeInv, WorkerTypeInv DEF EngineInv, Main, Worker
<1>2. StateOK /\ HoldsMsg /\ Control
  BY DEF EngineInv, TypeInv
<1>3. /\ \A x \in Runs : Outstanding(x)' = Outstanding(x)
      /\ Unique' /\ WaitGroupCounts'
  BY SendRuleMoves, TakeRuleMoves, RespondMoves
<1>4. UNCHANGED <<toSend, results, reported, ret, doneChan>>
  BY DEF SendRule, TakeRule, Respond, runVars
<1>5. \A r \in Runs :
         /\ hst'[r] = hst[r] \/ (hst[r] = "recv" /\ hst'[r] = "got")
         /\ hmsg'[r] = hmsg[r] \/ hst'[r] = "got"
         /\ pc'[r] = pc[r] \/ (pc[r] = "send" /\ pc'[r] = "add")
  <2>1. CASE \E r \in Runs : SendRule(r)
    BY <1>2, <2>1 DEF SendRule, StateOK
  <2>2. CASE \E w \in Workers : TakeRule(w)
    BY <2>2 DEF TakeRule, runVars
  <2>3. CASE \E w \in Workers : Respond(w)
    BY <1>2, <2>3 DEF Respond, StateOK, HoldsMsg, Msg
  <2> QED
    BY <2>1, <2>2, <2>3
<1>6. Answers'
  <2>1. \A x \in Runs, q \in Rules : Answered(x, q) => Answered(x, q)'
    BY <1>4 DEF Answered
  <2> QED
    BY <1>3, <1>4, <1>5, <2>1, AnswersKept
<1>7. Control'
  BY <1>2, <1>3, <1>4, <1>5 DEF Control, ControlOf
<1> QED
  BY <1>1, <1>3, <1>6, <1>7 DEF EngineInv
LEMMA HandlerRecordStep ==
    ASSUME EngineInv, NEW r \in Runs, HandlerRecord(r)
    PROVE  EngineInv'
<1> USE DEF engineVars
<1>1. TypeInv'
  BY HandlerTypeInv DEF EngineInv, Handler
<1>2. StateOK /\ HoldsMsg /\ Control
  BY DEF EngineInv, TypeInv
<1>3. PICK q \in Rules : q = hmsg[r].rule
  BY <1>2 DEF HandlerRecord, HoldsMsg, Msg
<1>4. PICK c \in Categories \ {"skipped"} : c = Category(hmsg[r])
  BY CategoryType
<1>5. results' = [results EXCEPT ![r][c] = @ \cup {q}]
  BY <1>3, <1>4 DEF HandlerRecord, Record
<1>6. /\ UNCHANGED <<sending, ruleProcessing, wst, wmsg, hmsg, toSend, wg, pc,
                     reported, ret, doneChan>>
      /\ hst[r] = "got" /\ hst' = [hst EXCEPT ![r] = "recorded"]
  BY DEF HandlerRecord
<1>7. SamePlaces
  BY <1>2, <1>6 DEF SamePlaces, AtWorker, AtHandler, StateOK
<1>8. Unique' /\ WaitGroupCounts' /\ \A x \in Runs : Outstanding(x)' = Outstanding(x)
  BY <1>6, <1>7, SamePlacesInv, SamePlacesOutstanding DEF EngineInv
<1>9. /\ \A x \in Runs, p \in Rules : Answered(x, p) => Answered(x, p)'
      /\ Answered(r, q)'
  BY <1>2, <1>5 DEF Answered, StateOK
<1>10. Answers'
  <2>1. \A x \in Runs : hst'[x] # "off" => \A p \in OtherRules :
           p \in toSend'[x] \/ p \in Outstanding(x)' \/ Answered(x, p)'
    BY <1>2, <1>6, <1>8, <1>9, RuleCounts DEF EngineInv, Answers, StateOK
  <2>2. ASSUME NEW x \in Runs, hst'[x] \in {"recorded", "reported"}
        PROVE  Answered(x, hmsg[x].rule)'
    <3>1. CASE x = r
      BY <1>3, <1>6, <1>9, <3>1 DEF Answered
    <3>2. CASE x # r
      <4>1. hst[x] \in {"recorded", "reported"} /\ results'[x] = results[x]
        BY <1>2, <1>5, <1>6, <2>2, <3>2 DEF StateOK
      <4> QED
        BY <1>6, <4>1 DEF EngineInv, Answers, Answered
    <3> QED
      BY <3>1, <3>2
  <2> QED
    BY <2>1, <2>2 DEF Answers
<1>11. Control'
  <2>1. q \in Outstanding(r)
    BY <1>3, <1>6 DEF Outstanding, AtHandler
  <2>2. ControlOf(r)'
    BY <1>2, <1>6, <1>8, <2>1 DEF Control, ControlOf, StateOK
  <2>3. ASSUME NEW x \in Runs, x # r PROVE ControlOf(x)'
    <3>1. results'[x] = results[x] /\ hst'[x] = hst[x]
      BY <1>2, <1>5, <1>6, <2>3 DEF StateOK
    <3> QED
      BY <1>2, <1>6, <1>8, <3>1 DEF Control, ControlOf
  <2> QED
    BY <2>2, <2>3 DEF Control
<1> QED
  BY <1>1, <1>8, <1>10, <1>11 DEF EngineInv

LEMMA HandlerReportStep ==
    ASSUME EngineInv, NEW r \in Runs, HandlerReport(r) \/ HandlerExit(r)
    PROVE  EngineInv'
<1> USE DEF engineVars
<1>1. TypeInv'
  BY HandlerTypeInv DEF EngineInv, Handler
<1>2. StateOK /\ HoldsMsg /\ Control
  BY DEF EngineInv, TypeInv
<1>3. /\ UNCHANGED <<sending, ruleProcessing, wst, wmsg, hmsg, toSend, wg, pc,
                     results, ret, doneChan>>
      /\ \A x \in Runs \ {r} : hst'[x] = hst[x] /\ reported'[x] = reported[x]
      /\ \/ hst[r] = "recorded" /\ hst'[r] = "reported"
         \/ hst[r] = "recv" /\ hst'[r] = "exited" /\ reported' = reported
  BY <1>2 DEF HandlerReport, HandlerExit, StateOK
<1>4. SamePlaces
  BY <1>3 DEF SamePlaces, AtWorker, AtHandler
<1>5. Unique' /\ WaitGroupCounts' /\ \A x \in Runs : Outstanding(x)' = Outstanding(x)
  BY <1>3, <1>4, SamePlacesInv, SamePlacesOutstanding DEF EngineInv
<1>6. Answers'
  <2>1. \A x \in Runs, q \in Rules : Answered(x, q) => Answered(x, q)'
    BY <1>3 DEF Answered
  <2> QED
    BY <1>3, <1>5, <2>1, AnswersKept
<1>7. Control'
  <2>1. \A x \in Runs \ {r} : ControlOf(x)'
    BY <1>2, <1>3, <1>5 DEF Control, ControlOf
  <2>2. CASE HandlerReport(r)
    <3>1. Outstanding(r) # {} /\ reported'[r].stage = "executing" /\ hst'[r] # "off"
      BY <1>2, <2>2 DEF HandlerReport, Outstanding, AtHandler, HoldsMsg, Msg, Event, StateOK
    <3> QED
      BY <1>2, <1>3, <1>5, <2>1, <3>1 DEF HandlerReport, Control, ControlOf
  <2>3. CASE HandlerExit(r)
    <3>1. reported' = reported /\ hst'[r] = "exited" /\ hst[r] # "off"
      BY <1>2, <2>3 DEF HandlerExit, StateOK
    <3> QED
      BY <1>2, <1>3, <1>5, <2>1, <3>1 DEF Control, ControlOf
  <2> QED
    BY <2>2, <2>3
<1> QED
  BY <1>1, <1>5, <1>6, <1>7 DEF EngineInv

LEMMA HandlerDoneStep ==
    ASSUME EngineInv, NEW r \in Runs, HandlerDone(r)
    PROVE  EngineInv'
<1> USE DEF engineVars
<1>1. TypeInv'
  BY HandlerTypeInv DEF EngineInv, Handler
<1>2. StateOK /\ HoldsMsg /\ Control
  BY DEF EngineInv, TypeInv
<1>3. /\ Outstanding(r)' = Outstanding(r) \ {hmsg[r].rule}
      /\ \A x \in Runs \ {r} : Outstanding(x)' = Outstanding(x)
      /\ Unique' /\ WaitGroupCounts'
  BY HandlerDoneMoves
<1>4. /\ UNCHANGED <<toSend, results, pc, reported, ret, doneChan>>
      /\ hst[r] = "reported" /\ hst'[r] = "recv"
      /\ \A x \in Runs \ {r} : hst'[x] = hst[x] /\ hmsg'[x] = hmsg[x]
  BY <1>2 DEF HandlerDone, StateOK
<1>5. \A x \in Runs : \A q : Answered(x, q)' <=> Answered(x, q)
  BY <1>4 DEF Answered
<1>6. Answers'
  <2>1. ASSUME NEW x \in Runs, NEW q \in OtherRules, hst'[x] # "off"
        PROVE  q \in toSend'[x] \/ q \in Outstanding(x)' \/ Answered(x, q)'
    <3>1. hst[x] # "off"
      BY <1>4, <2>1
    <3>2. q \in toSend[x] \/ q \in Outstanding(x) \/ Answered(x, q)
      BY <2>1, <3>1 DEF EngineInv, Answers
    <3>3. x = r /\ q = hmsg[r].rule => Answered(x, q)
      BY <1>4 DEF EngineInv, Answers
    <3> QED
      BY <1>3, <1>4, <1>5, <3>2, <3>3
  <2>2. ASSUME NEW x \in Runs, hst'[x] \in {"recorded", "reported"}
        PROVE  Answered(x, hmsg[x].rule)'
    <3>1. x # r /\ hst[x] \in {"recorded", "reported"} /\ hmsg'[x] = hmsg[x]
      BY <1>4, <2>2
    <3> QED
      BY <1>4, <3>1 DEF EngineInv, Answers, Answered
  <2> QED
    BY <2>1, <2>2 DEF Answers
<1>7. Control'
  <2>1. ControlOf(r)'
    BY <1>2, <1>3, <1>4 DEF Control, ControlOf
  <2>2. \A x \in Runs \ {r} : ControlOf(x)'
    BY <1>2, <1>3, <1>4 DEF Control, ControlOf
  <2> QED
    BY <2>1, <2>2 DEF Control
<1> QED
  BY <1>1, <1>3, <1>6, <1>7 DEF EngineInv

\* Steps of the workers and of Stop that move no rule.
LEMMA QuietPlaces ==
    ASSUME StateOK, HoldsMsg,
           \/ \E w \in Workers : WorkerExit(w) \/ \E out \in Outcomes : Evaluate(w, out)
           \/ Stop \/ StopReturns \/ UNCHANGED vars
    PROVE  SamePlaces
<1>1. UNCHANGED <<runVars, ruleProcessing>>
  BY DEF WorkerExit, Evaluate, Stop, StopReturns, vars, engineVars
<1>2. \A w \in Workers : \A r, q : AtWorker(w, r, q)' <=> AtWorker(w, r, q)
  <2>1. ASSUME NEW v \in Workers, WorkerExit(v)
        PROVE  \A w \in Workers : \A r, q : AtWorker(w, r, q)' <=> AtWorker(w, r, q)
    BY <2>1 DEF WorkerExit, AtWorker, StateOK
  <2>2. ASSUME NEW v \in Workers, NEW out \in Outcomes, Evaluate(v, out)
        PROVE  \A w \in Workers : \A r, q : AtWorker(w, r, q)' <=> AtWorker(w, r, q)
    <3>1. wmsg[v] \in Msg
      BY <2>2 DEF Evaluate, HoldsMsg
    <3>2. wmsg'[v].run = wmsg[v].run /\ wmsg'[v].rule = wmsg[v].rule
      BY <2>2, <3>1 DEF Evaluate, StateOK, Msg
    <3> QED
      BY <2>2, <3>2 DEF Evaluate, AtWorker, StateOK
  <2>3. CASE Stop \/ StopReturns \/ UNCHANGED vars
    BY <2>3 DEF Stop, StopReturns, vars, engineVars, AtWorker
  <2> QED
    BY <2>1, <2>2, <2>3
<1> QED
  BY <1>1, <1>2 DEF SamePlaces, AtHandler, runVars

LEMMA QuietEngineStep ==
    ASSUME EngineInv,
           \/ \E w \in Workers : WorkerExit(w) \/ \E out \in Outcomes : Evaluate(w, out)
           \/ Stop \/ StopReturns \/ UNCHANGED vars
    PROVE  EngineInv'
<1>1. TypeInv'
  BY NextTypeInv DEF EngineInv, Next, Worker
<1>2. StateOK /\ HoldsMsg /\ Control
  BY DEF EngineInv, TypeInv
<1>3. UNCHANGED <<runVars, ruleProcessing>>
  BY DEF WorkerExit, Evaluate, Stop, StopReturns, vars, engineVars
<1>4. SamePlaces
  BY <1>2, QuietPlaces
<1>5. Unique' /\ WaitGroupCounts' /\ \A x \in Runs : Outstanding(x)' = Outstanding(x)
  BY <1>3, <1>4, SamePlacesInv, SamePlacesOutstanding DEF EngineInv, runVars
<1>6. Answers'
  <2>1. \A x \in Runs, q \in Rules : Answered(x, q) => Answered(x, q)'
    BY <1>3 DEF Answered, runVars
  <2> QED
    BY <1>3, <1>5, <2>1, AnswersKept DEF runVars
<1>7. Control'
  BY <1>2, <1>3, <1>5 DEF Control, ControlOf, runVars
<1> QED
  BY <1>1, <1>5, <1>6, <1>7 DEF EngineInv

LEMMA InitEngineInv == Init => EngineInv
<1> SUFFICES ASSUME Init PROVE EngineInv
  OBVIOUS
<1>1. TypeInv
  BY InitTypeInv
<1>2. \A r \in Runs : Outstanding(r) = {}
  BY ConstantsAssumption DEF Init, Outstanding, InQueue, AtWorker, AtHandler
<1>3. Unique
  BY <1>2, ConstantsAssumption
  DEF Init, Unique, DistinctQueue, InQueue, AtSomeWorker, AtWorker, AtHandler
<1>4. WaitGroupCounts
  BY <1>2, FS_EmptySet DEF Init, WaitGroupCounts
<1>5. Answers
  BY DEF Init, Answers
<1>6. Control
  BY <1>2 DEF Init, Control, ControlOf, Event
<1> QED
  BY <1>1, <1>3, <1>4, <1>5, <1>6 DEF EngineInv

LEMMA NextEngineInv == EngineInv /\ [Next]_vars => EngineInv'
  BY QuietMainStep, TaggingStep, AddRuleStep, HandOverStep, HandlerRecordStep,
     HandlerReportStep, HandlerDoneStep, QuietEngineStep
  DEF Next, Main, Handler, Worker

\* EngineInv is an invariant of every behaviour of the engine.
LEMMA EngineInvariant == Spec => []EngineInv
  BY InitEngineInv, NextEngineInv, PTL DEF Spec

(***************************************************************************)
(* Every variable keeps its type, the buffer all runs send into its        *)
(* capacity, and no WaitGroup goes below zero, for any number of workers,  *)
(* runs and rules.                                                         *)
(***************************************************************************)
THEOREM TypeCorrect == Spec => []TypeOK
<1>1. ASSUME EngineInv PROVE TypeOK
  <2>1. StateOK /\ WaitGroupCounts
    BY <1>1 DEF EngineInv, TypeInv
  <2>2. \A r \in Runs : wg[r] \in Nat
    BY <2>1, OutstandingFinite DEF WaitGroupCounts
  <2> QED
    BY <2>1, <2>2 DEF StateOK, TypeOK
<1> QED
  BY <1>1, EngineInvariant, PTL

(***************************************************************************)
(* With any number of workers and of concurrent runs, cancelled or not,    *)
(* each run's WaitGroup counts exactly its outstanding rules.              *)
(***************************************************************************)
THEOREM WaitGroupCorrect == Spec => []WaitGroupCounts
<1>1. EngineInv => WaitGroupCounts
  BY DEF EngineInv
<1> QED
  BY <1>1, EngineInvariant, PTL

(***************************************************************************)
(* A run that reports StageComplete has left nothing in the engine.        *)
(***************************************************************************)
THEOREM NothingLeft == Spec => []CompleteRunLeavesNothing
<1>1. EngineInv => CompleteRunLeavesNothing
  BY FS_EmptySet
  DEF EngineInv, Control, ControlOf, WaitGroupCounts, CompleteRunLeavesNothing
<1> QED
  BY <1>1, EngineInvariant, PTL

(***************************************************************************)
(* A run that reports StageComplete returns an answer for every rule it    *)
(* sent to the workers, and nothing is added to the answer later.          *)
(***************************************************************************)
THEOREM AnswersAll == Spec => []CompleteRunAnswersAll
<1>1. EngineInv => CompleteRunAnswersAll
  <2> SUFFICES ASSUME EngineInv, NEW r \in Runs, pc[r] = "returned",
                      reported[r].stage = "complete"
               PROVE  /\ ret[r] = results[r]
                      /\ \A q \in OtherRules : CategoriesOf(ret[r], q) \ {"skipped"} # {}
    BY DEF CompleteRunAnswersAll
  <2>1. /\ ret[r] = results[r] /\ doneChan[r] /\ toSend[r] = {}
        /\ Outstanding(r) = {} /\ hst[r] # "off"
    BY DEF EngineInv, Control, ControlOf
  <2>2. \A q \in OtherRules : Answered(r, q)
    BY <2>1 DEF EngineInv, Answers
  <2> QED
    BY <2>1, <2>2 DEF Answered, CategoriesOf
<1> QED
  BY <1>1, EngineInvariant, PTL

(***************************************************************************)
(* The rule sets of a completed run are not written again.                 *)
(***************************************************************************)
THEOREM ResultsStable == Spec => CompleteResultsStable
<1>1. EngineInv /\ [Next]_vars =>
         \A r \in Runs : reported[r].stage = "complete" => results'[r] = results[r]
  <2> SUFFICES ASSUME EngineInv, [Next]_vars, NEW r \in Runs,
                      reported[r].stage = "complete"
               PROVE  results'[r] = results[r]
    OBVIOUS
  <2>1. /\ StateOK /\ HoldsMsg /\ pc[r] \in {"collect", "returned"}
        /\ Outstanding(r) = {}
    BY DEF EngineInv, TypeInv, Control, ControlOf
  <2>2. hst[r] # "got"
    BY <2>1 DEF Outstanding, AtHandler, HoldsMsg, Msg
  <2>3. ASSUME NEW x \in Runs, Main(x) \/ WaitGroupZero(x) \/ CancelRun(x)
        PROVE  results'[r] = results[r]
    BY <2>1, <2>3
    DEF Main, StartBadScope, StartRun, RunTaggingRule, StartHandler, AddRule,
        SendRule, AllSent, RunCompleted, RunCancelled, Collect, WaitGroupZero,
        CancelRun, Record, StateOK
  <2>4. ASSUME NEW x \in Runs, Handler(x) PROVE results'[r] = results[r]
    BY <2>1, <2>2, <2>4
    DEF Handler, HandlerRecord, HandlerReport, HandlerDone, HandlerExit, Record, StateOK
  <2>5. ASSUME NEW w \in Workers, Worker(w) PROVE results'[r] = results[r]
    BY <2>5 DEF Worker, TakeRule, Evaluate, Respond, WorkerExit, runVars
  <2> QED
    BY <2>3, <2>4, <2>5 DEF Next, Stop, StopReturns, vars, runVars
<1> QED
  BY <1>1, EngineInvariant, PTL DEF Spec, CompleteResultsStable
-----------------------------------------------------------------------------
(***************************************************************************)
(* What a run has still to answer: the rules not sent and the outstanding  *)
(* ones, but for the one its handler has recorded already.                 *)
(***************************************************************************)
Waiting(r) ==
    toSend[r] \cup {q \in Outstanding(r) :
                       hst[r] \in {"recorded", "reported"} => hmsg[r].rule # q}

Uncategorised(r, q) == \A c \in Categories : q \notin results[r][c]

\* The tagging rules of a run are taken in the order of the sort.
TaggingOrder(r) ==
    /\ tagging[r] \subseteq TaggingRules
    /\ pc[r] # "tagging" => tagging[r] = {}
    /\ pc[r] # "idle" => \A q \in TaggingRules \ tagging[r] :
          \A p \in HasTags[q] \intersect tagging[r] : HasTags[p] # {}

\* A rule that is still to be evaluated is in no category yet.
Sorted(r) ==
    /\ pc[r] = "idle" => \A q \in Rules : Uncategorised(r, q)
    /\ \A q \in Rules \ SplitRules :
          /\ \A c, d \in Categories :
                q \in results[r][c] /\ q \in results[r][d] => c = d
          /\ q \in tagging[r] \cup Waiting(r) => Uncategorised(r, q)

\* What the progress events count.
Progress(r) ==
    /\ Waiting(r) \subseteq OtherRules
    /\ completed[r] + Cardinality(Waiting(r)) <= Cardinality(OtherRules)
    /\ hst[r] = "off" => completed[r] = 0
    /\ pc[r] = "idle" => reported[r].current = 0
    /\ reported[r].stage # "complete" =>
          reported[r].current + Cardinality(tagging[r])
             <= Cardinality(TaggingRules) + completed[r]
    /\ reported[r].stage = "complete" => reported[r].current = TotalRules

ReportInv ==
    /\ EngineInv
    /\ \A r \in Runs : TaggingOrder(r) /\ Sorted(r) /\ Progress(r)

\* The steps of a run that write its categories, counters or events.
Writes(r) ==
    \/ StartRun(r)
    \/ \E q \in Rules, out \in Outcomes : RunTaggingRule(r, q, out)
    \/ RunCompleted(r)
    \/ HandlerRecord(r)
    \/ HandlerReport(r)

\* No other step changes any of them, its own or that of another run.
LEMMA OthersWriteNothing ==
    ASSUME EngineInv, [Next]_vars, NEW r \in Runs, ~Writes(r)
    PROVE  /\ tagging'[r] = tagging[r] /\ completed'[r] = completed[r]
           /\ results'[r] = results[r] /\ reported'[r] = reported[r]
           /\ hst'[r] = "off" => hst[r] = "off"
           /\ pc'[r] = "idle" => pc[r] = "idle"
           /\ pc'[r] = "tagging" => pc[r] = "tagging"
           /\ pc[r] = "tagging" /\ pc'[r] # "tagging" => tagging[r] = {}
           /\ pc'[r] # "idle" /\ pc[r] = "idle" => pc'[r] = "returned"
<1>1. StateOK /\ HoldsMsg
  BY DEF EngineInv, TypeInv
<1> DEFINE Goal ==
       /\ tagging'[r] = tagging[r] /\ completed'[r] = completed[r]
       /\ results'[r] = results[r] /\ reported'[r] = reported[r]
       /\ hst'[r] = "off" => hst[r] = "off"
       /\ pc'[r] = "idle" => pc[r] = "idle"
       /\ pc'[r] = "tagging" => pc[r] = "tagging"
       /\ pc[r] = "tagging" /\ pc'[r] # "tagging" => tagging[r] = {}
       /\ pc'[r] # "idle" /\ pc[r] = "idle" => pc'[r] = "returned"
<1>2. ASSUME NEW x \in Runs, Main(x) \/ WaitGroupZero(x) \/ CancelRun(x)
      PROVE  Goal
  <2>1. CASE StartRun(x)
    BY <1>1, <2>1 DEF Writes, StartRun, StateOK
  <2>2. ASSUME NEW q \in Rules, NEW out \in Outcomes, RunTaggingRule(x, q, out)
        PROVE  Goal
    <3>1. x # r
      BY <2>2 DEF Writes
    <3>2. results'[r] = results[r]
      BY <1>1, <2>2, <3>1 DEF RunTaggingRule, Record, StateOK
    <3> QED
      BY <1>1, <2>2, <3>1, <3>2 DEF RunTaggingRule, StateOK
  <2>3. CASE RunCompleted(x)
    BY <1>1, <2>3 DEF Writes, RunCompleted, StateOK
  <2>4. CASE StartBadScope(x) \/ StartHandler(x) \/ AllSent(x)
    BY <1>1, <2>4 DEF StartBadScope, StartHandler, AllSent, StateOK
  <2>5. CASE SendRule(x) \/ \E q \in Rules : AddRule(x, q)
    BY <1>1, <2>5 DEF SendRule, AddRule, StateOK
  <2>6. CASE RunCancelled(x) \/ Collect(x) \/ WaitGroupZero(x) \/ CancelRun(x)
    BY <1>1, <2>6 DEF RunCancelled, Collect, WaitGroupZero, CancelRun, StateOK
  <2> QED
    BY <1>2, <2>1, <2>2, <2>3, <2>4, <2>5, <2>6 DEF Main
<1>3. ASSUME NEW x \in Runs, Handler(x) PROVE Goal
  <2>1. CASE HandlerRecord(x)
    BY <1>1, <2>1 DEF Writes, HandlerRecord, Record, StateOK
  <2>2. CASE HandlerReport(x)
    BY <1>1, <2>2 DEF Writes, HandlerReport, StateOK
  <2>3. CASE HandlerDone(x) \/ HandlerExit(x)
    BY <1>1, <2>3 DEF HandlerDone, HandlerExit, StateOK
  <2> QED
    BY <1>3, <2>1, <2>2, <2>3 DEF Handler
<1>4. ASSUME NEW w \in Workers, Worker(w) PROVE Goal
  <2>1. CASE Respond(w)
    BY <1>1, <2>1 DEF Respond, HoldsMsg, Msg, StateOK
  <2>2. CASE TakeRule(w) \/ WorkerExit(w) \/ \E out \in Outcomes : Evaluate(w, out)
    BY <2>2 DEF TakeRule, WorkerExit, Evaluate, runVars
  <2> QED
    BY <1>4, <2>1, <2>2 DEF Worker
<1>5. CASE Stop \/ StopReturns \/ UNCHANGED vars
  BY <1>5 DEF Stop, StopReturns, vars, runVars
<1> QED
  BY <1>2, <1>3, <1>4, <1>5 DEF Next

\* The rules a run has to answer, when its parts are known to stay.
LEMMA WaitingSame ==
    ASSUME NEW r \in Runs, toSend'[r] = toSend[r],
           Outstanding(r)' = Outstanding(r),
           \/ hst'[r] = hst[r] /\ hmsg'[r] = hmsg[r]
           \/ /\ hst[r] \notin {"recorded", "reported"}
              /\ hst'[r] \notin {"recorded", "reported"}
           \/ /\ hst[r] = "recorded" /\ hst'[r] = "reported"
              /\ hmsg'[r] = hmsg[r]
    PROVE  Waiting(r)' = Waiting(r)
  BY DEF Waiting

\* A run has to answer the rules filterRules gave; recording answers one.
LEMMA WaitingMoves ==
    ASSUME EngineInv, [Next]_vars, NEW r \in Runs
    PROVE  \/ StartRun(r) /\ Waiting(r)' = OtherRules
           \/ /\ HandlerRecord(r) /\ hmsg[r].rule \in Waiting(r)
              /\ Waiting(r)' = Waiting(r) \ {hmsg[r].rule}
           \/ /\ ~StartRun(r) /\ ~HandlerRecord(r)
              /\ Waiting(r)' = Waiting(r)
<1>1. StateOK /\ HoldsMsg /\ Control /\ Unique
  BY DEF EngineInv, TypeInv
<1>2. CASE StartRun(r)
  <2>1. Outstanding(r) = {}
    BY <1>1, <1>2 DEF StartRun, Control, ControlOf
  <2>2. SamePlaces
    BY <1>2 DEF StartRun, SamePlaces, AtWorker, AtHandler, engineVars
  <2>3. Outstanding(r)' = {}
    BY <2>1, <2>2, SamePlacesOutstanding
  <2>4. toSend'[r] = OtherRules
    BY <1>1, <1>2 DEF StartRun, StateOK
  <2> QED
    BY <1>2, <2>3, <2>4 DEF Waiting
<1>3. CASE HandlerRecord(r)
  <2>1. PICK q \in Rules : q = hmsg[r].rule
    BY <1>1, <1>3 DEF HandlerRecord, HoldsMsg, Msg
  <2>2. /\ UNCHANGED <<sending, ruleProcessing, wst, wmsg, hmsg, toSend>>
        /\ hst[r] = "got" /\ hst' = [hst EXCEPT ![r] = "recorded"]
    BY <1>3 DEF HandlerRecord, engineVars
  <2>3. SamePlaces
    BY <1>1, <2>2 DEF SamePlaces, AtWorker, AtHandler, StateOK
  <2>4. Outstanding(r)' = Outstanding(r)
    BY <2>3, SamePlacesOutstanding
  <2>5. q \in Outstanding(r) /\ q \notin toSend[r]
    BY <1>1, <2>1, <2>2 DEF Outstanding, AtHandler, Unique
  <2>6. hst'[r] = "recorded"
    BY <1>1, <2>2 DEF StateOK
  <2>7. Waiting(r) = toSend[r] \cup Outstanding(r)
    BY <2>2 DEF Waiting
  <2>8. Waiting(r)' = toSend[r] \cup (Outstanding(r) \ {q})
    BY <2>1, <2>2, <2>4, <2>6 DEF Waiting
  <2> QED
    BY <1>3, <2>1, <2>5, <2>7, <2>8
<1>4. ASSUME ~StartRun(r), ~HandlerRecord(r) PROVE Waiting(r)' = Waiting(r)
  <2>1. ASSUME NEW x \in Runs, NEW q \in Rules, AddRule(x, q)
        PROVE  Waiting(r)' = Waiting(r)
    <3>1. /\ Outstanding(x)' = Outstanding(x) \cup {q}
          /\ \A y \in Runs \ {x} : Outstanding(y)' = Outstanding(y)
      BY <2>1, AddRuleMoves
    <3>2. hst' = hst /\ hmsg' = hmsg
      BY <2>1 DEF AddRule
    <3>3. CASE x # r
      BY <1>1, <2>1, <3>1, <3>2, <3>3, WaitingSame DEF AddRule, StateOK
    <3>4. CASE x = r
      <4>1. toSend'[r] = toSend[r] \ {q} /\ q \in toSend[r]
        BY <1>1, <2>1, <3>4 DEF AddRule, StateOK
      <4>2. q \notin Outstanding(r)
        BY <1>1, <4>1 DEF Unique
      <4>3. hst[r] \in {"recorded", "reported"} => hmsg[r].rule # q
        BY <1>1, <4>2 DEF Outstanding, AtHandler, HoldsMsg, Msg
      <4> QED
        BY <3>1, <3>2, <3>4, <4>1, <4>3 DEF Waiting
    <3> QED
      BY <3>3, <3>4
  <2>2. ASSUME NEW x \in Runs, HandlerDone(x)
        PROVE  Waiting(r)' = Waiting(r)
    <3>1. /\ Outstanding(x)' = Outstanding(x) \ {hmsg[x].rule}
          /\ \A y \in Runs \ {x} : Outstanding(y)' = Outstanding(y)
      BY <2>2, HandlerDoneMoves
    <3>2. toSend' = toSend
      BY <2>2 DEF HandlerDone
    <3>3. CASE x # r
      BY <1>1, <2>2, <3>1, <3>2, <3>3, WaitingSame DEF HandlerDone, StateOK
    <3>4. CASE x = r
      <4>1. hst[r] = "reported" /\ hst'[r] = "recv"
        BY <1>1, <2>2, <3>4 DEF HandlerDone, StateOK
      <4>2. Waiting(r)' = toSend[r] \cup (Outstanding(r) \ {hmsg[r].rule})
        BY <3>1, <3>2, <3>4, <4>1 DEF Waiting
      <4> QED
        BY <4>1, <4>2 DEF Waiting
    <3> QED
      BY <3>3, <3>4
  <2>3. CASE (\E x \in Runs : SendRule(x)) \/ (\E w \in Workers : TakeRule(w) \/ Respond(w))
    <3>1. Outstanding(r)' = Outstanding(r)
      BY <2>3, SendRuleMoves, TakeRuleMoves, RespondMoves
    <3>2. toSend' = toSend
      BY <2>3 DEF SendRule, TakeRule, Respond, runVars
    <3>3. \/ hst'[r] = hst[r] /\ hmsg'[r] = hmsg[r]
          \/ hst[r] = "recv" /\ hst'[r] = "got"
      <4>1. CASE \E x \in Runs : SendRule(x)
        BY <4>1 DEF SendRule
      <4>2. CASE \E w \in Workers : TakeRule(w)
        BY <4>2 DEF TakeRule, runVars
      <4>3. CASE \E w \in Workers : Respond(w)
        BY <1>1, <4>3 DEF Respond, StateOK, HoldsMsg, Msg
      <4> QED
        BY <2>3, <4>1, <4>2, <4>3
    <3> QED
      BY <3>1, <3>2, <3>3, WaitingSame
  <2>4. ASSUME NEW x \in Runs, Handler(x), ~HandlerDone(x)
        PROVE  Waiting(r)' = Waiting(r)
    <3>1. UNCHANGED <<sending, ruleProcessing, wst, wmsg, hmsg, toSend>>
      BY <2>4 DEF Handler, HandlerRecord, HandlerReport, HandlerExit, engineVars
    <3>2. /\ \A y \in Runs \ {x} : hst'[y] = hst[y]
          /\ \/ hst[x] = "got" /\ hst'[x] = "recorded" /\ x # r
             \/ hst[x] = "recorded" /\ hst'[x] = "reported"
             \/ hst[x] = "recv" /\ hst'[x] = "exited"
      BY <1>1, <1>4, <2>4 DEF Handler, HandlerRecord, HandlerReport, HandlerExit, StateOK
    <3>3. SamePlaces
      BY <3>1, <3>2 DEF SamePlaces, AtWorker, AtHandler
    <3>4. Outstanding(r)' = Outstanding(r)
      BY <3>3, SamePlacesOutstanding
    <3> QED
      BY <3>1, <3>2, <3>4, WaitingSame
  <2>5. ASSUME NEW x \in Runs,
               \/ StartRun(x) \/ StartHandler(x)
               \/ \E q \in Rules, out \in Outcomes : RunTaggingRule(x, q, out)
               \/ StartBadScope(x) \/ AllSent(x) \/ RunCompleted(x)
               \/ RunCancelled(x) \/ Collect(x) \/ WaitGroupZero(x) \/ CancelRun(x)
        PROVE  Waiting(r)' = Waiting(r)
    <3>1. UNCHANGED <<sending, ruleProcessing, wst, wmsg, hmsg>>
      BY <2>5 DEF StartRun, StartHandler, RunTaggingRule, StartBadScope, AllSent,
         RunCompleted, RunCancelled, Collect, WaitGroupZero, CancelRun, engineVars
    <3>2. toSend'[r] = toSend[r]
      BY <1>1, <1>4, <2>5
      DEF StartRun, StartHandler, RunTaggingRule, StartBadScope, AllSent,
          RunCompleted, RunCancelled, Collect, WaitGroupZero, CancelRun, StateOK
    <3>3. CASE StartHandler(x)
      <4>1. \A y \in Runs : hst'[y] = hst[y] \/ (hst[y] = "off" /\ hst'[y] = "recv")
        BY <1>1, <3>3 DEF StartHandler, StateOK, Control, ControlOf
      <4>2. SamePlaces
        BY <3>1, <4>1 DEF SamePlaces, AtWorker, AtHandler
      <4> QED
        BY <3>1, <3>2, <4>1, <4>2, SamePlacesOutstanding, WaitingSame
    <3>4. CASE ~StartHandler(x)
      <4>1. hst' = hst
        BY <2>5, <3>4
        DEF StartRun, RunTaggingRule, StartBadScope, AllSent,
            RunCompleted, RunCancelled, Collect, WaitGroupZero, CancelRun
      <4>2. SamePlaces
        BY <3>1, <4>1 DEF SamePlaces, AtWorker, AtHandler
      <4> QED
        BY <3>1, <3>2, <4>1, <4>2, SamePlacesOutstanding, WaitingSame
    <3> QED
      BY <3>3, <3>4
  <2>6. CASE \/ \E w \in Workers : WorkerExit(w) \/ \E out \in Outcomes : Evaluate(w, out)
             \/ Stop \/ StopReturns \/ UNCHANGED vars
    <3>1. UNCHANGED <<runVars, ruleProcessing>>
      BY <2>6 DEF WorkerExit, Evaluate, Stop, StopReturns, vars, engineVars
    <3>2. SamePlaces
      BY <1>1, <2>6, QuietPlaces
    <3>3. Outstanding(r)' = Outstanding(r)
      BY <3>2, SamePlacesOutstanding
    <3> QED
      BY <3>1, <3>3, WaitingSame DEF runVars
  <2> QED
    BY <2>1, <2>2, <2>3, <2>4, <2>5, <2>6 DEF Next, Main, Worker
<1> QED
  BY <1>2, <1>3, <1>4

\* The sort of runTaggingRules keeps the order of the rules taken.
LEMMA TaggingOrderStep ==
    ASSUME EngineInv, [Next]_vars, NEW r \in Runs, TaggingOrder(r)
    PROVE  TaggingOrder(r)'
<1>1. StateOK
  BY DEF EngineInv, TypeInv
<1>2. CASE ~Writes(r)
  <2>1. /\ tagging'[r] = tagging[r]
        /\ pc'[r] = "tagging" => pc[r] = "tagging"
        /\ pc[r] = "tagging" /\ pc'[r] # "tagging" => tagging[r] = {}
        /\ pc'[r] # "idle" /\ pc[r] = "idle" => pc'[r] = "returned"
    BY <1>2, OthersWriteNothing
  <2> QED
    BY <2>1 DEF TaggingOrder
<1>3. CASE StartRun(r)
  <2>1. tagging'[r] = TaggingRules /\ pc'[r] = "tagging"
    BY <1>1, <1>3 DEF StartRun, StateOK
  <2> QED
    BY <2>1 DEF TaggingOrder
<1>4. ASSUME NEW q \in Rules, NEW out \in Outcomes, RunTaggingRule(r, q, out)
      PROVE  TaggingOrder(r)'
  <2>1. /\ pc[r] = "tagging" /\ pc' = pc /\ tagging'[r] = tagging[r] \ {q}
        /\ TagOrder(tagging[r], q)
    BY <1>1, <1>4 DEF RunTaggingRule, StateOK
  <2>2. \A p \in HasTags[q] \intersect tagging[r] : HasTags[p] # {}
    BY <2>1 DEF TagOrder
  <2> QED
    BY <2>1, <2>2 DEF TaggingOrder
<1>5. CASE HandlerRecord(r) \/ HandlerReport(r)
  <2>1. UNCHANGED <<tagging, pc>>
    BY <1>5 DEF HandlerRecord, HandlerReport
  <2> QED
    BY <2>1 DEF TaggingOrder
<1>6. CASE RunCompleted(r)
  <2>1. tagging' = tagging /\ pc[r] = "wait" /\ pc'[r] = "collect"
    BY <1>1, <1>6 DEF RunCompleted, StateOK
  <2> QED
    BY <2>1 DEF TaggingOrder
<1> QED
  BY <1>2, <1>3, <1>4, <1>5, <1>6 DEF Writes

\* Recording a rule that is in no category puts it in one.
LEMMA RecordOnce ==
    ASSUME StateOK, NEW r \in Runs, NEW q \in Rules, NEW e \in Categories,
           Record(r, q, e)
    PROVE  /\ \A p \in Rules \ {q} : \A c \in Categories :
                 p \in results'[r][c] <=> p \in results[r][c]
           /\ Uncategorised(r, q) =>
                 \A c, d \in Categories :
                    q \in results'[r][c] /\ q \in results'[r][d] => c = d
<1>1. results'[r] = [results[r] EXCEPT ![e] = @ \cup {q}]
  BY DEF Record, StateOK
<1>2. \A c \in Categories : results'[r][c] =
         IF c = e THEN results[r][c] \cup {q} ELSE results[r][c]
  BY <1>1 DEF StateOK
<1> QED
  BY <1>2 DEF Uncategorised

\* A rule that is not split is a tagging rule or one sent to the workers.
LEMMA NotBoth ==
    \A q \in Rules \ SplitRules : q \in OtherRules => q \notin TaggingRules
  BY DEF SplitRules

LEMMA SortedStep ==
    ASSUME EngineInv, [Next]_vars, NEW r \in Runs,
           TaggingOrder(r), Sorted(r), Waiting(r) \subseteq OtherRules
    PROVE  Sorted(r)'
<1>1. StateOK /\ HoldsMsg /\ Control
  BY DEF EngineInv, TypeInv
<1>2. CASE ~Writes(r)
  <2>1. /\ tagging'[r] = tagging[r] /\ results'[r] = results[r]
        /\ pc'[r] = "idle" => pc[r] = "idle"
    BY <1>2, OthersWriteNothing
  <2>2. Waiting(r)' = Waiting(r)
    BY <1>2, WaitingMoves DEF Writes
  <2> QED
    BY <2>1, <2>2 DEF Sorted, Uncategorised
<1>3. CASE StartRun(r)
  <2>1. /\ tagging'[r] = TaggingRules /\ pc[r] = "idle" /\ pc'[r] = "tagging"
        /\ results'[r] = [results[r] EXCEPT !["skipped"] = Rules \ Selected]
    BY <1>1, <1>3 DEF StartRun, StateOK
  <2>2. Waiting(r)' = OtherRules
    <3>1. ~HandlerRecord(r)
      BY <1>1, <1>3 DEF StartRun, HandlerRecord, Control, ControlOf
    <3> QED
      BY <1>3, <3>1, WaitingMoves
  <2>3. \A c \in Categories : results'[r][c] =
           IF c = "skipped" THEN Rules \ Selected ELSE results[r][c]
    BY <1>1, <2>1 DEF StateOK
  <2>4. \A q \in Rules : \A c \in Categories : q \notin results[r][c]
    BY <2>1 DEF Sorted, Uncategorised
  <2>5. \A q \in TaggingRules \cup OtherRules : q \in Selected
    BY DEF TaggingRules, OtherRules
  <2> QED
    BY <2>1, <2>2, <2>3, <2>4, <2>5 DEF Sorted, Uncategorised
<1>4. ASSUME NEW q \in Rules, NEW out \in Outcomes, RunTaggingRule(r, q, out)
      PROVE  Sorted(r)'
  <2>1. /\ pc[r] = "tagging" /\ pc' = pc /\ tagging'[r] = tagging[r] \ {q}
        /\ q \in tagging[r]
    BY <1>1, <1>4 DEF RunTaggingRule, TagOrder, StateOK
  <2>2. Waiting(r)' = Waiting(r)
    <3>1. ~StartRun(r) /\ ~HandlerRecord(r)
      BY <1>1, <2>1 DEF StartRun, HandlerRecord, Control, ControlOf
    <3> QED
      BY <3>1, WaitingMoves
  <2>3. results' = results \/ \E e \in Categories : Record(r, q, e)
    <3>1. /\ "errors" \in Categories /\ "unmatched" \in Categories
          /\ (IF q \in Effort THEN "violations" ELSE "insights") \in Categories
      BY DEF Categories
    <3> QED
      BY <1>4, <3>1 DEF RunTaggingRule
  <2>4. CASE results' = results
    BY <2>1, <2>2, <2>4 DEF Sorted, Uncategorised
  <2>5. ASSUME NEW e \in Categories, Record(r, q, e) PROVE Sorted(r)'
    <3>1. /\ \A p \in Rules \ {q} : \A c \in Categories :
                p \in results'[r][c] <=> p \in results[r][c]
          /\ Uncategorised(r, q) =>
                \A c, d \in Categories :
                   q \in results'[r][c] /\ q \in results'[r][d] => c = d
      BY <1>1, <2>5, RecordOnce
    <3>2. q \in TaggingRules
      BY <2>1 DEF TaggingOrder
    <3>3. q \notin SplitRules => q \notin Waiting(r) /\ Uncategorised(r, q)
      BY <2>1, <3>2, NotBoth DEF Sorted
    <3> QED
      BY <2>1, <2>2, <3>1, <3>3 DEF Sorted, Uncategorised
  <2> QED
    BY <2>3, <2>4, <2>5
<1>5. CASE HandlerRecord(r)
  <2>1. PICK q \in Rules : q = hmsg[r].rule
    BY <1>1, <1>5 DEF HandlerRecord, HoldsMsg, Msg
  <2>2. PICK e \in Categories : e = Category(hmsg[r])
    BY CategoryType
  <2>3. Record(r, q, e)
    BY <1>5, <2>1, <2>2 DEF HandlerRecord
  <2>4. q \in Waiting(r) /\ Waiting(r)' = Waiting(r) \ {q}
    <3>1. ~StartRun(r)
      BY <1>1, <1>5 DEF StartRun, HandlerRecord, Control, ControlOf
    <3> QED
      BY <1>5, <2>1, <3>1, WaitingMoves
  <2>5. pc[r] \notin {"idle", "tagging"} /\ pc' = pc /\ tagging' = tagging
    BY <1>1, <1>5 DEF HandlerRecord, Control, ControlOf
  <2>6. tagging[r] = {}
    BY <2>5 DEF TaggingOrder
  <2>7. /\ \A p \in Rules \ {q} : \A c \in Categories :
              p \in results'[r][c] <=> p \in results[r][c]
        /\ Uncategorised(r, q) =>
              \A c, d \in Categories :
                 q \in results'[r][c] /\ q \in results'[r][d] => c = d
    BY <1>1, <2>3, RecordOnce
  <2>8. q \notin SplitRules => Uncategorised(r, q)
    BY <2>4 DEF Sorted
  <2> QED
    BY <2>4, <2>5, <2>6, <2>7, <2>8 DEF Sorted, Uncategorised
<1>6. CASE HandlerReport(r) \/ RunCompleted(r)
  <2>1. Waiting(r)' = Waiting(r)
    <3>1. ~StartRun(r) /\ ~HandlerRecord(r)
      BY <1>1, <1>6
      DEF StartRun, HandlerRecord, HandlerReport, RunCompleted, Control, ControlOf, StateOK
    <3> QED
      BY <3>1, WaitingMoves
  <2>2. UNCHANGED <<results, tagging>> /\ pc'[r] # "idle"
    BY <1>1, <1>6 DEF HandlerReport, RunCompleted, Control, ControlOf, StateOK
  <2> QED
    BY <2>1, <2>2 DEF Sorted, Uncategorised
<1> QED
  BY <1>2, <1>3, <1>4, <1>5, <1>6 DEF Writes

\* The numbers the events are made of.
LEMMA EventCounts ==
    ASSUME StateOK, NEW r \in Runs, Waiting(r) \subseteq OtherRules,
           tagging[r] \subseteq TaggingRules
    PROVE  /\ IsFiniteSet(Waiting(r)) /\ Cardinality(Waiting(r)) \in Nat
           /\ IsFiniteSet(tagging[r]) /\ Cardinality(tagging[r]) \in Nat
           /\ Cardinality(tagging[r]) <= Cardinality(TaggingRules)
           /\ Cardinality(TaggingRules) \in Nat /\ Cardinality(OtherRules) \in Nat
           /\ completed[r] \in Nat /\ reported[r].current \in Int
<1>1. IsFiniteSet(TaggingRules) /\ IsFiniteSet(OtherRules)
  BY RuleCounts
<1>2. IsFiniteSet(Waiting(r)) /\ IsFiniteSet(tagging[r])
  BY <1>1, FS_Subset
<1>3. Cardinality(tagging[r]) <= Cardinality(TaggingRules)
  BY <1>1, FS_Subset
<1>4. completed[r] \in Nat /\ reported[r].current \in Int
  BY DEF StateOK
<1> QED
  BY <1>1, <1>2, <1>3, <1>4, FS_CardinalityType

\* What a step does to the counts, and to the last event.
EventMoves(r) ==
    /\ reported'[r].current >= reported[r].current
    /\ reported'[r].current <= TotalRules
    /\ reported[r].stage = "complete" => reported'[r] = reported[r]

LEMMA ProgressStep ==
    ASSUME EngineInv, [Next]_vars, NEW r \in Runs, TaggingOrder(r), Progress(r)
    PROVE  Progress(r)' /\ EventMoves(r)
<1>1. StateOK /\ HoldsMsg /\ Control
  BY DEF EngineInv, TypeInv
<1>2. /\ Waiting(r) \subseteq OtherRules /\ tagging[r] \subseteq TaggingRules
      /\ completed[r] + Cardinality(Waiting(r)) <= Cardinality(OtherRules)
      /\ hst[r] = "off" => completed[r] = 0
      /\ pc[r] = "idle" => reported[r].current = 0
      /\ reported[r].stage # "complete" =>
            reported[r].current + Cardinality(tagging[r])
               <= Cardinality(TaggingRules) + completed[r]
      /\ reported[r].stage = "complete" => reported[r].current = TotalRules
      /\ pc[r] # "tagging" => tagging[r] = {}
  BY DEF Progress, TaggingOrder
<1>3. /\ IsFiniteSet(Waiting(r)) /\ Cardinality(Waiting(r)) \in Nat
      /\ IsFiniteSet(tagging[r]) /\ Cardinality(tagging[r]) \in Nat
      /\ Cardinality(tagging[r]) <= Cardinality(TaggingRules)
      /\ Cardinality(TaggingRules) \in Nat /\ Cardinality(OtherRules) \in Nat
      /\ completed[r] \in Nat /\ reported[r].current \in Int
      /\ TotalRules = Cardinality(OtherRules) + Cardinality(TaggingRules)
  BY <1>1, <1>2, EventCounts DEF TotalRules
<1>4. reported[r].current <= TotalRules
  BY <1>2, <1>3
<1>5. /\ pc[r] = "idle" \/ pc[r] = "tagging" => hst[r] = "off"
      /\ reported[r].stage = "complete" =>
            pc[r] \in {"collect", "returned"} /\ Outstanding(r) = {}
  BY <1>1 DEF Control, ControlOf
<1>6. CASE ~Writes(r)
  <2>1. /\ tagging'[r] = tagging[r] /\ completed'[r] = completed[r]
        /\ reported'[r] = reported[r]
        /\ hst'[r] = "off" => hst[r] = "off"
        /\ pc'[r] = "idle" => pc[r] = "idle"
    BY <1>6, OthersWriteNothing
  <2>2. Waiting(r)' = Waiting(r)
    BY <1>6, WaitingMoves DEF Writes
  <2> QED
    BY <1>2, <1>3, <1>4, <2>1, <2>2 DEF Progress, EventMoves
<1>7. CASE StartRun(r)
  <2>1. /\ tagging'[r] = TaggingRules /\ pc[r] = "idle" /\ pc'[r] = "tagging"
        /\ completed' = completed /\ hst' = hst
    BY <1>1, <1>7 DEF StartRun, StateOK
  <2>2. reported'[r].stage = "executing" /\ reported'[r].current = 0
    BY <1>1, <1>7 DEF StartRun, StateOK, Event
  <2>3. Waiting(r)' = OtherRules
    <3>1. ~HandlerRecord(r)
      BY <1>5, <2>1 DEF HandlerRecord
    <3> QED
      BY <1>7, <3>1, WaitingMoves
  <2>4. completed[r] = 0 /\ reported[r].current = 0 /\ reported[r].stage # "complete"
    BY <1>2, <1>5, <2>1
  <2>5. Progress(r)'
    BY <1>2, <1>3, <2>1, <2>2, <2>3, <2>4 DEF Progress
  <2>6. EventMoves(r)
    BY <1>3, <1>4, <2>2, <2>4 DEF EventMoves
  <2> QED
    BY <2>5, <2>6
<1>8. ASSUME NEW q \in Rules, NEW out \in Outcomes, RunTaggingRule(r, q, out)
      PROVE  Progress(r)' /\ EventMoves(r)
  <2>1. /\ pc[r] = "tagging" /\ pc' = pc /\ tagging'[r] = tagging[r] \ {q}
        /\ q \in tagging[r] /\ completed' = completed /\ hst' = hst
    BY <1>1, <1>8 DEF RunTaggingRule, TagOrder, StateOK
  <2>2. /\ reported'[r].stage = "executing"
        /\ reported'[r].current = Cardinality(TaggingRules) - Cardinality(tagging[r])
    BY <1>1, <1>8 DEF RunTaggingRule, StateOK, Event
  <2>3. Waiting(r)' = Waiting(r)
    <3>1. ~StartRun(r) /\ ~HandlerRecord(r)
      BY <1>5, <2>1 DEF StartRun, HandlerRecord
    <3> QED
      BY <3>1, WaitingMoves
  <2>4. completed[r] = 0 /\ reported[r].stage # "complete"
    BY <1>2, <1>5, <2>1
  <2>5. Cardinality(tagging[r] \ {q}) = Cardinality(tagging[r]) - 1
    BY <1>3, <2>1, FS_RemoveElement
  <2>6. Progress(r)'
    BY <1>2, <1>3, <2>1, <2>2, <2>3, <2>4, <2>5 DEF Progress
  <2>7. EventMoves(r)
    BY <1>2, <1>3, <2>2, <2>4 DEF EventMoves
  <2> QED
    BY <2>6, <2>7
<1>9. CASE HandlerRecord(r)
  <2>1. /\ UNCHANGED <<tagging, pc, reported>>
        /\ completed'[r] = completed[r] + 1 /\ hst'[r] = "recorded"
        /\ hst[r] = "got"
    BY <1>1, <1>9 DEF HandlerRecord, StateOK
  <2>2. PICK q \in Rules : q = hmsg[r].rule
    BY <1>1, <1>9 DEF HandlerRecord, HoldsMsg, Msg
  <2>3. q \in Waiting(r) /\ Waiting(r)' = Waiting(r) \ {q}
    <3>1. ~StartRun(r)
      BY <1>5, <2>1 DEF StartRun
    <3> QED
      BY <1>9, <2>2, <3>1, WaitingMoves
  <2>4. Cardinality(Waiting(r) \ {q}) = Cardinality(Waiting(r)) - 1
    BY <1>3, <2>3, FS_RemoveElement
  <2>5. Progress(r)'
    BY <1>2, <1>3, <2>1, <2>3, <2>4 DEF Progress
  <2>6. EventMoves(r)
    BY <1>3, <1>4, <2>1 DEF EventMoves
  <2> QED
    BY <2>5, <2>6
<1>10. CASE HandlerReport(r)
  <2>1. /\ UNCHANGED <<tagging, pc, completed>>
        /\ hst[r] = "recorded" /\ hst'[r] = "reported"
    BY <1>1, <1>10 DEF HandlerReport, StateOK
  <2>2. /\ reported'[r].stage = "executing"
        /\ reported'[r].current = completed[r] + Cardinality(TaggingRules)
    BY <1>1, <1>10 DEF HandlerReport, StateOK, Event
  <2>3. Waiting(r)' = Waiting(r)
    <3>1. ~StartRun(r) /\ ~HandlerRecord(r)
      BY <1>5, <2>1 DEF StartRun, HandlerRecord
    <3> QED
      BY <3>1, WaitingMoves
  <2>4. pc[r] # "tagging" /\ pc[r] # "idle" /\ reported[r].stage # "complete"
    BY <1>1, <1>5, <2>1 DEF Outstanding, AtHandler, HoldsMsg, Msg
  <2>5. Cardinality(tagging[r]) = 0
    BY <1>2, <2>4, FS_EmptySet
  <2>6. Progress(r)'
    BY <1>2, <1>3, <2>1, <2>2, <2>3, <2>4, <2>5 DEF Progress
  <2>7. EventMoves(r)
    BY <1>2, <1>3, <2>2, <2>4, <2>5 DEF EventMoves
  <2> QED
    BY <2>6, <2>7
<1>11. CASE RunCompleted(r)
  <2>1. /\ UNCHANGED <<tagging, completed, hst>>
        /\ pc[r] = "wait" /\ pc'[r] = "collect"
    BY <1>1, <1>11 DEF RunCompleted, StateOK
  <2>2. reported'[r].stage = "complete" /\ reported'[r].current = TotalRules
    BY <1>1, <1>11 DEF RunCompleted, StateOK, Event
  <2>3. Waiting(r)' = Waiting(r)
    <3>1. ~StartRun(r) /\ ~HandlerRecord(r)
      BY <2>1 DEF StartRun, HandlerRecord
    <3> QED
      BY <3>1, WaitingMoves
  <2>4. Progress(r)'
    BY <1>2, <1>3, <2>1, <2>2, <2>3 DEF Progress
  <2>5. EventMoves(r)
    BY <1>3, <1>4, <1>5, <2>1, <2>2 DEF EventMoves
  <2> QED
    BY <2>4, <2>5
<1> QED
  BY <1>6, <1>7, <1>8, <1>9, <1>10, <1>11 DEF Writes

LEMMA InitReportInv == Init => ReportInv
<1> SUFFICES ASSUME Init PROVE ReportInv
  OBVIOUS
<1>1. EngineInv
  BY InitEngineInv
<1>2. ASSUME NEW r \in Runs PROVE Waiting(r) = {}
  <2>1. Outstanding(r) = {}
    BY <1>1 DEF Init, EngineInv, Control, ControlOf
  <2> QED
    BY <2>1 DEF Init, Waiting
<1>3. ASSUME NEW r \in Runs PROVE TaggingOrder(r) /\ Sorted(r)
  BY <1>2 DEF Init, TaggingOrder, Sorted, Uncategorised, NoResults
<1>4. ASSUME NEW r \in Runs PROVE Progress(r)
  <2>1. Cardinality(OtherRules) \in Nat /\ Cardinality(TaggingRules) \in Nat
    BY RuleCounts, FS_CardinalityType
  <2>2. /\ tagging[r] = {} /\ completed[r] = 0
        /\ reported[r].current = 0 /\ reported[r].stage = "none"
    BY DEF Init, Event
  <2> QED
    BY <1>2, <2>1, <2>2, FS_EmptySet DEF Progress
<1> QED
  BY <1>1, <1>3, <1>4 DEF ReportInv

LEMMA NextReportInv == ReportInv /\ [Next]_vars => ReportInv'
<1> SUFFICES ASSUME ReportInv, [Next]_vars PROVE ReportInv'
  OBVIOUS
<1>1. EngineInv'
  BY NextEngineInv DEF ReportInv
<1>2. ASSUME NEW r \in Runs
      PROVE  (TaggingOrder(r) /\ Sorted(r) /\ Progress(r))'
  <2>1. EngineInv /\ TaggingOrder(r) /\ Sorted(r) /\ Progress(r)
    BY DEF ReportInv
  <2>2. Waiting(r) \subseteq OtherRules
    BY <2>1 DEF Progress
  <2> QED
    BY <2>1, <2>2, TaggingOrderStep, SortedStep, ProgressStep
<1> QED
  BY <1>1, <1>2 DEF ReportInv

LEMMA ReportInvariant == Spec => []ReportInv
  BY InitReportInv, NextReportInv, PTL DEF Spec

(***************************************************************************)
(* However many tagging rules there are, one that asks for tags is not     *)
(* evaluated before a rule that sets them without asking for any itself.   *)
(***************************************************************************)
THEOREM TagsFirst == Spec => []TagsBeforeHasTags
<1>1. ReportInv => TagsBeforeHasTags
  BY DEF ReportInv, TaggingOrder, TagsBeforeHasTags
<1> QED
  BY <1>1, ReportInvariant, PTL

(***************************************************************************)
(* In every rule set a rule that filterRules does not split is in at most  *)
(* one category, whatever the workers and the handler answer and when.     *)
(***************************************************************************)
THEOREM CategoriesApart == Spec => []OneCategory
<1>1. ReportInv => OneCategory
  <2> SUFFICES ASSUME ReportInv, NEW r \in Runs, NEW q \in Rules \ SplitRules
               PROVE  Cardinality(CategoriesOf(results[r], q)) <= 1
    BY DEF OneCategory
  <2>1. \A c, d \in CategoriesOf(results[r], q) : c = d
    BY DEF ReportInv, Sorted, CategoriesOf
  <2>2. CASE CategoriesOf(results[r], q) = {}
    BY <2>2, FS_EmptySet
  <2>3. ASSUME NEW c \in CategoriesOf(results[r], q)
        PROVE  Cardinality(CategoriesOf(results[r], q)) <= 1
    <3>1. CategoriesOf(results[r], q) = {c}
      BY <2>1, <2>3
    <3>2. Cardinality({c}) = 1
      BY FS_Singleton
    <3> QED
      BY <3>1, <3>2
  <2> QED
    BY <2>2, <2>3
<1> QED
  BY <1>1, ReportInvariant, PTL

(***************************************************************************)
(* The progress events of a run, sent by two goroutines, never go back or  *)
(* beyond the number of rules, and none follows the completion event.      *)
(***************************************************************************)
THEOREM ProgressForward == Spec => ProgressMonotone
<1>1. ReportInv /\ [Next]_vars =>
         \A r \in Runs :
            /\ reported'[r].current >= reported[r].current
            /\ reported'[r].current <= TotalRules
            /\ reported[r].stage = "complete" => reported'[r] = reported[r]
  BY ProgressStep DEF ReportInv, EventMoves
<1> QED
  BY <1>1, ReportInvariant, PTL DEF Spec, ProgressMonotone
=============================================================================
