--------------------------- MODULE Startup_proofs ---------------------------
(***************************************************************************)
(* Proofs about what runs before the engine: ProviderStart, for any finite *)
(* set of providers, and RuleLoader, for any directory and any buffer.     *)
(***************************************************************************)
EXTENDS ProviderStart, RuleLoader, FiniteSetTheorems, TLAPS
-----------------------------------------------------------------------------
(* ProviderStart                                                           *)
Begun == main \notin {"new", "parsed"}

\* The providers started whose configurations are not handed over yet.
Unsent == {p \in Started : init[p] # "sent"}

AtMostOne(S) == \A x, y \in S : x = y

\* Before ProviderStart nothing has run; a provider not needed never does.
Quiet ==
    /\ ~Begun => /\ \A p \in Providers : init[p] = "idle"
                 /\ group = 0 /\ ~allDone /\ failed = {} /\ configs = {}
    /\ \A p \in Providers \ needed : init[p] = "idle"
    /\ main = "new" => needed = {}

\* The WaitGroup counts the providers that have not handed over.
Counted ==
    /\ Begun => group = Cardinality(Unsent)
    /\ allDone => Begun /\ Unsent = {}
    /\ main \in {"translating", "builtin", "preparing", "ok"} => allDone
    /\ main = "failed" => allDone \/ needed = {}

\* What was handed over is in the slice, but for what the collector holds.
Collected ==
    /\ collect \in Providers => collect \in Started /\ init[collect] = "sent"
    /\ \A p \in Started : init[p] = "sent" => p \in configs \/ p = collect
    /\ ~Begun => collect = "wait"

\* What the builtin provider is given.
Handing ==
    "builtin" \in needed /\ ~opts.ignore =>
        /\ main \in {"builtin", "preparing", "ok"} =>
              AtMostOne(Started \ translated) /\ translated \subseteq configs
        /\ main \in {"preparing", "ok"} =>
              /\ AtMostOne(Started \ given.all) /\ AtMostOne(Started \ given.translated)
              /\ given.translated \subseteq given.all

Preparing ==
    /\ prepared # {} => main \in {"preparing", "ok", "failed"}
    /\ prepared \subseteq needed
    /\ main = "ok" => failed = {} /\ prepared = needed

StartInv == StartTypeOK /\ Quiet /\ Counted /\ Collected /\ Handing /\ Preparing

LEMMA UnsentFinite ==
    ASSUME StartTypeOK
    PROVE  /\ Started \subseteq Providers /\ IsFiniteSet(Started)
           /\ IsFiniteSet(Unsent) /\ Cardinality(Unsent) \in Nat
           /\ Cardinality(Unsent) <= Cardinality(Providers)
           /\ Cardinality(Providers) \in Nat
           /\ Cardinality(Started) \in Nat
           /\ Cardinality(Started) <= Cardinality(Providers)
<1>1. Started \subseteq Providers /\ Unsent \subseteq Providers
  BY DEF StartTypeOK, Started, Unsent
<1> QED
  BY ProviderNames, <1>1, FS_Subset, FS_CardinalityType

LEMMA InitStartInv == StartInit => StartInv
<1> SUFFICES ASSUME StartInit PROVE StartInv
  OBVIOUS
<1>1. Cardinality(Providers) \in Nat
  BY ProviderNames, FS_CardinalityType
<1>2. allDone \in BOOLEAN /\ cancelled \in BOOLEAN
  BY DEF StartInit
<1>3. StartTypeOK
  BY <1>1, <1>2 DEF StartInit, StartTypeOK
<1>4. Quiet /\ Counted /\ Collected /\ Handing /\ Preparing
  BY ProviderNames
     DEF StartInit, Begun, Started, Unsent, Quiet, Counted, Collected, Handing, Preparing
<1> QED
  BY <1>3, <1>4 DEF StartInv

\* ParseRules, and the start of the init goroutines.
LEMMA BeginStep ==
    ASSUME StartInv,
           \/ \E ps \in SUBSET (Providers \cup {"builtin"}) : ParseRules(ps)
           \/ NoProviders \/ Begin
    PROVE  StartInv'
<1> USE DEF StartInv, StartTypeOK, Begun, Quiet, Counted, Collected, Handing, Preparing, Returned
<1>1. ASSUME NEW ps \in SUBSET (Providers \cup {"builtin"}), ParseRules(ps)
      PROVE  StartInv'
  BY ProviderNames, <1>1 DEF ParseRules, Started, Unsent
<1>2. CASE NoProviders
  <2>1. Unsent' = {} /\ Cardinality({}) = 0
    BY <1>2, FS_EmptySet DEF NoProviders, Unsent, Started
  <2> QED
    BY ProviderNames, <1>2, <2>1 DEF NoProviders, Started, Unsent
<1>3. CASE Begin
  <2>1. Unsent' = Started /\ Started' = Started
    BY <1>3 DEF Begin, Unsent, Started
  <2>2. group' \in 0..Cardinality(Providers)
    BY <1>3, UnsentFinite DEF Begin
  <2> QED
    BY ProviderNames, <1>3, <2>1, <2>2 DEF Begin, Started
<1> QED
  BY <1>1, <1>2, <1>3

\* The init goroutines, and the hand-over to the collector.
LEMMA GoroutineStep ==
    ASSUME StartInv, NEW p \in Providers,
           \/ \E error \in BOOLEAN : InitReturns(p, error)
           \/ InitHangs(p) \/ Collect(p)
    PROVE  StartInv'
<1> USE DEF StartInv, StartTypeOK, Begun, Quiet, Counted, Collected, Handing, Preparing, Returned
<1>1. ASSUME NEW error \in BOOLEAN, InitReturns(p, error) PROVE StartInv'
  <2>1. p \in Started /\ p \in Unsent /\ Begun
    BY ProviderNames, <1>1 DEF InitReturns, Unsent, Started
  <2>2. Unsent' = Unsent /\ Started' = Started /\ ~allDone
    BY <1>1, <2>1 DEF InitReturns, Unsent, Started
  <2>3. StartTypeOK'
    BY <1>1 DEF InitReturns
  <2>4. main \notin {"translating", "builtin", "preparing", "ok"}
    BY <2>2
  <2>5. \A x \in Providers : init'[x] = IF x = p THEN "sending" ELSE init[x]
    BY <1>1 DEF InitReturns
  <2>6. Quiet' /\ Collected'
    <3>1. /\ main' = main /\ collect' = collect /\ configs' = configs /\ needed' = needed
          /\ init[p] = "running" /\ Started \subseteq Providers
      BY <1>1, UnsentFinite DEF InitReturns
    <3>2. Quiet'
      BY <2>1, <2>5, <3>1 DEF Started
    <3>3. Collected'
      BY <2>1, <2>2, <2>5, <3>1
    <3> QED
      BY <3>2, <3>3
  <2>7. Handing' /\ Preparing'
    BY <1>1, <2>2, <2>4 DEF InitReturns
  <2>8. Counted'
    BY <1>1, <2>2, <2>4 DEF InitReturns
  <2> QED
    BY <2>3, <2>6, <2>7, <2>8
<1>2. CASE InitHangs(p)
  <2>1. p \in Started /\ p \in Unsent /\ Begun
    BY ProviderNames, <1>2 DEF InitHangs, Unsent, Started
  <2>2. Unsent' = Unsent /\ Started' = Started /\ ~allDone
    BY <1>2, <2>1 DEF InitHangs, Unsent, Started
  <2>3. StartTypeOK'
    BY <1>2 DEF InitHangs
  <2>4. \A x \in Providers : init'[x] = IF x = p THEN "hung" ELSE init[x]
    BY <1>2 DEF InitHangs
  <2>5. Quiet' /\ Collected'
    <3>1. /\ main' = main /\ collect' = collect /\ configs' = configs /\ needed' = needed
          /\ init[p] = "running" /\ Started \subseteq Providers
      BY <1>2, UnsentFinite DEF InitHangs
    <3>2. Quiet'
      BY <2>1, <2>4, <3>1 DEF Started
    <3>3. Collected'
      BY <2>1, <2>2, <2>4, <3>1
    <3> QED
      BY <3>2, <3>3
  <2>6. Counted' /\ Handing' /\ Preparing'
    BY <1>2, <2>2 DEF InitHangs
  <2> QED
    BY <2>3, <2>5, <2>6
<1>3. CASE Collect(p)
  <2>1. p \in Started /\ p \in Unsent /\ Begun
    BY ProviderNames, <1>3 DEF Collect, Unsent, Started
  <2>2. Unsent' = Unsent \ {p} /\ Started' = Started /\ ~allDone
    BY <1>3, <2>1 DEF Collect, Unsent, Started
  <2>3. /\ Cardinality(Unsent \ {p}) = Cardinality(Unsent) - 1
        /\ Cardinality(Unsent \ {p}) \in Nat
    <3>1. IsFiniteSet(Unsent) /\ IsFiniteSet(Unsent \ {p})
      BY UnsentFinite, FS_Subset
    <3> QED
      BY <2>1, <3>1, FS_RemoveElement, FS_CardinalityType
  <2>4. group' \in 0..Cardinality(Providers)
    <3>1. group = Cardinality(Unsent) /\ group' = group - 1
      BY <1>3, <2>1 DEF Collect
    <3>2. /\ Cardinality(Unsent) \in Nat /\ Cardinality(Providers) \in Nat
          /\ Cardinality(Unsent) <= Cardinality(Providers)
      BY UnsentFinite
    <3> HIDE DEF StartInv, StartTypeOK
    <3> QED
      BY <2>3, <3>1, <3>2
  <2>5. StartTypeOK'
    BY <1>3, <2>4 DEF Collect
  <2>6. Quiet' /\ Handing' /\ Preparing'
    BY <1>3, <2>1, <2>2 DEF Collect
  <2>7. Collected'
    <3>1. /\ \A x \in Providers : init'[x] = IF x = p THEN "sent" ELSE init[x]
          /\ collect' = p /\ collect = "wait" /\ configs' = configs
          /\ "wait" \notin Providers
      BY ProviderNames, <1>3 DEF Collect
    <3>2. Started \subseteq Providers /\ Begun'
      BY <1>3, <2>1, UnsentFinite DEF Collect
    <3>3. \A x \in Started : init[x] = "sent" => x \in configs
      BY <3>1, <3>2
    <3> HIDE DEF StartInv, StartTypeOK, Begun
    <3> QED
      BY <2>1, <2>2, <3>1, <3>2, <3>3
  <2>8. Counted'
    BY <1>3, <2>1, <2>2, <2>3 DEF Collect
  <2> QED
    BY <2>5, <2>6, <2>7, <2>8
<1> QED
  BY <1>1, <1>2, <1>3

\* The goroutine that collects.
LEMMA CollectorStep ==
    ASSUME StartInv, CollectorAppend \/ CollectorEnd \/ Cancel
    PROVE  StartInv'
<1> USE DEF StartInv, StartTypeOK, Begun, Quiet, Counted, Collected, Handing, Preparing, Returned
<1>1. CASE CollectorAppend
  <2>1. Unsent' = Unsent /\ Started' = Started /\ Begun
    BY ProviderNames, <1>1 DEF CollectorAppend, Unsent, Started
  <2> QED
    BY ProviderNames, <1>1, <2>1 DEF CollectorAppend
<1>2. CASE CollectorEnd
  <2>1. Unsent' = Unsent /\ Started' = Started /\ Started \subseteq Providers /\ Begun
    BY <1>2, UnsentFinite DEF CollectorEnd, Unsent, Started
  <2>2. /\ collect = "wait" /\ collect' = "ended"
        /\ "wait" \notin Providers /\ "ended" \notin Providers
    BY ProviderNames, <1>2 DEF CollectorEnd
  <2>3. StartTypeOK' /\ Quiet' /\ Counted' /\ Handing' /\ Preparing'
    BY <1>2, <2>1 DEF CollectorEnd
  <2>4. \A x \in Started : init[x] = "sent" => x \in configs
    BY <2>1, <2>2
  <2>5. Collected'
    <3>1. main' = main /\ init' = init /\ configs' = configs
      BY <1>2 DEF CollectorEnd
    <3> HIDE DEF StartInv, StartTypeOK
    <3> QED
      BY <2>1, <2>2, <2>4, <3>1
  <2> QED
    BY <2>3, <2>5
<1>3. CASE Cancel
  <2>1. Unsent' = Unsent /\ Started' = Started
    BY <1>3 DEF Cancel, Unsent, Started
  <2> QED
    BY <1>3, <2>1 DEF Cancel
<1> QED
  BY <1>1, <1>2, <1>3

\* The goroutine that waits, and ProviderStart after its wait.
LEMMA CallerStep ==
    ASSUME StartInv,
           \/ Waiter \/ AllStarted \/ Timeout \/ Translate \/ NoBuiltin \/ Finish
           \/ \E error \in BOOLEAN : BuiltinInit(error)
           \/ \E p \in Providers \cup {"builtin"}, error \in BOOLEAN : Prepare(p, error)
    PROVE  StartInv'
<1> USE DEF StartInv, StartTypeOK, Begun, Quiet, Counted, Collected, Handing, Preparing, Returned
<1>a. UNCHANGED <<needed, opts, init, cancelled, collect, configs>>
  BY DEF Waiter, AllStarted, Timeout, Translate, NoBuiltin, Finish, BuiltinInit, Prepare
<1>0. /\ Unsent' = Unsent /\ Started' = Started
      /\ UNCHANGED <<needed, opts, init, cancelled, collect, configs>>
  BY <1>a DEF Unsent, Started
<1>1. CASE Waiter
  <2>1. Unsent = {}
    BY <1>1, UnsentFinite, FS_EmptySet DEF Waiter
  <2> QED
    BY <1>0, <1>1, <2>1 DEF Waiter
<1>2. CASE AllStarted
  BY <1>0, <1>2 DEF AllStarted
<1>3. CASE Timeout
  <2>0. /\ main = "waiting" /\ main' = "timed out"
        /\ UNCHANGED <<group, allDone, translated, given, failed, prepared>>
    BY <1>3 DEF Timeout
  <2>1. StartTypeOK'
    BY <1>0, <2>0
  <2>2. Quiet'
    BY <1>0, <2>0
  <2>3. Counted'
    BY <1>0, <2>0
  <2>4. Collected'
    BY <1>0, <2>0
  <2>5. Handing'
    BY <2>0
  <2>6. Preparing'
    BY <1>0, <2>0
  <2> QED
    BY <2>1, <2>2, <2>3, <2>4, <2>5, <2>6
<1>4. allDone => AtMostOne(Started \ configs)
  BY DEF AtMostOne, Unsent
<1>5. CASE Translate
  BY <1>0, <1>4, <1>5 DEF Translate
<1>6. CASE NoBuiltin
  BY <1>0, <1>6 DEF NoBuiltin
<1>7. CASE Finish
  BY <1>0, <1>7 DEF Finish
<1>8. ASSUME NEW error \in BOOLEAN, BuiltinInit(error) PROVE StartInv'
  <2>1. given'.all = (IF opts.ignore THEN {} ELSE configs) /\ given'.translated = translated
    BY <1>8 DEF BuiltinInit
  <2>2. given' \in [all : SUBSET Providers, translated : SUBSET Providers]
    BY <1>8 DEF BuiltinInit
  <2>3. StartTypeOK'
    BY <1>0, <1>8, <2>2 DEF BuiltinInit
  <2>4. Handing' /\ Preparing'
    BY <1>0, <1>4, <1>8, <2>1 DEF BuiltinInit
  <2>5. Quiet' /\ Counted' /\ Collected'
    BY <1>0, <1>8 DEF BuiltinInit
  <2> QED
    BY <2>3, <2>4, <2>5
<1>9. ASSUME NEW p \in Providers \cup {"builtin"}, NEW error \in BOOLEAN, Prepare(p, error)
      PROVE  StartInv'
  BY <1>0, <1>9 DEF Prepare
<1> QED
  BY <1>1, <1>2, <1>3, <1>5, <1>6, <1>7, <1>8, <1>9

LEMMA NextStartInv == StartInv /\ [StartNext]_startVars => StartInv'
<1> SUFFICES ASSUME StartInv, [StartNext]_startVars PROVE StartInv'
  OBVIOUS
<1>1. CASE UNCHANGED startVars
  BY <1>1 DEF startVars, StartInv, StartTypeOK, Begun, Started, Unsent, Quiet, Counted, Collected,
              Handing, Preparing
<1> QED
  BY <1>1, BeginStep, GoroutineStep, CollectorStep, CallerStep DEF StartNext, StartStep

(***************************************************************************)
(* With any number of providers, whichever of them fail, hang or are not   *)
(* needed, and whenever the context is cancelled: builtin is initialized   *)
(* after all the others that are needed, nothing is prepared before all    *)
(* have started, and ProviderStart does not succeed over an error.         *)
(***************************************************************************)
THEOREM StartsInOrder == StartSpec => []StartOrdered
<1>1. StartInv => StartOrdered
  <2> SUFFICES ASSUME StartInv PROVE StartOrdered
    OBVIOUS
  <2>1. allDone => \A p \in Started : init[p] = "sent"
    BY DEF StartInv, Counted, Unsent
  <2>2. main \in {"translating", "builtin", "preparing", "ok"} =>
           \A p \in Started : init[p] = "sent"
    BY <2>1 DEF StartInv, Counted
  <2>3. Handed => given.translated \subseteq given.all
    BY DEF StartInv, Handing, Handed
  <2>4. prepared # {} => /\ main \in {"preparing", "ok", "failed"}
                         /\ \A p \in Started : init[p] = "sent"
    BY <2>1, <2>2 DEF StartInv, Preparing, Counted
  <2> QED
    BY <2>2, <2>3, <2>4 DEF StartInv, Preparing, StartOrdered
<1>2. StartInit => StartInv
  BY InitStartInv
<1>3. StartInv /\ [StartNext]_startVars => StartInv'
  BY NextStartInv
<1> QED
  BY <1>1, <1>2, <1>3, PTL DEF StartSpec
-----------------------------------------------------------------------------
(* RuleLoader                                                              *)
Queued(f) == \E i \in 1..Len(ruleLoadChan) : ruleLoadChan[i][1] = f

LoadType ==
    /\ LoadTypeOK
    /\ ruleLoadChan \in Seq(RuleFiles \X Results)

\* Before the rule files are walked nothing is there.
Before ==
    /\ loader \in {"new", "no rule set"} =>
          /\ \A f \in RuleFiles : parse[f] = "off" /\ result[f] = "not yet"
          /\ ruleLoadChan = <<>> /\ ~closed /\ rules = {} /\ parseErr = {}
    /\ loader \notin {"new", "no rule set"} =>
          \A f \in RuleFiles :
             /\ parse[f] = "off" <=> result[f] = "missing"
             /\ parse[f] = "parsing" <=> result[f] = "not yet"

\* The WaitGroup counts the files that wait and the results in the channel.
LoadCounted ==
    /\ ruleParserWG = Cardinality(Waiting) + Len(ruleLoadChan)
    /\ closed => ruleParserWG = 0

\* A result in the channel is that of its file, which has sent it.
InChannel ==
    \A i \in 1..Len(ruleLoadChan) :
        LET m == ruleLoadChan[i]
        IN  result[m[1]] = m[2] /\ parse[m[1]] = "sent"

\* What was collected is right, and what was sent is collected or queued.
CollectedExact ==
    \A f \in RuleFiles :
        /\ f \in rules => result[f] = "rules"
        /\ f \in parseErr => result[f] \in {"error", "missing"}
        /\ result[f] = "missing" => f \in parseErr
        /\ parse[f] = "sent" /\ ~Queued(f) =>
              /\ result[f] = "rules" => f \in rules
              /\ result[f] = "error" => f \in parseErr

LoadInv == LoadType /\ Before /\ LoadCounted /\ InChannel /\ CollectedExact

LEMMA WaitingFinite ==
    /\ IsFiniteSet(Waiting) /\ Cardinality(Waiting) \in Nat
           /\ Cardinality(RuleFiles) \in Nat
           /\ \A S \in SUBSET RuleFiles :
                 /\ IsFiniteSet(S) /\ Cardinality(S) \in Nat
                 /\ Cardinality(S) <= Cardinality(RuleFiles)
<1>1. Waiting \subseteq RuleFiles
  BY DEF Waiting
<1> QED
  BY LoadBounds, <1>1, FS_Subset, FS_CardinalityType

\* The elements of the channel, as LoadTypeOK states them.
LEMMA ChanElements ==
    ASSUME NEW s \in Seq(RuleFiles \X Results)
    PROVE  ToSet(s) \subseteq RuleFiles \X Results
  BY DEF ToSet

LEMMA InitLoadInv == LoadInit => LoadInv
<1> SUFFICES ASSUME LoadInit PROVE LoadInv
  OBVIOUS
<1>1. Waiting = {} /\ Cardinality({}) = 0
  BY FS_EmptySet DEF LoadInit, Waiting
<1>2. /\ ruleLoadChan = <<>> /\ ruleLoadChan \in Seq(RuleFiles \X Results)
      /\ Len(ruleLoadChan) = 0 /\ 1..Len(ruleLoadChan) = {}
  <2>1. ruleLoadChan = <<>>
    BY DEF LoadInit
  <2> QED
    BY <2>1
<1>3. closed \in BOOLEAN /\ expired \in BOOLEAN
  BY DEF LoadInit
<1>4. LoadTypeOK
  <2>1. Cardinality(RuleFiles) \in Nat
    BY WaitingFinite
  <2>2. ruleParserWG \in 0..Cardinality(RuleFiles) /\ Len(ruleLoadChan) =< LoadCap
    <3>1. ruleParserWG = 0 /\ LoadCap \in Nat
      BY LoadBounds DEF LoadInit
    <3> QED
      BY <1>2, <2>1, <3>1
  <2>3. ToSet(ruleLoadChan) \subseteq RuleFiles \X Results
    BY <1>2, ChanElements
  <2> QED
    BY <1>3, <2>2, <2>3 DEF LoadInit, LoadTypeOK
<1>5. LoadType
  BY <1>2, <1>4 DEF LoadType
<1>6. Before /\ CollectedExact
  BY DEF LoadInit, Before, CollectedExact
<1>7. LoadCounted
  <2>1. ruleParserWG = 0
    BY DEF LoadInit
  <2> QED
    BY <1>1, <1>2, <2>1 DEF LoadCounted
<1>8. InChannel
  BY <1>2 DEF InChannel
<1> QED
  BY <1>5, <1>6, <1>7, <1>8 DEF LoadInv

\* What a send and a receive do to the results in the channel.
LEMMA AppendChan ==
    ASSUME LoadType, NEW m \in RuleFiles \X Results,
           ruleLoadChan' = Append(ruleLoadChan, m)
    PROVE  /\ ruleLoadChan' \in Seq(RuleFiles \X Results)
           /\ Len(ruleLoadChan') = Len(ruleLoadChan) + 1
           /\ ruleLoadChan'[Len(ruleLoadChan) + 1] = m
           /\ \A i \in 1..Len(ruleLoadChan) : ruleLoadChan'[i] = ruleLoadChan[i]
           /\ \A f : Queued(f)' <=> Queued(f) \/ f = m[1]
<1>1. ruleLoadChan \in Seq(RuleFiles \X Results)
  BY DEF LoadType
<1>2. /\ ruleLoadChan' \in Seq(RuleFiles \X Results)
      /\ Len(ruleLoadChan) \in Nat
      /\ Len(ruleLoadChan') = Len(ruleLoadChan) + 1
      /\ ruleLoadChan'[Len(ruleLoadChan) + 1] = m
      /\ \A i \in 1..Len(ruleLoadChan) : ruleLoadChan'[i] = ruleLoadChan[i]
  BY <1>1
<1>3. \A f : Queued(f)' <=> Queued(f) \/ f = m[1]
  BY <1>2 DEF Queued
<1> QED
  BY <1>2, <1>3

LEMMA TailChan ==
    ASSUME LoadType, ruleLoadChan # <<>>, ruleLoadChan' = Tail(ruleLoadChan)
    PROVE  /\ ruleLoadChan' \in Seq(RuleFiles \X Results)
           /\ Len(ruleLoadChan') = Len(ruleLoadChan) - 1
           /\ Len(ruleLoadChan) \in Nat \ {0}
           /\ Head(ruleLoadChan) = ruleLoadChan[1]
           /\ Head(ruleLoadChan) \in RuleFiles \X Results
           /\ \A i \in 1..(Len(ruleLoadChan) - 1) :
                 ruleLoadChan'[i] = ruleLoadChan[i + 1] /\ i + 1 \in 1..Len(ruleLoadChan)
           /\ \A f : Queued(f) => Queued(f)' \/ f = Head(ruleLoadChan)[1]
<1>1. ruleLoadChan \in Seq(RuleFiles \X Results)
  BY DEF LoadType
<1>2. /\ ruleLoadChan' \in Seq(RuleFiles \X Results)
      /\ Len(ruleLoadChan') = Len(ruleLoadChan) - 1
      /\ Len(ruleLoadChan) \in Nat \ {0}
      /\ Head(ruleLoadChan) = ruleLoadChan[1]
      /\ Head(ruleLoadChan) \in RuleFiles \X Results
      /\ \A i \in 1..(Len(ruleLoadChan) - 1) :
            ruleLoadChan'[i] = ruleLoadChan[i + 1] /\ i + 1 \in 1..Len(ruleLoadChan)
  BY <1>1
<1>3. ASSUME NEW f, Queued(f), f # Head(ruleLoadChan)[1] PROVE Queued(f)'
  <2>1. PICK i \in 1..Len(ruleLoadChan) : ruleLoadChan[i][1] = f
    BY <1>3 DEF Queued
  <2>2. i # 1
    BY <1>2, <1>3, <2>1
  <2>3. i - 1 \in 1..(Len(ruleLoadChan) - 1) /\ (i - 1) + 1 = i
    BY <1>2, <2>1, <2>2
  <2>4. ruleLoadChan'[i - 1] = ruleLoadChan[i]
    BY <1>2, <2>3
  <2> QED
    BY <1>2, <2>1, <2>3, <2>4 DEF Queued
<1> QED
  BY <1>2, <1>3

\* The start of LoadRules, and of the goroutines.
LEMMA LoadStarts ==
    ASSUME LoadInv,
           NoRuleSet \/ \E found \in SUBSET RuleFiles : StartParsing(found)
    PROVE  LoadInv'
<1> USE DEF LoadInv
<1>1. CASE NoRuleSet
  <2>1. UNCHANGED <<parse, result, ruleParserWG, ruleLoadChan, closed, rules, parseErr>>
    BY <1>1 DEF NoRuleSet
  <2>2. loader = "new" /\ loader' = "no rule set" /\ expired' = TRUE
    BY <1>1 DEF NoRuleSet
  <2>3. Waiting' = Waiting /\ \A f : Queued(f)' <=> Queued(f)
    BY <2>1 DEF Waiting, Queued
  <2>4. LoadType'
    BY <2>1, <2>2 DEF LoadType, LoadTypeOK
  <2>5. Before' /\ LoadCounted' /\ InChannel' /\ CollectedExact'
    BY <2>1, <2>2, <2>3 DEF Before, LoadCounted, InChannel, CollectedExact
  <2> QED
    BY <2>4, <2>5
<1>2. ASSUME NEW found \in SUBSET RuleFiles, StartParsing(found) PROVE LoadInv'
  <2>1. /\ UNCHANGED <<ruleLoadChan, closed, expired, rules>>
        /\ loader = "new" /\ loader' = "loading"
        /\ parse' = [f \in RuleFiles |-> IF f \in found THEN "parsing" ELSE "off"]
        /\ result' = [f \in RuleFiles |-> IF f \in found THEN "not yet" ELSE "missing"]
        /\ ruleParserWG' = Cardinality(found) /\ parseErr' = RuleFiles \ found
    BY <1>2 DEF StartParsing
  <2>2. /\ ruleLoadChan = <<>> /\ Len(ruleLoadChan) = 0 /\ 1..Len(ruleLoadChan) = {}
        /\ ~closed /\ rules = {}
    <3>1. ruleLoadChan = <<>> /\ ~closed /\ rules = {}
      BY <2>1 DEF Before
    <3> QED
      BY <3>1
  <2>3. Waiting' = found
    BY <2>1 DEF Waiting
  <2>4. /\ Cardinality(found) \in Nat /\ Cardinality(found) <= Cardinality(RuleFiles)
        /\ Cardinality(RuleFiles) \in Nat
    BY WaitingFinite
  <2>5. LoadType'
    <3>1. ruleParserWG' \in 0..Cardinality(RuleFiles)
      <4>1. ruleParserWG' = Cardinality(found)
        BY <2>1
      <4> QED
        BY <2>4, <4>1
    <3>2. /\ parse' \in [RuleFiles -> {"off", "parsing", "parsed", "sent", "left"}]
          /\ result' \in [RuleFiles -> {"not yet", "missing"} \cup Results]
      BY <2>1
    <3> QED
      BY <2>1, <3>1, <3>2 DEF LoadType, LoadTypeOK
  <2>6. Before' /\ CollectedExact'
    BY <2>1, <2>2 DEF Before, CollectedExact
  <2>7. LoadCounted'
    <3>1. ruleParserWG' = Cardinality(found) /\ closed' = closed /\ ruleLoadChan' = ruleLoadChan
      BY <2>1
    <3> QED
      BY <2>2, <2>3, <2>4, <3>1 DEF LoadCounted
  <2>8. InChannel'
    BY <2>1, <2>2 DEF InChannel
  <2> QED
    BY <2>5, <2>6, <2>7, <2>8
<1> QED
  BY <1>1, <1>2

\* The goroutine of a file.
LEMMA FileStep ==
    ASSUME LoadInv, NEW f \in RuleFiles,
           \/ \E r \in Results : loadRule(f, r)
           \/ SendResult(f) \/ LeaveResult(f)
    PROVE  LoadInv'
<1> USE DEF LoadInv
<1>0. /\ parse \in [RuleFiles -> {"off", "parsing", "parsed", "sent", "left"}]
      /\ result \in [RuleFiles -> {"not yet", "missing"} \cup Results]
      /\ ruleLoadChan \in Seq(RuleFiles \X Results)
  BY DEF LoadType, LoadTypeOK
<1>a. \A i \in 1..Len(ruleLoadChan) : ruleLoadChan[i][1] \in RuleFiles
  <2>1. \A i \in 1..Len(ruleLoadChan) : ruleLoadChan[i] \in RuleFiles \X Results
    BY DEF LoadType
  <2> QED
    BY <2>1
<1>1. loader \notin {"new", "no rule set"}
  BY DEF loadRule, SendResult, LeaveResult, Before
<1>2. ASSUME NEW r \in Results, loadRule(f, r) PROVE LoadInv'
  <2>1. /\ UNCHANGED <<loader, ruleParserWG, ruleLoadChan, closed, expired, rules, parseErr>>
        /\ parse[f] = "parsing" /\ result[f] = "not yet"
        /\ \A x \in RuleFiles : parse'[x] = IF x = f THEN "parsed" ELSE parse[x]
        /\ \A x \in RuleFiles : result'[x] = IF x = f THEN r ELSE result[x]
    BY <1>0, <1>1, <1>2 DEF loadRule, Before
  <2>2. LoadType'
    BY <1>2 DEF loadRule, LoadType, LoadTypeOK
  <2>3. Waiting' = Waiting /\ \A x : Queued(x)' <=> Queued(x)
    BY <2>1 DEF Waiting, Queued
  <2>4. Before'
    BY <1>1, <2>1 DEF Before, Results
  <2>5. LoadCounted'
    BY <2>1, <2>3 DEF LoadCounted
  <2>6. InChannel'
    BY <1>a, <2>1 DEF InChannel
  <2>7. CollectedExact'
    BY <2>1, <2>3 DEF CollectedExact, Results
  <2> QED
    BY <2>2, <2>4, <2>5, <2>6, <2>7
<1>3. CASE SendResult(f)
  <2>1. /\ UNCHANGED <<loader, result, ruleParserWG, closed, expired, rules, parseErr>>
        /\ parse[f] = "parsed" /\ ruleLoadChan' = Append(ruleLoadChan, <<f, result[f]>>)
        /\ Len(ruleLoadChan) < LoadCap
        /\ \A x \in RuleFiles : parse'[x] = IF x = f THEN "sent" ELSE parse[x]
    BY <1>0, <1>3 DEF SendResult
  <2>2. result[f] \in Results /\ <<f, result[f]>> \in RuleFiles \X Results
    BY <1>0, <1>1, <2>1 DEF Before
  <2>3. PICK m \in RuleFiles \X Results : m = <<f, result[f]>>
    BY <2>2
  <2>4. /\ ruleLoadChan' \in Seq(RuleFiles \X Results)
        /\ Len(ruleLoadChan') = Len(ruleLoadChan) + 1
        /\ ruleLoadChan'[Len(ruleLoadChan) + 1] = m
        /\ \A i \in 1..Len(ruleLoadChan) : ruleLoadChan'[i] = ruleLoadChan[i]
        /\ \A x : Queued(x)' <=> Queued(x) \/ x = m[1]
    BY <2>1, <2>3, AppendChan
  <2>5. Len(ruleLoadChan) \in Nat /\ Len(ruleLoadChan') <= LoadCap
    <3>1. Len(ruleLoadChan) \in Nat
      BY DEF LoadType
    <3> QED
      BY LoadBounds, <2>1, <2>4, <3>1
  <2>6. LoadType'
    BY <1>3, <2>4, <2>5, ChanElements DEF SendResult, LoadType, LoadTypeOK
  <2>7. Waiting' = Waiting \ {f} /\ f \in Waiting
    BY <2>1 DEF Waiting
  <2>8. Cardinality(Waiting \ {f}) = Cardinality(Waiting) - 1 /\ Cardinality(Waiting) \in Nat
    BY <2>7, WaitingFinite, FS_RemoveElement
  <2>9. LoadCounted'
    BY <2>1, <2>4, <2>5, <2>7, <2>8 DEF LoadCounted
  <2>10. Before'
    BY <1>1, <2>1 DEF Before
  <2>11. InChannel'
    <3> SUFFICES ASSUME NEW i \in 1..Len(ruleLoadChan')
                 PROVE  result'[ruleLoadChan'[i][1]] = ruleLoadChan'[i][2]
                        /\ parse'[ruleLoadChan'[i][1]] = "sent"
      BY DEF InChannel
    <3>1. CASE i = Len(ruleLoadChan) + 1
      BY <2>1, <2>3, <2>4, <3>1
    <3>2. CASE i \in 1..Len(ruleLoadChan)
      <4>1. /\ ruleLoadChan'[i] = ruleLoadChan[i] /\ ruleLoadChan[i][1] \in RuleFiles
            /\ result[ruleLoadChan[i][1]] = ruleLoadChan[i][2]
            /\ parse[ruleLoadChan[i][1]] = "sent"
        BY <1>a, <2>4, <3>2 DEF InChannel
      <4> QED
        BY <2>1, <4>1
    <3> QED
      BY <2>4, <2>5, <3>1, <3>2
  <2>12. CollectedExact'
    BY <2>1, <2>3, <2>4 DEF CollectedExact
  <2> QED
    BY <2>6, <2>9, <2>10, <2>11, <2>12
<1>4. CASE LeaveResult(f)
  <2>1. /\ UNCHANGED <<loader, result, ruleParserWG, ruleLoadChan, closed, expired, rules, parseErr>>
        /\ parse[f] = "parsed"
        /\ \A x \in RuleFiles : parse'[x] = IF x = f THEN "left" ELSE parse[x]
    BY <1>0, <1>4 DEF LeaveResult
  <2>2. LoadType'
    BY <1>4 DEF LeaveResult, LoadType, LoadTypeOK
  <2>3. Waiting' = Waiting /\ \A x : Queued(x)' <=> Queued(x)
    BY <2>1 DEF Waiting, Queued
  <2>4. Before'
    BY <1>1, <2>1 DEF Before
  <2>5. LoadCounted'
    BY <2>1, <2>3 DEF LoadCounted
  <2>6. InChannel'
    BY <1>a, <2>1 DEF InChannel
  <2>7. CollectedExact'
    BY <2>1, <2>3 DEF CollectedExact
  <2> QED
    BY <2>2, <2>4, <2>5, <2>6, <2>7
<1> QED
  BY <1>2, <1>3, <1>4

\* The caller, its timeout and the goroutine that closes the channel.
LEMMA LoaderStep ==
    ASSUME LoadInv,
           CloseLoadChan \/ CollectResult \/ LoadReturn \/ LoadTimeout
    PROVE  LoadInv'
<1> USE DEF LoadInv
<1>1. CASE CloseLoadChan \/ LoadReturn \/ LoadTimeout
  <2>1. UNCHANGED <<parse, result, ruleParserWG, ruleLoadChan, rules, parseErr>>
    BY <1>1 DEF CloseLoadChan, LoadReturn, LoadTimeout
  <2>2. /\ loader \in {"loading", "done"} /\ loader' \in {"loading", "done"}
        /\ closed' # closed => ruleParserWG = 0
    BY <1>1 DEF CloseLoadChan, LoadReturn, LoadTimeout
  <2>3. closed' \in BOOLEAN /\ expired' \in BOOLEAN
    BY <1>1 DEF CloseLoadChan, LoadReturn, LoadTimeout, LoadType, LoadTypeOK
  <2>4. Waiting' = Waiting /\ \A x : Queued(x)' <=> Queued(x)
    BY <2>1 DEF Waiting, Queued
  <2>5. LoadType'
    BY <2>1, <2>2, <2>3 DEF LoadType, LoadTypeOK
  <2>6. Before' /\ InChannel' /\ CollectedExact'
    BY <2>1, <2>2, <2>4 DEF Before, InChannel, CollectedExact
  <2>7. LoadCounted'
    BY <2>1, <2>2, <2>4 DEF LoadCounted
  <2> QED
    BY <2>5, <2>6, <2>7
<1>2. CASE CollectResult
  <2>1. /\ UNCHANGED <<loader, parse, result, closed, expired>>
        /\ loader = "loading" /\ ruleLoadChan # <<>>
        /\ ruleLoadChan' = Tail(ruleLoadChan) /\ ruleParserWG' = ruleParserWG - 1
    BY <1>2 DEF CollectResult
  <2>2. /\ ruleLoadChan' \in Seq(RuleFiles \X Results)
        /\ Len(ruleLoadChan') = Len(ruleLoadChan) - 1
        /\ Len(ruleLoadChan) \in Nat \ {0}
        /\ Head(ruleLoadChan) = ruleLoadChan[1]
        /\ Head(ruleLoadChan) \in RuleFiles \X Results
        /\ \A i \in 1..(Len(ruleLoadChan) - 1) :
              ruleLoadChan'[i] = ruleLoadChan[i + 1] /\ i + 1 \in 1..Len(ruleLoadChan)
        /\ \A x : Queued(x) => Queued(x)' \/ x = Head(ruleLoadChan)[1]
    BY <2>1, TailChan
  <2>3. PICK f \in RuleFiles, r \in Results :
           f = Head(ruleLoadChan)[1] /\ r = Head(ruleLoadChan)[2]
    BY <2>2
  <2>4. /\ rules' = IF r = "rules" THEN rules \cup {f} ELSE rules
        /\ parseErr' = IF r = "error" THEN parseErr \cup {f} ELSE parseErr
    BY <1>2, <2>3 DEF CollectResult
  <2>5. result[f] = r /\ parse[f] = "sent"
    <3>1. 1 \in 1..Len(ruleLoadChan)
      BY <2>2
    <3> QED
      BY <2>2, <2>3, <3>1 DEF InChannel
  <2>6. Waiting' = Waiting /\ Cardinality(Waiting) \in Nat
    BY <2>1, WaitingFinite DEF Waiting
  <2>7. LoadCounted'
    BY <2>1, <2>2, <2>6 DEF LoadCounted
  <2>8. LoadType'
    <3>1. ruleParserWG' \in 0..Cardinality(RuleFiles)
      <4>1. Cardinality(RuleFiles) \in Nat /\ ruleParserWG \in 0..Cardinality(RuleFiles)
        BY WaitingFinite DEF LoadType, LoadTypeOK
      <4>2. ruleParserWG >= 1
        BY <2>2, <2>6 DEF LoadCounted
      <4> QED
        BY <2>1, <4>1, <4>2
    <3>2. Len(ruleLoadChan') =< LoadCap
      <4>1. Len(ruleLoadChan) =< LoadCap /\ LoadCap \in Nat
        BY LoadBounds DEF LoadType, LoadTypeOK
      <4> QED
        BY <2>2, <4>1
    <3>3. rules' \subseteq RuleFiles /\ parseErr' \subseteq RuleFiles
      BY <2>3, <2>4 DEF LoadType, LoadTypeOK
    <3> QED
      BY <2>1, <2>2, <3>1, <3>2, <3>3, ChanElements DEF LoadType, LoadTypeOK
  <2>9. Before'
    BY <2>1 DEF Before
  <2>10. InChannel'
    BY <2>1, <2>2 DEF InChannel
  <2>11. CollectedExact'
    BY <2>1, <2>2, <2>3, <2>4, <2>5 DEF CollectedExact
  <2> QED
    BY <2>7, <2>8, <2>9, <2>10, <2>11
<1> QED
  BY <1>1, <1>2

LEMMA NextLoadInv == LoadInv /\ [LoadNext]_loadVars => LoadInv'
<1> SUFFICES ASSUME LoadInv, [LoadNext]_loadVars PROVE LoadInv'
  OBVIOUS
<1>1. CASE UNCHANGED loadVars
  BY <1>1 DEF loadVars, LoadInv, LoadType, LoadTypeOK, Before, LoadCounted, InChannel,
              CollectedExact, Waiting, Queued
<1> QED
  BY <1>1, LoadStarts, FileStep, LoaderStep DEF LoadNext, LoadStep

(***************************************************************************)
(* For any directory: the WaitGroup of LoadRules counts every result not   *)
(* collected, no goroutine can send to the closed channel, and unless the  *)
(* time was over every file gives its rules or its error.                  *)
(***************************************************************************)
THEOREM LoadsExactly == LoadSpec => [](LoadTypeOK /\ LoadExact)
<1>1. LoadInv => LoadTypeOK /\ LoadExact
  <2> SUFFICES ASSUME LoadInv PROVE LoadExact
    BY DEF LoadInv, LoadType
  <2>1. closed => Waiting = {} /\ ruleLoadChan = <<>>
    <3> SUFFICES ASSUME closed PROVE Waiting = {} /\ ruleLoadChan = <<>>
      OBVIOUS
    <3>1. ruleLoadChan \in Seq(RuleFiles \X Results) /\ Len(ruleLoadChan) \in Nat
      BY DEF LoadInv, LoadType
    <3>2. Cardinality(Waiting) = 0 /\ Len(ruleLoadChan) = 0
      BY <3>1, WaitingFinite DEF LoadInv, LoadCounted
    <3> QED
      BY <3>1, <3>2, WaitingFinite, FS_EmptySet
  <2>2. rules \subseteq {f \in RuleFiles : result[f] = "rules"}
    BY DEF LoadInv, CollectedExact, LoadType, LoadTypeOK
  <2>3. ASSUME loader = "done", closed
        PROVE  /\ rules = {f \in RuleFiles : result[f] = "rules"}
               /\ parseErr = {f \in RuleFiles : result[f] \in {"error", "missing"}}
    <3>1. \A f \in RuleFiles : ~Queued(f) /\ parse[f] \in {"off", "sent"}
      <4>1. Len(ruleLoadChan) = 0 /\ 1..Len(ruleLoadChan) = {}
        BY <2>1, <2>3
      <4>2. \A f \in RuleFiles : ~Queued(f)
        BY <4>1 DEF Queued
      <4>3. \A f \in RuleFiles : parse[f] \in {"off", "sent"}
        BY <2>1, <2>3 DEF Waiting, LoadInv, LoadType, LoadTypeOK
      <4> QED
        BY <4>2, <4>3
    <3>2. \A f \in RuleFiles : parse[f] = "off" <=> result[f] = "missing"
      BY <2>3 DEF LoadInv, Before
    <3> QED
      BY <2>2, <3>1, <3>2 DEF LoadInv, CollectedExact, LoadType, LoadTypeOK
  <2> QED
    BY <2>1, <2>2, <2>3 DEF LoadExact, LoadInv, LoadCounted
<1>2. LoadInit => LoadInv
  BY InitLoadInv
<1>3. LoadInv /\ [LoadNext]_loadVars => LoadInv'
  BY NextLoadInv
<1> QED
  BY <1>1, <1>2, <1>3, PTL DEF LoadSpec
=============================================================================
