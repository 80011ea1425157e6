------------------------ MODULE BuiltinCache_proofs ------------------------
(***************************************************************************)
(* Proofs about BuiltinCache, for any number of files and workers, any     *)
(* capacities and any bound on the changes of a file.                      *)
(***************************************************************************)
EXTENDS BuiltinCache, TLAPS

\* The records of the goroutines.
Records ==
    /\ worker \in [Workers -> [pc : {"off", "idle", "stored", "checked", "cleared",
                                     "read", "complete", "leave", "ended"},
                               file : Files \cup {None}, from : {"disk", "wc"},
                               ver : Version \cup {None}]]
    /\ wcWorker \in [pc : {"idle", "send", "ended"}, change : Change \cup {None}]
    /\ notifier \in [pc : {"idle", "swap", "invalidate", "send", "pass"},
                     change : Change \cup {None}]
    /\ eval \in [pc : {"idle", "files", "wait", "done"}, todo : SUBSET Files,
                 file : Files \cup {None}, ch : Version, due : [Files -> Version],
                 saw : [Files -> Version \cup {None}], disturbed : BOOLEAN]

\* A goroutine that works on a file or a change has one.
Holding ==
    /\ \A w \in Workers :
          /\ worker[w].file = None <=> worker[w].pc \in {"off", "idle", "ended"}
          /\ worker[w].pc = "read" => worker[w].ver \in Version
    /\ wcWorker.pc = "send" => wcWorker.change \in Change
    /\ notifier.pc # "idle" => notifier.change \in Change
    /\ notifier.pc = "send" => notifier.change.saved
    /\ eval.pc = "wait" => eval.file \in Files \ eval.todo /\ eval.ch # 0

\* Nothing happens before Prepare has completed, and Prepare runs once.
Prepares ==
    /\ prepared => preparing = None
    /\ ~prepared =>
          /\ notifier.pc = "idle" /\ eval.pc = "idle" /\ wcWorker.pc # "send"
          /\ changesChan = <<>> /\ cacheRefreshChan = <<>> /\ ~stopped
          /\ \A w \in Workers : worker[w].pc = "off"
          /\ \A f \in Files : pending[f] = 0 /\ ver[f] = 0 /\ disk[f] = 0

\* The client notifies this file.
OnFile(f) == notifier.pc # "idle" /\ notifier.change.file = f

\* The last change of f is the last one queued, or the one being notified.
LastChange(f, c) == c.ver = ver[f] /\ (c.saved <=> disk[f] = ver[f])

Queued(f) == \E i \in 1..Len(changesChan) : changesChan[i].file = f

Changed ==
    \A f \in Files :
        /\ disk[f] <= ver[f] /\ pending[f] <= ver[f] /\ notified[f] <= ver[f]
        /\ wc[f] # None => wc[f] <= ver[f]
        /\ OnFile(f) => LastChange(f, notifier.change) /\ ver[f] > 0
        /\ ~OnFile(f) => \A i \in 1..Len(changesChan) :
              /\ changesChan[i].file = f
              /\ \A j \in 1..Len(changesChan) : j > i => changesChan[j].file # f
              => LastChange(f, changesChan[i])
        /\ \A i \in 1..Len(changesChan) :
              changesChan[i].file = f => changesChan[i].ver <= ver[f]

\* Without a queued change, the working copy is that of the last change.
CopiesCurrent ==
    \A f \in Files : ~stopped /\ f \notin givenUp /\ ~OnFile(f) /\ ~Queued(f) =>
        wc[f] = IF disk[f] = ver[f] THEN None ELSE ver[f]

\* The channel of a change is closed when it is taken out of pending.
ClosedOnce ==
    \A f \in Files :
        /\ \A v \in Version : closes[f][v] \in {0, 1}
        /\ pending[f] # 0 => closes[f][pending[f]] = 0
        /\ \A v \in Version : v > ver[f] => closes[f][v] = 0
        /\ OnFile(f) /\ notifier.pc = "swap" =>
              closes[f][ver[f]] = 0 /\ pending[f] < ver[f]

\* Who will complete the pending mark of f.
Notifying(f) ==
    /\ OnFile(f)
    /\ notifier.pc \in {"invalidate", "send"} \/ (notifier.pc = "pass" /\ ~notifier.change.saved)
QueuedUnsaved(f) ==
    \E i \in 1..Len(changesChan) : changesChan[i].file = f /\ ~changesChan[i].saved
Writing(f) == wcWorker.pc = "send" /\ wcWorker.change.file = f
Requested(f) == \E i \in 1..Len(cacheRefreshChan) : cacheRefreshChan[i].file = f
Refreshing(f) == \E w \in Workers : worker[w].file = f /\ worker[w].pc # "leave"

Completer(f) ==
    \/ Notifying(f) \/ QueuedUnsaved(f) \/ Writing(f) \/ Requested(f) \/ Refreshing(f)

MarksCompleted ==
    ~stopped => \A f \in Files : pending[f] # 0 => Completer(f) \/ f \in givenUp

\* The first part of the invariant: queues, marks and working copies.
QueueInv ==
    /\ TypeOK /\ Records /\ Holding /\ Prepares /\ Changed /\ CopiesCurrent
    /\ ClosedOnce /\ MarksCompleted

-----------------------------------------------------------------------------
(***************************************************************************)
(* Channels.                                                               *)
(***************************************************************************)

\* What an append leaves in a channel.
LEMMA AppendFacts ==
    ASSUME NEW S, NEW s \in Seq(S), NEW e \in S
    PROVE  /\ Append(s, e) \in Seq(S) /\ Len(Append(s, e)) = Len(s) + 1
           /\ \A i \in 1..Len(s) : Append(s, e)[i] = s[i]
           /\ Append(s, e)[Len(s) + 1] = e
           /\ Len(s) \in Nat
OBVIOUS

\* What a receive takes from a channel.
LEMMA TailFacts ==
    ASSUME NEW S, NEW s \in Seq(S), s # <<>>
    PROVE  /\ Head(s) \in S /\ Head(s) = s[1]
           /\ Tail(s) \in Seq(S) /\ Len(Tail(s)) = Len(s) - 1
           /\ \A i \in 1..(Len(s) - 1) : Tail(s)[i] = s[i + 1]
           /\ Len(s) \in Nat /\ Len(s) >= 1
OBVIOUS

-----------------------------------------------------------------------------
(***************************************************************************)
(* Types.                                                                  *)
(***************************************************************************)

\* The initial states satisfy the first part of the invariant.
LEMMA QueueInit == Init => QueueInv
<1> SUFFICES ASSUME Init PROVE QueueInv
  OBVIOUS
<1> USE BuiltinAssumption
<1>1. TypeOK
  <2>1. 0 \in Version
    BY DEF Version
  <2>2. [v \in Version |-> 0] \in [Version -> 0..1]
    OBVIOUS
  <2>3. /\ cacheRefreshChan \in Seq(Request) /\ Len(cacheRefreshChan) <= RefreshCap
        /\ changesChan \in Seq(Change) /\ Len(changesChan) <= ChangesCap
    BY DEF Init
  <2>4. /\ cache \in [Files -> Version \cup {None}] /\ pending \in [Files -> Version]
        /\ active \in [Files -> Workers \cup {None}] /\ wc \in [Files -> Version \cup {None}]
        /\ disk \in [Files -> Version] /\ ver \in [Files -> Version]
        /\ notified \in [Files -> Version]
    BY <2>1 DEF Init
  <2>5. closes \in [Files -> [Version -> 0..1]]
    BY <2>2 DEF Init
  <2>6. /\ prepared \in BOOLEAN /\ hasKey \in BOOLEAN /\ stopped \in BOOLEAN
        /\ preparing \in (SUBSET Files) \cup {None} /\ cancelled \subseteq Workers
        /\ givenUp \subseteq Files /\ overlap \subseteq Files
    BY DEF Init
  <2>7. \A w \in Workers : worker[w].pc = "off"
    BY DEF Init, IdleWorker
  <2> QED
    BY <2>3, <2>4, <2>5, <2>6, <2>7 DEF TypeOK
<1>2. Records
  BY DEF Init, Records, Version, IdleWorker, IdleNotifier, IdleEval
<1>3. Holding
  BY DEF Init, Holding, IdleWorker, IdleNotifier, IdleEval
<1>4. Prepares
  BY DEF Init, Prepares, IdleWorker, IdleNotifier, IdleEval
<1>5. Changed
  BY DEF Init, Changed, OnFile, LastChange, IdleNotifier, Version
<1>6. CopiesCurrent
  BY DEF Init, CopiesCurrent
<1>7. ClosedOnce
  BY DEF Init, ClosedOnce, OnFile, IdleNotifier, Version
<1>8. MarksCompleted
  BY DEF Init, MarksCompleted
<1> QED
  BY <1>1, <1>2, <1>3, <1>4, <1>5, <1>6, <1>7, <1>8 DEF QueueInv

\* Which steps change which variable.
LEMMA Frames ==
    ASSUME [Next]_vars
    PROVE  /\ UNCHANGED prepVars \/ Prepare
           /\ \/ UNCHANGED cacheVars \/ NotifyInvalidate
              \/ \E f \in Files : PrepareFile(f)
              \/ \E w \in Workers : WorkerInvalidate(w) \/ WorkerMerge(w)
           /\ UNCHANGED pendVars \/ NotifySwap \/ \E w \in Workers : WorkerComplete(w)
           /\ \/ UNCHANGED <<active, cancelled>>
              \/ \E f \in Files, saved \in BOOLEAN : NotifyCancel(f, saved)
              \/ \E w \in Workers : WorkerTake(w) \/ WorkerLeave(w)
           /\ \/ UNCHANGED cacheRefreshChan \/ NotifySend \/ WcSend
              \/ \E w \in Workers : WorkerTake(w)
           /\ UNCHANGED worker \/ PrepareDone \/ \E w \in Workers : Refresh(w)
           /\ UNCHANGED changesChan \/ NotifyPass \/ WcTake
           /\ UNCHANGED wcWorker \/ WorkingCopies
           /\ UNCHANGED wc \/ WcTake \/ Stop
           /\ UNCHANGED givenUp \/ WcTake \/ NotifyGiveUp
           /\ \/ UNCHANGED fileVars
              \/ \E f \in Files, saved \in BOOLEAN : NotifyCancel(f, saved)
           /\ \/ UNCHANGED notifier \/ NotifyGoOn \/ NotifyGiveUp
              \/ \E f \in Files, saved \in BOOLEAN : NotifyCancel(f, saved)
           /\ UNCHANGED notified \/ NotifyPass
           /\ \/ UNCHANGED eval \/ EvalBegin \/ EvalGoOn \/ EvalGiveUp
              \/ \E f \in Files, saved \in BOOLEAN : NotifyCancel(f, saved)
           /\ UNCHANGED stopped \/ Stop
<1> USE DEF prepVars, cacheVars, pendVars, refreshVars, wcVars, fileVars, callVars
<1>1. CASE UNCHANGED vars
  BY <1>1 DEF vars
<1>2. CASE Prepare
  BY <1>2 DEF Prepare, PrepareReset, PrepareFile, PrepareDone
<1>3. ASSUME NEW f \in Files, NEW saved \in BOOLEAN, NotifyCancel(f, saved)
      PROVE  /\ UNCHANGED <<prepVars, cacheVars, pendVars, cacheRefreshChan, worker, wcVars>>
             /\ UNCHANGED <<notified, stopped>>
  BY <1>3 DEF NotifyCancel
<1>4. CASE NotifyGoOn
  BY <1>4 DEF NotifyGoOn, NotifySwap, NotifyInvalidate, NotifySend, NotifyPass
<1>5. CASE NotifyGiveUp
  BY <1>5 DEF NotifyGiveUp
<1>6. CASE WorkingCopies
  BY <1>6 DEF WorkingCopies, WcTake, WcSend, WcEnd
<1>7. ASSUME NEW w \in Workers, Refresh(w)
      PROVE  /\ UNCHANGED <<prepVars, wcVars, fileVars, callVars>>
             /\ UNCHANGED cacheVars \/ WorkerInvalidate(w) \/ WorkerMerge(w)
             /\ UNCHANGED pendVars \/ WorkerComplete(w)
             /\ UNCHANGED <<active, cancelled>> \/ WorkerTake(w) \/ WorkerLeave(w)
             /\ UNCHANGED cacheRefreshChan \/ WorkerTake(w)
  BY <1>7 DEF Refresh, WorkerTake, WorkerCheck, WorkerInvalidate, WorkerRead,
     WorkerMerge, WorkerComplete, WorkerLeave, WorkerEnd
<1>8. CASE EvalBegin \/ EvalGoOn \/ EvalGiveUp
  BY <1>8 DEF EvalBegin, EvalGoOn, EvalGiveUp, EvalWait, EvalHit, EvalMiss, EvalReturn,
     EvalLoad
<1>9. CASE Stop
  BY <1>9 DEF Stop
<1>10. CASE \E f \in Files, saved \in BOOLEAN : NotifyCancel(f, saved)
  BY <1>3, <1>10
<1>11. CASE \E w \in Workers : Refresh(w)
  BY <1>7, <1>11
<1> QED
  BY <1>1, <1>2, <1>4, <1>5, <1>6, <1>8, <1>9, <1>10, <1>11 DEF Next

\* Every step keeps the types.
LEMMA TypeStep ==
    ASSUME TypeOK, Records, Holding, ClosedOnce, [Next]_vars
    PROVE  TypeOK' /\ Records'
<1> USE BuiltinAssumption
<1> USE DEF prepVars, cacheVars, pendVars, refreshVars, wcVars, fileVars, callVars
<1>0. 0 \in Version /\ \A v \in Version : Incidents(v) \in Version \cup {None}
  BY DEF Version, Incidents
<1>1. /\ prepared' \in BOOLEAN /\ stopped' \in BOOLEAN
      /\ preparing' \in (SUBSET Files) \cup {None}
  <2>1. CASE Prepare
    <3>1. UNCHANGED stopped
      BY <2>1 DEF Prepare, PrepareReset, PrepareFile, PrepareDone
    <3>2. CASE PrepareReset
      BY <3>1, <3>2 DEF TypeOK, PrepareReset
    <3>3. CASE PrepareDone
      BY <3>1, <3>3 DEF TypeOK, PrepareDone
    <3>4. ASSUME NEW f \in Files, PrepareFile(f) PROVE <1>1
      <4>1. preparing # None /\ preparing' = preparing \ {f} /\ UNCHANGED prepared
        BY <3>4 DEF PrepareFile
      <4>2. preparing \in SUBSET Files
        BY <4>1 DEF TypeOK
      <4> QED
        BY <3>1, <4>1, <4>2 DEF TypeOK
    <3> QED
      BY <2>1, <3>2, <3>3, <3>4 DEF Prepare
  <2>2. CASE UNCHANGED prepVars
    BY <2>2, Frames DEF TypeOK, Stop
  <2> QED
    BY Frames, <2>1, <2>2
<1>2. cache' \in [Files -> Version \cup {None}] /\ hasKey' \in BOOLEAN
  <2>1. CASE NotifyInvalidate
    BY <2>1 DEF TypeOK, NotifyInvalidate
  <2>2. ASSUME NEW f \in Files, PrepareFile(f) PROVE <1>2
    BY <2>2, <1>0 DEF TypeOK, PrepareFile
  <2>3. ASSUME NEW w \in Workers, WorkerInvalidate(w) PROVE <1>2
    BY <2>3 DEF TypeOK, WorkerInvalidate
  <2>4. ASSUME NEW w \in Workers, WorkerMerge(w) PROVE <1>2
    <3>1. worker[w].ver \in Version
      BY <2>4 DEF WorkerMerge, Holding
    <3> QED
      BY <3>1, <2>4, <1>0 DEF TypeOK, WorkerMerge
  <2> QED
    BY Frames, <2>1, <2>2, <2>3, <2>4 DEF TypeOK
<1>3. pending' \in [Files -> Version] /\ closes' \in [Files -> [Version -> 0..1]]
  <2>0. ASSUME NEW f \in Files, pending[f] # 0
        PROVE  [closes EXCEPT ![f][pending[f]] = @ + 1] \in [Files -> [Version -> 0..1]]
    <3>1. pending[f] \in Version /\ closes[f][pending[f]] = 0 /\ closes[f] \in [Version -> 0..1]
      BY <2>0 DEF TypeOK, ClosedOnce
    <3>2. [closes[f] EXCEPT ![pending[f]] = @ + 1] \in [Version -> 0..1]
      BY <3>1
    <3> QED
      BY <3>2 DEF TypeOK
  <2>1. CASE NotifySwap
    BY <2>0, <2>1 DEF TypeOK, NotifySwap, Holding, Change
  <2>2. ASSUME NEW w \in Workers, WorkerComplete(w) PROVE <1>3
    <3>1. worker[w].file \in Files
      BY <2>2 DEF WorkerComplete, Records, Holding
    <3> QED
      BY <2>0, <2>2, <3>1, <1>0 DEF TypeOK, WorkerComplete
  <2> QED
    BY Frames, <2>1, <2>2 DEF TypeOK
<1>4. active' \in [Files -> Workers \cup {None}] /\ cancelled' \subseteq Workers
  <2>1. ASSUME NEW f \in Files, NEW saved \in BOOLEAN, NotifyCancel(f, saved) PROVE <1>4
    BY <2>1 DEF TypeOK, NotifyCancel
  <2>2. ASSUME NEW w \in Workers, WorkerTake(w) PROVE <1>4
    BY <2>2 DEF TypeOK, WorkerTake
  <2>3. ASSUME NEW w \in Workers, WorkerLeave(w) PROVE <1>4
    BY <2>3 DEF TypeOK, WorkerLeave
  <2> QED
    BY Frames, <2>1, <2>2, <2>3 DEF TypeOK
<1>5. cacheRefreshChan' \in Seq(Request) /\ Len(cacheRefreshChan') <= RefreshCap
  <2>1. ASSUME NEW r \in Request, Len(cacheRefreshChan) < RefreshCap,
               cacheRefreshChan' = Append(cacheRefreshChan, r)
        PROVE  <1>5
    BY <2>1, AppendFacts DEF TypeOK
  <2>2. CASE NotifySend
    BY <2>1, <2>2 DEF NotifySend, Holding, Change, Request
  <2>3. CASE WcSend
    <3>1. [file |-> wcWorker.change.file, from |-> "wc"] \in Request
      BY <2>3 DEF WcSend, Holding, Change, Request
    <3>2. CASE UNCHANGED cacheRefreshChan
      BY <3>2 DEF TypeOK
    <3> QED
      BY <2>1, <2>3, <3>1, <3>2 DEF WcSend
  <2>4. ASSUME NEW w \in Workers, WorkerTake(w) PROVE <1>5
    BY <2>4, TailFacts DEF TypeOK, WorkerTake
  <2> QED
    BY Frames, <2>2, <2>3, <2>4 DEF TypeOK
<1>6. changesChan' \in Seq(Change) /\ Len(changesChan') <= ChangesCap
  <2>1. CASE NotifyPass
    BY <2>1, AppendFacts DEF NotifyPass, Holding, TypeOK
  <2>2. CASE WcTake
    BY <2>2, TailFacts DEF TypeOK, WcTake
  <2> QED
    BY Frames, <2>1, <2>2 DEF TypeOK
<1>7. wc' \in [Files -> Version \cup {None}] /\ givenUp' \subseteq Files
  <2>1. CASE WcTake
    <3>1. Head(changesChan) \in Change
      BY <2>1, TailFacts DEF WcTake, TypeOK
    <3>2. Head(changesChan).file \in Files /\ Head(changesChan).ver \in Version
      BY <3>1 DEF Change
    <3>3. wc' \in [Files -> Version \cup {None}]
      BY <2>1, <3>2 DEF WcTake, TypeOK
    <3>4. givenUp' \subseteq givenUp \cup {Head(changesChan).file}
      BY <2>1 DEF WcTake
    <3> QED
      BY <3>2, <3>3, <3>4 DEF TypeOK
  <2>2. CASE Stop
    BY <2>2 DEF Stop, TypeOK
  <2>3. CASE NotifyGiveUp
    BY <2>3 DEF NotifyGiveUp, TypeOK, Holding, Change
  <2> QED
    BY Frames, <2>1, <2>2, <2>3 DEF TypeOK
<1>8. /\ disk' \in [Files -> Version] /\ ver' \in [Files -> Version]
      /\ notified' \in [Files -> Version] /\ overlap' \subseteq Files
  <2>1. ASSUME NEW f \in Files, NEW saved \in BOOLEAN, NotifyCancel(f, saved)
        PROVE  <1>8
    <3>1. ver[f] + 1 \in Version
      BY <2>1 DEF NotifyCancel, Version, TypeOK
    <3> QED
      BY <2>1, <3>1 DEF NotifyCancel, TypeOK
  <2>2. CASE NotifyPass
    BY <2>2 DEF NotifyPass, TypeOK, Holding, Change
  <2> QED
    BY Frames, <2>1, <2>2 DEF TypeOK
<1>9. worker' \in [Workers -> [pc : {"off", "idle", "stored", "checked", "cleared",
                                     "read", "complete", "leave", "ended"},
                               file : Files \cup {None}, from : {"disk", "wc"},
                               ver : Version \cup {None}]]
  <2>1. CASE PrepareDone
    BY <2>1 DEF PrepareDone, IdleWorker
  <2>2. ASSUME NEW w \in Workers, WorkerTake(w) PROVE <1>9
    <3>1. Head(cacheRefreshChan) \in Request
      BY <2>2, TailFacts DEF WorkerTake, TypeOK
    <3> QED
      BY <2>2, <3>1 DEF WorkerTake, Records, Request
  <2>3. ASSUME NEW w \in Workers, WorkerRead(w) PROVE <1>9
    <3>1. worker[w].file \in Files
      BY <2>3 DEF WorkerRead, Records, Holding
    <3>2. wc[worker[w].file] \in Version \cup {None} /\ disk[worker[w].file] \in Version
      BY <3>1 DEF TypeOK
    <3> QED
      BY <2>3, <3>2 DEF WorkerRead, Records
  <2>4. ASSUME NEW w \in Workers,
               \/ WorkerCheck(w) \/ WorkerInvalidate(w) \/ WorkerMerge(w)
               \/ WorkerComplete(w) \/ WorkerLeave(w) \/ WorkerEnd(w)
        PROVE  <1>9
    BY <2>4 DEF WorkerCheck, WorkerInvalidate, WorkerMerge, WorkerComplete, WorkerLeave,
       WorkerEnd, IdleWorker, Records
  <2> QED
    BY Frames, <2>1, <2>2, <2>3, <2>4 DEF Refresh, Records
<1>10. wcWorker' \in [pc : {"idle", "send", "ended"}, change : Change \cup {None}]
  <2>1. CASE WcTake
    <3>1. Head(changesChan) \in Change
      BY <2>1, TailFacts DEF WcTake, TypeOK
    <3> QED
      BY <2>1, <3>1 DEF WcTake, Records
  <2> QED
    BY Frames, <2>1 DEF WorkingCopies, WcSend, WcEnd, Records
<1>11. notifier' \in [pc : {"idle", "swap", "invalidate", "send", "pass"},
                     change : Change \cup {None}]
  <2>1. ASSUME NEW f \in Files, NEW saved \in BOOLEAN, NotifyCancel(f, saved)
        PROVE  <1>11
    <3>1. ver[f] + 1 \in Version
      BY <2>1 DEF NotifyCancel, Version, TypeOK
    <3> QED
      BY <2>1, <3>1 DEF NotifyCancel, Change
  <2>2. CASE NotifyGoOn \/ NotifyGiveUp
    BY <2>2 DEF NotifyGoOn, NotifyGiveUp, NotifySwap, NotifyInvalidate, NotifySend,
       NotifyPass, IdleNotifier, Records
  <2> QED
    BY Frames, <2>1, <2>2 DEF Records
<1>12. eval' \in [pc : {"idle", "files", "wait", "done"}, todo : SUBSET Files,
                 file : Files \cup {None}, ch : Version, due : [Files -> Version],
                 saw : [Files -> Version \cup {None}], disturbed : BOOLEAN]
  <2>0. Walk \in [Files -> Version \cup {None}]
    BY <1>0 DEF Walk, TypeOK
  <2>1. ASSUME NEW f \in Files, NEW saved \in BOOLEAN, NotifyCancel(f, saved)
        PROVE  <1>12
    BY <2>1 DEF NotifyCancel, Records
  <2>2. CASE EvalBegin
    BY <2>2, <1>0 DEF EvalBegin, IdleEval, TypeOK
  <2>3. ASSUME NEW f \in Files, EvalLoad(f) PROVE <1>12
    <3>1. pending[f] \in Version /\ eval.todo \ {f} \in SUBSET Files
      BY DEF Records, TypeOK
    <3> QED
      BY <2>3, <3>1 DEF EvalLoad, Records
  <2>4. CASE EvalWait
    BY <2>4 DEF EvalWait, Records
  <2>6. CASE EvalHit
    BY <2>6 DEF EvalHit, Records, TypeOK
  <2>7. CASE EvalMiss
    BY <2>7, <2>0 DEF EvalMiss, Records
  <2>8. CASE EvalGiveUp
    BY <2>8, <2>0 DEF EvalGiveUp, Records
  <2>5. CASE EvalReturn
    BY <2>5, <1>0 DEF EvalReturn, IdleEval
  <2> QED
    BY Frames, <2>1, <2>2, <2>3, <2>4, <2>5, <2>6, <2>7, <2>8 DEF EvalGoOn, Records
<1>13. Records'
  BY <1>9, <1>10, <1>11, <1>12 DEF Records
<1> QED
  BY <1>1, <1>2, <1>3, <1>4, <1>5, <1>6, <1>7, <1>8, <1>9, <1>13 DEF TypeOK

\* A goroutine that works on something still has it.
LEMMA HoldingStep ==
    ASSUME TypeOK, Records, Holding, [Next]_vars
    PROVE  Holding'
<1> USE BuiltinAssumption
<1>1. \A w \in Workers :
          /\ worker'[w].file = None <=> worker'[w].pc \in {"off", "idle", "ended"}
          /\ worker'[w].pc = "read" => worker'[w].ver \in Version
  <2>1. CASE PrepareDone
    BY <2>1 DEF PrepareDone, IdleWorker
  <2>2. ASSUME NEW w \in Workers, WorkerTake(w) PROVE <1>1
    <3>1. Head(cacheRefreshChan) \in Request
      BY <2>2, TailFacts DEF WorkerTake, TypeOK
    <3> QED
      BY <2>2, <3>1 DEF WorkerTake, Records, Holding, Request
  <2>3. ASSUME NEW w \in Workers, WorkerRead(w) PROVE <1>1
    <3>1. worker[w].file \in Files
      BY <2>3 DEF WorkerRead, Records, Holding
    <3>2. wc[worker[w].file] \in Version \cup {None} /\ disk[worker[w].file] \in Version
      BY <3>1 DEF TypeOK
    <3> QED
      BY <2>3, <3>2 DEF WorkerRead, Records, Holding
  <2>4. ASSUME NEW w \in Workers,
               \/ WorkerCheck(w) \/ WorkerInvalidate(w) \/ WorkerMerge(w)
               \/ WorkerComplete(w)
        PROVE  <1>1
    BY <2>4 DEF WorkerCheck, WorkerInvalidate, WorkerMerge, WorkerComplete, Records, Holding
  <2>5. ASSUME NEW w \in Workers, WorkerLeave(w) \/ WorkerEnd(w) PROVE <1>1
    BY <2>5 DEF WorkerLeave, WorkerEnd, IdleWorker, Records, Holding
  <2> QED
    BY Frames, <2>1, <2>2, <2>3, <2>4, <2>5 DEF Refresh, Holding
<1>2. wcWorker'.pc = "send" => wcWorker'.change \in Change
  <2>1. CASE WcTake
    <3>1. Head(changesChan) \in Change
      BY <2>1, TailFacts DEF WcTake, TypeOK
    <3> QED
      BY <2>1, <3>1 DEF WcTake, Holding
  <2> QED
    BY Frames, <2>1 DEF WorkingCopies, WcSend, WcEnd, Records, Holding
<1>3. /\ notifier'.pc # "idle" => notifier'.change \in Change
      /\ notifier'.pc = "send" => notifier'.change.saved
  <2>1. ASSUME NEW f \in Files, NEW saved \in BOOLEAN, NotifyCancel(f, saved)
        PROVE  <1>3
    <3>1. ver[f] + 1 \in Version
      BY <2>1 DEF NotifyCancel, Version, TypeOK
    <3> QED
      BY <2>1, <3>1 DEF NotifyCancel, Change
  <2>2. CASE NotifyGoOn \/ NotifyGiveUp
    BY <2>2 DEF NotifyGoOn, NotifyGiveUp, NotifySwap, NotifyInvalidate, NotifySend,
       NotifyPass, IdleNotifier, Records, Holding
  <2> QED
    BY Frames, <2>1, <2>2 DEF Holding
<1>4. eval'.pc = "wait" => eval'.file \in Files \ eval'.todo /\ eval'.ch # 0
  <2>1. ASSUME NEW f \in Files, NEW saved \in BOOLEAN, NotifyCancel(f, saved)
        PROVE  <1>4
    BY <2>1 DEF NotifyCancel, Records, Holding
  <2>2. ASSUME NEW f \in Files, EvalLoad(f) PROVE <1>4
    BY <2>2 DEF EvalLoad, Records
  <2>3. CASE EvalWait \/ EvalHit \/ EvalMiss \/ EvalGiveUp
    <3>1. eval'.pc # "wait"
      BY <2>3 DEF EvalWait, EvalHit, EvalMiss, EvalGiveUp, Records
    <3> QED
      BY <3>1
  <2>4. CASE EvalBegin
    <3>1. eval'.pc = "files"
      BY <2>4 DEF EvalBegin, IdleEval
    <3> QED
      BY <3>1
  <2>5. CASE EvalReturn
    <3>1. eval'.pc = "idle"
      BY <2>5 DEF EvalReturn, IdleEval
    <3> QED
      BY <3>1
  <2> QED
    BY Frames, <2>1, <2>2, <2>3, <2>4, <2>5 DEF EvalGoOn, Holding
<1> QED
  BY <1>1, <1>2, <1>3, <1>4 DEF Holding

\* Before Prepare has completed only Prepare takes steps, and after it none.
LEMMA PrepareFirst ==
    ASSUME Records, Prepares, [Next]_vars
    PROVE  /\ ~prepared => Prepare \/ UNCHANGED vars
           /\ prepared => UNCHANGED prepVars
<1> USE BuiltinAssumption
<1>1. ASSUME ~prepared PROVE Prepare \/ UNCHANGED vars
  <2>1. /\ notifier.pc = "idle" /\ eval.pc = "idle" /\ wcWorker.pc # "send"
        /\ changesChan = <<>> /\ ~stopped /\ \A w \in Workers : worker[w].pc = "off"
    BY <1>1 DEF Prepares
  <2>2. ~NotifyGoOn /\ ~NotifyGiveUp /\ ~EvalBegin /\ ~EvalGoOn /\ ~EvalGiveUp /\ ~Stop
    BY <1>1, <2>1 DEF NotifyGoOn, NotifySwap, NotifyInvalidate, NotifySend, NotifyPass,
       NotifyGiveUp, EvalBegin, EvalGoOn, EvalWait, EvalHit, EvalMiss, EvalReturn,
       EvalLoad, EvalGiveUp, Stop
  <2>3. ~WorkingCopies /\ \A w \in Workers : ~Refresh(w)
    BY <2>1 DEF WorkingCopies, WcTake, WcSend, WcEnd, Refresh, WorkerTake, WorkerCheck,
       WorkerInvalidate, WorkerRead, WorkerMerge, WorkerComplete, WorkerLeave, WorkerEnd
  <2>4. \A f \in Files, saved \in BOOLEAN : ~NotifyCancel(f, saved)
    BY <1>1 DEF NotifyCancel
  <2> QED
    BY <2>2, <2>3, <2>4 DEF Next
<1>2. ASSUME prepared PROVE UNCHANGED prepVars
  <2>1. preparing = None
    BY <1>2 DEF Prepares
  <2>2. ~Prepare
    BY <1>2, <2>1 DEF Prepare, PrepareReset, PrepareFile, PrepareDone
  <2> QED
    BY <2>2, Frames
<1> QED
  BY <1>1, <1>2

LEMMA PreparesStep ==
    ASSUME Records, Prepares, [Next]_vars
    PROVE  Prepares'
<1>1. CASE prepared
  BY <1>1, PrepareFirst DEF Prepares, prepVars
<1>2. CASE ~prepared /\ Prepare
  <2>1. CASE PrepareDone
    BY <2>1 DEF PrepareDone, Prepares
  <2>2. CASE PrepareReset \/ \E f \in Files : PrepareFile(f)
    BY <1>2, <2>2 DEF PrepareReset, PrepareFile, Prepares, pendVars, refreshVars, wcVars,
       fileVars, callVars
  <2> QED
    BY <1>2, <2>1, <2>2 DEF Prepare
<1>3. CASE UNCHANGED vars
  BY <1>3 DEF vars, Prepares, prepVars, pendVars, refreshVars, wcVars, fileVars, callVars
<1> QED
  BY <1>1, <1>2, <1>3, PrepareFirst

-----------------------------------------------------------------------------
(***************************************************************************)
(* Changes, working copies and marks.                                      *)
(***************************************************************************)

\* The notifier works on one change until it passes it on.
LEMMA NotifierMoves ==
    ASSUME Records, [Next]_vars
    PROVE  \/ notifier' = notifier
           \/ /\ notifier.pc # "idle" /\ notifier'.pc # "idle"
              /\ notifier'.change = notifier.change /\ notifier'.pc # "swap"
           \/ NotifyPass
           \/ \E g \in Files, saved \in BOOLEAN : NotifyCancel(g, saved)
  BY Frames DEF NotifyGoOn, NotifyGiveUp, NotifySwap, NotifyInvalidate, NotifySend, Records

LEMMA ChangedStep ==
    ASSUME TypeOK, Records, Holding, Changed, [Next]_vars
    PROVE  Changed'
<1> USE BuiltinAssumption
<1> DEFINE Ends(q, f, i) == /\ q[i].file = f
                            /\ \A j \in 1..Len(q) : j > i => q[j].file # f
           QueuedLast(f) == \A i \in 1..Len(changesChan) :
                                Ends(changesChan, f, i) => LastChange(f, changesChan[i])
           QueuedOld(f) == \A i \in 1..Len(changesChan) :
                                changesChan[i].file = f => changesChan[i].ver <= ver[f]
<1>0. /\ MaxChanges \in Nat /\ Len(changesChan) \in Nat
      /\ \A f \in Files : /\ ver[f] \in Nat /\ disk[f] \in Nat /\ pending[f] \in Nat
                          /\ notified[f] \in Nat /\ (wc[f] # None => wc[f] \in Nat)
      /\ \A i \in 1..Len(changesChan) : changesChan[i] \in Change
  BY DEF TypeOK, Version
<1>1. \A f \in Files :
        /\ disk[f] <= ver[f] /\ pending[f] <= ver[f] /\ notified[f] <= ver[f]
        /\ wc[f] # None => wc[f] <= ver[f]
        /\ OnFile(f) => LastChange(f, notifier.change) /\ ver[f] > 0
        /\ ~OnFile(f) => QueuedLast(f)
        /\ QueuedOld(f)
  BY DEF Changed
<1>2. ASSUME NEW g \in Files, NEW saved \in BOOLEAN, NotifyCancel(g, saved)
      PROVE  Changed'
  <2>1. /\ notifier.pc = "idle" /\ notifier'.pc = "swap"
        /\ notifier'.change = [file |-> g, saved |-> saved, ver |-> ver[g] + 1]
        /\ ver' = [ver EXCEPT ![g] = @ + 1]
        /\ disk' = IF saved THEN [disk EXCEPT ![g] = ver[g] + 1] ELSE disk
        /\ UNCHANGED <<pending, notified, wc, changesChan>>
    BY <1>2 DEF NotifyCancel, pendVars, wcVars
  <2>2. /\ ver'[g] = ver[g] + 1 /\ disk'[g] = IF saved THEN ver[g] + 1 ELSE disk[g]
        /\ \A f \in Files \ {g} : ver'[f] = ver[f] /\ disk'[f] = disk[f]
    BY <2>1 DEF TypeOK
  <2>3. /\ OnFile(g)' /\ \A f \in Files : ~OnFile(f)
        /\ \A f \in Files \ {g} : ~OnFile(f)'
    BY <2>1 DEF OnFile
  <2>4. LastChange(g, notifier.change)' /\ (ver[g] > 0)'
    BY <1>0, <1>1, <2>1, <2>2 DEF LastChange
  <2>5. \A f \in Files \ {g} : QueuedLast(f)' /\ QueuedOld(f)'
    BY <1>1, <2>1, <2>2, <2>3 DEF LastChange
  <2>6. QueuedOld(g)'
    BY <1>0, <1>1, <2>1, <2>2 DEF Change, Version
  <2>7. \A f \in Files : /\ disk'[f] <= ver'[f] /\ pending'[f] <= ver'[f]
                         /\ notified'[f] <= ver'[f] /\ (wc'[f] # None => wc'[f] <= ver'[f])
    <3> SUFFICES ASSUME NEW f \in Files
                 PROVE  /\ disk'[f] <= ver'[f] /\ pending'[f] <= ver'[f]
                        /\ notified'[f] <= ver'[f] /\ (wc'[f] # None => wc'[f] <= ver'[f])
      OBVIOUS
    <3>1. /\ ver[f] \in Nat /\ disk[f] \in Nat /\ pending[f] \in Nat /\ notified[f] \in Nat
          /\ wc[f] # None => wc[f] \in Nat
      BY <1>0
    <3>2. /\ disk[f] <= ver[f] /\ pending[f] <= ver[f] /\ notified[f] <= ver[f]
          /\ wc[f] # None => wc[f] <= ver[f]
      BY <1>1
    <3>3. pending'[f] = pending[f] /\ notified'[f] = notified[f] /\ wc'[f] = wc[f]
      BY <2>1
    <3>4. ver'[f] \in {ver[f], ver[f] + 1} /\ disk'[f] \in {disk[f], ver'[f]}
      BY <2>2
    <3> QED
      BY <3>1, <3>2, <3>3, <3>4
  <2> QED
    BY <2>3, <2>4, <2>5, <2>6, <2>7 DEF Changed
<1>3. CASE NotifyPass
  <2> DEFINE n == Len(changesChan)
  <2>0. PICK c \in Change : c = notifier.change
    BY <1>3 DEF NotifyPass, Holding
  <2>1. /\ c.file \in Files /\ notifier'.pc = "idle" /\ OnFile(c.file)
        /\ \A f \in Files \ {c.file} : ~OnFile(f)
    BY <1>3, <2>0 DEF NotifyPass, IdleNotifier, OnFile, Change
  <2>2. /\ Len(changesChan') = n + 1 /\ changesChan'[n + 1] = c
        /\ \A i \in 1..n : changesChan'[i] = changesChan[i]
    BY <1>3, <2>0, AppendFacts DEF NotifyPass, TypeOK
  <2>3. UNCHANGED <<ver, disk, pending, wc>>
    BY <1>3 DEF NotifyPass, fileVars, pendVars
  <2>4. \A f \in Files : notified'[f] <= ver'[f]
    BY <1>0, <1>1, <1>3, <2>0, <2>1, <2>3 DEF NotifyPass, LastChange, TypeOK
  <2>5. QueuedLast(c.file)' /\ QueuedOld(c.file)'
    <3>1. c.ver = ver[c.file] /\ LastChange(c.file, c)'
      BY <1>1, <2>0, <2>1, <2>3 DEF LastChange
    <3>2. QueuedOld(c.file)'
      BY <1>0, <1>1, <2>1, <2>2, <2>3, <3>1
    <3>3. ASSUME NEW i \in 1..(n + 1), Ends(changesChan', c.file, i) PROVE i = n + 1
      BY <1>0, <2>2, <3>3
    <3>4. QueuedLast(c.file)'
      BY <2>2, <3>1, <3>3
    <3> QED
      BY <3>2, <3>4
  <2>6. \A f \in Files \ {c.file} : QueuedLast(f)' /\ QueuedOld(f)'
    <3> SUFFICES ASSUME NEW f \in Files \ {c.file} PROVE QueuedLast(f)' /\ QueuedOld(f)'
      OBVIOUS
    <3>1. QueuedLast(f) /\ QueuedOld(f)
      BY <1>1, <2>1
    <3>2. QueuedOld(f)'
      BY <1>0, <2>2, <2>3, <3>1
    <3>3. ASSUME NEW i \in 1..(n + 1), Ends(changesChan', f, i)
          PROVE  i \in 1..n /\ Ends(changesChan, f, i)
      BY <1>0, <2>2, <3>3
    <3>4. QueuedLast(f)'
      BY <2>2, <2>3, <3>1, <3>3 DEF LastChange
    <3> QED
      BY <3>2, <3>4
  <2>7. \A f \in Files : ~OnFile(f)'
    BY <2>1 DEF OnFile
  <2> QED
    BY <1>1, <2>3, <2>4, <2>5, <2>6, <2>7 DEF Changed
<1>4. CASE WcTake
  <2> DEFINE c == Head(changesChan)
             n == Len(changesChan)
  <2>1. /\ c \in Change /\ c = changesChan[1] /\ n >= 1
        /\ Len(changesChan') = n - 1
        /\ \A i \in 1..(n - 1) : changesChan'[i] = changesChan[i + 1]
    BY <1>4, TailFacts DEF WcTake, TypeOK
  <2>2. UNCHANGED <<ver, disk, pending, notified, notifier>>
    BY <1>4 DEF WcTake, fileVars, pendVars, callVars
  <2>3. \A f \in Files : wc'[f] = wc[f] \/ wc'[f] = None \/ (f = c.file /\ wc'[f] = c.ver)
    BY <1>4 DEF WcTake, TypeOK
  <2>4. \A f \in Files : wc'[f] # None => wc'[f] <= ver'[f]
    BY <1>0, <1>1, <2>1, <2>2, <2>3
  <2>5. ASSUME NEW f \in Files PROVE QueuedOld(f)' /\ (~OnFile(f)' => QueuedLast(f)')
    <3>1. QueuedOld(f)'
      BY <1>0, <1>1, <2>1, <2>2
    <3>2. ASSUME NEW i \in 1..(n - 1), Ends(changesChan', f, i)
          PROVE  i + 1 \in 1..n /\ Ends(changesChan, f, i + 1)
      <4>1. changesChan[i + 1].file = f /\ i + 1 \in 1..n
        BY <1>0, <2>1, <3>2
      <4>2. ASSUME NEW j \in 1..n, j > i + 1 PROVE changesChan[j].file # f
        <5>1. j - 1 \in 1..(n - 1) /\ j - 1 > i /\ (j - 1) + 1 = j
          BY <1>0, <4>2
        <5>2. changesChan'[j - 1] = changesChan[j]
          BY <2>1, <5>1
        <5> QED
          BY <2>1, <3>2, <5>1, <5>2
      <4> QED
        BY <4>1, <4>2
    <3>3. ASSUME ~OnFile(f)', NEW i \in 1..(n - 1), Ends(changesChan', f, i)
          PROVE  LastChange(f, changesChan[i])'
      <4>1. QueuedLast(f)
        BY <1>1, <2>2, <3>3 DEF OnFile
      <4>2. LastChange(f, changesChan[i + 1])
        BY <3>2, <3>3, <4>1
      <4> QED
        BY <2>1, <2>2, <4>2 DEF LastChange
    <3>4. ~OnFile(f)' => QueuedLast(f)'
      BY <2>1, <3>3
    <3> QED
      BY <3>1, <3>4
  <2> QED
    BY <1>1, <2>2, <2>4, <2>5 DEF Changed, OnFile, LastChange
<1>5. ASSUME ~NotifyPass, ~WcTake,
             \A g \in Files, saved \in BOOLEAN : ~NotifyCancel(g, saved)
      PROVE  Changed'
  <2>1. UNCHANGED <<ver, disk, notified, changesChan>>
    BY <1>5, Frames DEF fileVars
  <2>2. \A f \in Files : OnFile(f)' <=> OnFile(f)
    BY <1>5, NotifierMoves DEF OnFile
  <2>3. \A f \in Files : OnFile(f) => notifier'.change = notifier.change
    BY <1>5, NotifierMoves DEF OnFile
  <2>4. \A f \in Files : wc'[f] # None => wc'[f] <= ver'[f]
    BY <1>1, <1>5, <2>1, Frames DEF Stop
  <2>5. \A f \in Files : pending'[f] <= ver'[f]
    <3>1. CASE NotifySwap
      BY <1>0, <1>1, <2>1, <3>1 DEF NotifySwap, OnFile, LastChange, TypeOK, Holding, Change
    <3>2. ASSUME NEW w \in Workers, WorkerComplete(w) PROVE <2>5
      BY <1>0, <1>1, <2>1, <3>2 DEF WorkerComplete, TypeOK
    <3> QED
      BY <1>1, <2>1, <3>1, <3>2, Frames DEF pendVars
  <2>6. \A f \in Files : OnFile(f)' => LastChange(f, notifier.change)' /\ (ver[f] > 0)'
    BY <1>1, <2>1, <2>2, <2>3 DEF LastChange
  <2>7. \A f \in Files : ~OnFile(f)' => QueuedLast(f)'
    BY <1>1, <2>1, <2>2 DEF LastChange
  <2>8. \A f \in Files : QueuedOld(f)'
    BY <1>1, <2>1
  <2> QED
    BY <1>1, <2>1, <2>4, <2>5, <2>6, <2>7, <2>8 DEF Changed
<1> QED
  BY <1>2, <1>3, <1>4, <1>5

\* What the senders and receivers do to the work queued for a file.
LEMMA ChangesMove ==
    ASSUME TypeOK, Holding, NEW f \in Files
    PROVE  /\ NotifyPass =>
                 /\ Queued(f)' <=> Queued(f) \/ notifier.change.file = f
                 /\ QueuedUnsaved(f)' <=>
                       \/ QueuedUnsaved(f)
                       \/ notifier.change.file = f /\ ~notifier.change.saved
           /\ WcTake =>
                 /\ Queued(f) <=> Queued(f)' \/ Head(changesChan).file = f
                 /\ QueuedUnsaved(f) <=>
                       \/ QueuedUnsaved(f)'
                       \/ Head(changesChan).file = f /\ ~Head(changesChan).saved
<1> DEFINE n == Len(changesChan)
<1>1. ASSUME NotifyPass
      PROVE  /\ Len(changesChan') = n + 1 /\ n \in Nat
             /\ changesChan'[n + 1] = notifier.change
             /\ \A i \in 1..n : changesChan'[i] = changesChan[i]
  BY <1>1, AppendFacts DEF NotifyPass, TypeOK, Holding
<1>2. ASSUME WcTake
      PROVE  /\ Head(changesChan) = changesChan[1] /\ n \in Nat /\ n >= 1
             /\ Len(changesChan') = n - 1
             /\ \A i \in 1..(n - 1) : changesChan'[i] = changesChan[i + 1]
  BY <1>2, TailFacts DEF WcTake, TypeOK
<1>3. ASSUME WcTake
      PROVE  \A j \in 1..n : j = 1 \/ (j - 1 \in 1..(n - 1) /\ changesChan'[j - 1] = changesChan[j])
  <2> SUFFICES ASSUME NEW j \in 1..n, j # 1
               PROVE  j - 1 \in 1..(n - 1) /\ changesChan'[j - 1] = changesChan[j]
    OBVIOUS
  <2>1. j - 1 \in 1..(n - 1) /\ (j - 1) + 1 = j
    BY <1>2, <1>3
  <2> QED
    BY <1>2, <1>3, <2>1
<1>4. ASSUME NotifyPass
      PROVE  Queued(f)' <=> Queued(f) \/ notifier.change.file = f
  BY <1>1, <1>4 DEF Queued
<1>5. ASSUME NotifyPass
      PROVE  QueuedUnsaved(f)' <=>
                \/ QueuedUnsaved(f)
                \/ notifier.change.file = f /\ ~notifier.change.saved
  BY <1>1, <1>5 DEF QueuedUnsaved
<1>6. ASSUME WcTake
      PROVE  Queued(f) <=> Queued(f)' \/ Head(changesChan).file = f
  <2>1. Queued(f)' => Queued(f)
    BY <1>2, <1>6 DEF Queued
  <2>2. Head(changesChan).file = f => Queued(f)
    BY <1>2, <1>6 DEF Queued
  <2>3. Queued(f) => Queued(f)' \/ Head(changesChan).file = f
    BY <1>2, <1>3, <1>6 DEF Queued
  <2> QED
    BY <2>1, <2>2, <2>3
<1>7. ASSUME WcTake
      PROVE  QueuedUnsaved(f) <=>
                \/ QueuedUnsaved(f)'
                \/ Head(changesChan).file = f /\ ~Head(changesChan).saved
  <2>1. QueuedUnsaved(f)' => QueuedUnsaved(f)
    BY <1>2, <1>7 DEF QueuedUnsaved
  <2>2. Head(changesChan).file = f /\ ~Head(changesChan).saved => QueuedUnsaved(f)
    BY <1>2, <1>7 DEF QueuedUnsaved
  <2>3. QueuedUnsaved(f) =>
          QueuedUnsaved(f)' \/ (Head(changesChan).file = f /\ ~Head(changesChan).saved)
    BY <1>2, <1>3, <1>7 DEF QueuedUnsaved
  <2> QED
    BY <2>1, <2>2, <2>3
<1> QED
  BY <1>4, <1>5, <1>6, <1>7

LEMMA RequestsMove ==
    ASSUME TypeOK, Holding, NEW f \in Files
    PROVE  /\ NotifySend => (Requested(f)' <=> Requested(f) \/ notifier.change.file = f)
           /\ WcSend /\ ~stopped =>
                 (Requested(f)' <=> Requested(f) \/ wcWorker.change.file = f)
           /\ \A w \in Workers : WorkerTake(w) =>
                 (Requested(f) <=> Requested(f)' \/ Head(cacheRefreshChan).file = f)
<1> DEFINE n == Len(cacheRefreshChan)
<1>1. ASSUME NEW r \in Request, cacheRefreshChan' = Append(cacheRefreshChan, r)
      PROVE  Requested(f)' <=> Requested(f) \/ r.file = f
  <2>1. /\ Len(cacheRefreshChan') = n + 1 /\ n \in Nat /\ cacheRefreshChan'[n + 1] = r
        /\ \A i \in 1..n : cacheRefreshChan'[i] = cacheRefreshChan[i]
    BY <1>1, AppendFacts DEF TypeOK
  <2> QED
    BY <2>1 DEF Requested
<1>2. ASSUME NotifySend PROVE Requested(f)' <=> Requested(f) \/ notifier.change.file = f
  BY <1>1, <1>2 DEF NotifySend, Holding, Change, Request
<1>3. ASSUME WcSend, ~stopped
      PROVE  Requested(f)' <=> Requested(f) \/ wcWorker.change.file = f
  BY <1>1, <1>3 DEF WcSend, Holding, Change, Request
<1>4. ASSUME NEW w \in Workers, WorkerTake(w)
      PROVE  Requested(f) <=> Requested(f)' \/ Head(cacheRefreshChan).file = f
  <2>1. /\ Head(cacheRefreshChan) = cacheRefreshChan[1] /\ n \in Nat /\ n >= 1
        /\ Len(cacheRefreshChan') = n - 1
        /\ \A i \in 1..(n - 1) : cacheRefreshChan'[i] = cacheRefreshChan[i + 1]
    BY <1>4, TailFacts DEF WorkerTake, TypeOK
  <2>2. Requested(f)' => Requested(f)
    BY <2>1 DEF Requested
  <2>3. Head(cacheRefreshChan).file = f => Requested(f)
    BY <2>1 DEF Requested
  <2>4. ASSUME NEW j \in 1..n, cacheRefreshChan[j].file = f
        PROVE  Requested(f)' \/ Head(cacheRefreshChan).file = f
    <3>1. CASE j = 1
      BY <2>1, <2>4, <3>1
    <3>2. CASE j # 1
      <4>1. j - 1 \in 1..(n - 1) /\ (j - 1) + 1 = j
        BY <2>1, <3>2
      <4>2. cacheRefreshChan'[j - 1].file = f
        BY <2>1, <2>4, <4>1
      <4> QED
        BY <2>1, <4>1, <4>2 DEF Requested
    <3> QED
      BY <3>1, <3>2
  <2> QED
    BY <2>2, <2>3, <2>4 DEF Requested
<1> QED
  BY <1>2, <1>3, <1>4

LEMMA CopiesStep ==
    ASSUME TypeOK, Records, Holding, Changed, CopiesCurrent, [Next]_vars
    PROVE  CopiesCurrent'
<1> DEFINE Current(f) == wc[f] = IF disk[f] = ver[f] THEN None ELSE ver[f]
<1> SUFFICES ASSUME NEW f \in Files, ~stopped', f \notin givenUp', ~OnFile(f)', ~Queued(f)'
             PROVE  Current(f)'
  BY DEF CopiesCurrent
<1>0. ~stopped /\ f \notin givenUp /\ ~Stop
  <2>0. ~Stop
    BY DEF Stop
  <2>1. stopped' = stopped
    BY <2>0, Frames
  <2>2. givenUp \subseteq givenUp'
    BY Frames DEF WcTake, NotifyGiveUp
  <2> QED
    BY <2>0, <2>1, <2>2
<1>1. ~OnFile(f) /\ ~Queued(f) => Current(f)
  BY <1>0 DEF CopiesCurrent
<1>2. ASSUME NEW g \in Files, NEW saved \in BOOLEAN, NotifyCancel(g, saved)
      PROVE  Current(f)'
  <2>1. g # f /\ ~OnFile(f)
    BY <1>2 DEF NotifyCancel, OnFile
  <2>2. wc' = wc /\ changesChan' = changesChan /\ ver'[f] = ver[f] /\ disk'[f] = disk[f]
    BY <1>2, <2>1 DEF NotifyCancel, TypeOK, wcVars
  <2> QED
    BY <1>1, <2>1, <2>2 DEF Queued
<1>3. CASE NotifyPass
  <2>1. ~Queued(f) /\ ~OnFile(f)
    BY <1>3, ChangesMove DEF OnFile
  <2> QED
    BY <1>1, <1>3, <2>1 DEF NotifyPass, fileVars
<1>4. CASE WcTake
  <2> DEFINE c == Head(changesChan)
  <2>1. UNCHANGED <<ver, disk>> /\ ~OnFile(f)
    BY <1>4 DEF WcTake, fileVars, callVars, OnFile
  <2>2. CASE c.file # f
    BY <1>1, <1>4, <2>1, <2>2, ChangesMove DEF WcTake, TypeOK
  <2>3. CASE c.file = f
    <3>1. /\ c = changesChan[1] /\ Len(changesChan) \in Nat /\ Len(changesChan) >= 1
          /\ Len(changesChan') = Len(changesChan) - 1
          /\ \A i \in 1..(Len(changesChan) - 1) : changesChan'[i] = changesChan[i + 1]
      BY <1>4, TailFacts DEF WcTake, TypeOK
    <3>2. ASSUME NEW j \in 1..Len(changesChan), j > 1 PROVE changesChan[j].file # f
      <4>1. j - 1 \in 1..(Len(changesChan) - 1) /\ (j - 1) + 1 = j
        BY <3>1, <3>2
      <4>2. changesChan'[j - 1] = changesChan[j]
        BY <3>1, <4>1
      <4> QED
        BY <3>1, <4>1, <4>2 DEF Queued
    <3>3. LastChange(f, c)
      BY <2>1, <2>3, <3>1, <3>2 DEF Changed
    <3>4. wc'[f] = IF c.saved THEN None ELSE c.ver
      BY <1>4, <2>3 DEF WcTake, TypeOK
    <3> QED
      BY <2>1, <3>3, <3>4 DEF LastChange
  <2> QED
    BY <2>2, <2>3
<1>5. ASSUME ~NotifyPass, ~WcTake,
             \A g \in Files, saved \in BOOLEAN : ~NotifyCancel(g, saved)
      PROVE  Current(f)'
  <2>1. UNCHANGED <<ver, disk, wc, changesChan>>
    BY <1>0, <1>5, Frames DEF fileVars
  <2>2. ~OnFile(f)
    BY <1>5, NotifierMoves DEF OnFile
  <2> QED
    BY <1>1, <2>1, <2>2 DEF Queued
<1> QED
  BY <1>2, <1>3, <1>4, <1>5

LEMMA ClosedStep ==
    ASSUME TypeOK, Records, Holding, Changed, ClosedOnce, [Next]_vars
    PROVE  ClosedOnce'
<1> USE BuiltinAssumption
<1> SUFFICES ASSUME NEW f \in Files
             PROVE  /\ \A v \in Version : closes'[f][v] \in {0, 1}
                    /\ pending'[f] # 0 => closes'[f][pending'[f]] = 0
                    /\ \A v \in Version : v > ver'[f] => closes'[f][v] = 0
                    /\ OnFile(f)' /\ notifier'.pc = "swap" =>
                          closes'[f][ver'[f]] = 0 /\ pending'[f] < ver'[f]
  BY DEF ClosedOnce
<1> DEFINE Once == /\ \A v \in Version : closes[f][v] \in {0, 1}
                   /\ pending[f] # 0 => closes[f][pending[f]] = 0
                   /\ \A v \in Version : v > ver[f] => closes[f][v] = 0
                   /\ OnFile(f) /\ notifier.pc = "swap" =>
                          closes[f][ver[f]] = 0 /\ pending[f] < ver[f]
<1>0. Once
  BY DEF ClosedOnce
<1>1. /\ pending[f] \in Version /\ ver[f] \in Version /\ \A v \in Version : v \in Nat
      /\ pending[f] \in Nat /\ ver[f] \in Nat
      /\ 0 \in Version /\ pending[f] <= ver[f] /\ closes[f] \in [Version -> 0..1]
  BY DEF TypeOK, Version, Changed
<1>2. ASSUME NEW g \in Files, NEW saved \in BOOLEAN, NotifyCancel(g, saved) PROVE Once'
  <2>1. /\ closes'[f] = closes[f] /\ pending'[f] = pending[f]
        /\ g # f => ver'[f] = ver[f] /\ ~OnFile(f)'
        /\ g = f => ver'[f] = ver[f] + 1 /\ ver[f] + 1 \in Version
    BY <1>1, <1>2 DEF NotifyCancel, OnFile, TypeOK, pendVars, Version
  <2>2. CASE g = f
    <3>1. \A v \in Version : v > ver'[f] => closes'[f][v] = 0
      BY <1>0, <1>1, <2>1, <2>2
    <3>2. closes'[f][ver'[f]] = 0 /\ pending'[f] < ver'[f]
      BY <1>0, <1>1, <2>1, <2>2
    <3> QED
      BY <1>0, <2>1, <3>1, <3>2
  <2>3. CASE g # f
    BY <1>0, <1>1, <2>1, <2>3
  <2> QED
    BY <2>2, <2>3
<1>3. ASSUME pending[f] # 0, closes'[f] = [closes[f] EXCEPT ![pending[f]] = @ + 1],
             ver'[f] = ver[f]
      PROVE  /\ \A v \in Version \ {pending[f]} : closes'[f][v] = closes[f][v]
             /\ \A v \in Version : closes'[f][v] \in {0, 1}
             /\ \A v \in Version : v > ver'[f] => closes'[f][v] = 0
  <2>1. \A v \in Version \ {pending[f]} : closes'[f][v] = closes[f][v]
    BY <1>1, <1>3
  <2>2. closes'[f][pending[f]] = 1
    BY <1>0, <1>1, <1>3
  <2>3. \A v \in Version : v > ver'[f] => v # pending[f]
    BY <1>1, <1>3
  <2> QED
    BY <1>0, <1>3, <2>1, <2>2, <2>3
<1>4. CASE NotifySwap
  <2> DEFINE c == notifier.change
  <2>1. c \in Change /\ c.file \in Files /\ notifier'.pc = "invalidate" /\ ver' = ver
    BY <1>4 DEF NotifySwap, Holding, Change, Records, fileVars
  <2>2. CASE c.file # f
    <3>1. closes'[f] = closes[f] /\ pending'[f] = pending[f]
      BY <1>4, <2>1, <2>2 DEF NotifySwap, TypeOK
    <3> QED
      BY <1>0, <1>1, <2>1, <3>1
  <2>3. CASE c.file = f
    <3>1. OnFile(f) /\ notifier.pc = "swap" /\ c.ver = ver[f] /\ ver[f] > 0
      BY <1>4, <2>3 DEF NotifySwap, OnFile, Changed, LastChange
    <3>2. closes[f][ver[f]] = 0 /\ pending[f] < ver[f]
      BY <1>0, <3>1
    <3>3. pending'[f] = ver[f]
      BY <1>4, <2>3, <3>1 DEF NotifySwap, TypeOK
    <3>4. CASE pending[f] = 0
      <4>1. closes' = closes
        BY <1>4, <2>3, <3>4 DEF NotifySwap
      <4> QED
        BY <1>0, <1>1, <2>1, <3>2, <3>3, <4>1
    <3>5. CASE pending[f] # 0
      <4>1. closes'[f] = [closes[f] EXCEPT ![pending[f]] = @ + 1]
        BY <1>4, <2>3, <3>5 DEF NotifySwap, TypeOK
      <4>2. pending[f] # ver[f]
        BY <1>1, <3>2
      <4>3. closes'[f][pending'[f]] = 0
        BY <1>1, <1>3, <2>1, <3>2, <3>3, <3>5, <4>1, <4>2
      <4> QED
        BY <1>3, <2>1, <3>5, <4>1, <4>3
    <3> QED
      BY <3>4, <3>5
  <2> QED
    BY <2>2, <2>3
<1>5. ASSUME NEW w \in Workers, WorkerComplete(w) PROVE Once'
  <2>1. worker[w].file \in Files /\ UNCHANGED <<ver, notifier>>
    BY <1>5, BuiltinAssumption DEF WorkerComplete, Holding, Records, fileVars, callVars
  <2>2. CASE worker[w].file # f
    <3>1. closes'[f] = closes[f] /\ pending'[f] = pending[f]
      BY <1>5, <2>1, <2>2 DEF WorkerComplete, TypeOK
    <3> QED
      BY <1>0, <1>1, <2>1, <3>1 DEF OnFile
  <2>3. CASE worker[w].file = f
    <3>1. pending'[f] = 0
      BY <1>5, <2>3 DEF WorkerComplete, TypeOK
    <3>2. CASE pending[f] = 0
      <4>1. closes' = closes
        BY <1>5, <2>3, <3>2 DEF WorkerComplete
      <4> QED
        BY <1>0, <1>1, <2>1, <3>1, <3>2, <4>1 DEF OnFile
    <3>3. CASE pending[f] # 0
      <4>1. closes'[f] = [closes[f] EXCEPT ![pending[f]] = @ + 1]
        BY <1>5, <2>3, <3>3 DEF WorkerComplete, TypeOK
      <4>2. ASSUME OnFile(f)', notifier'.pc = "swap"
            PROVE  closes'[f][ver'[f]] = 0 /\ pending'[f] < ver'[f]
        <5>1. closes[f][ver[f]] = 0 /\ pending[f] < ver[f]
          BY <1>0, <2>1, <4>2 DEF OnFile
        <5>2. pending[f] # ver[f] /\ 0 < ver[f]
          BY <1>1, <5>1
        <5> QED
          BY <1>1, <1>3, <2>1, <3>1, <3>3, <4>1, <5>1, <5>2
      <4> QED
        BY <1>3, <2>1, <3>1, <3>3, <4>1, <4>2
    <3> QED
      BY <3>2, <3>3
  <2> QED
    BY <2>2, <2>3
<1>6. ASSUME ~NotifySwap, \A w \in Workers : ~WorkerComplete(w),
             \A g \in Files, saved \in BOOLEAN : ~NotifyCancel(g, saved)
      PROVE  Once'
  <2>1. UNCHANGED <<closes, pending, ver>>
    BY <1>6, Frames DEF pendVars, fileVars
  <2>2. OnFile(f)' /\ notifier'.pc = "swap" => OnFile(f) /\ notifier.pc = "swap"
    BY <1>6, NotifierMoves DEF OnFile, NotifyPass, IdleNotifier
  <2> QED
    BY <1>0, <2>1, <2>2
<1> QED
  BY <1>2, <1>4, <1>5, <1>6

\* What a step does to one refresh worker.
LEMMA WorkersMove ==
    ASSUME Records, [Next]_vars, NEW w \in Workers
    PROVE  \/ worker'[w] = worker[w]
           \/ PrepareDone /\ worker'[w].file = None /\ worker'[w].pc = "idle"
           \/ /\ WorkerTake(w) /\ worker'[w].file = Head(cacheRefreshChan).file
              /\ worker'[w].from = Head(cacheRefreshChan).from /\ worker'[w].pc = "stored"
           \/ /\ worker'[w].file = worker[w].file /\ worker'[w].from = worker[w].from
              /\ \/ WorkerCheck(w) /\ worker'[w].pc \in {"complete", "checked"}
                 \/ WorkerInvalidate(w) /\ worker'[w].pc = "cleared"
                 \/ WorkerRead(w) /\ worker'[w].pc \in {"complete", "read"}
                 \/ WorkerMerge(w) /\ worker'[w].pc = "complete"
                 \/ WorkerComplete(w) /\ worker'[w].pc = "leave"
                 \/ WorkerEnd(w) /\ worker'[w].pc = "ended"
           \/ WorkerLeave(w) /\ worker'[w].file = None /\ worker'[w].pc = "idle"
<1> DEFINE Moves ==
           \/ worker'[w] = worker[w]
           \/ PrepareDone /\ worker'[w].file = None /\ worker'[w].pc = "idle"
           \/ /\ WorkerTake(w) /\ worker'[w].file = Head(cacheRefreshChan).file
              /\ worker'[w].from = Head(cacheRefreshChan).from /\ worker'[w].pc = "stored"
           \/ /\ worker'[w].file = worker[w].file /\ worker'[w].from = worker[w].from
              /\ \/ WorkerCheck(w) /\ worker'[w].pc \in {"complete", "checked"}
                 \/ WorkerInvalidate(w) /\ worker'[w].pc = "cleared"
                 \/ WorkerRead(w) /\ worker'[w].pc \in {"complete", "read"}
                 \/ WorkerMerge(w) /\ worker'[w].pc = "complete"
                 \/ WorkerComplete(w) /\ worker'[w].pc = "leave"
                 \/ WorkerEnd(w) /\ worker'[w].pc = "ended"
           \/ WorkerLeave(w) /\ worker'[w].file = None /\ worker'[w].pc = "idle"
<1>1. CASE PrepareDone
  BY <1>1 DEF PrepareDone, IdleWorker
<1>2. ASSUME NEW u \in Workers \ {w}, Refresh(u) PROVE Moves
  <2>1. worker'[w] = worker[w]
    BY <1>2 DEF Refresh, WorkerTake, WorkerCheck, WorkerInvalidate, WorkerRead,
       WorkerMerge, WorkerComplete, WorkerLeave, WorkerEnd, Records
  <2> QED
    BY <2>1
<1>3. CASE WorkerTake(w)
  BY <1>3 DEF WorkerTake, Records
<1>4. CASE WorkerCheck(w)
  BY <1>4 DEF WorkerCheck, Records
<1>5. CASE WorkerInvalidate(w)
  BY <1>5 DEF WorkerInvalidate, Records
<1>6. CASE WorkerRead(w)
  BY <1>6 DEF WorkerRead, Records
<1>7. CASE WorkerMerge(w)
  BY <1>7 DEF WorkerMerge, Records
<1>8. CASE WorkerComplete(w)
  BY <1>8 DEF WorkerComplete, Records
<1>9. CASE WorkerEnd(w)
  BY <1>9 DEF WorkerEnd, Records
<1>10. CASE WorkerLeave(w)
  BY <1>10 DEF WorkerLeave, IdleWorker, Records
<1>11. CASE Refresh(w)
  BY <1>3, <1>4, <1>5, <1>6, <1>7, <1>8, <1>9, <1>10, <1>11 DEF Refresh
<1> QED
  BY <1>1, <1>2, <1>11, Frames

\* Whoever will complete a mark completes it, hands it on or gives it up.
LEMMA MarksStep ==
    ASSUME TypeOK, Records, Holding, Prepares, MarksCompleted, [Next]_vars
    PROVE  MarksCompleted'
<1> SUFFICES ASSUME NEW f \in Files, ~stopped', pending'[f] # 0, f \notin givenUp'
             PROVE  Completer(f)'
  BY DEF MarksCompleted
<1>0. ~stopped /\ f \notin givenUp
  <2>1. stopped' = stopped
    <3>1. ~Stop
      BY DEF Stop
    <3> QED
      BY <3>1, Frames
  <2>2. givenUp \subseteq givenUp'
    BY Frames DEF WcTake, NotifyGiveUp
  <2> QED
    BY <2>1, <2>2
<1>1. CASE NotifySwap /\ notifier.change.file = f
  <2>1. Notifying(f)'
    BY <1>1 DEF NotifySwap, Notifying, OnFile, Records
  <2> QED
    BY <2>1 DEF Completer
<1>2. ASSUME ~(NotifySwap /\ notifier.change.file = f) PROVE pending[f] # 0
  <2>1. CASE NotifySwap
    BY <1>2, <2>1 DEF NotifySwap, TypeOK
  <2>2. ASSUME NEW w \in Workers, WorkerComplete(w) PROVE pending[f] # 0
    BY <2>2 DEF WorkerComplete, TypeOK
  <2> QED
    BY <2>1, <2>2, Frames DEF pendVars
<1>3. CASE Notifying(f)
  <2>1. CASE notifier' = notifier
    BY <1>3, <2>1 DEF Completer, Notifying, OnFile
  <2>2. CASE NotifyInvalidate
    BY <1>3, <2>2 DEF NotifyInvalidate, Completer, Notifying, OnFile, Records
  <2>3. CASE NotifySend
    BY <1>3, <2>3, RequestsMove DEF Completer, Notifying, OnFile
  <2>4. CASE NotifyPass
    BY <1>3, <2>4, ChangesMove DEF NotifyPass, Completer, Notifying, OnFile
  <2>5. CASE NotifyGiveUp
    BY <1>3, <2>5 DEF NotifyGiveUp, Notifying, OnFile
  <2>6. CASE NotifySwap
    BY <1>3, <2>6 DEF NotifySwap, Notifying
  <2>7. ASSUME NEW g \in Files, NEW saved \in BOOLEAN, NotifyCancel(g, saved) PROVE FALSE
    BY <1>3, <2>7 DEF NotifyCancel, Notifying
  <2> QED
    BY <2>1, <2>2, <2>3, <2>4, <2>5, <2>6, <2>7, Frames DEF NotifyGoOn
<1>4. CASE QueuedUnsaved(f)
  <2>1. CASE changesChan' = changesChan
    BY <1>4, <2>1 DEF Completer, QueuedUnsaved
  <2>2. CASE NotifyPass
    BY <1>4, <2>2, ChangesMove DEF Completer
  <2>3. CASE WcTake
    <3>1. CASE QueuedUnsaved(f)'
      BY <3>1 DEF Completer
    <3>2. CASE Head(changesChan).file = f /\ ~Head(changesChan).saved
      BY <2>3, <3>2 DEF WcTake, Completer, Writing
    <3> QED
      BY <1>4, <2>3, <3>1, <3>2, ChangesMove
  <2> QED
    BY <2>1, <2>2, <2>3, Frames
<1>5. CASE Writing(f)
  <2>1. CASE wcWorker' = wcWorker
    BY <1>5, <2>1 DEF Completer, Writing
  <2>2. CASE WcSend
    BY <1>0, <1>5, <2>2, RequestsMove DEF Completer, Writing
  <2>3. ~WcTake /\ ~WcEnd
    BY <1>5 DEF WcTake, WcEnd, Writing
  <2> QED
    BY <2>1, <2>2, <2>3, Frames DEF WorkingCopies
<1>6. CASE Requested(f)
  <2>1. CASE cacheRefreshChan' = cacheRefreshChan
    BY <1>6, <2>1 DEF Completer, Requested
  <2>2. CASE NotifySend \/ WcSend
    BY <1>0, <1>6, <2>2, RequestsMove DEF Completer
  <2>3. ASSUME NEW w \in Workers, WorkerTake(w) PROVE Completer(f)'
    <3>1. CASE Requested(f)'
      BY <3>1 DEF Completer
    <3>2. CASE Head(cacheRefreshChan).file = f
      <4>1. worker'[w].file = f /\ worker'[w].pc = "stored"
        BY <2>3, <3>2 DEF WorkerTake, Records
      <4> QED
        BY <4>1 DEF Completer, Refreshing
    <3> QED
      BY <1>6, <2>3, <3>1, <3>2, RequestsMove
  <2> QED
    BY <2>1, <2>2, <2>3, Frames
<1>7. ASSUME NEW w \in Workers, worker[w].file = f, worker[w].pc # "leave", pending[f] # 0
      PROVE  Completer(f)'
  <2>1. worker[w].pc \notin {"off", "idle", "ended"}
    BY <1>7, BuiltinAssumption DEF Holding
  <2>2. ~PrepareDone
    BY <2>1, <1>7, BuiltinAssumption DEF PrepareDone, Prepares
  <2>3. ~WorkerTake(w) /\ ~WorkerEnd(w) /\ ~WorkerLeave(w)
    BY <1>7, <2>1 DEF WorkerTake, WorkerEnd, WorkerLeave
  <2>4. ~WorkerComplete(w)
    BY <1>7 DEF WorkerComplete, TypeOK
  <2>5. worker'[w].file = f /\ worker'[w].pc # "leave"
    BY <1>7, <2>2, <2>3, <2>4, WorkersMove
  <2> QED
    BY <2>5 DEF Completer, Refreshing
<1> QED
  BY <1>0, <1>1, <1>2, <1>3, <1>4, <1>5, <1>6, <1>7 DEF MarksCompleted, Completer, Refreshing

-----------------------------------------------------------------------------
(***************************************************************************)
(* The first theorems.                                                     *)
(***************************************************************************)

LEMMA QueueStep == QueueInv /\ [Next]_vars => QueueInv'
  BY TypeStep, HoldingStep, PreparesStep, ChangedStep, CopiesStep, ClosedStep, MarksStep
     DEF QueueInv

LEMMA QueueInvariant == Spec => []QueueInv
  BY QueueInit, QueueStep, PTL DEF Spec

\* The state of the cache, its queues and its workers stays well formed.
THEOREM TypeCorrect == Spec => []TypeOK
<1>1. QueueInv => TypeOK
  BY DEF QueueInv
<1> QED
  BY QueueInvariant, <1>1, PTL

\* No channel of a mark is closed twice (service_client.go:613 and
\* incident_cache.go:244 would panic), and before Stop every mark has a
\* goroutine or a queue that will complete it, or its refresh was given up.
THEOREM MarksKept == Spec => []PendingCompletedOnce
<1>1. QueueInv => PendingCompletedOnce
  <2> SUFFICES ASSUME QueueInv PROVE PendingCompletedOnce
    OBVIOUS
  <2>1. \A f \in Files, v \in Version : closes[f][v] <= 1
    BY DEF QueueInv, ClosedOnce
  <2>2. \A f \in Files : Completer(f) => InFlight(f)
    BY DEF Completer, Notifying, OnFile, QueuedUnsaved, Writing, Requested, Refreshing,
       InFlight
  <2> QED
    BY <2>1, <2>2 DEF QueueInv, MarksCompleted, PendingCompletedOnce
<1> QED
  BY QueueInvariant, <1>1, PTL

\* Once the changes of a file are worked off, its working copy is the one of
\* its last change, and there is none if that change was saved.
THEOREM CopiesKept == Spec => []WorkingCopiesCurrent
<1>1. QueueInv => WorkingCopiesCurrent
  BY DEF QueueInv, CopiesCurrent, WorkingCopiesCurrent, OnFile, Queued
<1> QED
  BY QueueInvariant, <1>1, PTL

-----------------------------------------------------------------------------
(***************************************************************************)
(* What an answer from the cache shows.                                    *)
(***************************************************************************)

\* The changes of f came one at a time and none was given up.
Apart(f) == ~stopped /\ f \notin overlap \cup givenUp

\* A worker has f.
Held(f) == \E w \in Workers : worker[w].file = f

\* Nobody works on f but the notifier and the queue of changes.
Untouched(f) == ~Writing(f) /\ ~Requested(f) /\ ~Held(f)

QueuedOnce(f) == \A i, j \in 1..Len(changesChan) :
    changesChan[i].file = f /\ changesChan[j].file = f => i = j
RequestedOnce(f) == \A i, j \in 1..Len(cacheRefreshChan) :
    cacheRefreshChan[i].file = f /\ cacheRefreshChan[j].file = f => i = j
HeldOnce(f) == \A u, w \in Workers : worker[u].file = f /\ worker[w].file = f => u = w

\* The work on the one change of f is in one place.
Single(f) ==
    /\ OnFile(f) => ~Queued(f)
    /\ OnFile(f) /\ notifier.pc = "swap" => Untouched(f) /\ pending[f] = 0
    /\ Notifying(f) => Untouched(f)
    /\ QueuedUnsaved(f) => Untouched(f)
    /\ Writing(f) => ~Requested(f) /\ ~Held(f) /\ ~OnFile(f) /\ ~Queued(f)
    /\ Requested(f) => ~Held(f)
    /\ QueuedOnce(f) /\ RequestedOnce(f) /\ HeldOnce(f)

OneAtATime == \A f \in Files : Apart(f) => Single(f)

\* The refresh of f will find its last change where it looks for it.
Source(f, from) ==
    IF from = "disk" THEN disk[f] = ver[f]
    ELSE wc[f] = ver[f] /\ ~OnFile(f) /\ ~Queued(f)

Sourced(f) ==
    /\ Writing(f) => wc[f] = ver[f]
    /\ \A i \in 1..Len(cacheRefreshChan) :
          cacheRefreshChan[i].file = f => Source(f, cacheRefreshChan[i].from)
    /\ \A w \in Workers : worker[w].file = f => Source(f, worker[w].from)

Sources == \A f \in Files : Apart(f) => Sourced(f)

\* A stored cancel function belongs to a refresh of that file, and only a
\* refresh that was overtaken is cancelled.
Cancels ==
    /\ \A f \in Files : active[f] # None => worker[active[f]].file = f
    /\ \A w \in cancelled : worker[w].file \in overlap

\* How far the refresh of f has got.
Progress(f, w) ==
    /\ worker[w].pc = "leave" => pending[f] = 0
    /\ worker[w].pc \in {"cleared", "read"} => cache[f] = None
    /\ worker[w].pc = "read" => worker[w].ver = ver[f]
    /\ worker[w].pc = "complete" =>
          cache[f] = Incidents(ver[f]) /\ (hasKey \/ Incidents(ver[f]) = None)

Refreshed ==
    \A f \in Files : Apart(f) =>
        /\ Completer(f) => pending[f] # 0
        /\ \A w \in Workers : worker[w].file = f => Progress(f, w)

\* The last change of f is worked off.
Done(f) == pending[f] = 0 /\ ~(OnFile(f) /\ notifier.pc = "swap")

\* The cache then has what is found in it; and a key that was never stored
\* means that nothing was ever found.
Cached(f) ==
    /\ Done(f) => cache[f] = Incidents(ver[f])
    /\ ~hasKey => \A v \in Version :
          v < ver[f] \/ (v = ver[f] /\ Done(f)) => Incidents(v) = None

CacheCurrent ==
    \A f \in Files :
        Apart(f) /\ (prepared \/ (preparing # None /\ f \notin preparing)) => Cached(f)

\* What Evaluate knows while no change is notified.
EvalKnows ==
    eval.pc # "idle" =>
        /\ ~stopped
        /\ \A f \in Files : eval.due[f] <= ver[f]
        /\ ~eval.disturbed =>
              /\ notifier.pc = "idle"
              /\ eval.pc = "files" => \A f \in Files \ eval.todo : pending[f] = 0
              /\ eval.pc = "wait" =>
                    /\ \A f \in Files \ (eval.todo \cup {eval.file}) : pending[f] = 0
                    /\ pending[eval.file] \in {0, eval.ch}

BuiltinInv ==
    /\ QueueInv /\ OneAtATime /\ Sources /\ Cancels /\ Refreshed /\ CacheCurrent
    /\ EvalKnows /\ FreshWhenApart

\* Files do not come apart again, and a file that is changed apart from its
\* earlier change has no work under way.
LEMMA ApartBack ==
    ASSUME [Next]_vars, NEW f \in Files, Apart(f)'
    PROVE  Apart(f) /\ ~Stop
<1>1. ~Stop
  BY DEF Stop, Apart
<1>2. stopped' = stopped
  BY <1>1, Frames
<1>3. givenUp \subseteq givenUp'
  BY Frames DEF WcTake, NotifyGiveUp
<1>4. overlap \subseteq overlap'
  BY Frames DEF NotifyCancel, fileVars
<1> QED
  BY <1>1, <1>2, <1>3, <1>4 DEF Apart

LEMMA CancelledApart ==
    ASSUME QueueInv, NEW f \in Files, NEW saved \in BOOLEAN, NotifyCancel(f, saved), Apart(f)'
    PROVE  /\ ~Queued(f) /\ ~QueuedUnsaved(f) /\ ~Writing(f) /\ ~Requested(f)
           /\ ~Held(f) /\ ~OnFile(f) /\ ~Completer(f) /\ pending[f] = 0
<1>1. ~InFlight(f)
  BY DEF NotifyCancel, Apart
<1>2. /\ ~Queued(f) /\ ~QueuedUnsaved(f) /\ ~Writing(f) /\ ~Requested(f)
      /\ ~Held(f) /\ ~OnFile(f)
  BY <1>1 DEF InFlight, Queued, QueuedUnsaved, Writing, Requested, Held, OnFile
<1>3. ~Completer(f)
  BY <1>2 DEF Completer, Notifying, Refreshing, Held
<1>4. f \notin givenUp /\ ~stopped
  BY DEF NotifyCancel, Apart, wcVars
<1>5. pending[f] = 0
  BY <1>3, <1>4 DEF QueueInv, MarksCompleted
<1> QED
  BY <1>2, <1>3, <1>5

\* What is unchanged with the variables.
LEMMA SameWork ==
    ASSUME NEW f \in Files
    PROVE  /\ changesChan' = changesChan =>
                 /\ Queued(f)' <=> Queued(f)
                 /\ QueuedUnsaved(f)' <=> QueuedUnsaved(f)
                 /\ QueuedOnce(f)' <=> QueuedOnce(f)
           /\ wcWorker' = wcWorker => (Writing(f)' <=> Writing(f))
           /\ cacheRefreshChan' = cacheRefreshChan =>
                 /\ Requested(f)' <=> Requested(f)
                 /\ RequestedOnce(f)' <=> RequestedOnce(f)
           /\ worker' = worker =>
                 /\ Held(f)' <=> Held(f)
                 /\ Refreshing(f)' <=> Refreshing(f)
                 /\ HeldOnce(f)' <=> HeldOnce(f)
           /\ notifier' = notifier =>
                 /\ OnFile(f)' <=> OnFile(f)
                 /\ Notifying(f)' <=> Notifying(f)
  BY DEF Queued, QueuedUnsaved, QueuedOnce, Writing, Requested, RequestedOnce, Held,
     Refreshing, HeldOnce, OnFile, Notifying

\* What the senders and receivers do to the uniqueness of the work.
LEMMA OnceMoves ==
    ASSUME TypeOK, Holding, NEW f \in Files
    PROVE  /\ NotifyPass /\ QueuedOnce(f) /\ (notifier.change.file = f => ~Queued(f)) =>
                 QueuedOnce(f)'
           /\ WcTake /\ QueuedOnce(f) =>
                 QueuedOnce(f)' /\ (Head(changesChan).file = f => ~Queued(f)')
           /\ /\ NotifySend /\ RequestedOnce(f)
              /\ notifier.change.file = f => ~Requested(f)
              => RequestedOnce(f)'
           /\ /\ WcSend /\ ~stopped /\ RequestedOnce(f)
              /\ wcWorker.change.file = f => ~Requested(f)
              => RequestedOnce(f)'
           /\ \A w \in Workers : WorkerTake(w) /\ RequestedOnce(f) =>
                 RequestedOnce(f)' /\ (Head(cacheRefreshChan).file = f => ~Requested(f)')
<1> DEFINE One(q) == \A i, j \in 1..Len(q) : q[i].file = f /\ q[j].file = f => i = j
           Some(q) == \E i \in 1..Len(q) : q[i].file = f
<1>1. ASSUME NEW S, NEW q \in Seq(S), NEW e \in S, One(q), e.file = f => ~Some(q)
      PROVE  One(Append(q, e))
  <2>1. /\ Len(Append(q, e)) = Len(q) + 1 /\ Append(q, e)[Len(q) + 1] = e
        /\ Len(q) \in Nat /\ \A i \in 1..Len(q) : Append(q, e)[i] = q[i]
    BY AppendFacts
  <2> QED
    BY <1>1, <2>1
<1>2. ASSUME NEW S, NEW q \in Seq(S), q # <<>>, One(q)
      PROVE  One(Tail(q)) /\ (Head(q).file = f => ~Some(Tail(q)))
  <2>1. /\ Head(q) = q[1] /\ Len(Tail(q)) = Len(q) - 1 /\ Len(q) \in Nat /\ Len(q) >= 1
        /\ \A i \in 1..(Len(q) - 1) : Tail(q)[i] = q[i + 1]
    BY <1>2, TailFacts
  <2>2. ASSUME NEW i \in 1..(Len(q) - 1), NEW j \in 1..(Len(q) - 1),
               Tail(q)[i].file = f, Tail(q)[j].file = f
        PROVE  i = j
    <3>1. i + 1 \in 1..Len(q) /\ j + 1 \in 1..Len(q)
      BY <2>1
    <3>2. i + 1 = j + 1
      BY <1>2, <2>1, <2>2, <3>1
    <3> QED
      BY <3>2
  <2>3. ASSUME Head(q).file = f, NEW i \in 1..(Len(q) - 1), Tail(q)[i].file = f PROVE FALSE
    <3>1. i + 1 \in 1..Len(q) /\ 1 \in 1..Len(q) /\ i + 1 # 1
      BY <2>1
    <3> QED
      BY <1>2, <2>1, <2>3, <3>1
  <2> QED
    BY <2>1, <2>2, <2>3
<1>3. /\ changesChan \in Seq(Change) /\ cacheRefreshChan \in Seq(Request)
      /\ QueuedOnce(f) <=> One(changesChan)
      /\ Queued(f) <=> Some(changesChan)
      /\ RequestedOnce(f) <=> One(cacheRefreshChan)
      /\ Requested(f) <=> Some(cacheRefreshChan)
      /\ QueuedOnce(f)' <=> One(changesChan')
      /\ Queued(f)' <=> Some(changesChan')
      /\ RequestedOnce(f)' <=> One(cacheRefreshChan')
      /\ Requested(f)' <=> Some(cacheRefreshChan')
  BY DEF TypeOK, QueuedOnce, Queued, RequestedOnce, Requested
<1> HIDE DEF One, Some
<1>4. ASSUME NotifyPass, QueuedOnce(f), notifier.change.file = f => ~Queued(f)
      PROVE  QueuedOnce(f)'
  BY <1>1, <1>3, <1>4 DEF NotifyPass, Holding
<1>5. ASSUME WcTake, QueuedOnce(f)
      PROVE  QueuedOnce(f)' /\ (Head(changesChan).file = f => ~Queued(f)')
  BY <1>2, <1>3, <1>5 DEF WcTake
<1>6. ASSUME NotifySend, RequestedOnce(f), notifier.change.file = f => ~Requested(f)
      PROVE  RequestedOnce(f)'
  <2>1. [file |-> notifier.change.file, from |-> "disk"] \in Request
    BY <1>6 DEF NotifySend, Holding, Change, Request
  <2> QED
    BY <1>1, <1>3, <1>6, <2>1 DEF NotifySend
<1>7. ASSUME WcSend, ~stopped, RequestedOnce(f), wcWorker.change.file = f => ~Requested(f)
      PROVE  RequestedOnce(f)'
  <2>1. [file |-> wcWorker.change.file, from |-> "wc"] \in Request
    BY <1>7 DEF WcSend, Holding, Change, Request
  <2> QED
    BY <1>1, <1>3, <1>7, <2>1 DEF WcSend
<1>8. ASSUME NEW w \in Workers, WorkerTake(w), RequestedOnce(f)
      PROVE  RequestedOnce(f)' /\ (Head(cacheRefreshChan).file = f => ~Requested(f)')
  BY <1>2, <1>3, <1>8 DEF WorkerTake
<1> QED
  BY <1>4, <1>5, <1>6, <1>7, <1>8

\* Only WorkerTake gives a worker a file.
LEMMA HeldMoves ==
    ASSUME QueueInv, [Next]_vars, NEW f \in Files
    PROVE  /\ (\A w \in Workers : ~WorkerTake(w)) =>
                 /\ Held(f)' => Held(f)
                 /\ HeldOnce(f) => HeldOnce(f)'
                 /\ \A w \in Workers : worker'[w].file = f =>
                       worker[w].file = f /\ worker'[w].from = worker[w].from
           /\ \A w \in Workers : WorkerTake(w) =>
                 /\ \A u \in Workers \ {w} : worker'[u] = worker[u]
                 /\ worker[w].file # f
                 /\ worker'[w].file = Head(cacheRefreshChan).file
                 /\ worker'[w].from = Head(cacheRefreshChan).from
                 /\ worker'[w].pc = "stored"
<1> USE BuiltinAssumption
<1>1. ASSUME \A w \in Workers : ~WorkerTake(w), NEW w \in Workers, worker'[w].file = f
      PROVE  worker[w].file = f /\ worker'[w].from = worker[w].from
  BY <1>1, WorkersMove DEF QueueInv
<1>2. ASSUME NEW w \in Workers, WorkerTake(w)
      PROVE  /\ \A u \in Workers \ {w} : worker'[u] = worker[u]
             /\ worker[w].file # f
             /\ worker'[w].file = Head(cacheRefreshChan).file
             /\ worker'[w].from = Head(cacheRefreshChan).from
             /\ worker'[w].pc = "stored"
  BY <1>2 DEF WorkerTake, QueueInv, Holding, Records
<1>3. ASSUME \A w \in Workers : ~WorkerTake(w)
      PROVE  (Held(f)' => Held(f)) /\ (HeldOnce(f) => HeldOnce(f)')
  BY <1>1, <1>3 DEF Held, HeldOnce
<1> QED
  BY <1>1, <1>2, <1>3

LEMMA SingleStep ==
    ASSUME QueueInv, OneAtATime, [Next]_vars
    PROVE  OneAtATime'
<1> SUFFICES ASSUME NEW f \in Files, Apart(f)' PROVE Single(f)'
  BY DEF OneAtATime
<1> USE DEF prepVars, cacheVars, pendVars, refreshVars, wcVars, fileVars, callVars
<1>0. /\ TypeOK /\ Records /\ Holding /\ ~stopped /\ ~Stop /\ Apart(f) /\ Single(f)
  BY ApartBack DEF QueueInv, OneAtATime, Apart
<1>1. ASSUME NEW g \in Files, NEW saved \in BOOLEAN, NotifyCancel(g, saved) PROVE Single(f)'
  <2>0. /\ UNCHANGED <<changesChan, wcWorker, cacheRefreshChan, worker, pending>>
        /\ notifier.pc = "idle" /\ notifier'.pc = "swap" /\ notifier'.change.file = g
    BY <1>1 DEF NotifyCancel
  <2>1. CASE g = f
    <3>1. /\ ~Queued(f) /\ ~QueuedUnsaved(f) /\ ~Writing(f) /\ ~Requested(f)
          /\ ~Held(f) /\ pending[f] = 0
      BY <1>1, <2>1, CancelledApart
    <3> QED
      BY <1>0, <2>0, <3>1, SameWork DEF Single, Untouched
  <2>2. CASE g # f
    <3>1. ~OnFile(f)' /\ ~Notifying(f)'
      BY <2>0, <2>2 DEF OnFile, Notifying
    <3> QED
      BY <1>0, <2>0, <3>1, SameWork DEF Single, Untouched
  <2> QED
    BY <2>1, <2>2
<1>2. CASE NotifySwap
  <2>0. UNCHANGED <<changesChan, wcWorker, cacheRefreshChan, worker>>
    BY <1>2 DEF NotifySwap
  <2>1. /\ notifier'.pc = "invalidate" /\ notifier.pc = "swap" /\ (OnFile(f)' <=> OnFile(f))
        /\ Notifying(f)' => OnFile(f)
    BY <1>0, <1>2 DEF NotifySwap, OnFile, Notifying, Records
  <2> QED
    BY <1>0, <2>0, <2>1, SameWork DEF Single, Untouched
<1>3. CASE NotifyInvalidate
  <2>0. UNCHANGED <<changesChan, wcWorker, cacheRefreshChan, worker>>
    BY <1>3 DEF NotifyInvalidate
  <2>1. /\ notifier'.pc # "swap" /\ (OnFile(f)' <=> OnFile(f))
        /\ Notifying(f)' => Notifying(f)
    BY <1>0, <1>3 DEF NotifyInvalidate, OnFile, Notifying, Records
  <2> QED
    BY <1>0, <2>0, <2>1, SameWork DEF Single, Untouched
<1>4. CASE NotifySend
  <2>0. UNCHANGED <<changesChan, wcWorker, worker>>
    BY <1>4 DEF NotifySend
  <2>1. /\ notifier'.pc = "pass" /\ (OnFile(f)' <=> OnFile(f)) /\ ~Notifying(f)'
        /\ notifier.change.file = f => Notifying(f) /\ OnFile(f)
    BY <1>0, <1>4 DEF NotifySend, OnFile, Notifying, Records, Holding
  <2>2. RequestedOnce(f)'
    BY <1>0, <1>4, <2>1, OnceMoves DEF Single, Untouched
  <2>3. Requested(f)' <=> Requested(f) \/ notifier.change.file = f
    BY <1>0, <1>4, RequestsMove
  <2>4. QueuedUnsaved(f) => Queued(f)
    BY DEF QueuedUnsaved, Queued
  <2> QED
    BY <1>0, <2>0, <2>1, <2>2, <2>3, <2>4, SameWork DEF Single, Untouched
<1>5. CASE NotifyGiveUp
  <2>0. UNCHANGED <<changesChan, wcWorker, cacheRefreshChan, worker>>
    BY <1>5 DEF NotifyGiveUp
  <2>1. ~OnFile(f)' /\ ~Notifying(f)'
    BY <1>0, <1>5 DEF NotifyGiveUp, OnFile, Notifying, Records, Apart
  <2> QED
    BY <1>0, <2>0, <2>1, SameWork DEF Single, Untouched
<1>6. CASE NotifyPass
  <2>0. UNCHANGED <<wcWorker, cacheRefreshChan, worker>> /\ ~OnFile(f)' /\ ~Notifying(f)'
    BY <1>6 DEF NotifyPass, IdleNotifier, OnFile, Notifying
  <2>1. /\ notifier.change.file = f => OnFile(f)
        /\ notifier.change.file = f /\ ~notifier.change.saved => Notifying(f)
    BY <1>6 DEF NotifyPass, OnFile, Notifying
  <2>2. /\ Queued(f)' <=> Queued(f) \/ notifier.change.file = f
        /\ QueuedUnsaved(f)' <=>
              QueuedUnsaved(f) \/ (notifier.change.file = f /\ ~notifier.change.saved)
    BY <1>0, <1>6, ChangesMove
  <2>3. QueuedOnce(f)'
    BY <1>0, <1>6, <2>1, OnceMoves DEF Single
  <2> QED
    BY <1>0, <2>0, <2>1, <2>2, <2>3, SameWork DEF Single, Untouched
<1>7. CASE WcTake
  <2> DEFINE c == Head(changesChan)
  <2>0. UNCHANGED <<notifier, cacheRefreshChan, worker, pending>>
    BY <1>7 DEF WcTake
  <2>1. ~Writing(f) /\ (Writing(f)' => c.file = f /\ ~c.saved)
    BY <1>0, <1>7 DEF WcTake, Writing
  <2>2. /\ Queued(f) <=> Queued(f)' \/ c.file = f
        /\ QueuedUnsaved(f) <=> QueuedUnsaved(f)' \/ (c.file = f /\ ~c.saved)
    BY <1>0, <1>7, ChangesMove
  <2>3. QueuedOnce(f)' /\ (c.file = f => ~Queued(f)')
    BY <1>0, <1>7, OnceMoves DEF Single
  <2> HIDE DEF c
  <2>4. QueuedUnsaved(f)' => Queued(f)'
    BY DEF QueuedUnsaved, Queued
  <2>5. Notifying(f) => OnFile(f)
    BY DEF Notifying
  <2> QED
    BY <1>0, <2>0, <2>1, <2>2, <2>3, <2>4, <2>5, SameWork DEF Single, Untouched
<1>8. CASE WcSend
  <2>0. UNCHANGED <<notifier, changesChan, worker, pending>> /\ ~Writing(f)'
    BY <1>8 DEF WcSend, Writing
  <2>1. wcWorker.change.file = f => Writing(f)
    BY <1>8 DEF WcSend, Writing
  <2>2. Requested(f)' <=> Requested(f) \/ wcWorker.change.file = f
    BY <1>0, <1>8, RequestsMove
  <2>3. RequestedOnce(f)'
    BY <1>0, <1>8, <2>1, OnceMoves DEF Single
  <2>4. QueuedUnsaved(f) => Queued(f)
    BY DEF QueuedUnsaved, Queued
  <2>5. Notifying(f) => OnFile(f)
    BY DEF Notifying
  <2> QED
    BY <1>0, <2>0, <2>1, <2>2, <2>3, <2>4, <2>5, SameWork DEF Single, Untouched
<1>9. ASSUME NEW w \in Workers, WorkerTake(w) PROVE Single(f)'
  <2> DEFINE r == Head(cacheRefreshChan)
  <2>0. UNCHANGED <<notifier, changesChan, wcWorker, pending>>
    BY <1>9 DEF WorkerTake
  <2>1. Requested(f) <=> Requested(f)' \/ r.file = f
    BY <1>0, <1>9, RequestsMove
  <2>2. RequestedOnce(f)' /\ (r.file = f => ~Requested(f)')
    BY <1>0, <1>9, OnceMoves DEF Single
  <2>3. /\ \A u \in Workers \ {w} : worker'[u] = worker[u]
        /\ worker[w].file # f /\ worker'[w].file = r.file
    BY <1>9, HeldMoves
  <2> HIDE DEF r
  <2>4. Held(f)' <=> Held(f) \/ r.file = f
    BY <2>3 DEF Held
  <2>5. r.file = f => ~Held(f)
    BY <1>0, <2>1 DEF Single
  <2>6. HeldOnce(f)'
    BY <1>0, <2>3, <2>5 DEF HeldOnce, Held, Single
  <2> QED
    BY <1>0, <2>0, <2>1, <2>2, <2>4, <2>6, SameWork DEF Single, Untouched
<1>10. ASSUME ~NotifySwap, ~NotifyInvalidate, ~NotifySend, ~NotifyGiveUp, ~NotifyPass,
              ~WcTake, ~WcSend, \A w \in Workers : ~WorkerTake(w),
              \A g \in Files, saved \in BOOLEAN : ~NotifyCancel(g, saved)
       PROVE  Single(f)'
  <2>1. UNCHANGED <<notifier, changesChan, cacheRefreshChan>>
    BY <1>10, Frames DEF NotifyGoOn
  <2>2. Writing(f)' => Writing(f)
    <3>1. UNCHANGED wcWorker \/ WcEnd
      BY <1>10, Frames DEF WorkingCopies
    <3> QED
      BY <1>0, <3>1 DEF WcEnd, Writing, Records
  <2>3. (Held(f)' => Held(f)) /\ (HeldOnce(f) => HeldOnce(f)')
    BY <1>10, HeldMoves
  <2>4. pending[f] = 0 => pending'[f] = 0
    <3>1. ASSUME NEW w \in Workers, WorkerComplete(w) PROVE <2>4
      BY <1>0, <3>1 DEF WorkerComplete, TypeOK
    <3> QED
      BY <1>10, <3>1, Frames
  <2> QED
    BY <1>0, <2>1, <2>2, <2>3, <2>4, SameWork DEF Single, Untouched
<1> QED
  BY <1>1, <1>2, <1>3, <1>4, <1>5, <1>6, <1>7, <1>8, <1>9, <1>10

LEMMA SourcesStep ==
    ASSUME QueueInv, OneAtATime, Sources, [Next]_vars
    PROVE  Sources'
<1> SUFFICES ASSUME NEW f \in Files, Apart(f)' PROVE Sourced(f)'
  BY DEF Sources
<1> USE DEF prepVars, cacheVars, pendVars, refreshVars, wcVars, fileVars, callVars
<1>0. /\ TypeOK /\ Records /\ Holding /\ Changed
      /\ ~stopped /\ ~Stop /\ Apart(f) /\ Single(f) /\ Sourced(f)
  BY ApartBack DEF QueueInv, OneAtATime, Sources, Apart
<1>1. ASSUME NEW g \in Files, NEW saved \in BOOLEAN, NotifyCancel(g, saved) PROVE Sourced(f)'
  <2>0. /\ UNCHANGED <<changesChan, wcWorker, cacheRefreshChan, worker, wc>>
        /\ notifier.pc = "idle" /\ notifier'.pc = "swap" /\ notifier'.change.file = g
    BY <1>1 DEF NotifyCancel
  <2>1. CASE g = f
    <3>1. ~Writing(f) /\ ~Requested(f) /\ ~Held(f)
      BY <1>1, <2>1, CancelledApart
    <3> QED
      BY <2>0, <3>1, SameWork DEF Sourced, Requested, Held
  <2>2. CASE g # f
    <3>1. ~OnFile(f)' /\ ~OnFile(f) /\ ver'[f] = ver[f] /\ disk'[f] = disk[f]
      BY <1>0, <1>1, <2>0, <2>2 DEF OnFile, NotifyCancel, TypeOK
    <3> QED
      BY <1>0, <2>0, <3>1, SameWork DEF Sourced, Source
  <2> QED
    BY <2>1, <2>2
<1>2. CASE NotifySend
  <2>0. UNCHANGED <<changesChan, wcWorker, worker, wc, ver, disk>>
    BY <1>2 DEF NotifySend
  <2>1. /\ notifier'.pc = "pass" /\ (OnFile(f)' <=> OnFile(f))
        /\ notifier.change.file = f => disk[f] = ver[f]
    BY <1>0, <1>2 DEF NotifySend, OnFile, Records, Holding, Changed, LastChange
  <2>2. /\ Len(cacheRefreshChan') = Len(cacheRefreshChan) + 1 /\ Len(cacheRefreshChan) \in Nat
        /\ cacheRefreshChan'[Len(cacheRefreshChan) + 1] =
              [file |-> notifier.change.file, from |-> "disk"]
        /\ \A i \in 1..Len(cacheRefreshChan) : cacheRefreshChan'[i] = cacheRefreshChan[i]
    <3>1. [file |-> notifier.change.file, from |-> "disk"] \in Request
      BY <1>0, <1>2 DEF NotifySend, Holding, Change, Request
    <3> QED
      BY <1>0, <1>2, <3>1, AppendFacts DEF NotifySend, TypeOK
  <2>3. \A i \in 1..Len(cacheRefreshChan') :
           cacheRefreshChan'[i].file = f => Source(f, cacheRefreshChan[i].from)'
    BY <1>0, <2>0, <2>1, <2>2, SameWork DEF Sourced, Source
  <2> QED
    BY <1>0, <2>0, <2>1, <2>3, SameWork DEF Sourced, Source
<1>3. CASE NotifyPass
  <2>0. UNCHANGED <<wcWorker, cacheRefreshChan, worker, wc, ver, disk>> /\ ~OnFile(f)'
    BY <1>3 DEF NotifyPass, IdleNotifier, OnFile
  <2>1. notifier.change.file = f => OnFile(f)
    BY <1>3 DEF NotifyPass, OnFile
  <2>2. Queued(f)' <=> Queued(f) \/ notifier.change.file = f
    BY <1>0, <1>3, ChangesMove
  <2> QED
    BY <1>0, <2>0, <2>1, <2>2, SameWork DEF Sourced, Source
<1>4. CASE WcTake
  <2> DEFINE c == Head(changesChan)
  <2>0. UNCHANGED <<notifier, cacheRefreshChan, worker, ver, disk>>
    BY <1>4 DEF WcTake
  <2>1. Queued(f) <=> Queued(f)' \/ c.file = f
    BY <1>0, <1>4, ChangesMove
  <2>2. CASE c.file # f
    <3>1. wc'[f] = wc[f] /\ (Writing(f)' => Writing(f))
      BY <1>0, <1>4, <2>2 DEF WcTake, TypeOK, Writing
    <3> QED
      BY <1>0, <2>0, <2>1, <2>2, <3>1, SameWork DEF Sourced, Source
  <2>3. CASE c.file = f
    <3>1. LastChange(f, c)
      <4>1. c = changesChan[1] /\ Len(changesChan) \in Nat /\ Len(changesChan) >= 1
        BY <1>0, <1>4, TailFacts DEF WcTake, TypeOK
      <4>2. ~OnFile(f)
        BY <1>0, <2>1, <2>3 DEF Single
      <4>3. \A j \in 1..Len(changesChan) : j > 1 => changesChan[j].file # f
        BY <1>0, <2>3, <4>1 DEF Single, QueuedOnce
      <4> QED
        BY <1>0, <2>3, <4>1, <4>2, <4>3 DEF Changed
    <3>2. Writing(f)' => wc'[f] = ver'[f]
      BY <1>0, <1>4, <2>0, <2>3, <3>1 DEF WcTake, Writing, LastChange, TypeOK
    <3> QED
      BY <1>0, <2>0, <2>1, <2>3, <3>2 DEF Sourced, Source
  <2> QED
    BY <2>2, <2>3
<1>5. CASE WcSend
  <2>0. UNCHANGED <<notifier, changesChan, worker, ver, disk, wc>> /\ ~Writing(f)'
    BY <1>5 DEF WcSend, Writing
  <2>1. wcWorker.change.file = f => wc[f] = ver[f] /\ ~OnFile(f) /\ ~Queued(f)
    BY <1>0, <1>5 DEF WcSend, Writing, Sourced, Single
  <2>2. /\ Len(cacheRefreshChan') = Len(cacheRefreshChan) + 1 /\ Len(cacheRefreshChan) \in Nat
        /\ cacheRefreshChan'[Len(cacheRefreshChan) + 1] =
              [file |-> wcWorker.change.file, from |-> "wc"]
        /\ \A i \in 1..Len(cacheRefreshChan) : cacheRefreshChan'[i] = cacheRefreshChan[i]
    <3>1. [file |-> wcWorker.change.file, from |-> "wc"] \in Request
      BY <1>0, <1>5 DEF WcSend, Holding, Change, Request
    <3>2. cacheRefreshChan' =
            Append(cacheRefreshChan, [file |-> wcWorker.change.file, from |-> "wc"])
      BY <1>0, <1>5 DEF WcSend
    <3> QED
      BY <1>0, <3>1, <3>2, AppendFacts DEF TypeOK
  <2>3. \A i \in 1..Len(cacheRefreshChan') :
           cacheRefreshChan'[i].file = f => Source(f, cacheRefreshChan[i].from)'
    BY <1>0, <2>0, <2>1, <2>2, SameWork DEF Sourced, Source
  <2> QED
    BY <1>0, <2>0, <2>3, SameWork DEF Sourced, Source
<1>6. ASSUME NEW w \in Workers, WorkerTake(w) PROVE Sourced(f)'
  <2>0. UNCHANGED <<notifier, changesChan, wcWorker, ver, disk, wc>>
    BY <1>6 DEF WorkerTake
  <2>1. /\ Head(cacheRefreshChan) = cacheRefreshChan[1]
        /\ Len(cacheRefreshChan) \in Nat /\ Len(cacheRefreshChan) >= 1
        /\ Len(cacheRefreshChan') = Len(cacheRefreshChan) - 1
        /\ \A i \in 1..(Len(cacheRefreshChan) - 1) : cacheRefreshChan'[i] = cacheRefreshChan[i + 1]
    BY <1>0, <1>6, TailFacts DEF WorkerTake, TypeOK
  <2>2. /\ \A u \in Workers \ {w} : worker'[u] = worker[u]
        /\ worker'[w].file = cacheRefreshChan[1].file
        /\ worker'[w].from = cacheRefreshChan[1].from
    BY <1>6, <2>1, HeldMoves
  <2>3. \A i \in 1..Len(cacheRefreshChan') :
           cacheRefreshChan'[i].file = f => Source(f, cacheRefreshChan[i].from)'
    BY <1>0, <2>0, <2>1, SameWork DEF Sourced, Source
  <2>4. \A u \in Workers : worker'[u].file = f => Source(f, worker[u].from)'
    BY <1>0, <2>0, <2>1, <2>2, SameWork DEF Sourced, Source
  <2> QED
    BY <1>0, <2>0, <2>3, <2>4, SameWork DEF Sourced
<1>7. ASSUME ~NotifySend, ~NotifyPass, ~WcTake, ~WcSend, \A w \in Workers : ~WorkerTake(w),
             \A g \in Files, saved \in BOOLEAN : ~NotifyCancel(g, saved)
      PROVE  Sourced(f)'
  <2>1. UNCHANGED <<changesChan, cacheRefreshChan, ver, disk, wc>>
    BY <1>0, <1>7, Frames
  <2>2. Writing(f)' => Writing(f)
    <3>1. UNCHANGED wcWorker \/ WcEnd
      BY <1>7, Frames DEF WorkingCopies
    <3> QED
      BY <1>0, <3>1 DEF WcEnd, Writing, Records
  <2>3. \A w \in Workers : worker'[w].file = f =>
           worker[w].file = f /\ worker'[w].from = worker[w].from
    BY <1>7, HeldMoves
  <2>4. OnFile(f)' <=> OnFile(f)
    BY <1>0, <1>7, NotifierMoves DEF OnFile
  <2> QED
    BY <1>0, <2>1, <2>2, <2>3, <2>4, SameWork DEF Sourced, Source
<1> QED
  BY <1>1, <1>2, <1>3, <1>4, <1>5, <1>6, <1>7

LEMMA CancelsStep ==
    ASSUME QueueInv, Cancels, [Next]_vars
    PROVE  Cancels'
<1> USE BuiltinAssumption
<1> USE DEF prepVars, cacheVars, pendVars, refreshVars, wcVars, fileVars, callVars
<1>0. /\ TypeOK /\ Records /\ Holding /\ Prepares
      /\ \A f \in Files : active[f] # None => active[f] \in Workers /\ worker[active[f]].file = f
      /\ \A w \in cancelled : worker[w].file \in overlap /\ w \in Workers
      /\ overlap \subseteq Files /\ None \notin Files
  BY DEF QueueInv, Cancels, TypeOK
<1>1. ASSUME NEW f \in Files, NEW saved \in BOOLEAN, NotifyCancel(f, saved) PROVE Cancels'
  <2>1. /\ worker' = worker /\ overlap \subseteq overlap'
        /\ InFlight(f) => f \in overlap'
        /\ cancelled' = cancelled \cup ({active[f]} \cap Workers)
        /\ active' = [active EXCEPT ![f] = None]
    BY <1>1 DEF NotifyCancel
  <2>2. active[f] \in Workers => InFlight(f)
    BY <1>0 DEF InFlight
  <2>3. \A w \in cancelled' : worker'[w].file \in overlap'
    BY <1>0, <2>1, <2>2
  <2>4. \A g \in Files : active'[g] # None => worker'[active'[g]].file = g
    BY <1>0, <2>1 DEF TypeOK
  <2> QED
    BY <2>3, <2>4 DEF Cancels
<1>2. ASSUME NEW w \in Workers, WorkerTake(w) PROVE Cancels'
  <2>1. /\ worker[w].file = None /\ \A u \in Workers \ {w} : worker'[u] = worker[u]
        /\ Head(cacheRefreshChan).file \in Files
        /\ worker'[w].file = Head(cacheRefreshChan).file
        /\ active' = [active EXCEPT ![Head(cacheRefreshChan).file] = w]
        /\ cancelled' = cancelled \ {w} /\ overlap' = overlap
    <3>1. Head(cacheRefreshChan) \in Request
      BY <1>0, <1>2, TailFacts DEF WorkerTake, TypeOK
    <3> QED
      BY <1>0, <1>2, <3>1 DEF WorkerTake, Records, Holding, Request
  <2>2. \A u \in cancelled' : worker'[u].file \in overlap'
    BY <1>0, <2>1
  <2>h. PICK h \in Files : h = Head(cacheRefreshChan).file
    BY <2>1
  <2>3. ASSUME NEW g \in Files, active'[g] # None PROVE worker'[active'[g]].file = g
    <3>1. CASE g = h
      BY <1>0, <2>1, <2>h, <3>1 DEF TypeOK
    <3>2. CASE g # h
      <4>1. active'[g] = active[g]
        BY <1>0, <2>1, <2>h, <3>2 DEF TypeOK
      <4>2. active[g] \in Workers \ {w}
        BY <1>0, <2>1, <2>3, <4>1
      <4> QED
        BY <1>0, <2>1, <2>3, <4>1, <4>2
    <3> QED
      BY <3>1, <3>2
  <2> QED
    BY <2>2, <2>3 DEF Cancels
<1>3. ASSUME NEW w \in Workers, WorkerLeave(w) PROVE Cancels'
  <2>1. /\ worker[w].file \in Files /\ \A u \in Workers \ {w} : worker'[u] = worker[u]
        /\ active' = [active EXCEPT ![worker[w].file] = None]
        /\ cancelled' = cancelled \ {w} /\ overlap' = overlap
    BY <1>0, <1>3 DEF WorkerLeave, Records, Holding
  <2>2. \A u \in cancelled' : worker'[u].file \in overlap'
    BY <1>0, <2>1
  <2>3. \A g \in Files : active'[g] # None => worker'[active'[g]].file = g
    BY <1>0, <2>1 DEF TypeOK
  <2> QED
    BY <2>2, <2>3 DEF Cancels
<1>4. ASSUME \A w \in Workers : ~WorkerTake(w) /\ ~WorkerLeave(w),
             \A f \in Files, saved \in BOOLEAN : ~NotifyCancel(f, saved)
      PROVE  Cancels'
  <2>1. UNCHANGED <<active, cancelled, overlap>>
    BY <1>4, Frames
  <2>2. \A w \in Workers : worker[w].file \in Files => worker'[w].file = worker[w].file
    <3> SUFFICES ASSUME NEW w \in Workers, worker[w].file \in Files
                 PROVE  worker'[w].file = worker[w].file
      OBVIOUS
    <3>1. ~PrepareDone
      BY <1>0 DEF PrepareDone, Prepares, Holding
    <3> QED
      BY <1>0, <1>4, <3>1, WorkersMove
  <2> QED
    BY <1>0, <2>1, <2>2 DEF Cancels
<1> QED
  BY <1>1, <1>2, <1>3, <1>4

\* A file that is worked on while Single holds is worked on in one place.
LEMMA OnePlace ==
    ASSUME NEW f \in Files, Single(f)
    PROVE  /\ Held(f) => /\ ~Notifying(f) /\ ~QueuedUnsaved(f) /\ ~Writing(f) /\ ~Requested(f)
                         /\ ~(OnFile(f) /\ notifier.pc = "swap")
           /\ \A u, w \in Workers : worker[u].file = f /\ worker[w].file = f => u = w
  BY DEF Single, Untouched, HeldOnce

\* The work that will complete the mark of f does not appear from nowhere.
LEMMA CompleterMoves ==
    ASSUME QueueInv, OneAtATime, [Next]_vars, NEW f \in Files, Apart(f)', Completer(f)'
    PROVE  /\ Completer(f) \/ (NotifySwap /\ notifier.change.file = f)
           /\ \A w \in Workers : WorkerComplete(w) => worker[w].file # f
<1> USE DEF prepVars, cacheVars, pendVars, refreshVars, wcVars, fileVars, callVars
<1>0. /\ TypeOK /\ Records /\ Holding /\ ~stopped /\ Apart(f) /\ Single(f)
  BY ApartBack DEF QueueInv, OneAtATime, Apart
<1> DEFINE Before == Completer(f) \/ (NotifySwap /\ notifier.change.file = f)
<1>1. ASSUME Notifying(f)' PROVE Before
  <2>1. CASE notifier' = notifier
    BY <1>1, <2>1, SameWork DEF Completer
  <2>2. CASE NotifySwap
    BY <1>0, <1>1, <2>2 DEF NotifySwap, Notifying, OnFile, Records
  <2>3. CASE NotifyInvalidate
    BY <1>0, <1>1, <2>3 DEF NotifyInvalidate, Notifying, OnFile, Records, Completer
  <2>4. CASE NotifySend \/ NotifyGiveUp \/ NotifyPass
    BY <1>0, <1>1, <2>4 DEF NotifySend, NotifyGiveUp, NotifyPass, IdleNotifier, Notifying,
       OnFile, Records, Holding
  <2>5. ASSUME NEW g \in Files, NEW saved \in BOOLEAN, NotifyCancel(g, saved) PROVE FALSE
    BY <1>1, <2>5 DEF NotifyCancel, Notifying
  <2> QED
    BY <2>1, <2>2, <2>3, <2>4, <2>5, Frames DEF NotifyGoOn
<1>2. ASSUME QueuedUnsaved(f)' PROVE Before
  <2>1. CASE changesChan' = changesChan
    BY <1>2, <2>1, SameWork DEF Completer
  <2>2. CASE NotifyPass
    BY <1>0, <1>2, <2>2, ChangesMove DEF NotifyPass, Completer, Notifying, OnFile
  <2>3. CASE WcTake
    BY <1>0, <1>2, <2>3, ChangesMove DEF Completer
  <2> QED
    BY <2>1, <2>2, <2>3, Frames
<1>3. ASSUME Writing(f)' PROVE Before
  <2>1. CASE wcWorker' = wcWorker
    BY <1>3, <2>1, SameWork DEF Completer
  <2>2. CASE WcTake
    BY <1>0, <1>3, <2>2, ChangesMove DEF WcTake, Writing, Completer
  <2>3. CASE WcSend \/ WcEnd
    BY <1>0, <1>3, <2>3 DEF WcSend, WcEnd, Writing, Records
  <2> QED
    BY <2>1, <2>2, <2>3, Frames DEF WorkingCopies
<1>4. ASSUME Requested(f)' PROVE Before
  <2>1. CASE cacheRefreshChan' = cacheRefreshChan
    BY <1>4, <2>1, SameWork DEF Completer
  <2>2. CASE NotifySend
    BY <1>0, <1>4, <2>2, RequestsMove DEF NotifySend, Completer, Notifying, OnFile
  <2>3. CASE WcSend
    BY <1>0, <1>4, <2>3, RequestsMove DEF WcSend, Completer, Writing
  <2>4. ASSUME NEW w \in Workers, WorkerTake(w) PROVE Before
    BY <1>0, <1>4, <2>4, RequestsMove DEF Completer
  <2> QED
    BY <2>1, <2>2, <2>3, <2>4, Frames
<1>5. ASSUME NEW w \in Workers, worker'[w].file = f, worker'[w].pc # "leave" PROVE Before
  <2>1. CASE WorkerTake(w)
    BY <1>0, <1>5, <2>1, HeldMoves, RequestsMove DEF Completer
  <2>2. CASE ~WorkerTake(w)
    <3>1. worker[w].file = f /\ worker[w].pc # "leave"
      BY <1>0, <1>5, <2>2, WorkersMove, BuiltinAssumption DEF WorkerCheck,
         WorkerInvalidate, WorkerRead, WorkerMerge, WorkerComplete, WorkerEnd
    <3> QED
      BY <3>1 DEF Completer, Refreshing
  <2> QED
    BY <2>1, <2>2
<1>6. Before
  BY <1>1, <1>2, <1>3, <1>4, <1>5 DEF Completer, Refreshing
<1>7. ASSUME NEW w \in Workers, WorkerComplete(w), worker[w].file = f PROVE FALSE
  <2>1. /\ ~Notifying(f) /\ ~QueuedUnsaved(f) /\ ~Writing(f) /\ ~Requested(f)
        /\ \A u \in Workers : worker[u].file = f => u = w
    BY <1>0, <1>7, OnePlace DEF Held
  <2>2. UNCHANGED <<notifier, changesChan, wcWorker, cacheRefreshChan>>
    BY <1>7 DEF WorkerComplete
  <2>3. worker'[w].pc = "leave" /\ \A u \in Workers \ {w} : worker'[u] = worker[u]
    BY <1>0, <1>7 DEF WorkerComplete, Records
  <2>4. ~Refreshing(f)'
    BY <2>1, <2>3 DEF Refreshing
  <2> QED
    BY <2>1, <2>2, <2>4, SameWork DEF Completer
<1> QED
  BY <1>6, <1>7

\* The key of the cache is never taken out again.
LEMMA KeyStays ==
    ASSUME TypeOK, [Next]_vars, hasKey
    PROVE  hasKey'
<1>1. CASE UNCHANGED cacheVars \/ NotifyInvalidate
  BY <1>1 DEF cacheVars, NotifyInvalidate
<1>2. ASSUME NEW f \in Files, PrepareFile(f) PROVE hasKey'
  BY <1>2 DEF PrepareFile
<1>3. ASSUME NEW w \in Workers, WorkerInvalidate(w) \/ WorkerMerge(w) PROVE hasKey'
  BY <1>3 DEF WorkerInvalidate, WorkerMerge
<1> QED
  BY <1>1, <1>2, <1>3, Frames

\* While a worker has f, nobody else touches its entry or its mark.
LEMMA HeldFrame ==
    ASSUME QueueInv, OneAtATime, [Next]_vars, NEW f \in Files, Apart(f)',
           NEW w \in Workers, worker[w].file = f
    PROVE  /\ ver'[f] = ver[f]
           /\ pending[f] = 0 => pending'[f] = 0
           /\ ~WorkerInvalidate(w) /\ ~WorkerMerge(w) => cache'[f] = cache[f]
<1> USE BuiltinAssumption
<1> USE DEF prepVars, cacheVars, pendVars, refreshVars, wcVars, fileVars, callVars
<1>0. /\ TypeOK /\ Records /\ Holding /\ Prepares /\ Apart(f) /\ Single(f) /\ Held(f)
  BY ApartBack DEF QueueInv, OneAtATime, Held
<1>1. /\ ~Notifying(f) /\ ~(OnFile(f) /\ notifier.pc = "swap")
      /\ \A u \in Workers : worker[u].file = f => u = w
  BY <1>0, OnePlace
<1>2. ver'[f] = ver[f]
  <2>1. ASSUME NEW g \in Files, NEW saved \in BOOLEAN, NotifyCancel(g, saved)
        PROVE  ver'[f] = ver[f]
    <3>1. g # f
      BY <1>0, <2>1, CancelledApart
    <3> QED
      BY <1>0, <2>1, <3>1 DEF NotifyCancel, TypeOK
  <2> QED
    BY <2>1, Frames
<1>3. ASSUME pending[f] = 0 PROVE pending'[f] = 0
  <2>1. CASE NotifySwap
    BY <1>0, <1>1, <1>3, <2>1 DEF NotifySwap, OnFile, TypeOK
  <2>2. ASSUME NEW u \in Workers, WorkerComplete(u) PROVE pending'[f] = 0
    BY <1>0, <1>3, <2>2 DEF WorkerComplete, TypeOK
  <2> QED
    BY <1>3, <2>1, <2>2, Frames
<1>4. ASSUME ~WorkerInvalidate(w), ~WorkerMerge(w) PROVE cache'[f] = cache[f]
  <2>1. CASE NotifyInvalidate
    BY <1>0, <1>1, <2>1 DEF NotifyInvalidate, Notifying, OnFile, TypeOK
  <2>2. ASSUME NEW g \in Files, PrepareFile(g) PROVE FALSE
    <3>1. ~prepared
      BY <1>0, <2>2 DEF PrepareFile, Prepares
    <3>2. worker[w].pc = "off"
      BY <1>0, <3>1 DEF Prepares
    <3> QED
      BY <1>0, <3>2 DEF Holding
  <2>3. ASSUME NEW u \in Workers, WorkerInvalidate(u) \/ WorkerMerge(u)
        PROVE  cache'[f] = cache[f]
    <3>1. worker[u].file # f
      BY <1>1, <1>4, <2>3
    <3> QED
      BY <1>0, <2>3, <3>1 DEF WorkerInvalidate, WorkerMerge, TypeOK
  <2> QED
    BY <2>1, <2>2, <2>3, Frames
<1> QED
  BY <1>2, <1>3, <1>4

LEMMA RefreshedStep ==
    ASSUME QueueInv, OneAtATime, Sources, Cancels, Refreshed, [Next]_vars
    PROVE  Refreshed'
<1> USE BuiltinAssumption
<1> USE DEF prepVars, cacheVars, pendVars, refreshVars, wcVars, fileVars, callVars
<1> SUFFICES ASSUME NEW f \in Files, Apart(f)'
             PROVE  /\ Completer(f)' => pending'[f] # 0
                    /\ \A w \in Workers : worker'[w].file = f => Progress(f, w)'
  BY DEF Refreshed
<1>0. /\ TypeOK /\ Records /\ Holding /\ Changed /\ ~stopped /\ Apart(f) /\ Single(f)
      /\ Sourced(f) /\ (Completer(f) => pending[f] # 0)
      /\ \A w \in Workers : worker[w].file = f => Progress(f, w)
  BY ApartBack DEF QueueInv, OneAtATime, Sources, Refreshed, Apart
<1>1. ASSUME Completer(f)' PROVE pending'[f] # 0
  <2>1. CASE NotifySwap /\ notifier.change.file = f
    BY <1>0, <2>1 DEF NotifySwap, Changed, OnFile, LastChange, TypeOK
  <2>2. CASE ~(NotifySwap /\ notifier.change.file = f)
    <3>1. /\ pending[f] # 0 /\ \A w \in Workers : WorkerComplete(w) => worker[w].file # f
      BY <1>0, <1>1, <2>2, CompleterMoves
    <3>2. pending'[f] = pending[f]
      <4>1. CASE NotifySwap
        BY <1>0, <2>2, <4>1 DEF NotifySwap, TypeOK
      <4>2. ASSUME NEW w \in Workers, WorkerComplete(w) PROVE pending'[f] = pending[f]
        BY <1>0, <3>1, <4>2 DEF WorkerComplete, TypeOK
      <4> QED
        BY <4>1, <4>2, Frames
    <3> QED
      BY <3>1, <3>2
  <2> QED
    BY <2>1, <2>2
<1>2. ASSUME NEW w \in Workers, worker'[w].file = f, worker[w].file # f
      PROVE  worker'[w].pc = "stored"
  BY <1>0, <1>2, WorkersMove
<1>3. ASSUME NEW w \in Workers, worker'[w].file = f, worker[w].file = f
      PROVE  Progress(f, w)'
  <2>0. /\ ver'[f] = ver[f] /\ (pending[f] = 0 => pending'[f] = 0) /\ (hasKey => hasKey')
        /\ ~WorkerInvalidate(w) /\ ~WorkerMerge(w) => cache'[f] = cache[f]
    BY <1>0, <1>3, HeldFrame, KeyStays
  <2>1. Progress(f, w) /\ Source(f, worker[w].from) /\ ver[f] \in Version /\ ver[f] # None
    BY <1>0, <1>3 DEF Sourced, TypeOK, Version
  <2>2. w \notin cancelled
    BY <1>0, <1>3 DEF Cancels, Apart
  <2>3. CASE WorkerCheck(w)
    <3>1. worker'[w].pc = "checked"
      BY <1>0, <1>3, <2>1, <2>2, <2>3 DEF WorkerCheck, Source, Records
    <3> QED
      BY <3>1 DEF Progress
  <2>4. CASE WorkerInvalidate(w)
    BY <1>0, <1>3, <2>4 DEF WorkerInvalidate, Progress, Records, TypeOK
  <2>5. CASE WorkerRead(w)
    <3>1. (IF worker[w].from = "wc" THEN wc[f] ELSE disk[f]) = ver[f]
      BY <1>0, <2>1 DEF Source, Records
    <3>2. worker'[w].pc = "read" /\ worker'[w].ver = ver[f]
      BY <1>0, <1>3, <2>1, <2>5, <3>1 DEF WorkerRead, Records
    <3>3. cache'[f] = None
      BY <2>1, <2>5 DEF WorkerRead, Progress
    <3> QED
      BY <2>0, <3>2, <3>3 DEF Progress
  <2>6. CASE WorkerMerge(w)
    <3>1. worker[w].ver = ver[f] /\ cache[f] = None
      BY <2>1, <2>6 DEF WorkerMerge, Progress
    <3>2. cache'[f] = Incidents(ver[f]) /\ (hasKey' \/ Incidents(ver[f]) = None)
      BY <1>0, <1>3, <2>6, <3>1 DEF WorkerMerge, TypeOK
    <3>3. worker'[w].pc = "complete"
      BY <1>0, <2>6 DEF WorkerMerge, Records
    <3> QED
      BY <2>0, <3>2, <3>3 DEF Progress
  <2>7. CASE WorkerComplete(w)
    BY <1>0, <1>3, <2>7 DEF WorkerComplete, Progress, Records, TypeOK
  <2>8. CASE worker'[w] = worker[w]
    <3>1. ~WorkerInvalidate(w) /\ ~WorkerMerge(w)
      BY <1>0, <2>8 DEF WorkerInvalidate, WorkerMerge, Records
    <3> QED
      BY <2>0, <2>1, <2>8, <3>1 DEF Progress
  <2>9. ~WorkerTake(w) /\ ~WorkerEnd(w)
    BY <1>0, <1>3 DEF WorkerTake, WorkerEnd, Holding
  <2> QED
    BY <1>0, <1>3, <2>3, <2>4, <2>5, <2>6, <2>7, <2>8, <2>9, WorkersMove
<1> QED
  BY <1>1, <1>2, <1>3 DEF Progress

LEMMA CacheStep ==
    ASSUME QueueInv, OneAtATime, Sources, Cancels, Refreshed, CacheCurrent, [Next]_vars
    PROVE  CacheCurrent'
<1> USE BuiltinAssumption
<1> USE DEF prepVars, cacheVars, pendVars, refreshVars, wcVars, fileVars, callVars
<1> SUFFICES ASSUME NEW f \in Files, Apart(f)',
                    prepared' \/ (preparing' # None /\ f \notin preparing')
             PROVE  Cached(f)'
  BY DEF CacheCurrent
<1>0. /\ TypeOK /\ Records /\ Holding /\ Prepares /\ Changed
      /\ ~stopped /\ ~Stop /\ Apart(f) /\ Single(f)
      /\ (Completer(f) => pending[f] # 0) /\ (~hasKey' => ~hasKey)
      /\ \A w \in Workers : worker[w].file = f => Progress(f, w)
      /\ ver[f] \in Nat /\ pending[f] \in Nat /\ \A v \in Version : v \in Nat
  <2>1. TypeOK /\ Records /\ Holding /\ Prepares /\ Changed
    BY DEF QueueInv
  <2>2. ~Stop /\ Apart(f) /\ ~stopped
    BY ApartBack DEF Apart
  <2>3. ~hasKey' => ~hasKey
    BY <2>1, KeyStays
  <2>4. ver[f] \in Nat /\ pending[f] \in Nat /\ \A v \in Version : v \in Nat
    BY <2>1 DEF TypeOK, Version
  <2> QED
    BY <2>1, <2>2, <2>3, <2>4 DEF OneAtATime, Refreshed
<1>1. ASSUME PrepareFile(f) PROVE Cached(f)'
  <2>1. ~prepared /\ ver[f] = 0 /\ disk[f] = 0 /\ UNCHANGED <<ver, disk>>
    BY <1>0, <1>1 DEF PrepareFile, Prepares
  <2>2. cache'[f] = Incidents(0) /\ (~hasKey' => Incidents(0) = None)
    BY <1>0, <1>1, <2>1 DEF PrepareFile, TypeOK
  <2> QED
    BY <1>0, <2>1, <2>2 DEF Cached
<1>2. CASE ~PrepareFile(f)
  <2>0. Cached(f)
    <3>1. prepared \/ (preparing # None /\ f \notin preparing)
      <4>1. CASE PrepareReset
        BY <1>0, <4>1 DEF PrepareReset, Prepares
      <4>2. CASE PrepareDone
        BY <4>2 DEF PrepareDone
      <4>3. ASSUME NEW g \in Files, PrepareFile(g) PROVE <3>1
        BY <1>2, <4>3 DEF PrepareFile
      <4> QED
        BY <4>1, <4>2, <4>3, Frames DEF Prepare
    <3> QED
      BY <1>0, <3>1 DEF CacheCurrent
  <2>1. ASSUME NEW g \in Files, NEW saved \in BOOLEAN, NotifyCancel(g, saved) PROVE Cached(f)'
    <3>0. /\ UNCHANGED <<cache, hasKey, pending>> /\ notifier.pc = "idle"
          /\ notifier'.pc = "swap" /\ notifier'.change.file = g
      BY <2>1 DEF NotifyCancel
    <3>1. CASE g = f
      <4>1. Done(f) /\ ~Done(f)' /\ ver'[f] = ver[f] + 1
        BY <1>0, <2>1, <3>0, <3>1, CancelledApart DEF Done, OnFile, NotifyCancel, TypeOK
      <4> QED
        BY <1>0, <2>0, <3>0, <4>1 DEF Cached
    <3>2. CASE g # f
      <4>1. (Done(f)' <=> Done(f)) /\ ver'[f] = ver[f]
        BY <1>0, <2>1, <3>0, <3>2 DEF Done, OnFile, NotifyCancel, TypeOK
      <4> QED
        BY <2>0, <3>0, <4>1 DEF Cached
    <3> QED
      BY <3>1, <3>2
  <2>2. CASE NotifySwap
    <3>0. UNCHANGED <<cache, hasKey, ver>> /\ notifier.pc = "swap" /\ notifier'.pc = "invalidate"
      BY <1>0, <2>2 DEF NotifySwap, Records
    <3>1. CASE notifier.change.file = f
      <4>1. pending'[f] # 0
        BY <1>0, <2>2, <3>1 DEF NotifySwap, Changed, OnFile, LastChange, TypeOK
      <4> QED
        BY <1>0, <2>0, <3>0, <4>1 DEF Cached, Done
    <3>2. CASE notifier.change.file # f
      <4>1. Done(f)' <=> Done(f)
        BY <1>0, <2>2, <3>0, <3>2 DEF NotifySwap, Done, OnFile, TypeOK
      <4> QED
        BY <2>0, <3>0, <4>1 DEF Cached
    <3> QED
      BY <3>1, <3>2
  <2>3. ASSUME NEW w \in Workers, WorkerComplete(w) PROVE Cached(f)'
    <3>0. UNCHANGED <<cache, hasKey, ver, notifier>>
      BY <2>3 DEF WorkerComplete
    <3>1. CASE worker[w].file = f
      <4>1. cache[f] = Incidents(ver[f]) /\ (hasKey \/ Incidents(ver[f]) = None)
        BY <1>0, <2>3, <3>1 DEF WorkerComplete, Progress
      <4> QED
        BY <1>0, <2>0, <3>0, <4>1 DEF Cached
    <3>2. CASE worker[w].file # f
      <4>1. Done(f)' <=> Done(f)
        BY <1>0, <2>3, <3>0, <3>2 DEF WorkerComplete, Done, OnFile, TypeOK
      <4> QED
        BY <2>0, <3>0, <4>1 DEF Cached
    <3> QED
      BY <3>1, <3>2
  <2>4. ASSUME ~NotifySwap, \A w \in Workers : ~WorkerComplete(w),
               \A g \in Files, saved \in BOOLEAN : ~NotifyCancel(g, saved)
        PROVE  Cached(f)'
    <3>0. UNCHANGED <<pending, ver>>
      BY <2>4, Frames
    <3>1. (OnFile(f)' /\ notifier'.pc = "swap") <=> (OnFile(f) /\ notifier.pc = "swap")
      BY <1>0, <2>4, Frames DEF NotifyGoOn, NotifyGiveUp, NotifyInvalidate, NotifySend,
         NotifyPass, IdleNotifier, OnFile, Records
    <3>2. Done(f)' <=> Done(f)
      BY <3>0, <3>1 DEF Done
    <3>3. ASSUME Done(f) PROVE cache'[f] = cache[f]
      <4>1. ~Completer(f)
        BY <1>0, <3>3 DEF Done
      <4>2. CASE NotifyInvalidate
        BY <1>0, <4>1, <4>2 DEF NotifyInvalidate, Completer, Notifying, OnFile, TypeOK
      <4>3. ASSUME NEW g \in Files, PrepareFile(g) PROVE cache'[f] = cache[f]
        BY <1>0, <1>2, <4>3 DEF PrepareFile, TypeOK
      <4>4. ASSUME NEW w \in Workers, WorkerInvalidate(w) \/ WorkerMerge(w)
            PROVE  cache'[f] = cache[f]
        <5>1. worker[w].file # f
          BY <4>1, <4>4 DEF WorkerInvalidate, WorkerMerge, Completer, Refreshing
        <5> QED
          BY <1>0, <4>4, <5>1 DEF WorkerInvalidate, WorkerMerge, TypeOK
      <4> QED
        BY <4>2, <4>3, <4>4, Frames
    <3> QED
      BY <1>0, <2>0, <3>0, <3>2, <3>3 DEF Cached
  <2> QED
    BY <2>1, <2>2, <2>3, <2>4
<1> QED
  BY <1>1, <1>2

LEMMA EvalStep ==
    ASSUME QueueInv, EvalKnows, [Next]_vars
    PROVE  EvalKnows'
<1> USE BuiltinAssumption
<1> USE DEF prepVars, cacheVars, pendVars, refreshVars, wcVars, fileVars, callVars
<1>0. TypeOK /\ Records /\ Holding /\ Changed /\ ClosedOnce
  BY DEF QueueInv
<1>1. ASSUME NEW g \in Files, NEW saved \in BOOLEAN, NotifyCancel(g, saved) PROVE EvalKnows'
  <2>1. /\ eval'.pc = eval.pc /\ eval'.due = eval.due /\ eval'.disturbed = TRUE
        /\ stopped' = stopped
    BY <1>0, <1>1 DEF NotifyCancel, Records
  <2>2. \A f \in Files : ver[f] \in Nat /\ ver'[f] \in {ver[f], ver[f] + 1}
    BY <1>0, <1>1 DEF NotifyCancel, TypeOK, Version
  <2>3. \A f \in Files : eval.due[f] \in Nat
    BY <1>0 DEF Records, Version
  <2>4. eval.pc # "idle" => \A f \in Files : eval'.due[f] <= ver'[f]
    BY <2>1, <2>2, <2>3 DEF EvalKnows
  <2> QED
    BY <2>1, <2>4 DEF EvalKnows
<1>2. CASE EvalBegin
  BY <1>0, <1>2 DEF EvalBegin, IdleEval, EvalKnows, Changed
<1>3. ASSUME NEW f \in Files, EvalLoad(f) PROVE EvalKnows'
  BY <1>0, <1>3 DEF EvalLoad, EvalKnows, Records
<1>4. CASE EvalWait
  BY <1>0, <1>4 DEF EvalWait, EvalKnows, Records, Holding, ClosedOnce
<1>5. CASE EvalHit \/ EvalMiss \/ EvalGiveUp
  <2>1. /\ eval.pc # "idle" /\ eval'.pc = "done" /\ eval'.due = eval.due
        /\ ~eval'.disturbed => ~eval.disturbed
        /\ UNCHANGED <<ver, stopped, notifier>>
    <3>1. CASE EvalHit
      BY <1>0, <3>1 DEF EvalHit, Records
    <3>2. CASE EvalMiss
      BY <1>0, <3>2 DEF EvalMiss, Records
    <3>3. CASE EvalGiveUp
      BY <1>0, <3>3 DEF EvalGiveUp, Records
    <3> QED
      BY <1>5, <3>1, <3>2, <3>3
  <2> QED
    BY <2>1 DEF EvalKnows
<1>6. CASE EvalReturn
  BY <1>6 DEF EvalReturn, IdleEval, EvalKnows
<1>7. ASSUME UNCHANGED eval, \A g \in Files, saved \in BOOLEAN : ~NotifyCancel(g, saved)
      PROVE  EvalKnows'
  <2> SUFFICES ASSUME eval.pc # "idle" PROVE EvalKnows'
    BY <1>7 DEF EvalKnows
  <2>1. ver' = ver /\ stopped' = stopped
    BY <1>7, Frames DEF Stop
  <2>2. ASSUME ~eval.disturbed
        PROVE  notifier'.pc = "idle" /\ \A f \in Files : pending'[f] \in {0, pending[f]}
    <3>1. notifier.pc = "idle"
      BY <2>2 DEF EvalKnows
    <3>2. ~NotifyGoOn /\ ~NotifyGiveUp /\ ~NotifySwap
      BY <3>1 DEF NotifyGoOn, NotifyGiveUp, NotifySwap, NotifyInvalidate, NotifySend, NotifyPass
    <3>3. notifier' = notifier
      BY <1>7, <3>2, Frames
    <3>4. ASSUME NEW w \in Workers, WorkerComplete(w)
          PROVE  \A f \in Files : pending'[f] \in {0, pending[f]}
      BY <1>0, <3>4 DEF WorkerComplete, TypeOK
    <3>5. \A f \in Files : pending'[f] \in {0, pending[f]}
      BY <3>2, <3>4, Frames
    <3> QED
      BY <3>1, <3>3, <3>5
  <2> QED
    BY <1>0, <1>7, <2>1, <2>2 DEF EvalKnows, Holding
<1> QED
  BY <1>1, <1>2, <1>3, <1>4, <1>5, <1>6, <1>7, Frames DEF EvalGoOn

LEMMA FreshStep ==
    ASSUME BuiltinInv, [Next]_vars
    PROVE  FreshWhenApart'
<1> USE BuiltinAssumption
<1> USE DEF prepVars, cacheVars, pendVars, refreshVars, wcVars, fileVars, callVars
<1> SUFFICES ASSUME NEW f \in Files, f \notin overlap', f \notin givenUp',
                    eval'.pc = "done", ~eval'.disturbed
             PROVE  Shows(f)'
  BY DEF FreshWhenApart
<1>0. /\ TypeOK /\ Records /\ Holding /\ Prepares /\ Changed /\ FreshWhenApart
      /\ f \notin overlap /\ f \notin givenUp
  <2>1. givenUp \subseteq givenUp'
    BY Frames DEF WcTake, NotifyGiveUp
  <2>2. overlap \subseteq overlap'
    BY Frames DEF NotifyCancel
  <2> QED
    BY <2>1, <2>2 DEF BuiltinInv, QueueInv
<1>1. ASSUME eval.pc = "files", eval.todo = {}, ~eval.disturbed
      PROVE  /\ Cached(f) /\ Done(f) /\ eval.due[f] \in Nat /\ eval.due[f] <= ver[f]
             /\ ver[f] \in Nat
  <2>1. /\ ~stopped /\ notifier.pc = "idle" /\ pending[f] = 0 /\ eval.due[f] <= ver[f]
    BY <1>1 DEF BuiltinInv, EvalKnows
  <2>2. prepared
    BY <1>0, <1>1 DEF Prepares
  <2> QED
    BY <1>0, <2>1, <2>2 DEF BuiltinInv, CacheCurrent, Apart, Done, TypeOK, Version, Records
<1>2. CASE EvalHit
  <2>1. /\ eval.pc = "files" /\ eval.todo = {} /\ ~eval.disturbed
        /\ eval'.saw = cache /\ eval'.due = eval.due /\ ver' = ver
    BY <1>0, <1>2 DEF EvalHit, Records
  <2>2. eval'.saw[f] = Incidents(ver[f])
    BY <1>1, <2>1 DEF Cached
  <2> QED
    BY <1>1, <2>1, <2>2 DEF Shows
<1>3. CASE EvalMiss
  <2>1. /\ eval.pc = "files" /\ eval.todo = {} /\ ~eval.disturbed /\ ~hasKey
        /\ eval'.saw = Walk /\ eval'.due = eval.due /\ ver' = ver
    BY <1>0, <1>3 DEF EvalMiss, Records
  <2>2. \A v \in Version : v <= ver[f] => Incidents(v) = None
    BY <1>1, <2>1 DEF Cached, Version
  <2>3. /\ wc[f] # None => wc[f] \in Version /\ wc[f] <= ver[f]
        /\ disk[f] \in Version /\ disk[f] <= ver[f]
        /\ ver[f] \in Version /\ ver[f] <= ver[f]
    BY <1>0 DEF TypeOK, Changed, Version
  <2>4. Walk[f] = None /\ Incidents(ver[f]) = None
    BY <2>2, <2>3 DEF Walk
  <2> QED
    BY <1>1, <2>1, <2>4 DEF Shows
<1>4. CASE eval' = eval
  <2>1. Shows(f) /\ ver[f] \in Nat /\ eval.due[f] \in Nat
    BY <1>0, <1>4 DEF FreshWhenApart, TypeOK, Records, Version
  <2>2. ver'[f] \in Nat /\ ver'[f] >= ver[f]
    <3>1. ASSUME NEW g \in Files, NEW saved \in BOOLEAN, NotifyCancel(g, saved) PROVE <2>2
      BY <1>0, <2>1, <3>1 DEF NotifyCancel, TypeOK
    <3> QED
      BY <2>1, <3>1, Frames
  <2> QED
    BY <1>4, <2>1, <2>2 DEF Shows
<1>5. ~EvalBegin /\ ~EvalReturn
  <2>1. EvalBegin => eval'.pc = "files"
    BY DEF EvalBegin, IdleEval
  <2>2. EvalReturn => eval'.pc = "idle"
    BY DEF EvalReturn, IdleEval
  <2> QED
    BY <2>1, <2>2
<1>6. ~EvalWait /\ ~EvalGiveUp
  BY <1>0 DEF EvalWait, EvalGiveUp, Records
<1>7. \A g \in Files : ~EvalLoad(g)
  BY <1>0 DEF EvalLoad, Records
<1>8. \A g \in Files, saved \in BOOLEAN : ~NotifyCancel(g, saved)
  BY <1>0 DEF NotifyCancel, Records
<1> QED
  BY <1>2, <1>3, <1>4, <1>5, <1>6, <1>7, <1>8, Frames DEF EvalGoOn

LEMMA BuiltinInit == Init => BuiltinInv
<1> SUFFICES ASSUME Init PROVE BuiltinInv
  OBVIOUS
<1> USE BuiltinAssumption
<1>1. QueueInv
  BY QueueInit
<1>2. /\ changesChan = <<>> /\ cacheRefreshChan = <<>> /\ notifier.pc = "idle"
      /\ wcWorker.pc = "idle" /\ \A w \in Workers : worker[w].file = None
      /\ \A f \in Files : active[f] = None
      /\ cancelled = {} /\ eval.pc = "idle" /\ ~prepared /\ preparing = None
      /\ None \notin Files
  BY DEF Init, IdleNotifier, IdleWorker, IdleEval
<1>3. \A f \in Files : /\ ~OnFile(f) /\ ~Queued(f) /\ ~QueuedUnsaved(f) /\ ~Writing(f)
                       /\ ~Requested(f) /\ ~Held(f) /\ ~Refreshing(f) /\ ~Notifying(f)
  BY <1>2 DEF OnFile, Queued, QueuedUnsaved, Writing, Requested, Held, Refreshing, Notifying
<1>4. OneAtATime
  BY <1>2, <1>3 DEF OneAtATime, Single, QueuedOnce, RequestedOnce, HeldOnce
<1>5. Sources
  BY <1>2, <1>3 DEF Sources, Sourced
<1>6. Cancels
  BY <1>2 DEF Cancels
<1>7. Refreshed
  BY <1>2, <1>3 DEF Refreshed, Completer
<1>8. CacheCurrent /\ EvalKnows /\ FreshWhenApart
  BY <1>2 DEF CacheCurrent, EvalKnows, FreshWhenApart
<1> QED
  BY <1>1, <1>4, <1>5, <1>6, <1>7, <1>8 DEF BuiltinInv

\* An answer of Evaluate shows every change notified before the call, for a
\* file whose changes came apart and were not given up, if no change was
\* notified during the call (incident_cache.go:141).
THEOREM AnswersFresh == Spec => []FreshWhenApart
<1>1. BuiltinInv /\ [Next]_vars => BuiltinInv'
  BY QueueStep, SingleStep, SourcesStep, CancelsStep, RefreshedStep, CacheStep, EvalStep,
     FreshStep DEF BuiltinInv
<1>2. BuiltinInv => FreshWhenApart
  BY DEF BuiltinInv
<1> QED
  BY BuiltinInit, <1>1, <1>2, PTL DEF Spec
=============================================================================
