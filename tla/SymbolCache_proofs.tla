------------------------ MODULE SymbolCache_proofs ------------------------
(***************************************************************************)
(* Proofs about SymbolCache, for any number of handlers, files and file    *)
(* changes and any capacity of the channel.                                *)
(***************************************************************************)
EXTENDS SymbolCache, FiniteSetTheorems, TLAPS

\* Calls of NotifyFileChanges that wait for room, handlers that hold an
\* update, and handlers that have not reported theirs.
Notifying  == {n \in Changes : note[n] = "sending"}
Holding    == {h \in Handlers : hfile[h] # NoFile}
Unreported == {h \in Handlers : hst[h] \in {"check", "read", "search", "report"}}

\* A handler holds a file between taking an update and finishing it, has a
\* version to store while it searches, and drains only after Stop.
HandlersHold ==
    \A h \in Handlers :
        /\ hfile[h] = NoFile <=> hst[h] \in {"select", "drain", "exited"}
        /\ hst[h] = "search" => hread[h] \in Nat
        /\ hst[h] \in {"drain", "exited"} => ctxDone

\* Prepare has URIs to send only while it sends.
PrepareHolds == prep # "sending" => toSend = {}

\* A file that does not exist has been removed.
GoneRemoved == gone \subseteq removed

\* An update of f is under way.
UnderWay(f) ==
    \/ f \in toSend
    \/ \E n \in Changes : note[n] = "sending" /\ FileOf[n] = f
    \/ \E k \in 1..Len(updateChan) : updateChan[k] = f
    \/ \E h \in Handlers : hfile[h] = f /\ hst[h] \in {"check", "read", "search"}

\* Every file whose update was counted is cached or its update under way.
CountedServed ==
    ~ctxDone => \A f \in Counted \ removed : ws[f] # Absent \/ UnderWay(f)

\* While Prepare sends, its files are reported or will be.
ProgressCounted ==
    prep = "sending" /\ ~ctxDone =>
        processed + Cardinality(toSend) + Len(updateChan)
          + Cardinality(Notifying) + Cardinality(Unreported)
        >= Cardinality(Prepared)

\* What Prepare and Evaluate rely on after they have waited.
PrepareServed ==
    ~ctxDone =>
        /\ prep = "prepared" => \A f \in Prepared \ Touched : ws[f] # Absent
        /\ prep = "prepared" => processed >= Cardinality(Prepared)

EvaluateServed ==
    ~ctxDone =>
        /\ eval = "reading" => \A f \in due \ removed : ws[f] # Absent
        /\ eval = "returned" => due \subseteq saw \union removed

CacheInv ==
    /\ TypeOK /\ UpdatesCounted /\ HandlersHold /\ PrepareHolds /\ GoneRemoved
    /\ CountedServed /\ ProgressCounted /\ PrepareServed /\ EvaluateServed

-----------------------------------------------------------------------------
(***************************************************************************)
(* Counting.                                                               *)
(***************************************************************************)

\* The sets that are counted are finite.
LEMMA Sizes ==
    ASSUME TypeOK
    PROVE  /\ IsFiniteSet(Prepared) /\ Cardinality(Prepared) \in Nat
           /\ IsFiniteSet(toSend) /\ Cardinality(toSend) \in Nat
           /\ IsFiniteSet(Notifying) /\ Cardinality(Notifying) \in Nat
           /\ IsFiniteSet(Holding) /\ Cardinality(Holding) \in Nat
           /\ IsFiniteSet(Unreported) /\ Cardinality(Unreported) \in Nat
           /\ updateChan \in Seq(Files) /\ Len(updateChan) \in Nat
<1>1. IsFiniteSet(Prepared)
  BY FS_Subset, CacheAssumption
<1>2. IsFiniteSet(toSend)
  BY <1>1, FS_Subset DEF TypeOK
<1>3. /\ Notifying \in SUBSET Changes /\ Holding \in SUBSET Handlers
      /\ Unreported \in SUBSET Handlers
  BY DEF Notifying, Holding, Unreported
<1>4. IsFiniteSet(Notifying) /\ IsFiniteSet(Holding) /\ IsFiniteSet(Unreported)
  BY <1>3, FS_Subset, CacheAssumption
<1>5. updateChan \in Seq(Files) /\ Len(updateChan) \in Nat
  BY DEF TypeOK
<1> QED
  BY <1>1, <1>2, <1>4, <1>5, FS_CardinalityType

\* A call of NotifyFileChanges begins or ends its send.
LEMMA NotifyingMoves ==
    ASSUME TypeOK, NEW n \in Changes,
           \A m \in Changes \ {n} : note'[m] = note[m]
    PROVE  /\ note'[n] = "sending" /\ note[n] # "sending" =>
                 Cardinality(Notifying') = Cardinality(Notifying) + 1
           /\ note'[n] # "sending" /\ note[n] = "sending" =>
                 Cardinality(Notifying') = Cardinality(Notifying) - 1
           /\ note'[n] # "sending" /\ note[n] # "sending" => Notifying' = Notifying
<1>1. note'[n] = "sending" /\ note[n] # "sending" =>
        Notifying' = Notifying \cup {n} /\ n \notin Notifying
  BY DEF Notifying
<1>2. note'[n] # "sending" /\ note[n] = "sending" =>
        Notifying' = Notifying \ {n} /\ n \in Notifying
  BY DEF Notifying
<1>3. note'[n] # "sending" /\ note[n] # "sending" => Notifying' = Notifying
  BY DEF Notifying
<1>4. IsFiniteSet(Notifying)
  BY Sizes
<1>5. note'[n] = "sending" /\ note[n] # "sending" =>
        Cardinality(Notifying') = Cardinality(Notifying) + 1
  BY <1>1, <1>4, FS_AddElement
<1>6. note'[n] # "sending" /\ note[n] = "sending" =>
        Cardinality(Notifying') = Cardinality(Notifying) - 1
  BY <1>2, <1>4, FS_RemoveElement
<1> QED
  BY <1>3, <1>5, <1>6

\* A handler takes an update or finishes it.
LEMMA HoldingMoves ==
    ASSUME TypeOK, NEW h \in Handlers,
           \A g \in Handlers \ {h} : hfile'[g] = hfile[g]
    PROVE  /\ hfile'[h] # NoFile /\ hfile[h] = NoFile =>
                 Cardinality(Holding') = Cardinality(Holding) + 1
           /\ hfile'[h] = NoFile /\ hfile[h] # NoFile =>
                 Cardinality(Holding') = Cardinality(Holding) - 1
<1>1. hfile'[h] # NoFile /\ hfile[h] = NoFile =>
        Holding' = Holding \cup {h} /\ h \notin Holding
  BY DEF Holding
<1>2. hfile'[h] = NoFile /\ hfile[h] # NoFile =>
        Holding' = Holding \ {h} /\ h \in Holding
  BY DEF Holding
<1>3. IsFiniteSet(Holding)
  BY Sizes
<1>4. hfile'[h] # NoFile /\ hfile[h] = NoFile =>
        Cardinality(Holding') = Cardinality(Holding) + 1
  BY <1>1, <1>3, FS_AddElement
<1>5. hfile'[h] = NoFile /\ hfile[h] # NoFile =>
        Cardinality(Holding') = Cardinality(Holding) - 1
  BY <1>2, <1>3, FS_RemoveElement
<1> QED
  BY <1>4, <1>5

\* The states of a handler whose update is not reported.
NotReported == {"check", "read", "search", "report"}

\* A handler takes an update or reports it.
LEMMA UnreportedMoves ==
    ASSUME TypeOK, NEW h \in Handlers,
           \A g \in Handlers \ {h} : hst'[g] = hst[g]
    PROVE  /\ hst'[h] \in NotReported /\ hst[h] \notin NotReported =>
                 Cardinality(Unreported') = Cardinality(Unreported) + 1
           /\ hst'[h] \notin NotReported /\ hst[h] \in NotReported =>
                 Cardinality(Unreported') = Cardinality(Unreported) - 1
           /\ (hst'[h] \in NotReported <=> hst[h] \in NotReported) =>
                 Unreported' = Unreported
<1>1. hst'[h] \in NotReported /\ hst[h] \notin NotReported =>
        Unreported' = Unreported \cup {h} /\ h \notin Unreported
  BY DEF Unreported, NotReported
<1>2. hst'[h] \notin NotReported /\ hst[h] \in NotReported =>
        Unreported' = Unreported \ {h} /\ h \in Unreported
  BY DEF Unreported, NotReported
<1>3. (hst'[h] \in NotReported <=> hst[h] \in NotReported) => Unreported' = Unreported
  BY DEF Unreported, NotReported
<1>4. IsFiniteSet(Unreported)
  BY Sizes
<1>5. hst'[h] \in NotReported /\ hst[h] \notin NotReported =>
        Cardinality(Unreported') = Cardinality(Unreported) + 1
  BY <1>1, <1>4, FS_AddElement
<1>6. hst'[h] \notin NotReported /\ hst[h] \in NotReported =>
        Cardinality(Unreported') = Cardinality(Unreported) - 1
  BY <1>2, <1>4, FS_RemoveElement
<1> QED
  BY <1>3, <1>5, <1>6

\* What the WaitGroup must count, term by term.
UpdatesDue == Cardinality(toSend) + Len(updateChan) + Cardinality(Notifying)
                + Cardinality(Holding)

ReportsDue == processed + Cardinality(toSend) + Len(updateChan)
                + Cardinality(Notifying) + Cardinality(Unreported)

LEMMA DueType ==
    ASSUME TypeOK
    PROVE  UpdatesDue \in Int /\ ReportsDue \in Int
<1>1. processed \in Nat
  BY DEF TypeOK
<1> QED
  BY <1>1, Sizes DEF UpdatesDue, ReportsDue

\* The invariant says what they are.
LEMMA DueCounted ==
    ASSUME CacheInv
    PROVE  /\ wg = UpdatesDue
           /\ prep = "sending" /\ ~ctxDone => ReportsDue >= Cardinality(Prepared)
  BY DEF CacheInv, UpdatesCounted, ProgressCounted, UpdatesDue, ReportsDue,
         Notifying, Holding

\* Both sums depend on these variables only.
LEMMA DueFrame ==
    ASSUME UNCHANGED <<toSend, updateChan, note, hfile>>
    PROVE  /\ UpdatesDue' = UpdatesDue
           /\ UNCHANGED <<processed, hst>> => ReportsDue' = ReportsDue
  BY DEF UpdatesDue, ReportsDue, Notifying, Holding, Unreported

\* Prepare: Add, the sends, the cancellation.
LEMMA PrepareDue ==
    ASSUME CacheInv, PrepareRest
    PROVE  /\ wg' = UpdatesDue'
           /\ prep' = "sending" /\ ~ctxDone => ReportsDue' >= Cardinality(Prepared)
<1>0. /\ TypeOK /\ wg \in Nat /\ processed \in Nat
      /\ Cardinality(Prepared) \in Nat /\ Cardinality(toSend) \in Nat
      /\ Cardinality(Notifying) \in Nat /\ Cardinality(Holding) \in Nat
      /\ Cardinality(Unreported) \in Nat /\ Len(updateChan) \in Nat
      /\ IsFiniteSet(toSend)
      /\ prep = "sending" /\ ~ctxDone => ReportsDue >= Cardinality(Prepared)
      /\ prep # "sending" => toSend = {}
      /\ UpdatesDue \in Int /\ wg = UpdatesDue
  BY Sizes, DueType, DueCounted DEF CacheInv, TypeOK, PrepareHolds
<1>1. UNCHANGED <<processed, hst, hfile, note>>
  BY DEF PrepareRest, PrepareAdd, PrepareSend, PrepareCancelled, PrepareReturns,
         hvars, cache
<1>2. Notifying' = Notifying /\ Holding' = Holding /\ Unreported' = Unreported
  BY <1>1 DEF Notifying, Holding, Unreported
<1>3. CASE PrepareAdd
  <2>1. /\ toSend' = Prepared /\ toSend = {} /\ updateChan' = updateChan
        /\ wg' = wg + Cardinality(Prepared)
    BY <1>0, <1>3 DEF PrepareAdd
  <2>2. /\ UpdatesDue = 0 + Len(updateChan) + Cardinality(Notifying)
                          + Cardinality(Holding)
        /\ UpdatesDue' = Cardinality(Prepared) + Len(updateChan)
                           + Cardinality(Notifying) + Cardinality(Holding)
    BY <1>2, <2>1, FS_EmptySet DEF UpdatesDue
  <2>3. ReportsDue' = processed + Cardinality(Prepared) + Len(updateChan)
                        + Cardinality(Notifying) + Cardinality(Unreported)
    BY <1>1, <1>2, <2>1 DEF ReportsDue
  <2>4. wg' = UpdatesDue'
    BY <1>0, <2>1, <2>2
  <2>5. ReportsDue' >= Cardinality(Prepared)
    BY <1>0, <2>3
  <2> QED
    BY <2>4, <2>5
<1>4. ASSUME NEW f \in Files, PrepareSend(f)
      PROVE  /\ wg' = UpdatesDue'
             /\ prep' = "sending" /\ ~ctxDone => ReportsDue' >= Cardinality(Prepared)
  <2>1. /\ toSend' = toSend \ {f} /\ f \in toSend /\ wg' = wg /\ prep' = prep
        /\ updateChan' = Append(updateChan, f)
    BY <1>4 DEF PrepareSend
  <2>2. Cardinality(toSend') = Cardinality(toSend) - 1
    BY <1>0, <2>1, FS_RemoveElement
  <2>3. Len(updateChan') = Len(updateChan) + 1
    BY <1>0, <2>1 DEF TypeOK
  <2>4. UpdatesDue' = UpdatesDue
    BY <1>0, <1>2, <2>2, <2>3 DEF UpdatesDue
  <2>s. ReportsDue' = processed + (Cardinality(toSend) - 1) + (Len(updateChan) + 1)
                        + Cardinality(Notifying) + Cardinality(Unreported)
    BY <1>1, <1>2, <2>2, <2>3 DEF ReportsDue
  <2>n. /\ processed \in Nat /\ Cardinality(toSend) \in Nat /\ Len(updateChan) \in Nat
        /\ Cardinality(Notifying) \in Nat /\ Cardinality(Unreported) \in Nat
    BY <1>0
  <2>5. ReportsDue' = ReportsDue
    BY <2>n, <2>s DEF ReportsDue
  <2>6. UpdatesDue \in Int
    BY <1>0 DEF UpdatesDue
  <2> QED
    BY <1>0, <2>1, <2>4, <2>5, <2>6
<1>5. CASE PrepareCancelled
  <2>1. /\ toSend' = {} /\ updateChan' = updateChan /\ prep' = "cancelled"
        /\ wg' = wg - Cardinality(toSend)
    BY <1>5 DEF PrepareCancelled
  <2> QED
    BY <1>0, <1>1, <1>2, <2>1, FS_EmptySet DEF UpdatesDue
<1>6. CASE PrepareReturns
  <2>1. UNCHANGED <<toSend, updateChan, wg>> /\ prep' = "prepared"
    BY <1>6 DEF PrepareReturns, cache
  <2> QED
    BY <1>0, <1>1, <1>2, <2>1 DEF UpdatesDue
<1> QED
  BY <1>3, <1>4, <1>5, <1>6 DEF PrepareRest

\* NotifyFileChanges: Add, the send, the cancellation.
LEMMA NotifyDue ==
    ASSUME CacheInv, NEW n \in Changes, Edit(n) \/ Invalidate(n) \/ Notify(n)
    PROVE  /\ wg' = UpdatesDue'
           /\ ~ctxDone => ReportsDue' \in Int /\ ReportsDue' >= ReportsDue
<1>0. /\ TypeOK /\ wg \in Nat /\ processed \in Nat
      /\ Cardinality(toSend) \in Nat
      /\ Cardinality(Notifying) \in Nat /\ Cardinality(Holding) \in Nat
      /\ Cardinality(Unreported) \in Nat /\ Len(updateChan) \in Nat
      /\ updateChan \in Seq(Files) /\ FileOf[n] \in Files
      /\ UpdatesDue \in Int /\ ReportsDue \in Int /\ wg = UpdatesDue
      /\ note \in [Changes -> {"idle", "edited", "invalidated", "sending",
                          "returned"}]
  BY Sizes, DueType, DueCounted, CacheAssumption DEF CacheInv, TypeOK
<1>1. UNCHANGED <<processed, hst, hfile, toSend>>
  BY DEF Edit, Invalidate, Notify, NotifyAdd, NotifySend, NotifyCancelled, hvars, pvars, cache
<1>2. Holding' = Holding /\ Unreported' = Unreported
  BY <1>1 DEF Holding, Unreported
<1>3. CASE Edit(n)
  <2>1. /\ note' = [note EXCEPT ![n] = "edited"] /\ note[n] = "idle"
        /\ UNCHANGED <<wg, updateChan>>
    BY <1>3 DEF Edit, cache
  <2>1a. /\ note'[n] = "edited" /\ note[n] = "idle"
         /\ \A m \in Changes \ {n} : note'[m] = note[m]
    BY <1>0, <2>1
  <2>2. Notifying' = Notifying
    BY <1>0, <2>1a, NotifyingMoves
  <2>3. UpdatesDue' = UpdatesDue /\ ReportsDue' = ReportsDue
    BY <1>1, <1>2, <2>1, <2>2 DEF UpdatesDue, ReportsDue
  <2> QED
    BY <1>0, <2>1, <2>3
<1>i. CASE Invalidate(n)
  <2>1. /\ note' = [note EXCEPT ![n] = "invalidated"] /\ note[n] = "edited"
        /\ UNCHANGED <<wg, updateChan>>
    BY <1>i DEF Invalidate
  <2>1a. /\ note'[n] = "invalidated" /\ note[n] = "edited"
         /\ \A m \in Changes \ {n} : note'[m] = note[m]
    BY <1>0, <2>1
  <2>2. Notifying' = Notifying
    BY <1>0, <2>1a, NotifyingMoves
  <2>3. UpdatesDue' = UpdatesDue /\ ReportsDue' = ReportsDue
    BY <1>1, <1>2, <2>1, <2>2 DEF UpdatesDue, ReportsDue
  <2> QED
    BY <1>0, <2>1, <2>3
<1>4. CASE NotifyAdd(n)
  <2>1. /\ note' = [note EXCEPT ![n] = "sending"] /\ note[n] = "invalidated"
        /\ wg' = wg + 1 /\ UNCHANGED updateChan
    BY <1>4 DEF NotifyAdd
  <2>1a. /\ note'[n] = "sending" /\ note[n] = "invalidated"
         /\ \A m \in Changes \ {n} : note'[m] = note[m]
    BY <1>0, <2>1
  <2>2. Cardinality(Notifying') = Cardinality(Notifying) + 1
    BY <1>0, <2>1a, NotifyingMoves
  <2>3. UpdatesDue' = UpdatesDue + 1
    BY <1>0, <1>1, <1>2, <2>1, <2>2 DEF UpdatesDue
  <2>4. ReportsDue' = ReportsDue + 1
    BY <1>0, <1>1, <1>2, <2>1, <2>2 DEF ReportsDue
  <2> QED
    BY <1>0, <2>1, <2>3, <2>4
<1>5. CASE NotifySend(n)
  <2>1. /\ note' = [note EXCEPT ![n] = "returned"] /\ note[n] = "sending"
        /\ wg' = wg /\ updateChan' = Append(updateChan, FileOf[n])
    BY <1>5 DEF NotifySend
  <2>1a. /\ note'[n] = "returned" /\ note[n] = "sending"
         /\ \A m \in Changes \ {n} : note'[m] = note[m]
    BY <1>0, <2>1
  <2>2. Cardinality(Notifying') = Cardinality(Notifying) - 1
    BY <1>0, <2>1a, NotifyingMoves
  <2>3. Len(updateChan') = Len(updateChan) + 1
    BY <1>0, <2>1
  <2>4. UpdatesDue' = UpdatesDue
    BY <1>0, <1>1, <1>2, <2>2, <2>3 DEF UpdatesDue
  <2>5. ReportsDue' = ReportsDue
    BY <1>0, <1>1, <1>2, <2>2, <2>3 DEF ReportsDue
  <2> QED
    BY <1>0, <2>1, <2>4, <2>5
<1>6. CASE NotifyCancelled(n)
  <2>1. /\ note' = [note EXCEPT ![n] = "returned"] /\ note[n] = "sending"
        /\ wg' = wg - 1 /\ UNCHANGED updateChan /\ ctxDone
    BY <1>6 DEF NotifyCancelled
  <2>1a. /\ note'[n] = "returned" /\ note[n] = "sending"
         /\ \A m \in Changes \ {n} : note'[m] = note[m]
    BY <1>0, <2>1
  <2>2. Cardinality(Notifying') = Cardinality(Notifying) - 1
    BY <1>0, <2>1a, NotifyingMoves
  <2>3. UpdatesDue' = UpdatesDue - 1
    BY <1>0, <1>1, <1>2, <2>1, <2>2 DEF UpdatesDue
  <2> QED
    BY <1>0, <2>1, <2>3
<1> QED
  BY <1>3, <1>i, <1>4, <1>5, <1>6 DEF Notify

\* The handlers: an update is taken, reported and finished, or drained.
LEMMA HandlerDue ==
    ASSUME CacheInv, NEW h \in Handlers, Handler(h)
    PROVE  /\ wg' = UpdatesDue'
           /\ ~ctxDone => ReportsDue' \in Int /\ ReportsDue' >= ReportsDue
<1>0. /\ TypeOK /\ wg \in Nat /\ processed \in Nat
      /\ Cardinality(toSend) \in Nat
      /\ Cardinality(Notifying) \in Nat /\ Cardinality(Holding) \in Nat
      /\ Cardinality(Unreported) \in Nat /\ Len(updateChan) \in Nat
      /\ updateChan \in Seq(Files)
      /\ UpdatesDue \in Int /\ ReportsDue \in Int /\ wg = UpdatesDue
      /\ hst \in [Handlers -> {"select", "check", "read", "search", "report",
                               "done", "drain", "exited"}]
      /\ hfile \in [Handlers -> Files \union {NoFile}]
  BY Sizes, DueType, DueCounted DEF CacheInv, TypeOK
<1>1. UNCHANGED <<toSend, note>>
  BY DEF Handler, TakeUpdate, Process, SkipUpdate, StartUpdate, ReadFile,
         ReadFileFails, StoreSymbols, ReportProgress, FinishUpdate, StartDrain,
         Drain, DrainEnds, pvars
<1>2. Notifying' = Notifying
  BY <1>1 DEF Notifying
<1>3. CASE TakeUpdate(h)
  <2>1. /\ hst' = [hst EXCEPT ![h] = "check"] /\ hst[h] = "select"
        /\ updateChan # <<>> /\ updateChan' = Tail(updateChan)
        /\ hfile' = [hfile EXCEPT ![h] = Head(updateChan)]
        /\ UNCHANGED <<wg, processed>>
    BY <1>3 DEF TakeUpdate, HandlerGoes
  <2>2. Len(updateChan') = Len(updateChan) - 1 /\ Head(updateChan) \in Files
    BY <1>0, <2>1
  <2>3. hfile[h] = NoFile /\ Head(updateChan) # NoFile
    BY <2>1, <2>2, CacheAssumption DEF CacheInv, HandlersHold
  <2>4. Cardinality(Holding') = Cardinality(Holding) + 1
    <3>1. /\ hfile'[h] # NoFile /\ hfile[h] = NoFile
          /\ \A g \in Handlers \ {h} : hfile'[g] = hfile[g]
      BY <1>0, <2>1, <2>3
    <3> QED
      BY <1>0, <3>1, HoldingMoves
  <2>5. Cardinality(Unreported') = Cardinality(Unreported) + 1
    <3>1. /\ hst'[h] \in NotReported /\ hst[h] \notin NotReported
          /\ \A g \in Handlers \ {h} : hst'[g] = hst[g]
      BY <1>0, <2>1 DEF NotReported
    <3> QED
      BY <1>0, <3>1, UnreportedMoves
  <2>6. UpdatesDue' = UpdatesDue
    BY <1>0, <1>1, <1>2, <2>2, <2>4 DEF UpdatesDue
  <2>7. ReportsDue' = ReportsDue
    BY <1>0, <1>1, <1>2, <2>1, <2>2, <2>5 DEF ReportsDue
  <2> QED
    BY <1>0, <2>1, <2>6, <2>7
<1>4. CASE ReportProgress(h)
  <2>1. /\ hst' = [hst EXCEPT ![h] = "done"] /\ hst[h] = "report"
        /\ processed' = processed + 1
        /\ UNCHANGED <<wg, updateChan, hfile>>
    BY <1>4 DEF ReportProgress, HandlerGoes
  <2>2. Cardinality(Unreported') = Cardinality(Unreported) - 1
    <3>1. /\ hst'[h] \notin NotReported /\ hst[h] \in NotReported
          /\ \A g \in Handlers \ {h} : hst'[g] = hst[g]
      BY <1>0, <2>1 DEF NotReported
    <3> QED
      BY <1>0, <3>1, UnreportedMoves
  <2>3. UpdatesDue' = UpdatesDue
    BY <1>1, <2>1, DueFrame
  <2>4. ReportsDue' = ReportsDue
    BY <1>0, <1>1, <1>2, <2>1, <2>2 DEF ReportsDue
  <2> QED
    BY <1>0, <2>1, <2>3, <2>4
<1>5. CASE FinishUpdate(h)
  <2>1. /\ hst' = [hst EXCEPT ![h] = "select"] /\ hst[h] = "done"
        /\ hfile' = [hfile EXCEPT ![h] = NoFile]
        /\ wg' = wg - 1 /\ UNCHANGED <<processed, updateChan>>
    BY <1>5 DEF FinishUpdate, HandlerGoes
  <2>2. hfile[h] # NoFile
    BY <2>1 DEF CacheInv, HandlersHold
  <2>3. Cardinality(Holding') = Cardinality(Holding) - 1
    <3>1. /\ hfile'[h] = NoFile /\ hfile[h] # NoFile
          /\ \A g \in Handlers \ {h} : hfile'[g] = hfile[g]
      BY <1>0, <2>1, <2>2
    <3> QED
      BY <1>0, <3>1, HoldingMoves
  <2>4. Unreported' = Unreported
    <3>1. /\ hst'[h] \notin NotReported /\ hst[h] \notin NotReported
          /\ \A g \in Handlers \ {h} : hst'[g] = hst[g]
      BY <1>0, <2>1 DEF NotReported
    <3> QED
      BY <1>0, <3>1, UnreportedMoves
  <2>5. UpdatesDue' = UpdatesDue - 1
    BY <1>0, <1>1, <1>2, <2>1, <2>3 DEF UpdatesDue
  <2>6. ReportsDue' = ReportsDue
    BY <1>1, <1>2, <2>1, <2>4 DEF ReportsDue
  <2> QED
    BY <1>0, <2>1, <2>5, <2>6
<1>6. CASE Drain(h)
  <2>1. /\ hst[h] = "drain" /\ UNCHANGED <<hst, hfile, processed>>
        /\ updateChan # <<>> /\ updateChan' = Tail(updateChan) /\ wg' = wg - 1
    BY <1>6 DEF Drain, hvars
  <2>2. ctxDone
    BY <2>1 DEF CacheInv, HandlersHold
  <2>3. Len(updateChan') = Len(updateChan) - 1
    BY <1>0, <2>1
  <2>4. Holding' = Holding
    BY <2>1 DEF Holding
  <2>s. UpdatesDue' = Cardinality(toSend) + (Len(updateChan) - 1) + Cardinality(Notifying)
                        + Cardinality(Holding)
    BY <1>1, <1>2, <2>3, <2>4 DEF UpdatesDue
  <2>n. /\ Cardinality(toSend) \in Nat /\ Len(updateChan) \in Nat
        /\ Cardinality(Notifying) \in Nat /\ Cardinality(Holding) \in Nat
    BY <1>0
  <2>5. UpdatesDue' = UpdatesDue - 1
    BY <2>n, <2>s DEF UpdatesDue
  <2> QED
    BY <1>0, <2>1, <2>2, <2>5
<1>7. CASE \/ SkipUpdate(h) \/ StartUpdate(h) \/ ReadFile(h) \/ ReadFileFails(h)
           \/ StoreSymbols(h) \/ StartDrain(h) \/ DrainEnds(h)
  <2>1. UNCHANGED <<wg, updateChan, hfile, processed>>
    BY <1>7 DEF SkipUpdate, StartUpdate, ReadFile, ReadFileFails, StoreSymbols,
                StartDrain, DrainEnds, cache
  <2>2. /\ \A g \in Handlers \ {h} : hst'[g] = hst[g]
        /\ hst'[h] \in NotReported <=> hst[h] \in NotReported
    BY <1>0, <1>7 DEF SkipUpdate, StartUpdate, ReadFile, ReadFileFails, StoreSymbols,
                StartDrain, DrainEnds, HandlerGoes, NotReported
  <2>3. Unreported' = Unreported
    BY <1>0, <2>2, UnreportedMoves
  <2>4. UpdatesDue' = UpdatesDue
    BY <1>1, <2>1, DueFrame
  <2>5. ReportsDue' = ReportsDue
    BY <1>1, <1>2, <2>1, <2>3 DEF ReportsDue
  <2> QED
    BY <1>0, <2>1, <2>4, <2>5
<1> QED
  BY <1>3, <1>4, <1>5, <1>6, <1>7 DEF Handler, Process

\* The steps of Prepare's check, of Evaluate and of Stop count nothing.
LEMMA OtherSteps ==
    ASSUME [Next]_vars
    PROVE  \/ /\ UNCHANGED <<disk, cache, hvars, toSend, note>>
              /\ \/ UNCHANGED <<prep, evars>>
                 \/ PrepareCheck \/ Evaluate \/ EvaluateWait \/ EvaluateRead
              /\ ctxDone => ctxDone'
           \/ PrepareRest /\ UNCHANGED <<disk, note, evars, ctxDone, ws, hvars>>
           \/ \E n \in Changes : /\ Edit(n) \/ Invalidate(n) \/ Notify(n)
                                 /\ UNCHANGED <<pvars, hvars, eval, saw, ctxDone>>
           \/ \E h \in Handlers : Handler(h) /\ UNCHANGED <<disk, pvars, note, evars, ctxDone>>
<1>1. CASE UNCHANGED vars
  BY <1>1 DEF vars, pvars
<1>2. CASE PrepareCheck \/ Evaluate \/ EvaluateWait \/ EvaluateRead \/ Stop \/ StopReturns
  BY <1>2 DEF PrepareCheck, Evaluate, EvaluateWait, EvaluateRead, Stop,
              StopReturns, pvars
<1>3. CASE PrepareRest
  BY <1>3 DEF PrepareRest, PrepareAdd, PrepareSend, PrepareCancelled,
              PrepareReturns, cache
<1>4. CASE \E n \in Changes : Edit(n) \/ Invalidate(n) \/ Notify(n)
  BY <1>4 DEF Edit, Invalidate, Notify, NotifyAdd, NotifySend, NotifyCancelled, evars
<1>5. CASE \E h \in Handlers : Handler(h)
  BY <1>5 DEF Handler, TakeUpdate, Process, SkipUpdate, StartUpdate, ReadFile,
         ReadFileFails, StoreSymbols, ReportProgress, FinishUpdate, StartDrain,
         Drain, DrainEnds
<1> QED
  BY <1>1, <1>2, <1>3, <1>4, <1>5 DEF Next

LEMMA CountedPreserved ==
    ASSUME CacheInv, [Next]_vars
    PROVE  UpdatesCounted' /\ ProgressCounted'
<1>0. /\ UpdatesDue \in Int /\ ReportsDue \in Int /\ Cardinality(Prepared) \in Nat
      /\ wg = UpdatesDue
      /\ prep = "sending" /\ ~ctxDone => ReportsDue >= Cardinality(Prepared)
  BY Sizes, DueType, DueCounted DEF CacheInv
<1> DEFINE Goal == /\ wg' = UpdatesDue'
                   /\ prep' = "sending" /\ ~ctxDone' => ReportsDue' >= Cardinality(Prepared)
<1>1. SUFFICES Goal
  BY DEF UpdatesCounted, ProgressCounted, UpdatesDue, ReportsDue, Notifying, Holding
<1>2. CASE /\ UNCHANGED <<disk, cache, hvars, toSend, note>>
           /\ \/ UNCHANGED <<prep, evars>>
              \/ PrepareCheck \/ Evaluate \/ EvaluateWait \/ EvaluateRead
           /\ ctxDone => ctxDone'
  <2>1. UpdatesDue' = UpdatesDue /\ ReportsDue' = ReportsDue /\ wg' = wg
    BY <1>2, DueFrame DEF cache, hvars
  <2>2. prep' = "sending" => prep = "sending"
    BY <1>2 DEF PrepareCheck, Evaluate, EvaluateWait, EvaluateRead, pvars
  <2> QED
    BY <1>0, <1>2, <2>1, <2>2
<1>3. CASE PrepareRest /\ ctxDone' = ctxDone
  BY <1>3, PrepareDue
<1>4. ASSUME NEW n \in Changes, Edit(n) \/ Invalidate(n) \/ Notify(n),
             UNCHANGED <<pvars, ctxDone>>
      PROVE  Goal
  BY <1>0, <1>4, NotifyDue DEF pvars
<1>5. ASSUME NEW h \in Handlers, Handler(h), UNCHANGED <<pvars, ctxDone>>
      PROVE  Goal
  BY <1>0, <1>5, HandlerDue DEF pvars
<1> QED
  BY <1>2, <1>3, <1>4, <1>5, OtherSteps

-----------------------------------------------------------------------------
(***************************************************************************)
(* The other parts of the invariant.                                       *)
(***************************************************************************)

\* The update that a handler takes or drains.
LEMMA HeadOfChan ==
    ASSUME TypeOK, updateChan # <<>>
    PROVE  /\ Head(updateChan) \in Files /\ Head(updateChan) = updateChan[1]
           /\ Tail(updateChan) \in Seq(Files)
           /\ Len(updateChan) \in Nat \ {0}
           /\ Len(Tail(updateChan)) = Len(updateChan) - 1
           /\ \A k \in 1..Len(Tail(updateChan)) :
                 Tail(updateChan)[k] = updateChan[k + 1]
  BY DEF TypeOK

LEMMA TypePreserved ==
    ASSUME CacheInv, [Next]_vars
    PROVE  TypeOK'
<1>0. TypeOK /\ HandlersHold
  BY DEF CacheInv
<1> DEFINE Rest ==
      /\ version' \in [Files -> Nat] /\ gone' \subseteq Files /\ removed' \subseteq Files
      /\ ws' \in [Files -> Nat \union {Absent}]
      /\ updateChan' \in Seq(Files) /\ Len(updateChan') =< ChanSize
      /\ processed' \in Nat
      /\ hst' \in [Handlers -> {"select", "check", "read", "search", "report", "done",
                               "drain", "exited"}]
      /\ hfile' \in [Handlers -> Files \union {NoFile}]
      /\ hread' \in [Handlers -> Nat \union {Absent}]
      /\ toSend' \subseteq Prepared
      /\ note' \in [Changes -> {"idle", "edited", "invalidated", "sending",
                          "returned"}]
      /\ due' \subseteq Files /\ saw' \subseteq Files
<1>1. Rest
  <2>1. CASE UNCHANGED vars
    BY <1>0, <2>1 DEF TypeOK, vars, disk, cache, hvars, pvars, evars
  <2>2. CASE PrepareCheck \/ Evaluate \/ EvaluateRead \/ Stop \/ StopReturns
    BY <1>0, <2>2 DEF PrepareCheck, Evaluate, EvaluateRead, Stop, StopReturns,
          TypeOK, disk, cache, hvars, pvars, evars
  <2>3. CASE EvaluateWait
    <3>1. Counted \subseteq Files
      BY CacheAssumption DEF Counted, FilesAt
    <3> QED
      BY <1>0, <2>3, <3>1 DEF EvaluateWait, TypeOK, disk, cache, hvars, pvars
  <2>4. CASE PrepareAdd \/ PrepareCancelled \/ PrepareReturns
    BY <1>0, <2>4 DEF PrepareAdd, PrepareCancelled, PrepareReturns, TypeOK, disk,
          cache, hvars, evars
  <2>5. ASSUME NEW f \in Files, PrepareSend(f) PROVE Rest
    <3>1. Append(updateChan, f) \in Seq(Files) /\ Len(Append(updateChan, f)) =< ChanSize
      BY <1>0, <2>5, CacheAssumption DEF PrepareSend, TypeOK
    <3> QED
      BY <1>0, <2>5, <3>1 DEF PrepareSend, TypeOK, disk, hvars, evars
  <2>6. ASSUME NEW n \in Changes, Edit(n) PROVE Rest
    <3>1. FileOf[n] \in Files
      BY CacheAssumption
    <3> QED
      BY <1>0, <2>6, <3>1 DEF Edit, TypeOK, cache, hvars, pvars, evars
  <2>7. ASSUME NEW n \in Changes, Invalidate(n) PROVE Rest
    BY <1>0, <2>7 DEF Invalidate, TypeOK, disk, hvars, pvars
  <2>a. ASSUME NEW n \in Changes, NotifyAdd(n) PROVE Rest
    BY <1>0, <2>a DEF NotifyAdd, TypeOK, disk, hvars, pvars, evars
  <2>8. ASSUME NEW n \in Changes, NotifySend(n) PROVE Rest
    <3>0. FileOf[n] \in Files
      BY CacheAssumption
    <3>1. /\ Append(updateChan, FileOf[n]) \in Seq(Files)
          /\ Len(Append(updateChan, FileOf[n])) =< ChanSize
      BY <1>0, <2>8, <3>0, CacheAssumption DEF NotifySend, TypeOK
    <3> QED
      BY <1>0, <2>8, <3>1 DEF NotifySend, TypeOK, disk, hvars, pvars, evars
  <2>9. ASSUME NEW n \in Changes, NotifyCancelled(n) PROVE Rest
    BY <1>0, <2>9 DEF NotifyCancelled, TypeOK, disk, hvars, pvars, evars
  <2>10. ASSUME NEW h \in Handlers, TakeUpdate(h) \/ Drain(h) PROVE Rest
    <3>1. updateChan # <<>> /\ updateChan' = Tail(updateChan)
      BY <2>10 DEF TakeUpdate, Drain
    <3>2. updateChan' \in Seq(Files) /\ Len(updateChan') =< ChanSize
      BY <1>0, <3>1, HeadOfChan, CacheAssumption DEF TypeOK
    <3>3. Head(updateChan) \in Files
      BY <1>0, <3>1, HeadOfChan
    <3>4. /\ hst' = hst \/ hst' = [hst EXCEPT ![h] = "check"]
          /\ hfile' = hfile \/ hfile' = [hfile EXCEPT ![h] = Head(updateChan)]
          /\ UNCHANGED <<version, gone, removed, ws, processed, hread, toSend, note, due, saw>>
      BY <2>10 DEF TakeUpdate, Drain, HandlerGoes, disk, hvars, pvars, evars
    <3>5. hst' \in [Handlers -> {"select", "check", "read", "search", "report", "done",
                                "drain", "exited"}]
      BY <1>0, <3>4 DEF TypeOK
    <3>6. hfile' \in [Handlers -> Files \union {NoFile}]
      BY <1>0, <3>3, <3>4 DEF TypeOK
    <3> QED
      BY <1>0, <3>2, <3>4, <3>5, <3>6 DEF TypeOK
  <2>11. ASSUME NEW h \in Handlers, SkipUpdate(h) \/ StartUpdate(h) \/ ReadFileFails(h)
         PROVE  Rest
    BY <1>0, <2>11 DEF SkipUpdate, StartUpdate, ReadFileFails, HandlerGoes,
          TypeOK, disk, cache, pvars, evars
  <2>12. ASSUME NEW h \in Handlers, ReadFile(h) PROVE Rest
    <3>1. hfile[h] \in Files
      BY <1>0, <2>12 DEF ReadFile, HandlerGoes, HandlersHold, TypeOK
    <3> QED
      BY <1>0, <2>12, <3>1 DEF ReadFile, HandlerGoes, TypeOK, disk, cache, pvars, evars
  <2>13. ASSUME NEW h \in Handlers, StoreSymbols(h) PROVE Rest
    BY <1>0, <2>13 DEF StoreSymbols, HandlerGoes, TypeOK, disk, pvars, evars
  <2>14. ASSUME NEW h \in Handlers, ReportProgress(h) \/ FinishUpdate(h) PROVE Rest
    <3>1. CASE ReportProgress(h)
      BY <1>0, <3>1 DEF ReportProgress, HandlerGoes, TypeOK, disk, pvars, evars
    <3>2. CASE FinishUpdate(h)
      BY <1>0, <3>2 DEF FinishUpdate, HandlerGoes, TypeOK, disk, pvars, evars
    <3> QED
      BY <2>14, <3>1, <3>2
  <2>15. ASSUME NEW h \in Handlers, StartDrain(h) \/ DrainEnds(h) PROVE Rest
    BY <1>0, <2>15 DEF StartDrain, DrainEnds, HandlerGoes, TypeOK, disk, cache,
          pvars, evars
  <2> QED
    BY <2>1, <2>2, <2>3, <2>4, <2>5, <2>6, <2>7, <2>a, <2>8, <2>9, <2>10, <2>11, <2>12,
       <2>13, <2>14, <2>15 DEF Next, PrepareRest, Notify, Handler, Process
<1>2. /\ ctxDone' \in BOOLEAN /\ stopMode' \in StopModes
      /\ stop' \in {"idle", "waiting", "stopped"}
  <2>1. \/ UNCHANGED <<ctxDone, stopMode, stop>>
        \/ Stop \/ StopReturns
    BY DEF Next, vars, svars, PrepareCheck, PrepareRest, PrepareAdd, PrepareSend,
           PrepareCancelled, PrepareReturns, Edit, Invalidate, Notify, NotifyAdd, NotifySend,
           NotifyCancelled, Handler, TakeUpdate, Process, SkipUpdate, StartUpdate,
           ReadFile, ReadFileFails, StoreSymbols, ReportProgress, FinishUpdate,
           StartDrain, Drain, DrainEnds, Evaluate, EvaluateWait, EvaluateRead
  <2> QED
    BY <1>0, <2>1 DEF TypeOK, Stop, StopReturns
<1>3. /\ prep' \in {"idle", "failed", "checked", "sending", "cancelled", "prepared"}
      /\ eval' \in {"idle", "waiting", "reading", "returned"}
  <2>1. CASE UNCHANGED <<prep, evars>>
    BY <1>0, <2>1 DEF TypeOK, evars
  <2>2. CASE PrepareCheck \/ PrepareRest
    BY <1>0, <2>2 DEF PrepareCheck, PrepareRest, PrepareAdd, PrepareSend,
          PrepareCancelled, PrepareReturns, TypeOK, evars
  <2>3. CASE Evaluate \/ EvaluateWait \/ EvaluateRead
    BY <1>0, <2>3 DEF Evaluate, EvaluateWait, EvaluateRead, TypeOK, pvars
  <2>4. CASE UNCHANGED <<prep, eval>>
    BY <1>0, <2>4 DEF TypeOK
  <2> QED
    BY <2>1, <2>2, <2>3, <2>4, OtherSteps DEF pvars, evars
<1>4. wg' \in Nat
  <2>1. /\ toSend' \in SUBSET Prepared /\ Notifying' \in SUBSET Changes
        /\ Holding' \in SUBSET Handlers
    BY <1>1 DEF Notifying, Holding
  <2>2. IsFiniteSet(Prepared)
    BY FS_Subset, CacheAssumption
  <2>3. IsFiniteSet(toSend') /\ IsFiniteSet(Notifying') /\ IsFiniteSet(Holding')
    BY <2>1, <2>2, FS_Subset, CacheAssumption
  <2>4. /\ Cardinality(toSend') \in Nat /\ Cardinality(Notifying') \in Nat
        /\ Cardinality(Holding') \in Nat /\ Len(updateChan') \in Nat
    BY <1>1, <2>3, FS_CardinalityType
  <2>5. wg' = Cardinality(toSend') + Len(updateChan') + Cardinality(Notifying')
                + Cardinality(Holding')
    BY CountedPreserved DEF UpdatesCounted, Notifying, Holding
  <2> QED
    BY <2>4, <2>5
<1> QED
  BY <1>1, <1>2, <1>3, <1>4 DEF TypeOK

\* A change goes on and never back.
LEMMA NotesAdvance ==
    ASSUME CacheInv, [Next]_vars
    PROVE  removed \subseteq removed' /\ Touched \subseteq Touched'
<1>0. note \in [Changes -> {"idle", "edited", "invalidated", "sending", "returned"}]
  BY DEF CacheInv, TypeOK
<1>1. CASE UNCHANGED <<note, removed>>
  BY <1>1 DEF Touched, FilesAt
<1>2. ASSUME NEW n \in Changes, Edit(n) \/ Invalidate(n) \/ Notify(n)
      PROVE  removed \subseteq removed' /\ Touched \subseteq Touched'
  <2>1. PICK st \in {"edited", "invalidated", "sending", "returned"} :
          /\ note' = [note EXCEPT ![n] = st]
          /\ st = "edited" => note[n] = "idle"
    BY <1>2 DEF Edit, Invalidate, Notify, NotifyAdd, NotifySend, NotifyCancelled
  <2>2. \A m \in Changes :
          note[m] \in {"invalidated", "sending", "returned"} =>
                note'[m] \in {"invalidated", "sending", "returned"}
    BY <1>0, <2>1
  <2>3. removed \subseteq removed'
    BY <1>2 DEF Edit, Invalidate, Notify, NotifyAdd, NotifySend, NotifyCancelled, disk
  <2> QED
    BY <2>2, <2>3 DEF Touched, FilesAt
<1> QED
  BY <1>1, <1>2, OtherSteps DEF disk

LEMMA HoldsPreserved ==
    ASSUME CacheInv, [Next]_vars
    PROVE  HandlersHold' /\ PrepareHolds' /\ GoneRemoved'
<1>0. /\ TypeOK /\ HandlersHold /\ PrepareHolds /\ GoneRemoved
      /\ hst \in [Handlers -> {"select", "check", "read", "search", "report",
                               "done", "drain", "exited"}]
      /\ hfile \in [Handlers -> Files \union {NoFile}]
      /\ hread \in [Handlers -> Nat \union {Absent}]
  BY DEF CacheInv, TypeOK
<1>1. HandlersHold'
  <2>1. CASE UNCHANGED hvars /\ (ctxDone => ctxDone')
    BY <1>0, <2>1 DEF HandlersHold, hvars
  <2>2. ASSUME NEW h \in Handlers, TakeUpdate(h), ctxDone' = ctxDone
        PROVE  HandlersHold'
    BY <1>0, <2>2, HeadOfChan, CacheAssumption DEF TakeUpdate, HandlerGoes, HandlersHold
  <2>3. ASSUME NEW h \in Handlers, ctxDone' = ctxDone,
               \/ SkipUpdate(h) \/ StartUpdate(h) \/ ReadFileFails(h)
               \/ StoreSymbols(h) \/ ReportProgress(h)
        PROVE  HandlersHold'
    BY <1>0, <2>3 DEF SkipUpdate, StartUpdate, ReadFileFails, StoreSymbols,
          ReportProgress, HandlerGoes, HandlersHold
  <2>4. ASSUME NEW h \in Handlers, ReadFile(h), ctxDone' = ctxDone
        PROVE  HandlersHold'
    <3>1. version[hfile[h]] \in Nat
      BY <1>0, <2>4 DEF ReadFile, HandlerGoes, HandlersHold, TypeOK
    <3> QED
      BY <1>0, <2>4, <3>1 DEF ReadFile, HandlerGoes, HandlersHold
  <2>5. ASSUME NEW h \in Handlers, ctxDone' = ctxDone,
               FinishUpdate(h) \/ StartDrain(h) \/ DrainEnds(h)
        PROVE  HandlersHold'
    BY <1>0, <2>5 DEF FinishUpdate, StartDrain, DrainEnds, HandlerGoes, HandlersHold
  <2>6. ASSUME NEW h \in Handlers, Drain(h), ctxDone' = ctxDone
        PROVE  HandlersHold'
    BY <2>1, <2>6 DEF Drain
  <2> QED
    BY <2>1, <2>2, <2>3, <2>4, <2>5, <2>6, OtherSteps DEF Handler, Process, hvars
<1>2. PrepareHolds'
  <2>1. CASE UNCHANGED pvars
    BY <1>0, <2>1 DEF PrepareHolds, pvars
  <2>2. CASE PrepareCheck
    BY <1>0, <2>2 DEF PrepareCheck, PrepareHolds
  <2>3. CASE PrepareRest
    BY <1>0, <2>3 DEF PrepareRest, PrepareAdd, PrepareSend, PrepareCancelled,
          PrepareReturns, PrepareHolds
  <2> QED
    BY <2>1, <2>2, <2>3, OtherSteps DEF pvars, Evaluate, EvaluateWait, EvaluateRead
<1>3. GoneRemoved'
  <2>1. CASE UNCHANGED gone
    BY <1>0, <2>1, NotesAdvance DEF GoneRemoved
  <2>2. ASSUME NEW n \in Changes, Edit(n) PROVE GoneRemoved'
    BY <1>0, <2>2 DEF Edit, GoneRemoved
  <2>3. ASSUME NEW n \in Changes, Invalidate(n) \/ Notify(n) PROVE UNCHANGED gone
    BY <2>3 DEF Invalidate, Notify, NotifyAdd, NotifySend, NotifyCancelled, disk
  <2> QED
    BY <2>1, <2>2, <2>3, OtherSteps DEF disk
<1> QED
  BY <1>1, <1>2, <1>3

\* A sent update is in the channel, and stays there until it is taken.
LEMMA ChanAppend ==
    ASSUME TypeOK, NEW g \in Files, updateChan' = Append(updateChan, g)
    PROVE  /\ \E k \in 1..Len(updateChan') : updateChan'[k] = g
           /\ \A f : (\E k \in 1..Len(updateChan) : updateChan[k] = f) =>
                     (\E k \in 1..Len(updateChan') : updateChan'[k] = f)
<1>1. /\ Len(updateChan) \in Nat /\ Len(updateChan') = Len(updateChan) + 1
      /\ updateChan'[Len(updateChan) + 1] = g
      /\ \A k \in 1..Len(updateChan) : updateChan'[k] = updateChan[k]
  BY DEF TypeOK
<1> QED
  BY <1>1

LEMMA ChanTail ==
    ASSUME TypeOK, updateChan # <<>>, updateChan' = Tail(updateChan), NEW f,
           NEW k \in 1..Len(updateChan), updateChan[k] = f
    PROVE  \/ f = Head(updateChan)
           \/ \E j \in 1..Len(updateChan') : updateChan'[j] = f
<1>1. CASE k = 1
  BY <1>1, HeadOfChan
<1>2. CASE k # 1
  <2>1. k - 1 \in 1..Len(updateChan') /\ updateChan'[k - 1] = updateChan[k]
    BY <1>2, HeadOfChan
  <2> QED
    BY <2>1
<1> QED
  BY <1>1, <1>2

\* An update under way stays under way until its file is cached, unless the
\* file is removed or the client stopped.
LEMMA UnderWayServed ==
    ASSUME CacheInv, [Next]_vars, ~ctxDone', NEW f \in Files \ removed, UnderWay(f)
    PROVE  ws'[f] # Absent \/ UnderWay(f)'
<1>0. /\ TypeOK /\ HandlersHold /\ GoneRemoved /\ PrepareHolds /\ ~ctxDone
      /\ hst \in [Handlers -> {"select", "check", "read", "search", "report",
                               "done", "drain", "exited"}]
      /\ hfile \in [Handlers -> Files \union {NoFile}]
      /\ note \in [Changes -> {"idle", "edited", "invalidated", "sending",
                          "returned"}]
      /\ ws \in [Files -> Nat \union {Absent}]
      /\ f \in Files /\ f \notin gone
  BY OtherSteps DEF CacheInv, TypeOK, GoneRemoved
<1>1. CASE UNCHANGED <<cache, hvars, toSend, note>>
  BY <1>1 DEF UnderWay, cache, hvars
<1>2. CASE PrepareRest /\ UNCHANGED <<note, hvars>>
  <2>1. CASE PrepareAdd
    BY <1>0, <1>2, <2>1 DEF PrepareAdd, UnderWay, hvars, PrepareHolds
  <2>2. ASSUME NEW g \in Files, PrepareSend(g) PROVE UnderWay(f)'
    <3>1. toSend' = toSend \ {g} /\ updateChan' = Append(updateChan, g)
      BY <2>2 DEF PrepareSend
    <3> QED
      BY <1>0, <1>2, <3>1, ChanAppend DEF UnderWay, hvars
  <2>3. ~PrepareCancelled
    BY <1>0 DEF PrepareCancelled
  <2>4. CASE PrepareReturns
    BY <1>1, <1>2, <2>4 DEF PrepareReturns
  <2> QED
    BY <1>2, <2>1, <2>2, <2>3, <2>4 DEF PrepareRest
<1>3. ASSUME NEW n \in Changes, Edit(n) \/ Invalidate(n) \/ Notify(n),
             UNCHANGED <<pvars, hvars>>
      PROVE  UnderWay(f)'
  <2>1. CASE Edit(n) \/ Invalidate(n) \/ NotifyAdd(n)
    BY <1>0, <1>3, <2>1 DEF Edit, Invalidate, NotifyAdd, UnderWay, pvars, hvars, cache
  <2>2. CASE NotifySend(n)
    <3>1. /\ updateChan' = Append(updateChan, FileOf[n]) /\ FileOf[n] \in Files
          /\ note' = [note EXCEPT ![n] = "returned"]
      BY <2>2, CacheAssumption DEF NotifySend
    <3>2. CASE FileOf[n] = f
      BY <1>0, <3>1, <3>2, ChanAppend DEF UnderWay
    <3>3. CASE FileOf[n] # f
      <4>1. \A m \in Changes : note[m] = "sending" /\ FileOf[m] = f => note'[m] = "sending"
        BY <1>0, <3>1, <3>3
      <4>2. (\E k \in 1..Len(updateChan) : updateChan[k] = f) =>
            (\E k \in 1..Len(updateChan') : updateChan'[k] = f)
        BY <1>0, <3>1, ChanAppend
      <4> QED
        BY <1>3, <4>1, <4>2 DEF UnderWay, pvars, hvars
    <3> QED
      BY <3>2, <3>3
  <2>3. ~NotifyCancelled(n)
    BY <1>0 DEF NotifyCancelled
  <2> QED
    BY <1>3, <2>1, <2>2, <2>3 DEF Notify
<1>4. ASSUME NEW h \in Handlers, Handler(h), UNCHANGED <<pvars, note>>
      PROVE  ws'[f] # Absent \/ UnderWay(f)'
  <2>1. CASE TakeUpdate(h)
    <3>1. /\ hst' = [hst EXCEPT ![h] = "check"] /\ hst[h] = "select"
          /\ hfile' = [hfile EXCEPT ![h] = Head(updateChan)]
          /\ updateChan # <<>> /\ updateChan' = Tail(updateChan)
      BY <2>1 DEF TakeUpdate, HandlerGoes
    <3>2. CASE \E k \in 1..Len(updateChan) : updateChan[k] = f
      <4>1. \/ f = Head(updateChan)
            \/ \E j \in 1..Len(updateChan') : updateChan'[j] = f
        BY <1>0, <3>1, <3>2, ChanTail
      <4>2. hfile'[h] = Head(updateChan) /\ hst'[h] = "check"
        BY <1>0, <3>1
      <4> QED
        BY <4>1, <4>2 DEF UnderWay
    <3>3. CASE \E g \in Handlers : hfile[g] = f /\ hst[g] \in {"check", "read", "search"}
      BY <1>0, <3>1, <3>3 DEF UnderWay
    <3> QED
      BY <1>4, <3>2, <3>3 DEF UnderWay, pvars
  <2>2. CASE SkipUpdate(h)
    <3>1. CASE hfile[h] = f
      BY <1>0, <2>2, <3>1 DEF SkipUpdate, cache
    <3>2. CASE hfile[h] # f
      BY <1>0, <1>4, <2>2, <3>2 DEF SkipUpdate, HandlerGoes, UnderWay, cache, pvars
    <3> QED
      BY <3>1, <3>2
  <2>3. CASE StartUpdate(h) \/ ReadFile(h)
    BY <1>0, <1>4, <2>3 DEF StartUpdate, ReadFile, HandlerGoes, UnderWay, cache, pvars
  <2>4. CASE ReadFileFails(h)
    BY <1>0, <1>4, <2>4 DEF ReadFileFails, HandlerGoes, UnderWay, cache, pvars
  <2>5. CASE StoreSymbols(h)
    <3>1. hread[h] \in Nat /\ Absent \notin Nat
      BY <1>0, <2>5, CacheAssumption DEF StoreSymbols, HandlerGoes, HandlersHold
    <3>2. CASE hfile[h] = f
      BY <1>0, <2>5, <3>1, <3>2 DEF StoreSymbols
    <3>3. CASE hfile[h] # f
      BY <1>0, <1>4, <2>5, <3>3 DEF StoreSymbols, HandlerGoes, UnderWay, pvars
    <3> QED
      BY <3>2, <3>3
  <2>6. CASE ReportProgress(h) \/ FinishUpdate(h)
    BY <1>0, <1>4, <2>6 DEF ReportProgress, FinishUpdate, HandlerGoes, UnderWay, pvars
  <2>7. ~StartDrain(h) /\ ~Drain(h) /\ ~DrainEnds(h)
    BY <1>0 DEF StartDrain, Drain, DrainEnds, HandlerGoes, HandlersHold
  <2> QED
    BY <1>4, <2>1, <2>2, <2>3, <2>4, <2>5, <2>6, <2>7 DEF Handler, Process
<1> QED
  BY <1>1, <1>2, <1>3, <1>4, OtherSteps

\* A cached file stays cached until a change invalidates it.
LEMMA CachedStays ==
    ASSUME CacheInv, [Next]_vars, NEW f \in Files, ws[f] # Absent
    PROVE  \/ ws'[f] # Absent
           \/ \E n \in Changes : Invalidate(n) /\ FileOf[n] = f
<1>0. /\ HandlersHold /\ ws \in [Files -> Nat \union {Absent}] /\ Absent \notin Nat
  BY CacheAssumption DEF CacheInv, TypeOK
<1>1. CASE UNCHANGED ws
  BY <1>1
<1>2. ASSUME NEW n \in Changes, Edit(n) \/ Invalidate(n) \/ Notify(n)
      PROVE  ws'[f] # Absent \/ (Invalidate(n) /\ FileOf[n] = f)
  BY <1>0, <1>2 DEF Edit, Invalidate, Notify, NotifyAdd, NotifySend, NotifyCancelled, cache
<1>3. ASSUME NEW h \in Handlers, StoreSymbols(h) PROVE ws'[f] # Absent
  BY <1>0, <1>3 DEF StoreSymbols, HandlerGoes, HandlersHold
<1>4. ASSUME NEW h \in Handlers, Handler(h), ~StoreSymbols(h) PROVE UNCHANGED ws
  BY <1>4 DEF Handler, TakeUpdate, Process, SkipUpdate, StartUpdate, ReadFile,
        ReadFileFails, ReportProgress, FinishUpdate, StartDrain, Drain, DrainEnds, cache
<1> QED
  BY <1>1, <1>2, <1>3, <1>4, OtherSteps DEF cache

LEMMA CountedServedPreserved ==
    ASSUME CacheInv, [Next]_vars
    PROVE  CountedServed'
<1> SUFFICES ASSUME ~ctxDone', NEW f \in Counted' \ removed'
             PROVE  ws'[f] # Absent \/ UnderWay(f)'
  BY DEF CountedServed
<1>0. /\ ~ctxDone /\ CountedServed /\ f \in Files \ removed
      /\ note \in [Changes -> {"idle", "edited", "invalidated", "sending", "returned"}]
  BY OtherSteps, NotesAdvance, CacheAssumption DEF CacheInv, TypeOK, Counted, FilesAt
<1>1. CASE f \in Counted
  <2>1. CASE UnderWay(f)
    BY <1>0, <2>1, UnderWayServed
  <2>2. CASE ws[f] # Absent
    <3>1. ASSUME NEW n \in Changes, Invalidate(n), FileOf[n] = f PROVE FALSE
      <4>1. note'[n] = "invalidated"
        BY <1>0, <3>1 DEF Invalidate
      <4> QED
        BY <3>1, <4>1 DEF Counted, FilesAt
    <3> QED
      BY <1>0, <2>2, <3>1, CachedStays
  <2> QED
    BY <1>0, <1>1, <2>1, <2>2 DEF CountedServed
<1>2. CASE f \notin Counted
  <2>1. CASE UNCHANGED <<prep, note>>
    BY <1>2, <2>1 DEF Counted, FilesAt
  <2>2. CASE PrepareCheck
    BY <1>2, <2>2 DEF PrepareCheck, Counted, FilesAt
  <2>3. CASE PrepareRest
    <3>1. CASE PrepareAdd
      BY <1>2, <3>1 DEF PrepareAdd, Counted, FilesAt, UnderWay
    <3>2. CASE ~PrepareAdd
      BY <1>2, <2>3, <3>2 DEF PrepareRest, PrepareSend, PrepareCancelled,
            PrepareReturns, Counted, FilesAt
    <3> QED
      BY <3>1, <3>2
  <2>4. ASSUME NEW n \in Changes, UNCHANGED pvars,
               \/ Edit(n) \/ Invalidate(n) \/ NotifySend(n) \/ NotifyCancelled(n)
        PROVE  FALSE
    <3>1. \A m \in Changes :
            /\ note'[m] \in {"sending", "returned"} <=> note[m] \in {"sending", "returned"}
            /\ note[m] = "invalidated" => note'[m] = "invalidated"
      BY <1>0, <2>4 DEF Edit, Invalidate, NotifySend, NotifyCancelled
    <3>2. /\ FilesAt({"sending", "returned"})' = FilesAt({"sending", "returned"})
          /\ FilesAt({"invalidated"}) \subseteq FilesAt({"invalidated"})'
      BY <3>1 DEF FilesAt
    <3> QED
      BY <1>2, <2>4, <3>2 DEF Counted, pvars
  <2>5. ASSUME NEW n \in Changes, UNCHANGED pvars, NotifyAdd(n)
        PROVE  UnderWay(f)'
    <3>1. \A m \in Changes \ {n} : note'[m] = note[m]
      BY <1>0, <2>5 DEF NotifyAdd
    <3>2. f = FileOf[n]
      BY <1>2, <2>5, <3>1 DEF Counted, FilesAt, pvars
    <3> QED
      BY <1>0, <2>5, <3>2 DEF NotifyAdd, UnderWay
  <2> QED
    BY <2>1, <2>2, <2>3, <2>4, <2>5, OtherSteps
       DEF Evaluate, EvaluateWait, EvaluateRead, Notify, pvars
<1> QED
  BY <1>1, <1>2

\* Behind a counter that is zero no update is under way.
LEMMA NothingUnderWay ==
    ASSUME CacheInv, wg = 0
    PROVE  /\ toSend = {} /\ updateChan = <<>> /\ Notifying = {} /\ Holding = {}
           /\ Unreported = {}
           /\ \A f \in Files : ~UnderWay(f)
<1>0. TypeOK /\ HandlersHold /\ wg = UpdatesDue
  BY DueCounted DEF CacheInv
<1>1. /\ Cardinality(toSend) = 0 /\ Len(updateChan) = 0
      /\ Cardinality(Notifying) = 0 /\ Cardinality(Holding) = 0
  <2>1. /\ Cardinality(toSend) \in Nat /\ Len(updateChan) \in Nat
        /\ Cardinality(Notifying) \in Nat /\ Cardinality(Holding) \in Nat
    BY <1>0, Sizes
  <2> QED
    BY <1>0, <2>1 DEF UpdatesDue
<1>2. toSend = {} /\ Notifying = {} /\ Holding = {}
  BY <1>0, <1>1, Sizes, FS_EmptySet
<1>3. updateChan = <<>>
  BY <1>0, <1>1 DEF TypeOK
<1>4. Unreported = {}
  BY <1>0, <1>2 DEF Unreported, Holding, HandlersHold
<1>5. ASSUME NEW f \in Files PROVE ~UnderWay(f)
  BY <1>1, <1>2, CacheAssumption DEF UnderWay, Notifying, Holding
<1> QED
  BY <1>2, <1>3, <1>4, <1>5

LEMMA PrepareServedPreserved ==
    ASSUME CacheInv, [Next]_vars
    PROVE  PrepareServed'
<1> SUFFICES ASSUME ~ctxDone', prep' = "prepared"
             PROVE  /\ \A f \in Prepared \ Touched' : ws'[f] # Absent
                    /\ processed' >= Cardinality(Prepared)
  BY DEF PrepareServed
<1>0. /\ TypeOK /\ ~ctxDone /\ processed \in Nat /\ Cardinality(Prepared) \in Nat
      /\ Prepared \subseteq Files /\ removed \subseteq Touched
  BY OtherSteps, Sizes, CacheAssumption DEF CacheInv, TypeOK, Touched
<1>1. CASE prep = "prepared"
  <2>1. /\ \A f \in Prepared \ Touched : ws[f] # Absent
        /\ processed >= Cardinality(Prepared)
    BY <1>0, <1>1 DEF CacheInv, PrepareServed
  <2>2. processed' \in Nat /\ processed' >= processed
    <3>1. CASE UNCHANGED processed
      BY <1>0, <3>1
    <3>2. ASSUME NEW n \in Changes, Edit(n) \/ Invalidate(n) \/ Notify(n)
          PROVE  UNCHANGED processed
      BY <3>2 DEF Edit, Invalidate, Notify, NotifyAdd, NotifySend, NotifyCancelled, cache
    <3>3. ASSUME NEW h \in Handlers, Handler(h)
          PROVE  processed' = processed \/ processed' = processed + 1
      BY <3>3 DEF Handler, TakeUpdate, Process, SkipUpdate, StartUpdate, ReadFile,
            ReadFileFails, StoreSymbols, ReportProgress, FinishUpdate, StartDrain,
            Drain, DrainEnds, cache
    <3>4. ~PrepareRest
      BY <1>1 DEF PrepareRest, PrepareAdd, PrepareSend, PrepareCancelled, PrepareReturns
    <3> QED
      BY <1>0, <3>1, <3>2, <3>3, <3>4, OtherSteps DEF cache
  <2>3. ASSUME NEW f \in Prepared \ Touched' PROVE ws'[f] # Absent
    <3>1. ASSUME NEW n \in Changes, Invalidate(n), FileOf[n] = f PROVE FALSE
      <4>1. note'[n] = "invalidated"
        BY <1>0, <3>1 DEF Invalidate, TypeOK
      <4> QED
        BY <2>3, <3>1, <4>1 DEF Touched, FilesAt
    <3> QED
      BY <1>0, <2>1, <2>3, <3>1, CachedStays, NotesAdvance
  <2> QED
    BY <1>0, <2>1, <2>2, <2>3
<1>2. CASE prep # "prepared"
  <2>1. PrepareReturns
    <3>1. CASE UNCHANGED prep
      BY <1>2, <3>1
    <3>2. ~PrepareCheck
      BY DEF PrepareCheck
    <3>3. PrepareRest => PrepareReturns
      BY <1>2 DEF PrepareRest, PrepareAdd, PrepareSend, PrepareCancelled
    <3> QED
      BY <1>2, <3>2, <3>3, OtherSteps DEF pvars, Evaluate, EvaluateWait, EvaluateRead
  <2>2. wg = 0 /\ prep = "sending" /\ UNCHANGED <<ws, processed>>
    BY <2>1 DEF PrepareReturns, cache
  <2>3. \A f \in Prepared \ Touched : ws[f] # Absent
    <3>1. Prepared \ Touched \subseteq Counted
      BY <2>2 DEF Counted, Touched, FilesAt
    <3> QED
      BY <1>0, <2>2, <3>1, NothingUnderWay DEF CacheInv, CountedServed
  <2>4. processed >= Cardinality(Prepared)
    <3>1. ReportsDue >= Cardinality(Prepared)
      BY <1>0, <2>2, DueCounted
    <3>2. ReportsDue = processed + 0 + 0 + 0 + 0
      BY <2>2, NothingUnderWay, FS_EmptySet DEF ReportsDue
    <3> QED
      BY <1>0, <3>1, <3>2
  <2> QED
    BY <2>2, <2>3, <2>4, NotesAdvance
<1> QED
  BY <1>1, <1>2

LEMMA EvaluateServedPreserved ==
    ASSUME CacheInv, [Next]_vars
    PROVE  EvaluateServed'
<1> DEFINE Goal ==
      /\ eval' = "reading" => \A f \in due' \ removed' : ws'[f] # Absent
      /\ eval' = "returned" => due' \subseteq saw' \union removed'
<1> SUFFICES ASSUME ~ctxDone' PROVE Goal
  BY DEF EvaluateServed
<1>0. /\ TypeOK /\ ~ctxDone /\ due \subseteq Files /\ CountedServed
      /\ eval = "reading" => \A f \in due \ removed : ws[f] # Absent
      /\ eval = "returned" => due \subseteq saw \union removed
      /\ removed \subseteq removed'
  BY OtherSteps, NotesAdvance DEF CacheInv, TypeOK, EvaluateServed
<1>1. CASE Evaluate
  BY <1>1 DEF Evaluate
<1>2. CASE EvaluateWait
  <2>1. wg = 0 /\ eval' = "reading" /\ due' = Counted /\ UNCHANGED ws
    BY <1>2 DEF EvaluateWait, cache
  <2>2. Counted \subseteq Files
    BY CacheAssumption DEF Counted, FilesAt
  <2>3. \A f \in Counted \ removed : ws[f] # Absent
    BY <1>0, <2>1, <2>2, NothingUnderWay DEF CountedServed
  <2> QED
    BY <1>0, <2>1, <2>3
<1>3. CASE EvaluateRead
  BY <1>0, <1>3 DEF EvaluateRead
<1>4. ASSUME UNCHANGED <<eval, saw>>, due' \subseteq due,
             \A n \in Changes : Invalidate(n) => FileOf[n] \notin due'
      PROVE  Goal
  <2>1. ASSUME NEW f \in due' \ removed', eval = "reading" PROVE ws'[f] # Absent
    BY <1>0, <1>4, <2>1, CachedStays
  <2> QED
    BY <1>0, <1>4, <2>1
<1>5. CASE UNCHANGED evars
  <2>1. \A n \in Changes : Invalidate(n) => FileOf[n] \notin due'
    BY DEF Invalidate
  <2> QED
    BY <1>4, <1>5, <2>1 DEF evars
<1>6. ASSUME NEW n \in Changes, Edit(n) \/ Invalidate(n) \/ Notify(n)
      PROVE  /\ UNCHANGED <<eval, saw>> /\ due' \subseteq due
             /\ \A m \in Changes : Invalidate(m) => FileOf[m] \notin due'
  BY <1>6 DEF Edit, Invalidate, Notify, NotifyAdd, NotifySend, NotifyCancelled, evars
<1> QED
  BY <1>1, <1>2, <1>3, <1>4, <1>5, <1>6, OtherSteps DEF PrepareCheck

LEMMA InitCacheInv == Init => CacheInv
<1> SUFFICES ASSUME Init PROVE CacheInv
  OBVIOUS
<1>1. TypeOK
  <2>1. /\ version \in [Files -> Nat] /\ ws \in [Files -> Nat \union {Absent}]
        /\ note \in [Changes -> {"idle", "edited", "invalidated", "sending",
                          "returned"}]
    BY DEF Init
  <2>2. /\ hst \in [Handlers -> {"select", "check", "read", "search", "report",
                                 "done", "drain", "exited"}]
        /\ hfile \in [Handlers -> Files \union {NoFile}]
        /\ hread \in [Handlers -> Nat \union {Absent}]
    BY DEF Init
  <2>3. updateChan \in Seq(Files) /\ Len(updateChan) =< ChanSize
    BY CacheAssumption DEF Init
  <2> QED
    BY <2>1, <2>2, <2>3 DEF Init, TypeOK
<1>2. UpdatesCounted
  <2>1. Notifying = {} /\ Holding = {}
    BY DEF Init, Notifying, Holding
  <2>2. toSend = {} /\ Len(updateChan) = 0 /\ wg = 0
    BY DEF Init
  <2>3. wg = UpdatesDue
    BY <2>1, <2>2, FS_EmptySet DEF UpdatesDue
  <2> QED
    BY <2>3 DEF UpdatesCounted, UpdatesDue, Notifying, Holding
<1>3. HandlersHold /\ PrepareHolds /\ GoneRemoved
  BY DEF Init, HandlersHold, PrepareHolds, GoneRemoved
<1>4. CountedServed /\ ProgressCounted /\ PrepareServed /\ EvaluateServed
  BY DEF Init, CountedServed, Counted, FilesAt, ProgressCounted, PrepareServed, EvaluateServed
<1> QED
  BY <1>1, <1>2, <1>3, <1>4 DEF CacheInv

LEMMA NextCacheInv == CacheInv /\ [Next]_vars => CacheInv'
  BY TypePreserved, CountedPreserved, HoldsPreserved, CountedServedPreserved,
     PrepareServedPreserved, EvaluateServedPreserved DEF CacheInv

LEMMA CacheInvariant == Spec => []CacheInv
  BY InitCacheInv, NextCacheInv, PTL DEF Spec

-----------------------------------------------------------------------------
(***************************************************************************)
(* The theorems.                                                           *)
(***************************************************************************)

\* The state of the symbol cache stays in its type: the WaitGroup never goes
\* below zero and the channel never exceeds its capacity.
THEOREM TypeCorrect == Spec => []TypeOK
<1>1. CacheInv => TypeOK
  BY DEF CacheInv
<1> QED
  BY <1>1, CacheInvariant, PTL

\* symbolCacheUpdateWaitGroup counts exactly the updates under way.
THEOREM WaitGroupExact == Spec => []UpdatesCounted
<1>1. CacheInv => UpdatesCounted
  BY DEF CacheInv
<1> QED
  BY <1>1, CacheInvariant, PTL

\* When Prepare has returned, every file that nobody has removed or
\* invalidated is cached and every file is reported.
THEOREM PrepareComplete == Spec => []PreparedComplete
<1>1. CacheInv => PreparedComplete
  BY DEF CacheInv, PrepareServed, PreparedComplete
<1> QED
  BY <1>1, CacheInvariant, PTL

\* Evaluate sees the files whose updates were counted before its Wait
\* returned, except one that lost its entry and is not counted again yet.
THEOREM EvaluateComplete == Spec => []EvaluateSeesCounted
<1>1. CacheInv => EvaluateSeesCounted
  BY DEF CacheInv, EvaluateServed, EvaluateSeesCounted
<1> QED
  BY <1>1, CacheInvariant, PTL
=============================================================================
