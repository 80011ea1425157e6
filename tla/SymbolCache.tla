---------------------------- MODULE SymbolCache ----------------------------
(***************************************************************************)
(* The symbol cache of the LSP service client (lsp/base_service_client):   *)
(* Prepare and NotifyFileChanges feed file URIs through a buffered channel *)
(* to five symbolCacheUpdateHandler goroutines that read the file and put  *)
(* its symbols into the cache; one WaitGroup counts the updates and is     *)
(* waited for by Prepare, Evaluate and Stop.                               *)
(*                                                                         *)
(* The symbols of a file are represented by the version of the content     *)
(* they were computed from.  The requests to the language server that      *)
(* compute them are not modelled: whether they succeed or fail, the entry  *)
(* of the file is written.                                                 *)
(***************************************************************************)
EXTENDS Integers, Sequences, FiniteSets

CONSTANTS
    Files,       \* URIs of the workspace
    Prepared,    \* the URIs GetDocumentUris returns to Prepare
    Handlers,    \* the handler goroutines (5 in the code)
    ChanSize,    \* capacity of symbolCacheUpdateChan (10 in the code)
    Changes,     \* file changes, one call of NotifyFileChanges each
    FileOf,      \* FileOf[n]: the file that change n is about
    StopModes,   \* when a client may call Stop: "never", "settled" or "any" time
    NoFile, Absent

ASSUME CacheAssumption ==
    /\ IsFiniteSet(Files) /\ IsFiniteSet(Changes) /\ IsFiniteSet(Handlers)
    /\ Prepared \subseteq Files
    /\ ChanSize \in Nat \ {0}
    /\ FileOf \in [Changes -> Files]
    /\ StopModes \subseteq {"never", "settled", "any"}
    /\ NoFile \notin Files /\ Absent \notin Nat

VARIABLES
    version,    \* version[f]: how often f has changed on disk
    gone,       \* the files that do not exist
    removed,    \* history: the files that were ever removed
    ws,         \* ws[f]: the version of f whose symbols are cached
    updateChan, \* symbolCacheUpdateChan
    wg,         \* symbolCacheUpdateWaitGroup
    processed,  \* filesProcessed, what reportProgress counts
    ctxDone,    \* sc.Ctx is cancelled
    hst, hfile, hread,    \* the handlers, their file and what they read
    prep, toSend,         \* Prepare, and the URIs it has not sent
    note,       \* note[n]: where the goroutine notifying change n is
    eval,       \* where one Evaluate is
    due, saw,   \* history: what Evaluate must see, and the files it saw
    stopMode,   \* when this client calls Stop
    stop        \* where Stop is

cache == <<ws, updateChan, wg, processed>>
disk  == <<version, gone, removed>>
hvars == <<hst, hfile, hread>>
pvars == <<prep, toSend>>
evars == <<eval, due, saw>>
svars == <<stopMode, stop>>
vars  == <<disk, cache, ctxDone, hvars, pvars, note, evars, svars>>

Init ==
    /\ version = [f \in Files |-> 0] /\ gone = {} /\ removed = {}
    /\ ws = [f \in Files |-> Absent]
    /\ updateChan = <<>> /\ wg = 0 /\ processed = 0
    /\ ctxDone = FALSE
    /\ hst = [h \in Handlers |-> "select"]
    /\ hfile = [h \in Handlers |-> NoFile]
    /\ hread = [h \in Handlers |-> Absent]
    /\ prep = "idle" /\ toSend = {}
    /\ note = [n \in Changes |-> "idle"]
    /\ eval = "idle" /\ due = {} /\ saw = {}
    /\ stopMode \in StopModes /\ stop = "idle"

-----------------------------------------------------------------------------
(***************************************************************************)
(* Prepare.                                                                *)
(***************************************************************************)
PrepareCheck ==
    /\ prep = "idle"
    /\ prep' = IF ctxDone THEN "failed" ELSE "checked"
    /\ UNCHANGED <<disk, cache, ctxDone, hvars, toSend, note, evars, svars>>

PrepareAdd ==
    /\ prep = "checked"
    /\ prep' = "sending"
    /\ toSend' = Prepared
    /\ wg' = wg + Cardinality(Prepared)
    /\ UNCHANGED <<disk, ws, updateChan, processed, ctxDone, hvars, note, evars,
                   svars>>

\* GetDocumentUris promises no order.
PrepareSend(f) ==
    /\ prep = "sending"
    /\ f \in toSend
    /\ Len(updateChan) < ChanSize
    /\ updateChan' = Append(updateChan, f)
    /\ toSend' = toSend \ {f}
    /\ UNCHANGED <<disk, ws, wg, processed, ctxDone, hvars, prep, note, evars,
                   svars>>

\* Faulty: one URI too many is discounted.
PrepareCancelledOneMore ==
    /\ prep = "sending"
    /\ toSend # {}
    /\ ctxDone
    /\ prep' = "cancelled"
    /\ wg' = wg - (Cardinality(toSend) + 1)
    /\ toSend' = {}
    /\ UNCHANGED <<disk, ws, updateChan, processed, ctxDone, hvars, note, evars,
                   svars>>

\* The context is cancelled: discount the URIs that are not sent.
PrepareCancelled ==
    /\ prep = "sending"
    /\ toSend # {}
    /\ ctxDone
    /\ prep' = "cancelled"
    /\ wg' = wg - Cardinality(toSend)
    /\ toSend' = {}
    /\ UNCHANGED <<disk, ws, updateChan, processed, ctxDone, hvars, note, evars,
                   svars>>

\* Faulty: Prepare does not wait for the updates.
PrepareReturnsUnwaited ==
    /\ prep = "sending"
    /\ toSend = {}
    /\ prep' = "prepared"
    /\ UNCHANGED <<disk, cache, ctxDone, hvars, toSend, note, evars, svars>>

PrepareReturns ==
    /\ prep = "sending"
    /\ toSend = {}
    /\ wg = 0
    /\ prep' = "prepared"
    /\ UNCHANGED <<disk, cache, ctxDone, hvars, toSend, note, evars, svars>>

-----------------------------------------------------------------------------
(***************************************************************************)
(* NotifyFileChanges: the file changes on disk, where it is written or     *)
(* removed, then the call is made.                                         *)
(***************************************************************************)
Edit(n) ==
    /\ note[n] = "idle"
    /\ note' = [note EXCEPT ![n] = "edited"]
    /\ version' = [version EXCEPT ![FileOf[n]] = @ + 1]
    /\ \/ gone' = gone \ {FileOf[n]} /\ UNCHANGED removed
       \/ gone' = gone \union {FileOf[n]} /\ removed' = removed \union {FileOf[n]}
    /\ UNCHANGED <<cache, ctxDone, hvars, pvars, evars, svars>>

\* "settled": the client makes no call once it has called Stop.
MayNotify == stopMode = "settled" => stop = "idle"

Invalidate(n) ==
    /\ note[n] = "edited"
    /\ MayNotify
    /\ note' = [note EXCEPT ![n] = "invalidated"]
    /\ ws' = [ws EXCEPT ![FileOf[n]] = Absent]
    /\ due' = due \ {FileOf[n]}
    /\ UNCHANGED <<disk, updateChan, wg, processed, ctxDone, hvars, pvars, eval,
                   saw, svars>>

\* The entry is gone before its update is counted: a Wait that returns between
\* the two steps has nothing to wait for.
NotifyAdd(n) ==
    /\ note[n] = "invalidated"
    /\ note' = [note EXCEPT ![n] = "sending"]
    /\ wg' = wg + 1
    /\ UNCHANGED <<disk, ws, updateChan, processed, ctxDone, hvars, pvars, evars,
                   svars>>

NotifySend(n) ==
    /\ note[n] = "sending"
    /\ Len(updateChan) < ChanSize
    /\ updateChan' = Append(updateChan, FileOf[n])
    /\ note' = [note EXCEPT ![n] = "returned"]
    /\ UNCHANGED <<disk, ws, wg, processed, ctxDone, hvars, pvars, evars, svars>>

NotifyCancelled(n) ==
    /\ note[n] = "sending"
    /\ ctxDone
    /\ wg' = wg - 1
    /\ note' = [note EXCEPT ![n] = "returned"]
    /\ UNCHANGED <<disk, ws, updateChan, processed, ctxDone, hvars, pvars, evars,
                   svars>>

-----------------------------------------------------------------------------
(***************************************************************************)
(* symbolCacheUpdateHandler.                                               *)
(***************************************************************************)
HandlerGoes(h, from, to) == hst[h] = from /\ hst' = [hst EXCEPT ![h] = to]

TakeUpdate(h) ==
    /\ HandlerGoes(h, "select", "check")
    /\ updateChan # <<>>
    /\ hfile' = [hfile EXCEPT ![h] = Head(updateChan)]
    /\ updateChan' = Tail(updateChan)
    /\ UNCHANGED <<disk, ws, wg, processed, ctxDone, hread, pvars, note, evars,
                   svars>>

\* Faulty: an update that is skipped is never discounted.
SkipUpdateForgotten(h) ==
    /\ HandlerGoes(h, "check", "select")
    /\ hfile[h] \in gone \/ ctxDone \/ ws[hfile[h]] # Absent
    /\ hfile' = [hfile EXCEPT ![h] = NoFile]
    /\ UNCHANGED <<disk, cache, ctxDone, hread, pvars, note, evars, svars>>

\* Nothing to do: the file is gone, the context cancelled or the file cached.
SkipUpdate(h) ==
    /\ HandlerGoes(h, "check", "report")
    /\ hfile[h] \in gone \/ ctxDone \/ ws[hfile[h]] # Absent
    /\ UNCHANGED <<disk, cache, ctxDone, hfile, hread, pvars, note, evars, svars>>

StartUpdate(h) ==
    /\ HandlerGoes(h, "check", "read")
    /\ hfile[h] \notin gone /\ ~ctxDone /\ ws[hfile[h]] = Absent
    /\ UNCHANGED <<disk, cache, ctxDone, hfile, hread, pvars, note, evars, svars>>

ReadFile(h) ==
    /\ hfile[h] \notin gone
    /\ HandlerGoes(h, "read", "search")
    /\ hread' = [hread EXCEPT ![h] = version[hfile[h]]]
    /\ UNCHANGED <<disk, cache, ctxDone, hfile, pvars, note, evars, svars>>

ReadFileFails(h) ==
    /\ hfile[h] \in gone
    /\ HandlerGoes(h, "read", "report")
    /\ UNCHANGED <<disk, cache, ctxDone, hfile, hread, pvars, note, evars, svars>>

StoreSymbols(h) ==
    /\ HandlerGoes(h, "search", "report")
    /\ ws' = [ws EXCEPT ![hfile[h]] = hread[h]]
    /\ UNCHANGED <<disk, updateChan, wg, processed, ctxDone, hfile, hread, pvars,
                   note, evars, svars>>

\* The deferred calls of processSymbolCacheUpdate, last one first.
ReportProgress(h) ==
    /\ HandlerGoes(h, "report", "done")
    /\ processed' = processed + 1
    /\ UNCHANGED <<disk, ws, updateChan, wg, ctxDone, hfile, hread, pvars, note,
                   evars, svars>>

FinishUpdate(h) ==
    /\ HandlerGoes(h, "done", "select")
    /\ wg' = wg - 1
    /\ hfile' = [hfile EXCEPT ![h] = NoFile]
    /\ hread' = [hread EXCEPT ![h] = Absent]
    /\ UNCHANGED <<disk, ws, updateChan, processed, ctxDone, pvars, note, evars,
                   svars>>

StartDrain(h) ==
    /\ HandlerGoes(h, "select", "drain")
    /\ ctxDone
    /\ UNCHANGED <<disk, cache, ctxDone, hfile, hread, pvars, note, evars, svars>>

\* Faulty: a dropped update stays counted.
DrainUncounted(h) ==
    /\ hst[h] = "drain"
    /\ updateChan # <<>>
    /\ updateChan' = Tail(updateChan)
    /\ UNCHANGED <<disk, ws, wg, processed, ctxDone, hvars, pvars, note, evars,
                   svars>>

\* drainPendingSymbolCacheUpdates drops an update, or finds none and the
\* handler ends.
Drain(h) ==
    /\ hst[h] = "drain"
    /\ updateChan # <<>>
    /\ updateChan' = Tail(updateChan)
    /\ wg' = wg - 1
    /\ UNCHANGED <<disk, ws, processed, ctxDone, hvars, pvars, note, evars, svars>>

DrainEnds(h) ==
    /\ updateChan = <<>>
    /\ HandlerGoes(h, "drain", "exited")
    /\ UNCHANGED <<disk, cache, ctxDone, hfile, hread, pvars, note, evars, svars>>

-----------------------------------------------------------------------------
(***************************************************************************)
(* Evaluate waits for the updates, then reads the cache.                   *)
(***************************************************************************)
\* The files of the changes that have come as far as one of these states.
FilesAt(states) == {FileOf[n] : n \in {m \in Changes : note[m] \in states}}

\* The files whose update has been counted, without those that have lost
\* their entry to a change that is not counted yet.
Counted == ((IF prep \in {"sending", "prepared"} THEN Prepared ELSE {})
              \union FilesAt({"sending", "returned"})) \ FilesAt({"invalidated"})

Evaluate ==
    /\ eval = "idle"
    /\ eval' = "waiting"
    /\ UNCHANGED <<disk, cache, ctxDone, hvars, pvars, note, due, saw, svars>>

\* Faulty: an empty channel is taken for the end of the updates.
EvaluateWaitChannel ==
    /\ eval = "waiting"
    /\ updateChan = <<>>
    /\ eval' = "reading"
    /\ due' = Counted
    /\ UNCHANGED <<disk, cache, ctxDone, hvars, pvars, note, saw, svars>>

EvaluateWait ==
    /\ eval = "waiting"
    /\ wg = 0
    /\ eval' = "reading"
    /\ due' = Counted
    /\ UNCHANGED <<disk, cache, ctxDone, hvars, pvars, note, saw, svars>>

\* GetAllWorkspaceSymbols takes a snapshot of the map.
EvaluateRead ==
    /\ eval = "reading"
    /\ eval' = "returned"
    /\ saw' = {f \in Files : ws[f] # Absent}
    /\ UNCHANGED <<disk, cache, ctxDone, hvars, pvars, note, due, svars>>

\* No call is between its check or its Invalidate and the end of its sends.
Settled == /\ prep \notin {"checked", "sending"}
           /\ \A n \in Changes : note[n] \notin {"invalidated", "sending"}

Stop ==
    /\ stop = "idle"
    /\ stopMode = "any" \/ (stopMode = "settled" /\ Settled)
    /\ ctxDone' = TRUE
    /\ stop' = "waiting"
    /\ UNCHANGED <<disk, cache, hvars, pvars, note, evars, stopMode>>

StopReturns ==
    /\ stop = "waiting"
    /\ wg = 0
    /\ stop' = "stopped"
    /\ UNCHANGED <<disk, cache, ctxDone, hvars, pvars, note, evars, stopMode>>

-----------------------------------------------------------------------------
PrepareRest == PrepareAdd \/ (\E f \in Files : PrepareSend(f))
                 \/ PrepareCancelled \/ PrepareReturns
Notify(n)   == NotifyAdd(n) \/ NotifySend(n) \/ NotifyCancelled(n)
Process(h)  == \/ SkipUpdate(h) \/ StartUpdate(h) \/ ReadFile(h) \/ ReadFileFails(h)
               \/ StoreSymbols(h) \/ ReportProgress(h) \/ FinishUpdate(h)
Handler(h)  == TakeUpdate(h) \/ Process(h) \/ StartDrain(h) \/ Drain(h) \/ DrainEnds(h)

Next ==
    \/ PrepareCheck \/ PrepareRest
    \/ \E n \in Changes : Edit(n) \/ Invalidate(n) \/ Notify(n)
    \/ \E h \in Handlers : Handler(h)
    \/ Evaluate \/ EvaluateWait \/ EvaluateRead
    \/ Stop \/ StopReturns

Spec == Init /\ [][Next]_vars

\* Every goroutine that can go on does.  Nothing makes a client start a call.
Fairness ==
    /\ WF_vars(PrepareRest)
    /\ \A n \in Changes : WF_vars(Notify(n))
    /\ \A h \in Handlers : WF_vars(Handler(h))
    /\ WF_vars(EvaluateWait \/ EvaluateRead)
    /\ WF_vars(StopReturns)

FairSpec == Spec /\ Fairness

-----------------------------------------------------------------------------
(***************************************************************************)
(* Properties.                                                             *)
(***************************************************************************)
\* The type of the state.  wg \in Nat is the panic sync.WaitGroup raises on a
\* negative counter: no path through Prepare (base_service_client.go:418-421),
\* NotifyFileChanges (389), the handlers (735) or the drain (782) calls Done
\* more often than Add was called.
TypeOK ==
    /\ version \in [Files -> Nat] /\ gone \subseteq Files /\ removed \subseteq Files
    /\ ws \in [Files -> Nat \union {Absent}]
    /\ updateChan \in Seq(Files) /\ Len(updateChan) =< ChanSize
    /\ wg \in Nat /\ processed \in Nat
    /\ ctxDone \in BOOLEAN
    /\ hst \in [Handlers -> {"select", "check", "read", "search", "report", "done",
                             "drain", "exited"}]
    /\ hfile \in [Handlers -> Files \union {NoFile}]
    /\ hread \in [Handlers -> Nat \union {Absent}]
    /\ prep \in {"idle", "failed", "checked", "sending", "cancelled", "prepared"}
    /\ toSend \subseteq Prepared
    /\ note \in [Changes -> {"idle", "edited", "invalidated", "sending", "returned"}]
    /\ eval \in {"idle", "waiting", "reading", "returned"}
    /\ due \subseteq Files /\ saw \subseteq Files
    /\ stopMode \in StopModes /\ stop \in {"idle", "waiting", "stopped"}

\* The WaitGroup counts exactly the updates under way: URIs Prepare has still
\* to send, calls of NotifyFileChanges that wait for room, queued updates, and
\* updates in the hands of a handler, through every cancellation and drain.
UpdatesCounted ==
    wg = Cardinality(toSend) + Len(updateChan)
           + Cardinality({n \in Changes : note[n] = "sending"})
           + Cardinality({h \in Handlers : hfile[h] # NoFile})

\* The files that some change has removed or taken out of the cache so far.
Touched == removed \union FilesAt({"invalidated", "sending", "returned"})

\* "This method blocks until symbol cache population is complete"
\* (base_service_client.go:396): when Prepare has returned and the client is
\* not stopped, every file it prepared and nobody has removed or invalidated
\* since is in the cache, and one event per prepared file has been reported
\* (the deferred calls of processSymbolCacheUpdate run reportProgress before
\* Done, 735-736).
PreparedComplete ==
    (prep = "prepared" /\ ~ctxDone) =>
        /\ \A f \in Prepared \ Touched : ws[f] # Absent
        /\ processed >= Cardinality(Prepared)

\* Evaluate (base_service_client.go:107-108) sees every file whose update was
\* counted (Add at 383 and 410) before its Wait returned: a Prepare or a
\* NotifyFileChanges made before it, whichever goroutine runs it, is reflected
\* in its answer, unless the file has been removed, invalidated again, or the
\* client stopped.  A file between Invalidate (382) and Add (383) when Wait
\* returns is the exception: it is neither in the cache nor waited for.
EvaluateSeesCounted ==
    (eval = "returned" /\ ~ctxDone) => due \subseteq saw \union removed

\* The client runs, or is stopped by someone who waits until no call of
\* Prepare or NotifyFileChanges is under way.
Careful == stopMode \in {"never", "settled"}

\* Prepare, NotifyFileChanges and Evaluate return while the client runs, and
\* when it is stopped with care.
CallsReturn ==
    /\ (Careful /\ prep = "sending") ~> prep \in {"prepared", "cancelled"}
    /\ \A n \in Changes :
          (Careful /\ note[n] \in {"invalidated", "sending"}) ~> note[n] = "returned"
    /\ (Careful /\ eval = "waiting") ~> eval = "returned"

\* Stop returns (base_service_client.go:350-356) to a careful client: every
\* counted update is processed or drained.
CarefulStopReturns == (Careful /\ stop = "waiting") ~> stop = "stopped"

\* "This ensures clean shutdown even if Prepare() is still running in
\* background" (base_service_client.go:355): Stop returns whenever it is called.
StopReturned == stop = "waiting" ~> stop = "stopped"

\* "when a workspace file is modified, we invalidate the previous symbols we
\* stored in the cache and query new symbols" (base_service_client.go:365):
\* once every change is notified and every update done, no entry is older
\* than the file.
FreshAfterNotify ==
    (wg = 0 /\ \A n \in Changes : note[n] \in {"idle", "returned"})
      => \A f \in Files : ws[f] \in {Absent, version[f]}
=============================================================================
