---------------------------- MODULE BuiltinCache ----------------------------
(***************************************************************************)
(* The incident cache of the builtin provider (provider/internal/builtin). *)
(*                                                                         *)
(* Prepare fills the cache from the files on disk.  NotifyFileChanges      *)
(* marks a changed file as pending, drops its entry and has it refreshed:  *)
(* directly for a saved change, through the working copy manager for an    *)
(* unsaved one.  A pool of workers refreshes entries.  Evaluate waits for  *)
(* the pending files of its scope and answers from the cache.              *)
(*                                                                         *)
(* The content of a file is the number of the change that made it, 0 at    *)
(* first; the incidents found in it are represented by that number too.    *)
(* All conditions together are one cache key.                              *)
(***************************************************************************)
EXTENDS Integers, Sequences, FiniteSets

CONSTANTS
    Files,       \* files under the location of the provider
    Workers,     \* refresh workers (numWorkers of them)
    Barren,      \* contents in which no condition finds anything
    MaxChanges,  \* bound on the number of changes of one file
    RefreshCap,  \* capacity of cacheRefreshChan
    ChangesCap,  \* capacity of changesChan
    None         \* no version, no file, no worker

ASSUME BuiltinAssumption ==
    /\ MaxChanges \in Nat /\ RefreshCap \in Nat \ {0} /\ ChangesCap \in Nat \ {0}
    /\ None \notin Nat \cup Files \cup Workers /\ \A S \in SUBSET Files : None # S

VARIABLES
    prepared,     \* Prepare has completed
    preparing,    \* files Prepare has still to process, None when it is not running
    cache,        \* incidentCache[key][f]: content the incidents were found in
    hasKey,       \* incidentCache has the key
    pending,      \* pendingCacheRefresh: number of the change whose channel is stored
    closes,       \* closes[f][v]: how often the channel made for change v was closed
    active,       \* activeRefreshes: the worker whose cancel function is stored
    cancelled,    \* workers whose context for the file is cancelled
    cacheRefreshChan,
    worker,       \* the refresh workers
    changesChan,
    wcWorker,     \* the goroutine of the working copy manager
    wc,           \* workingCopies and their temporary files
    givenUp,      \* files of which a refresh was given up before it was queued
    disk,         \* what is saved on disk
    ver,          \* the last change a client has begun to notify
    notifier,     \* the client's call of NotifyFileChanges
    notified,     \* the last change whose NotifyFileChanges has returned
    eval,         \* the client's call of Evaluate
    overlap,      \* files changed again before the last change was worked off
    stopped

prepVars == <<prepared, preparing>>
cacheVars == <<cache, hasKey>>
pendVars == <<pending, closes>>
refreshVars == <<active, cancelled, cacheRefreshChan, worker>>
wcVars == <<changesChan, wcWorker, wc, givenUp>>
fileVars == <<disk, ver, overlap>>
callVars == <<notifier, notified, eval, stopped>>
vars == <<prepVars, cacheVars, pendVars, refreshVars, wcVars, fileVars, callVars>>

Version == 0..MaxChanges
Change == [file : Files, saved : BOOLEAN, ver : Version]
Request == [file : Files, from : {"disk", "wc"}]

(* What a search of content v leaves in the cache: mergeIntoCache stores   *)
(* nothing when there are no incidents.                                    *)
Incidents(v) == IF v \in Barren THEN None ELSE v

IdleWorker == [pc |-> "idle", file |-> None, from |-> "disk", ver |-> None]
IdleNotifier == [pc |-> "idle", change |-> None]
IdleEval == [pc |-> "idle", todo |-> {}, file |-> None, ch |-> 0,
             due |-> [f \in Files |-> 0], saw |-> [f \in Files |-> None],
             disturbed |-> FALSE]

(* The type of the state.  A channel is closed at most once: closing it    *)
(* again would panic, and both the notifier (service_client.go:613) and    *)
(* completePendingRefresh (incident_cache.go:244) close it.                *)
TypeOK ==
    /\ prepared \in BOOLEAN /\ hasKey \in BOOLEAN /\ stopped \in BOOLEAN
    /\ preparing \in (SUBSET Files) \cup {None}
    /\ cache \in [Files -> Version \cup {None}]
    /\ pending \in [Files -> Version]
    /\ closes \in [Files -> [Version -> 0..1]]
    /\ active \in [Files -> Workers \cup {None}]
    /\ cancelled \subseteq Workers
    /\ cacheRefreshChan \in Seq(Request) /\ Len(cacheRefreshChan) <= RefreshCap
    /\ changesChan \in Seq(Change) /\ Len(changesChan) <= ChangesCap
    /\ wc \in [Files -> Version \cup {None}] /\ givenUp \subseteq Files
    /\ disk \in [Files -> Version] /\ ver \in [Files -> Version]
    /\ notified \in [Files -> Version] /\ overlap \subseteq Files
    /\ \A w \in Workers :
         worker[w].pc \in {"off", "idle", "stored", "checked", "cleared", "read",
                           "complete", "leave", "ended"}

Init ==
    /\ prepared = FALSE /\ preparing = None
    /\ cache = [f \in Files |-> None] /\ hasKey = FALSE
    /\ pending = [f \in Files |-> 0]
    /\ closes = [f \in Files |-> [v \in Version |-> 0]]
    /\ active = [f \in Files |-> None] /\ cancelled = {}
    /\ cacheRefreshChan = <<>>
    /\ worker = [w \in Workers |-> [IdleWorker EXCEPT !.pc = "off"]]
    /\ changesChan = <<>> /\ wcWorker = [pc |-> "idle", change |-> None]
    /\ wc = [f \in Files |-> None] /\ givenUp = {}
    /\ disk = [f \in Files |-> 0] /\ ver = [f \in Files |-> 0]
    /\ notifier = IdleNotifier /\ notified = [f \in Files |-> 0]
    /\ eval = IdleEval /\ overlap = {} /\ stopped = FALSE
-----------------------------------------------------------------------------
(* Prepare, which the analyzer calls once, before its other calls          *)

PrepareReset ==
    /\ ~prepared /\ preparing = None /\ ~stopped
    /\ preparing' = Files
    /\ UNCHANGED <<prepared, cacheVars, pendVars, refreshVars, wcVars, fileVars, callVars>>

(* processFileForAllCaps in one of the workers of Prepare: only the file   *)
(* on disk is read.                                                        *)
PrepareFile(f) ==
    /\ preparing # None /\ f \in preparing
    /\ preparing' = preparing \ {f}
    /\ cache' = [cache EXCEPT ![f] = Incidents(disk[f])]
    /\ hasKey' = (hasKey \/ Incidents(disk[f]) # None)
    /\ UNCHANGED <<prepared, pendVars, refreshVars, wcVars, fileVars, callVars>>

(* All files done: startCacheRefreshWorkers, then prepared is set.         *)
PrepareDone ==
    /\ preparing = {}
    /\ preparing' = None /\ prepared' = TRUE
    /\ worker' = [w \in Workers |-> IdleWorker]
    /\ UNCHANGED <<cacheVars, pendVars, active, cancelled, cacheRefreshChan,
                   wcVars, fileVars, callVars>>
-----------------------------------------------------------------------------
(* NotifyFileChanges                                                       *)

(* Work on f is under way: a change or a request is queued or worked on.   *)
InFlight(f) ==
    \/ \E i \in 1..Len(changesChan) : changesChan[i].file = f
    \/ \E i \in 1..Len(cacheRefreshChan) : cacheRefreshChan[i].file = f
    \/ \E w \in Workers : worker[w].file = f
    \/ wcWorker.pc = "send" /\ wcWorker.change.file = f
    \/ notifier.pc # "idle" /\ notifier.change.file = f

(* A client changes f and notifies it; a saved change is on disk by then.  *)
(* The refresh that is stored as active for the file is cancelled.         *)
NotifyCancel(f, saved) ==
    /\ prepared /\ ~stopped /\ notifier.pc = "idle"
    /\ ver[f] < MaxChanges
    /\ ver' = [ver EXCEPT ![f] = @ + 1]
    /\ disk' = IF saved THEN [disk EXCEPT ![f] = ver[f] + 1] ELSE disk
    /\ overlap' = IF InFlight(f) THEN overlap \cup {f} ELSE overlap
    /\ notifier' = [pc |-> "swap",
                    change |-> [file |-> f, saved |-> saved, ver |-> ver[f] + 1]]
    /\ cancelled' = cancelled \cup ({active[f]} \cap Workers)
    /\ active' = [active EXCEPT ![f] = None]
    /\ eval' = [eval EXCEPT !.disturbed = TRUE]
    /\ UNCHANGED <<prepVars, cacheVars, pendVars, cacheRefreshChan, worker, wcVars,
                   notified, stopped>>

(* The channel of the change replaces the one that is stored, which is     *)
(* closed.                                                                 *)
NotifySwap ==
    LET c == notifier.change IN
    /\ notifier.pc = "swap"
    /\ pending' = [pending EXCEPT ![c.file] = c.ver]
    /\ closes' = IF pending[c.file] = 0 THEN closes
                 ELSE [closes EXCEPT ![c.file][pending[c.file]] = @ + 1]
    /\ notifier' = [notifier EXCEPT !.pc = "invalidate"]
    /\ UNCHANGED <<prepVars, cacheVars, refreshVars, wcVars, fileVars, notified, eval, stopped>>

NotifyInvalidate ==
    LET c == notifier.change IN
    /\ notifier.pc = "invalidate"
    /\ cache' = [cache EXCEPT ![c.file] = None]
    /\ notifier' = [notifier EXCEPT !.pc = IF c.saved THEN "send" ELSE "pass"]
    /\ UNCHANGED <<prepVars, hasKey, pendVars, refreshVars, wcVars, fileVars,
                   notified, eval, stopped>>

(* A saved change is refreshed from disk.                                  *)
NotifySend ==
    /\ notifier.pc = "send" /\ Len(cacheRefreshChan) < RefreshCap
    /\ cacheRefreshChan' = Append(cacheRefreshChan,
                                  [file |-> notifier.change.file, from |-> "disk"])
    /\ notifier' = [notifier EXCEPT !.pc = "pass"]
    /\ UNCHANGED <<prepVars, cacheVars, pendVars, active, cancelled, worker, wcVars,
                   fileVars, notified, eval, stopped>>

(* The caller's context ends instead: no refresh, and the mark stays.      *)
NotifyGiveUp ==
    /\ notifier.pc = "send"
    /\ givenUp' = givenUp \cup {notifier.change.file}
    /\ notifier' = [notifier EXCEPT !.pc = "pass"]
    /\ UNCHANGED <<prepVars, cacheVars, pendVars, refreshVars, changesChan, wcWorker, wc,
                   fileVars, notified, eval, stopped>>

(* notifyChanges: every change goes to the working copy manager.           *)
NotifyPass ==
    LET c == notifier.change IN
    /\ notifier.pc = "pass" /\ Len(changesChan) < ChangesCap
    /\ changesChan' = Append(changesChan, c)
    /\ notified' = [notified EXCEPT ![c.file] = c.ver]
    /\ notifier' = IdleNotifier
    /\ UNCHANGED <<prepVars, cacheVars, pendVars, refreshVars, wcWorker, wc, givenUp,
                   fileVars, eval, stopped>>
-----------------------------------------------------------------------------
(* The goroutine of the working copy manager (startWorker)                 *)

\* Mutant: a saved change leaves the working copy.
WcTakeKeepsCopy ==
    /\ wcWorker.pc = "idle" /\ changesChan # <<>>
    /\ changesChan' = Tail(changesChan)
    /\ LET c == Head(changesChan) IN
       \/ c.saved /\ UNCHANGED <<wc, wcWorker>>
       \/ /\ ~c.saved
          /\ wc' = [wc EXCEPT ![c.file] = c.ver]
          /\ wcWorker' = [pc |-> "send", change |-> c]
    /\ UNCHANGED <<givenUp, prepVars, cacheVars, pendVars, refreshVars, fileVars, callVars>>

(* A saved change removes the working copy.  An unsaved one is written to  *)
(* it; when that fails the change is given up, its pending mark stays.     *)
WcTake ==
    /\ wcWorker.pc = "idle" /\ changesChan # <<>>
    /\ changesChan' = Tail(changesChan)
    /\ LET c == Head(changesChan) IN
       \/ /\ c.saved
          /\ wc' = [wc EXCEPT ![c.file] = None]
          /\ UNCHANGED <<wcWorker, givenUp>>
       \/ /\ ~c.saved
          /\ wc' = [wc EXCEPT ![c.file] = c.ver]
          /\ wcWorker' = [pc |-> "send", change |-> c]
          /\ UNCHANGED givenUp
       \/ /\ ~c.saved
          /\ givenUp' = givenUp \cup {c.file}
          /\ UNCHANGED <<wc, wcWorker>>
    /\ UNCHANGED <<prepVars, cacheVars, pendVars, refreshVars, fileVars, callVars>>

\* Mutant: the send does not watch the context.
WcSendUnguarded ==
    /\ wcWorker.pc = "send" /\ Len(cacheRefreshChan) < RefreshCap
    /\ cacheRefreshChan' = Append(cacheRefreshChan,
                                  [file |-> wcWorker.change.file, from |-> "wc"])
    /\ wcWorker' = [pc |-> "idle", change |-> None]
    /\ UNCHANGED <<prepVars, cacheVars, pendVars, active, cancelled, worker,
                   changesChan, wc, givenUp, fileVars, callVars>>

WcSend ==
    /\ wcWorker.pc = "send"
    /\ \/ /\ ~stopped /\ Len(cacheRefreshChan) < RefreshCap
          /\ cacheRefreshChan' = Append(cacheRefreshChan,
                                        [file |-> wcWorker.change.file, from |-> "wc"])
       \/ stopped /\ UNCHANGED cacheRefreshChan
    /\ wcWorker' = [pc |-> "idle", change |-> None]
    /\ UNCHANGED <<prepVars, cacheVars, pendVars, active, cancelled, worker,
                   changesChan, wc, givenUp, fileVars, callVars>>

WcEnd ==
    /\ wcWorker.pc = "idle" /\ stopped
    /\ wcWorker' = [wcWorker EXCEPT !.pc = "ended"]
    /\ UNCHANGED <<prepVars, cacheVars, pendVars, refreshVars, changesChan, wc,
                   givenUp, fileVars, callVars>>
-----------------------------------------------------------------------------
(* The refresh workers (cacheRefreshWorker, refreshCacheForFile)           *)

(* A worker takes a request and stores its cancel function.                *)
WorkerTake(w) ==
    /\ worker[w].pc = "idle" /\ ~stopped /\ cacheRefreshChan # <<>>
    /\ LET r == Head(cacheRefreshChan) IN
       /\ worker' = [worker EXCEPT ![w] = [pc |-> "stored", file |-> r.file,
                                           from |-> r.from, ver |-> None]]
       /\ active' = [active EXCEPT ![r.file] = w]
    /\ cancelled' = cancelled \ {w}
    /\ cacheRefreshChan' = Tail(cacheRefreshChan)
    /\ UNCHANGED <<prepVars, cacheVars, pendVars, wcVars, fileVars, callVars>>

(* Stat fails when the working copy is gone; a cancelled refresh stops.    *)
(* Either way only the pending mark is completed.                          *)
WorkerCheck(w) ==
    /\ worker[w].pc = "stored"
    /\ worker' = [worker EXCEPT ![w].pc =
           IF \/ worker[w].from = "wc" /\ wc[worker[w].file] = None
              \/ w \in cancelled \/ stopped
           THEN "complete" ELSE "checked"]
    /\ UNCHANGED <<prepVars, cacheVars, pendVars, active, cancelled, cacheRefreshChan,
                   wcVars, fileVars, callVars>>

WorkerInvalidate(w) ==
    /\ worker[w].pc = "checked"
    /\ cache' = [cache EXCEPT ![worker[w].file] = None]
    /\ worker' = [worker EXCEPT ![w].pc = "cleared"]
    /\ UNCHANGED <<prepVars, hasKey, pendVars, active, cancelled, cacheRefreshChan,
                   wcVars, fileVars, callVars>>

(* The content is read from where the request says; the read fails when    *)
(* the working copy is gone.                                               *)
WorkerRead(w) ==
    LET f == worker[w].file
        v == IF worker[w].from = "wc" THEN wc[f] ELSE disk[f] IN
    /\ worker[w].pc = "cleared"
    /\ worker' = [worker EXCEPT ![w].ver = v,
                                ![w].pc = IF v = None THEN "complete" ELSE "read"]
    /\ UNCHANGED <<prepVars, cacheVars, pendVars, active, cancelled, cacheRefreshChan,
                   wcVars, fileVars, callVars>>

\* Mutant: a refresh that finds nothing does not complete the pending mark.
WorkerMergeForgets(w) ==
    LET f == worker[w].file
        i == Incidents(worker[w].ver) IN
    /\ worker[w].pc = "read"
    /\ cache' = IF i = None THEN cache ELSE [cache EXCEPT ![f] = i]
    /\ hasKey' = (hasKey \/ i # None)
    /\ worker' = [worker EXCEPT ![w].pc = IF i = None THEN "leave" ELSE "complete"]
    /\ UNCHANGED <<prepVars, pendVars, active, cancelled, cacheRefreshChan, wcVars,
                   fileVars, callVars>>

(* runConditionsOnFile does not look at the context again.                 *)
WorkerMerge(w) ==
    LET f == worker[w].file
        i == Incidents(worker[w].ver) IN
    /\ worker[w].pc = "read"
    /\ cache' = IF i = None THEN cache ELSE [cache EXCEPT ![f] = i]
    /\ hasKey' = (hasKey \/ i # None)
    /\ worker' = [worker EXCEPT ![w].pc = "complete"]
    /\ UNCHANGED <<prepVars, pendVars, active, cancelled, cacheRefreshChan, wcVars,
                   fileVars, callVars>>

\* Mutant: the mark is read and not taken out of the map.
WorkerCompleteLoads(w) ==
    LET f == worker[w].file IN
    /\ worker[w].pc = "complete"
    /\ closes' = IF pending[f] = 0 THEN closes
                 ELSE [closes EXCEPT ![f][pending[f]] = @ + 1]
    /\ worker' = [worker EXCEPT ![w].pc = "leave"]
    /\ UNCHANGED <<prepVars, cacheVars, pending, active, cancelled, cacheRefreshChan, wcVars,
                   fileVars, callVars>>

(* completePendingRefresh takes the mark that is stored now, whichever     *)
(* change it was made for, and closes its channel.                         *)
WorkerComplete(w) ==
    LET f == worker[w].file IN
    /\ worker[w].pc = "complete"
    /\ pending' = [pending EXCEPT ![f] = 0]
    /\ closes' = IF pending[f] = 0 THEN closes
                 ELSE [closes EXCEPT ![f][pending[f]] = @ + 1]
    /\ worker' = [worker EXCEPT ![w].pc = "leave"]
    /\ UNCHANGED <<prepVars, cacheVars, active, cancelled, cacheRefreshChan, wcVars,
                   fileVars, callVars>>

(* The entry of activeRefreshes is deleted, whoever stored it.             *)
WorkerLeave(w) ==
    /\ worker[w].pc = "leave"
    /\ active' = [active EXCEPT ![worker[w].file] = None]
    /\ worker' = [worker EXCEPT ![w] = IdleWorker]
    /\ cancelled' = cancelled \ {w}
    /\ UNCHANGED <<prepVars, cacheVars, pendVars, cacheRefreshChan, wcVars, fileVars, callVars>>

WorkerEnd(w) ==
    /\ worker[w].pc = "idle" /\ stopped
    /\ worker' = [worker EXCEPT ![w].pc = "ended"]
    /\ UNCHANGED <<prepVars, cacheVars, pendVars, active, cancelled, cacheRefreshChan,
                   wcVars, fileVars, callVars>>
-----------------------------------------------------------------------------
(* Evaluate                                                                *)

EvalBegin ==
    /\ prepared /\ ~stopped /\ eval.pc = "idle"
    /\ eval' = [IdleEval EXCEPT !.pc = "files", !.todo = Files, !.due = notified,
                                !.disturbed = notifier.pc # "idle"]
    /\ UNCHANGED <<prepVars, cacheVars, pendVars, refreshVars, wcVars, fileVars,
                   notifier, notified, stopped>>

\* Mutant: the cache is read without waiting for pending refreshes.
EvalLoadUnwaited(f) ==
    /\ eval.pc = "files" /\ f \in eval.todo
    /\ eval' = [eval EXCEPT !.todo = @ \ {f}]
    /\ UNCHANGED <<prepVars, cacheVars, pendVars, refreshVars, wcVars, fileVars,
                   notifier, notified, stopped>>

(* tryIncidentCache looks up the mark of the next file of the scope ...    *)
EvalLoad(f) ==
    /\ eval.pc = "files" /\ f \in eval.todo
    /\ eval' = [eval EXCEPT !.todo = @ \ {f}, !.file = f, !.ch = pending[f],
                            !.pc = IF pending[f] = 0 THEN "files" ELSE "wait"]
    /\ UNCHANGED <<prepVars, cacheVars, pendVars, refreshVars, wcVars, fileVars,
                   notifier, notified, stopped>>

(* ... and waits for its channel.                                          *)
EvalWait ==
    /\ eval.pc = "wait" /\ closes[eval.file][eval.ch] > 0
    /\ eval' = [eval EXCEPT !.pc = "files"]
    /\ UNCHANGED <<prepVars, cacheVars, pendVars, refreshVars, wcVars, fileVars,
                   notifier, notified, stopped>>

(* incidentsFromCache: a hit if the key has ever been stored.              *)
EvalHit ==
    /\ eval.pc = "files" /\ eval.todo = {} /\ hasKey
    /\ eval' = [eval EXCEPT !.pc = "done", !.saw = cache]
    /\ UNCHANGED <<prepVars, cacheVars, pendVars, refreshVars, wcVars, fileVars,
                   notifier, notified, stopped>>

(* The files are walked and searched, a working copy in place of its file. *)
Walk == [f \in Files |-> Incidents(IF wc[f] = None THEN disk[f] ELSE wc[f])]

EvalMiss ==
    /\ eval.pc = "files" /\ eval.todo = {} /\ ~hasKey
    /\ eval' = [eval EXCEPT !.pc = "done", !.saw = Walk]
    /\ UNCHANGED <<prepVars, cacheVars, pendVars, refreshVars, wcVars, fileVars,
                   notifier, notified, stopped>>

(* The caller's context ends during the wait: a miss, without waiting.     *)
EvalGiveUp ==
    /\ eval.pc = "wait"
    /\ eval' = [eval EXCEPT !.pc = "done", !.saw = Walk, !.disturbed = TRUE]
    /\ UNCHANGED <<prepVars, cacheVars, pendVars, refreshVars, wcVars, fileVars,
                   notifier, notified, stopped>>

EvalReturn ==
    /\ eval.pc = "done"
    /\ eval' = IdleEval
    /\ UNCHANGED <<prepVars, cacheVars, pendVars, refreshVars, wcVars, fileVars,
                   notifier, notified, stopped>>

(* Stop, once the client's other calls have returned: the temporary        *)
(* directory is removed and both contexts are cancelled.                   *)
Stop ==
    /\ prepared /\ ~stopped /\ notifier.pc = "idle" /\ eval.pc = "idle"
    /\ stopped' = TRUE
    /\ wc' = [f \in Files |-> None]
    /\ UNCHANGED <<prepVars, cacheVars, pendVars, refreshVars, changesChan, wcWorker,
                   givenUp, fileVars, notifier, notified, eval>>
-----------------------------------------------------------------------------
Prepare == PrepareReset \/ PrepareDone \/ \E f \in Files : PrepareFile(f)
NotifyGoOn == NotifySwap \/ NotifyInvalidate \/ NotifySend \/ NotifyPass
WorkingCopies == WcTake \/ WcSend \/ WcEnd
Refresh(w) ==
    \/ WorkerTake(w) \/ WorkerCheck(w) \/ WorkerInvalidate(w) \/ WorkerRead(w)
    \/ WorkerMerge(w) \/ WorkerComplete(w) \/ WorkerLeave(w) \/ WorkerEnd(w)
EvalGoOn == EvalWait \/ EvalHit \/ EvalMiss \/ EvalReturn \/ \E f \in Files : EvalLoad(f)

Next ==
    \/ Prepare
    \/ \E f \in Files, saved \in BOOLEAN : NotifyCancel(f, saved)
    \/ NotifyGoOn
    \/ NotifyGiveUp
    \/ WorkingCopies
    \/ \E w \in Workers : Refresh(w)
    \/ EvalBegin
    \/ EvalGoOn
    \/ EvalGiveUp
    \/ Stop

(* The scheduler runs every goroutine that can go on; nobody has to call.  *)
Fairness ==
    /\ WF_vars(NotifyGoOn) /\ WF_vars(WorkingCopies) /\ WF_vars(EvalGoOn)
    /\ \A w \in Workers : WF_vars(Refresh(w))

Spec == Init /\ [][Next]_vars /\ Fairness
-----------------------------------------------------------------------------
(* Properties                                                              *)

(* No channel of a pending mark is closed twice, which would panic: the    *)
(* notifier (service_client.go:613) and the workers (incident_cache.go:244)*)
(* both close, and each takes the mark out first.  And as long as a file   *)
(* is marked pending, something is under way that will complete the mark:  *)
(* a mark nobody completes makes every later Evaluate wait                 *)
(* (incident_cache.go:141).  Only a working copy that cannot be written,   *)
(* or a context that ends, leaves a mark behind (wcmanger.go:133).         *)
PendingCompletedOnce ==
    /\ \A f \in Files, v \in Version : closes[f][v] <= 1
    /\ ~stopped => \A f \in Files : pending[f] # 0 => InFlight(f) \/ f \in givenUp

(* An answer from the cache shows every change notified before the call,   *)
(* unless the file was changed again before an earlier change of it was    *)
(* worked off, or a change was notified during the call.                   *)
Shows(f) ==
    \E v \in eval.due[f]..ver[f] : eval.saw[f] = Incidents(v)
FreshWhenApart ==
    eval.pc = "done" /\ ~eval.disturbed =>
        \A f \in Files \ (overlap \cup givenUp) : Shows(f)

(* Once the working copy manager has worked off its queue, a file has a    *)
(* working copy exactly if its last change was not saved, with that        *)
(* content (wcmanger.go:101).                                              *)
WorkingCopiesCurrent ==
    \A f \in Files :
        (~stopped /\ f \notin givenUp /\ wcWorker.pc = "idle" /\ notifier.pc = "idle"
            /\ ~\E i \in 1..Len(changesChan) : changesChan[i].file = f)
        => wc[f] = IF disk[f] = ver[f] THEN None ELSE ver[f]

(* Every Evaluate returns: no wait for a pending refresh lasts for ever,   *)
(* if no refresh was given up before it was queued.                        *)
EvaluateReturns ==
    (eval.pc # "idle") ~> (eval.pc = "idle" \/ givenUp # {})

(* After Stop all workers and the working copy manager end.                *)
StopEnds ==
    stopped ~> (wcWorker.pc = "ended" /\ \A w \in Workers : worker[w].pc = "ended")

(* What the comment at incident_cache.go:141 promises: an answer is never  *)
(* stale or incomplete with respect to the changes notified before (none   *)
(* being notified during the call).                                        *)
NeverStale ==
    eval.pc = "done" /\ ~eval.disturbed => \A f \in Files \ givenUp : Shows(f)
=============================================================================
