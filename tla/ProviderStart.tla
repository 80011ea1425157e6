---------------------------- MODULE ProviderStart ----------------------------
(***************************************************************************)
(* The analyzer (core/analyzer.go): ParseRules finds which providers are   *)
(* needed, ProviderStart initializes them, one goroutine for each, hands   *)
(* the configurations they return to the builtin provider, and calls       *)
(* Prepare of those that have conditions.                                  *)
(*                                                                         *)
(* abConfigChan has no buffer: a send is one step with its receive.  The   *)
(* goroutine that collects says Done before it appends, and the slice it   *)
(* appends to is read by ProviderStart without a lock; a read sees the     *)
(* slice before or after the append.                                       *)
(***************************************************************************)
EXTENDS Naturals, FiniteSets

CONSTANT
    Providers       \* the configured providers other than builtin

(* Providers are finitely many; "wait" and "ended" are states of the       *)
(* collector and no names.                                                 *)
ASSUME ProviderNames ==
    IsFiniteSet(Providers) /\ Providers \intersect {"builtin", "wait", "ended"} = {}

VARIABLES
    main,           \* where the caller is
    needed,         \* the providers that the rules use
    opts,           \* [timeout, ignore]: providerInitTimeout, ignoreAdditional...
    init,           \* provider -> its init goroutine
    group,          \* waitGroup
    allDone,        \* the channel c is closed
    cancelled,      \* a.ctx is cancelled, by its owner or by Stop
    collect,        \* the collector: "wait", "ended" or the provider it appends
    configs,        \* additionalBuiltinConfigs: those who returned them
    translated,     \* those whose paths are translated
    given,          \* what the builtin provider got, and with which paths
    failed,         \* providerInitErrors
    prepared        \* providers that Prepare was called of

startVars == <<main, needed, opts, init, group, allDone, cancelled, collect, configs,
               translated, given, failed, prepared>>

Returned == {"ok", "failed", "timed out"}

StartTypeOK ==
    /\ main \in {"new", "parsed", "waiting", "translating", "builtin", "preparing"} \cup Returned
    /\ needed \subseteq Providers \cup {"builtin"}
    /\ opts \in [timeout : BOOLEAN, ignore : BOOLEAN]
    /\ init \in [Providers -> {"idle", "running", "hung", "sending", "sent"}]
    /\ group \in 0..Cardinality(Providers)
    /\ allDone \in BOOLEAN /\ cancelled \in BOOLEAN
    /\ collect \in {"wait", "ended"} \cup Providers
    /\ configs \subseteq Providers /\ translated \subseteq Providers
    /\ given \in [all : SUBSET Providers, translated : SUBSET Providers]
    /\ failed \subseteq Providers \cup {"builtin"}
    /\ prepared \subseteq Providers \cup {"builtin"}

StartInit ==
    /\ main = "new" /\ needed = {} /\ opts \in [timeout : BOOLEAN, ignore : BOOLEAN]
    /\ init = [p \in Providers |-> "idle"]
    /\ group = 0 /\ allDone = FALSE /\ cancelled = FALSE /\ collect = "wait"
    /\ configs = {} /\ translated = {} /\ given = [all |-> {}, translated |-> {}]
    /\ failed = {} /\ prepared = {}
-----------------------------------------------------------------------------
Started == needed \ {"builtin"}

(* ParseRules: nothing changes if a file cannot be parsed.                 *)
ParseRules(ps) ==
    /\ main = "new" /\ ps \subseteq Providers \cup {"builtin"}
    /\ main' = "parsed" /\ needed' = ps
    /\ UNCHANGED <<opts, init, group, allDone, cancelled, collect, configs, translated,
                   given, failed, prepared>>

(* ProviderStart up to the wait: Add for every provider, then `go`; an     *)
(* error at once if no provider is needed.                                 *)
NoProviders ==
    /\ main = "parsed" /\ needed = {}
    /\ main' = "failed"
    /\ UNCHANGED <<needed, opts, init, group, allDone, cancelled, collect, configs,
                   translated, given, failed, prepared>>

Begin ==
    /\ main = "parsed" /\ needed # {}
    /\ main' = "waiting"
    /\ init' = [p \in Providers |-> IF p \in needed THEN "running" ELSE "idle"]
    /\ group' = Cardinality(Started)
    /\ UNCHANGED <<needed, opts, allDone, cancelled, collect, configs, translated, given,
                   failed, prepared>>

(* ProviderInit of a provider returns, with or without an error, or hangs. *)
InitReturns(p, error) ==
    /\ init[p] = "running"
    /\ init' = [init EXCEPT ![p] = "sending"]
    /\ failed' = IF error THEN failed \cup {p} ELSE failed
    /\ UNCHANGED <<main, needed, opts, group, allDone, cancelled, collect, configs,
                   translated, given, prepared>>

InitHangs(p) ==
    /\ init[p] = "running"
    /\ init' = [init EXCEPT ![p] = "hung"]
    /\ UNCHANGED <<main, needed, opts, group, allDone, cancelled, collect, configs,
                   translated, given, failed, prepared>>

(* abConfigChan <- additionalBuiltins, and Done in the collector.          *)
Collect(p) ==
    /\ init[p] = "sending" /\ collect = "wait"
    /\ init' = [init EXCEPT ![p] = "sent"]
    /\ collect' = p /\ group' = group - 1
    /\ UNCHANGED <<main, needed, opts, allDone, cancelled, configs, translated, given,
                   failed, prepared>>

\* Mutant: the collector handles one configuration.
CollectorAppendOnce ==
    /\ collect \in Providers
    /\ configs' = configs \cup {collect} /\ collect' = "ended"
    /\ UNCHANGED <<main, needed, opts, init, group, allDone, cancelled, translated, given,
                   failed, prepared>>

CollectorAppend ==
    /\ collect \in Providers
    /\ configs' = configs \cup {collect} /\ collect' = "wait"
    /\ UNCHANGED <<main, needed, opts, init, group, allDone, cancelled, translated, given,
                   failed, prepared>>

(* The context of the analyzer is cancelled.                               *)
Cancel ==
    /\ ~cancelled
    /\ cancelled' = TRUE
    /\ UNCHANGED <<main, needed, opts, init, group, allDone, collect, configs, translated,
                   given, failed, prepared>>

(* The collector sees providerInitCtx cancelled: by cancelFunc after the   *)
(* wait, or with a.ctx, which it derives from, at any time.  What is being *)
(* sent then is received by nobody.                                        *)
CollectorEnd ==
    /\ main \notin {"new", "parsed"} /\ needed # {}
    /\ cancelled \/ main # "waiting"
    /\ collect = "wait"
    /\ collect' = "ended"
    /\ UNCHANGED <<main, needed, opts, init, group, allDone, cancelled, configs, translated,
                   given, failed, prepared>>

\* Mutant: the counter is increased inside of the goroutines.
WaiterEarly ==
    /\ main = "waiting" /\ ~allDone
    /\ \A p \in Started : init[p] # "sending"
    /\ allDone' = TRUE
    /\ UNCHANGED <<main, needed, opts, init, group, cancelled, collect, configs, translated,
                   given, failed, prepared>>

(* waitGroup.Wait returns.                                                 *)
Waiter ==
    /\ main = "waiting" /\ ~allDone /\ group = 0
    /\ allDone' = TRUE
    /\ UNCHANGED <<main, needed, opts, init, group, cancelled, collect, configs, translated,
                   given, failed, prepared>>

AllStarted ==
    /\ main = "waiting" /\ allDone
    /\ main' = "translating"
    /\ UNCHANGED <<needed, opts, init, group, allDone, cancelled, collect, configs,
                   translated, given, failed, prepared>>

(* The timeout and the end of the wait may both be ready.                  *)
Timeout ==
    /\ main = "waiting" /\ opts.timeout
    /\ main' = "timed out"
    /\ UNCHANGED <<needed, opts, init, group, allDone, cancelled, collect, configs,
                   translated, given, failed, prepared>>

(* TranslatePath of the configurations that are in the slice now.          *)
Translate ==
    /\ main = "translating" /\ "builtin" \in needed
    /\ translated' = IF opts.ignore THEN {} ELSE configs
    /\ main' = "builtin"
    /\ UNCHANGED <<needed, opts, init, group, allDone, cancelled, collect, configs, given,
                   failed, prepared>>

(* ProviderInit of builtin, with the slice as it is by then, and the check *)
(* of the errors.                                                          *)
BuiltinInit(error) ==
    LET errors == IF error THEN failed \cup {"builtin"} ELSE failed
    IN  /\ main = "builtin"
        /\ given' = [all |-> IF opts.ignore THEN {} ELSE configs, translated |-> translated]
        /\ failed' = errors
        /\ main' = IF errors = {} THEN "preparing" ELSE "failed"
        /\ UNCHANGED <<needed, opts, init, group, allDone, cancelled, collect, configs,
                       translated, prepared>>

(* The check of the errors where builtin is not needed.                    *)
NoBuiltin ==
    /\ main = "translating" /\ "builtin" \notin needed
    /\ main' = IF failed = {} THEN "preparing" ELSE "failed"
    /\ UNCHANGED <<needed, opts, init, group, allDone, cancelled, collect, configs,
                   translated, given, failed, prepared>>

(* Prepare, of the providers that have conditions in turn, whatever the    *)
(* others answer; errors are joined at the end.                            *)
Prepare(p, error) ==
    /\ main = "preparing" /\ p \in needed \ prepared
    /\ prepared' = prepared \cup {p}
    /\ failed' = IF error THEN failed \cup {p} ELSE failed
    /\ UNCHANGED <<main, needed, opts, init, group, allDone, cancelled, collect, configs,
                   translated, given>>

Finish ==
    /\ main = "preparing" /\ prepared = needed
    /\ main' = IF failed = {} THEN "ok" ELSE "failed"
    /\ UNCHANGED <<needed, opts, init, group, allDone, cancelled, collect, configs,
                   translated, given, failed, prepared>>

(* What the goroutines do by themselves; that ProviderInit returns is part *)
(* of it, that it hangs is not.                                            *)
StartStep ==
    \/ NoProviders \/ Begin \/ CollectorAppend \/ CollectorEnd \/ Waiter \/ AllStarted
    \/ Timeout \/ Translate \/ NoBuiltin \/ Finish
    \/ \E p \in Providers : Collect(p)
    \/ \E p \in Providers, error \in BOOLEAN : InitReturns(p, error)
    \/ \E error \in BOOLEAN : BuiltinInit(error)
    \/ \E p \in Providers \cup {"builtin"}, error \in BOOLEAN : Prepare(p, error)

StartNext ==
    \/ StartStep
    \/ \E ps \in SUBSET (Providers \cup {"builtin"}) : ParseRules(ps)
    \/ \E p \in Providers : InitHangs(p)
    \/ Cancel

StartSpec == StartInit /\ [][StartNext]_startVars /\ WF_startVars(StartStep)
-----------------------------------------------------------------------------
(* Properties                                                              *)

Complete == [all |-> Started, translated |-> Started]
Handed == main \in {"preparing", "ok"} /\ "builtin" \in needed /\ ~opts.ignore

(* The builtin provider is initialized after every other provider that is  *)
(* needed, it gets nothing with a translated path that it does not get at  *)
(* all, nothing is prepared unless all of them started, and ProviderStart  *)
(* succeeds only if none of them failed; also if the context is cancelled  *)
(* on the way.                                                             *)
StartOrdered ==
    /\ StartTypeOK
    /\ main \in {"translating", "builtin", "preparing", "ok"} =>
          \A p \in Started : init[p] = "sent"
    /\ Handed => given.translated \subseteq given.all
    /\ prepared # {} => /\ main \in {"preparing", "ok", "failed"}
                        /\ \A p \in Started : init[p] = "sent"
    /\ main = "ok" => failed = {} /\ prepared = needed

(* The builtin provider gets the configurations that the providers         *)
(* returned, all of them and with their paths translated: "the builtin     *)
(* will receive its actual configs from providers via                      *)
(* additionalBuiltinConfigs during ProviderStart" (core/util.go:67-69),    *)
(* "Initializes builtin provider last with all configs"                    *)
(* (docs/konveyor-package.md:301).                                         *)
BuiltinGetsAll == Handed => given = Complete

(* ProviderStart returns, unless no timeout is set and a provider hangs or *)
(* the context is cancelled during the wait: the collector may then be     *)
(* gone before a provider sends, and the wait has no end.                  *)
ProvidersStarted ==
    main = "waiting" ~>
        \/ main \in Returned
        \/ ~opts.timeout /\ (cancelled \/ \E p \in Providers : init[p] = "hung")
=============================================================================
