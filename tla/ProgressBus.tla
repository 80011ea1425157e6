----------------------------- MODULE ProgressBus -----------------------------
(***************************************************************************)
(* Progress (progress/progress.go) with its collectors (progress/          *)
(* collector): events of a collector wait in its channel, a goroutine for  *)
(* each subscription forwards them to the hub, the hub copies each one to  *)
(* the channel of every reporter, and a worker calls Report.               *)
(*                                                                         *)
(* An event is <<collector, number>>; the last number is the total.        *)
(* collectorChan has no buffer: its send and receive are one step.         *)
(***************************************************************************)
EXTENDS Naturals, Sequences, SequencesExt

CONSTANTS
    Collectors,
    Throttled,      \* those of type ThrottledCollector
    Reporters,      \* the number of reporters
    CollectorCap,   \* the buffer of a collector (100 in the code)
    Total           \* bound on the events of a collector

(* There is at least one reporter.                                         *)
ASSUME BusBounds == Reporters \in Nat \ {0} /\ CollectorCap \in Nat /\ Total \in Nat

VARIABLES
    reported,       \* collector -> number of events given to Report
    queue,          \* collector -> its channel
    taken,          \* collector -> events its channel took, in all
    lastReported,   \* throttled collector -> lastReported
    forward,        \* collector -> its subscription: "none", "on", "off"
    held,           \* collector -> the event its forwarder waits with, or none
    hub,            \* the event in the hub and the reporter that is next
    inbox,          \* reporter -> its channel (a buffer of one)
    busy,           \* reporter -> the event in Report, or none
    seen,           \* reporter -> the events that it was given
    ended           \* the context is done

busVars == <<reported, queue, taken, lastReported, forward, held, hub, inbox, busy, seen, ended>>

R == 1..Reporters
Idle == <<>>

BusInit ==
    /\ reported = [c \in Collectors |-> 0]
    /\ queue = [c \in Collectors |-> <<>>] /\ taken = [c \in Collectors |-> <<>>]
    /\ lastReported = [c \in Collectors |-> 0]
    /\ forward = [c \in Collectors |-> "none"] /\ held = [c \in Collectors |-> Idle]
    /\ hub = [ev |-> Idle, next |-> 1]
    /\ inbox = [r \in R |-> <<>>] /\ busy = [r \in R |-> Idle] /\ seen = [r \in R |-> <<>>]
    /\ ended = FALSE
-----------------------------------------------------------------------------
(* Report of a collector: with a throttle only the first event, the last   *)
(* one and what comes after the interval; a full channel drops the event   *)
(* and the throttle still counts it as reported.                           *)
Report(c, elapsed) ==
    LET n == reported[c] + 1
        should == c \notin Throttled \/ n = 1 \/ lastReported[c] = 0 \/ n = Total \/ elapsed
        room == Len(queue[c]) < CollectorCap
    IN  /\ n <= Total
        /\ reported' = [reported EXCEPT ![c] = n]
        /\ lastReported' = IF should THEN [lastReported EXCEPT ![c] = n] ELSE lastReported
        /\ queue' = IF should /\ room THEN [queue EXCEPT ![c] = Append(@, <<c, n>>)] ELSE queue
        /\ taken' = IF should /\ room THEN [taken EXCEPT ![c] = Append(@, <<c, n>>)] ELSE taken
        /\ UNCHANGED <<forward, held, hub, inbox, busy, seen, ended>>

Subscribe(c) ==
    /\ forward[c] = "none"
    /\ forward' = [forward EXCEPT ![c] = "on"]
    /\ UNCHANGED <<reported, queue, taken, lastReported, held, hub, inbox, busy, seen, ended>>

(* Unsubscribe: cancels, without a wait for what is queued.                *)
Unsubscribe(c) ==
    /\ forward[c] = "on"
    /\ forward' = [forward EXCEPT ![c] = "off"]
    /\ UNCHANGED <<reported, queue, taken, lastReported, held, hub, inbox, busy, seen, ended>>

(* The context of the program ends: the hub and the workers may stop, a    *)
(* forwarder that holds an event is left waiting.                          *)
End ==
    /\ ~ended /\ ended' = TRUE
    /\ UNCHANGED <<reported, queue, taken, lastReported, forward, held, hub, inbox, busy, seen>>

(* The goroutine of Subscribe takes an event, while it may already be      *)
(* cancelled: select chooses either.                                       *)
ForwardTake(c) ==
    /\ forward[c] \in {"on", "off"} /\ held[c] = Idle /\ queue[c] # <<>>
    /\ held' = [held EXCEPT ![c] = Head(queue[c])]
    /\ queue' = [queue EXCEPT ![c] = Tail(@)]
    /\ UNCHANGED <<reported, taken, lastReported, forward, hub, inbox, busy, seen, ended>>

(* ... or it returns.                                                      *)
ForwardEnd(c) ==
    /\ forward[c] = "off" \/ (forward[c] = "on" /\ ended)
    /\ held[c] = Idle
    /\ forward' = [forward EXCEPT ![c] = "returned"]
    /\ UNCHANGED <<reported, queue, taken, lastReported, held, hub, inbox, busy, seen, ended>>

HubTake(c) ==
    /\ held[c] # Idle /\ hub.ev = Idle
    /\ hub' = [ev |-> held[c], next |-> 1]
    /\ held' = [held EXCEPT ![c] = Idle]
    /\ UNCHANGED <<reported, queue, taken, lastReported, forward, inbox, busy, seen, ended>>

\* Mutant: an event is dropped for a reporter that is slow.
HubSendOrDrop ==
    /\ hub.ev # Idle
    /\ inbox' = IF inbox[hub.next] = <<>> THEN [inbox EXCEPT ![hub.next] = <<hub.ev>>] ELSE inbox
    /\ hub' = IF hub.next = Reporters THEN [ev |-> Idle, next |-> 1]
              ELSE [hub EXCEPT !.next = @ + 1]
    /\ UNCHANGED <<reported, queue, taken, lastReported, forward, held, busy, seen, ended>>

(* The hub gives the event to one reporter after the other and waits for   *)
(* each.                                                                   *)
HubSend ==
    /\ hub.ev # Idle /\ inbox[hub.next] = <<>>
    /\ inbox' = [inbox EXCEPT ![hub.next] = <<hub.ev>>]
    /\ hub' = IF hub.next = Reporters THEN [ev |-> Idle, next |-> 1]
              ELSE [hub EXCEPT !.next = @ + 1]
    /\ UNCHANGED <<reported, queue, taken, lastReported, forward, held, busy, seen, ended>>

WorkerTake(r) ==
    /\ busy[r] = Idle /\ inbox[r] # <<>>
    /\ busy' = [busy EXCEPT ![r] = Head(inbox[r])]
    /\ inbox' = [inbox EXCEPT ![r] = <<>>]
    /\ UNCHANGED <<reported, queue, taken, lastReported, forward, held, hub, seen, ended>>

\* Mutant: a worker ends with its first event.
WorkerReportOnce(r) ==
    /\ busy[r] # Idle /\ seen[r] = <<>>
    /\ seen' = [seen EXCEPT ![r] = Append(@, busy[r])]
    /\ busy' = [busy EXCEPT ![r] = Idle]
    /\ UNCHANGED <<reported, queue, taken, lastReported, forward, held, hub, inbox, ended>>

WorkerReport(r) ==
    /\ busy[r] # Idle
    /\ seen' = [seen EXCEPT ![r] = Append(@, busy[r])]
    /\ busy' = [busy EXCEPT ![r] = Idle]
    /\ UNCHANGED <<reported, queue, taken, lastReported, forward, held, hub, inbox, ended>>

(* The goroutines; Report of a reporter returns.                           *)
BusStep ==
    \/ HubSend
    \/ \E c \in Collectors : ForwardTake(c) \/ ForwardEnd(c) \/ HubTake(c)
    \/ \E r \in R : WorkerTake(r) \/ WorkerReport(r)

BusNext ==
    \/ BusStep \/ End
    \/ \E c \in Collectors : Subscribe(c) \/ Unsubscribe(c)
    \/ \E c \in Collectors, elapsed \in BOOLEAN : Report(c, elapsed)

BusSpec == BusInit /\ [][BusNext]_busVars /\ WF_busVars(BusStep)
-----------------------------------------------------------------------------
(* Properties                                                              *)

(* What a reporter has or is about to be given.                            *)
Given(r) == seen[r] \o (IF busy[r] = Idle THEN <<>> ELSE <<busy[r]>>) \o inbox[r]

(* Reporters see the same events in the same order; none is given twice,   *)
(* and those of a collector are given in the order it reported them,       *)
(* without one that its channel took left out in between.  The throttle    *)
(* never holds back the last event.                                        *)
ReportersAgree ==
    /\ \A r, q \in R : IsPrefix(Given(r), Given(q)) \/ IsPrefix(Given(q), Given(r))
    /\ \A r \in R : \A i, k \in 1..Len(Given(r)) :
          i < k /\ Given(r)[i][1] = Given(r)[k][1] => Given(r)[i][2] < Given(r)[k][2]
    /\ \A r \in R : \A e \in ToSet(Given(r)) :
          /\ e \in ToSet(taken[e[1]])
          /\ \A d \in ToSet(taken[e[1]]) : d[2] < e[2] => d \in ToSet(Given(r))
    /\ \A c \in Collectors : reported[c] = Total => lastReported[c] = Total

(* An event that the channel of a collector took is given to every         *)
(* reporter, unless the collector is unsubscribed or the program ends.     *)
EventsDelivered ==
    \A c \in Collectors, n \in 1..Total :
        (<<c, n>> \in ToSet(taken[c])) ~>
            \/ \A r \in R : <<c, n>> \in ToSet(seen[r])
            \/ forward[c] # "on" \/ ended
=============================================================================
