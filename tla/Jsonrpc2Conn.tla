---------------------------- MODULE Jsonrpc2Conn ----------------------------
(***************************************************************************)
(* The bidirectional JSON-RPC connection of jsonrpc2_v2/conn.go: outgoing  *)
(* calls and notifications of any number of goroutines, the readIncoming   *)
(* goroutine, the handleAsync goroutine, asynchronous responders, Cancel   *)
(* and Close, all meeting in updateInFlight.                               *)
(*                                                                         *)
(* One action is one critical section of updateInFlight, or one write,     *)
(* with the code of its goroutine up to the next one.  The peer may answer *)
(* any call at any time, twice or never, reuse IDs, or break the stream.   *)
(* Handlers keep their contract: ErrAsyncResponse only for calls, and      *)
(* Respond once for each of those.                                         *)
(***************************************************************************)
EXTENDS Integers, Sequences, FiniteSets

CONSTANTS
    Calls,    \* outgoing calls
    Notifs,   \* outgoing notifications
    Reqs,     \* requests the peer may send
    IDs,      \* request IDs the peer uses
    IdOf,     \* IdOf[q]: the ID of request q, NoID for a notification
    NoID, None,
    MayBreak  \* whether reads and writes may fail by themselves

ASSUME ConnAssumption ==
    /\ IsFiniteSet(Calls) /\ IsFiniteSet(Notifs) /\ IsFiniteSet(Reqs)
    /\ NoID \notin IDs /\ None \notin Reqs
    /\ IdOf \in [Reqs -> IDs \cup {NoID}]
    /\ MayBreak \in BOOLEAN

IsCall(q) == IdOf[q] # NoID

VARIABLES
    \* inFlightState, and the channel done
    connClosing, reading, readErr, writeErr, closer, done,
    outgoingCalls, outgoingNotifications, incoming, incomingByID,
    handlerQueue, handlerRunning,
    \* the goroutines
    bound,       \* newConnection has put the writer into its channel
    call,        \* call[c]: where the goroutine executing Call is
    retired,     \* retired[c]: how often the AsyncCall c was retired
    notify,      \* notify[n]: where the goroutine executing Notify is
    phase,       \* phase[q]: how far request q has got
    asCall,      \* requests whose ID is set (reset for a duplicate ID)
    cancelled,   \* requests whose context is cancelled
    reader,      \* the request the readIncoming goroutine works on
    handler,     \* the request the handleAsync goroutine works on
    closing      \* where the goroutine executing Close is

inFlight  == <<connClosing, reading, readErr, writeErr, closer, done,
               outgoingCalls, outgoingNotifications, incoming, incomingByID,
               handlerQueue, handlerRunning>>
procs     == <<bound, call, retired, notify, phase, asCall, cancelled, reader,
               handler, closing>>
vars      == <<inFlight, procs>>

idle ==
    /\ outgoingCalls = {} /\ outgoingNotifications = 0
    /\ incoming = 0 /\ ~handlerRunning

shuttingDown == connClosing \/ readErr \/ writeErr

\* Faulty: done is closed only by the update that closes the stream.
updateInFlightOnce ==
    /\ closer' = (closer /\ (done \/ ~(idle' /\ shuttingDown')))
    /\ done' = (done \/ (closer /\ idle' /\ shuttingDown' /\ ~reading'))

(***************************************************************************)
(* What updateInFlight does after its argument has changed the state: when *)
(* the connection is idle and shutting down, close the stream, once, and   *)
(* the channel done too unless readIncoming still runs.                    *)
(***************************************************************************)
updateInFlight ==
    /\ closer' = (closer /\ (done \/ ~(idle' /\ shuttingDown')))
    /\ done' = (done \/ (idle' /\ shuttingDown' /\ ~reading'))

Init ==
    /\ connClosing = FALSE /\ reading = FALSE
    /\ readErr = FALSE /\ writeErr = FALSE
    /\ closer = TRUE /\ done = FALSE
    /\ outgoingCalls = {} /\ outgoingNotifications = 0
    /\ incoming = 0
    /\ incomingByID = [i \in IDs |-> None]
    /\ handlerQueue = <<>> /\ handlerRunning = FALSE
    /\ bound = FALSE
    /\ call = [c \in Calls |-> "new"]
    /\ retired = [c \in Calls |-> 0]
    /\ notify = [n \in Notifs |-> "new"]
    /\ phase = [q \in Reqs |-> "unread"]
    /\ asCall = {q \in Reqs : IsCall(q)}
    /\ cancelled = {}
    /\ reader = None /\ handler = None
    /\ closing = "no"

\* newConnection, after Bind: start readIncoming unless Bind closed us.
StartReading ==
    /\ ~bound
    /\ bound' = TRUE
    /\ reading' = ~done
    /\ UNCHANGED <<connClosing, readErr, writeErr, outgoingCalls,
                   outgoingNotifications, incoming, incomingByID, handlerQueue,
                   handlerRunning, call, retired, notify, phase, asCall,
                   cancelled, reader, handler, closing>>
    /\ updateInFlight

Retire(S) == retired' = [c \in Calls |-> IF c \in S THEN retired[c] + 1 ELSE retired[c]]

\* write fails with a live context: the first error cancels incoming calls.
WriteFails ==
    /\ MayBreak \/ ~closer
    /\ writeErr' = TRUE
    /\ cancelled' = IF writeErr THEN cancelled
                    ELSE cancelled \cup ({incomingByID[i] : i \in IDs} \ {None})

-----------------------------------------------------------------------------
(***************************************************************************)
(* Outgoing calls and notifications.                                       *)
(***************************************************************************)

\* NewCall cannot marshal the parameters.
CallMalformed(c) ==
    /\ call[c] = "new"
    /\ call' = [call EXCEPT ![c] = "returned"]
    /\ Retire({c})
    /\ UNCHANGED <<inFlight, bound, notify, phase, asCall, cancelled, reader,
                   handler, closing>>

\* Faulty: a call begins without a look at the state of the connection.
CallStartUnchecked(c) ==
    /\ call[c] = "new"
    /\ call' = [call EXCEPT ![c] = "writing"]
    /\ outgoingCalls' = outgoingCalls \cup {c}
    /\ UNCHANGED <<connClosing, reading, readErr, writeErr,
                   outgoingNotifications, incoming, incomingByID, handlerQueue,
                   handlerRunning, bound, retired, notify, phase, asCall,
                   cancelled, reader, handler, closing>>
    /\ updateInFlight

CallStart(c) ==
    /\ call[c] = "new"
    /\ IF shuttingDown
       THEN /\ call' = [call EXCEPT ![c] = "rejected"]
            /\ UNCHANGED outgoingCalls
       ELSE /\ call' = [call EXCEPT ![c] = "writing"]
            /\ outgoingCalls' = outgoingCalls \cup {c}
    /\ UNCHANGED <<connClosing, reading, readErr, writeErr,
                   outgoingNotifications, incoming, incomingByID, handlerQueue,
                   handlerRunning, bound, retired, notify, phase, asCall,
                   cancelled, reader, handler, closing>>
    /\ updateInFlight

CallRejected(c) ==
    /\ call[c] = "rejected"
    /\ call' = [call EXCEPT ![c] = "returned"]
    /\ Retire({c})
    /\ UNCHANGED <<inFlight, bound, notify, phase, asCall, cancelled, reader,
                   handler, closing>>

CallWritten(c) ==
    /\ bound
    /\ call[c] = "writing"
    /\ call' = [call EXCEPT ![c] = "returned"]
    /\ UNCHANGED <<inFlight, bound, retired, notify, phase, asCall, cancelled,
                   reader, handler, closing>>

\* The write fails because the context of the call is cancelled.
CallWriteCancelled(c) ==
    /\ bound
    /\ call[c] = "writing"
    /\ call' = [call EXCEPT ![c] = "failed"]
    /\ UNCHANGED <<inFlight, bound, retired, notify, phase, asCall, cancelled,
                   reader, handler, closing>>

CallWriteFails(c) ==
    /\ bound
    /\ call[c] = "writing"
    /\ call' = [call EXCEPT ![c] = "failed"]
    /\ WriteFails
    /\ UNCHANGED <<connClosing, reading, readErr, outgoingCalls,
                   outgoingNotifications, incoming, incomingByID, handlerQueue,
                   handlerRunning, bound, retired, notify, phase, asCall,
                   reader, handler, closing>>
    /\ updateInFlight

\* Faulty: the fake response does not look whether the call was retired.
CallFailedTwice(c) ==
    /\ call[c] = "failed"
    /\ call' = [call EXCEPT ![c] = "returned"]
    /\ outgoingCalls' = outgoingCalls \ {c}
    /\ Retire({c})
    /\ UNCHANGED <<connClosing, reading, readErr, writeErr,
                   outgoingNotifications, incoming, incomingByID, handlerQueue,
                   handlerRunning, bound, notify, phase, asCall, cancelled,
                   reader, handler, closing>>
    /\ updateInFlight

\* Sending failed: deliver a fake response unless readIncoming was faster.
CallFailed(c) ==
    /\ call[c] = "failed"
    /\ call' = [call EXCEPT ![c] = "returned"]
    /\ outgoingCalls' = outgoingCalls \ {c}
    /\ Retire({c} \intersect outgoingCalls)
    /\ UNCHANGED <<connClosing, reading, readErr, writeErr,
                   outgoingNotifications, incoming, incomingByID, handlerQueue,
                   handlerRunning, bound, notify, phase, asCall, cancelled,
                   reader, handler, closing>>
    /\ updateInFlight

\* Faulty: the notification is not counted during the shutdown.
NotifyStartUncounted(n) ==
    /\ notify[n] = "new"
    /\ notify' = [notify EXCEPT ![n] = "writing"]
    /\ outgoingNotifications' = outgoingNotifications
                                  + (IF shuttingDown THEN 0 ELSE 1)
    /\ UNCHANGED <<connClosing, reading, readErr, writeErr, outgoingCalls,
                   incoming, incomingByID, handlerQueue, handlerRunning, bound,
                   call, retired, phase, asCall, cancelled, reader, handler,
                   closing>>
    /\ updateInFlight

\* A notification is allowed during the shutdown while a call is in flight.
NotifyStart(n) ==
    /\ notify[n] = "new"
    /\ IF /\ outgoingCalls = {} /\ \A i \in IDs : incomingByID[i] = None
          /\ shuttingDown
       THEN /\ notify' = [notify EXCEPT ![n] = "returned"]
            /\ UNCHANGED outgoingNotifications
       ELSE /\ notify' = [notify EXCEPT ![n] = "writing"]
            /\ outgoingNotifications' = outgoingNotifications + 1
    /\ UNCHANGED <<connClosing, reading, readErr, writeErr, outgoingCalls,
                   incoming, incomingByID, handlerQueue, handlerRunning, bound,
                   call, retired, phase, asCall, cancelled, reader, handler,
                   closing>>
    /\ updateInFlight

\* The notification is written, or cannot be marshalled, or is cancelled.
NotifyWritten(n) ==
    /\ bound
    /\ notify[n] = "writing"
    /\ notify' = [notify EXCEPT ![n] = "attempted"]
    /\ UNCHANGED <<inFlight, bound, call, retired, phase, asCall, cancelled,
                   reader, handler, closing>>

NotifyWriteFails(n) ==
    /\ bound
    /\ notify[n] = "writing"
    /\ notify' = [notify EXCEPT ![n] = "attempted"]
    /\ WriteFails
    /\ UNCHANGED <<connClosing, reading, readErr, outgoingCalls,
                   outgoingNotifications, incoming, incomingByID, handlerQueue,
                   handlerRunning, bound, call, retired, phase, asCall, reader,
                   handler, closing>>
    /\ updateInFlight

\* The deferred decrement.
NotifyDone(n) ==
    /\ notify[n] = "attempted"
    /\ notify' = [notify EXCEPT ![n] = "returned"]
    /\ outgoingNotifications' = outgoingNotifications - 1
    /\ UNCHANGED <<connClosing, reading, readErr, writeErr, outgoingCalls,
                   incoming, incomingByID, handlerQueue, handlerRunning, bound,
                   call, retired, phase, asCall, cancelled, reader, handler,
                   closing>>
    /\ updateInFlight

-----------------------------------------------------------------------------
(***************************************************************************)
(* readIncoming and acceptRequest.                                         *)
(***************************************************************************)

\* Faulty: the call is forgotten but not retired.
ReadResponseDropped(c) ==
    /\ reading /\ reader = None
    /\ outgoingCalls' = outgoingCalls \ {c}
    /\ UNCHANGED <<connClosing, reading, readErr, writeErr, retired,
                   outgoingNotifications, incoming, incomingByID, handlerQueue,
                   handlerRunning, bound, call, notify, phase, asCall,
                   cancelled, reader, handler, closing>>
    /\ updateInFlight

\* A response arrives; one that answers no call in flight is ignored.
ReadResponse(c) ==
    /\ reading /\ reader = None
    /\ outgoingCalls' = outgoingCalls \ {c}
    /\ Retire({c} \intersect outgoingCalls)
    /\ UNCHANGED <<connClosing, reading, readErr, writeErr,
                   outgoingNotifications, incoming, incomingByID, handlerQueue,
                   handlerRunning, bound, call, notify, phase, asCall,
                   cancelled, reader, handler, closing>>
    /\ updateInFlight

\* The stream ends, or closer.Close() has interrupted the read.
ReadError ==
    /\ reading /\ reader = None
    /\ MayBreak \/ ~closer
    /\ reading' = FALSE /\ readErr' = TRUE
    /\ outgoingCalls' = {}
    /\ Retire(outgoingCalls)
    /\ UNCHANGED <<connClosing, writeErr, outgoingNotifications, incoming,
                   incomingByID, handlerQueue, handlerRunning, bound, call,
                   notify, phase, asCall, cancelled, reader, handler, closing>>
    /\ updateInFlight

(***************************************************************************)
(* A request arrives and is counted.  A call whose ID is in use loses its  *)
(* ID and goes to processResult like a notification; a call that arrives   *)
(* during the shutdown is registered and goes to processResult as well.    *)
(***************************************************************************)
AcceptRequest(q) ==
    LET dup == IsCall(q) /\ incomingByID[IdOf[q]] # None IN
    /\ reading /\ reader = None
    /\ phase[q] = "unread"
    /\ incoming' = incoming + 1
    /\ reader' = q
    /\ incomingByID' = IF IsCall(q) /\ ~dup
                       THEN [incomingByID EXCEPT ![IdOf[q]] = q]
                       ELSE incomingByID
    /\ asCall' = IF dup THEN asCall \ {q} ELSE asCall
    /\ phase' = [phase EXCEPT ![q] =
                   IF dup THEN "finish"
                   ELSE IF IsCall(q) /\ shuttingDown THEN "result" ELSE "preempt"]
    /\ UNCHANGED <<connClosing, reading, readErr, writeErr, outgoingCalls,
                   outgoingNotifications, handlerQueue, handlerRunning, bound,
                   call, retired, notify, cancelled, handler, closing>>
    /\ updateInFlight

\* Where processResult begins: only calls are removed from the map.
ResultPhase(q) == IF q \in asCall THEN "result" ELSE "finish"

(***************************************************************************)
(* The preempter handles the request, promises an asynchronous response    *)
(* (calls only) or, like no preempter, leaves it to the handler.           *)
(***************************************************************************)
Preempt(q) ==
    /\ reader = q /\ phase[q] = "preempt"
    /\ \/ phase' = [phase EXCEPT ![q] = ResultPhase(q)] /\ UNCHANGED reader
       \/ /\ q \in asCall
          /\ phase' = [phase EXCEPT ![q] = "async"]
          /\ reader' = None
       \/ phase' = [phase EXCEPT ![q] = "enqueue"] /\ UNCHANGED reader
    /\ UNCHANGED <<inFlight, bound, call, retired, notify, asCall, cancelled,
                   handler, closing>>

\* Faulty: requests are enqueued during the shutdown too.
EnqueueAlways(q) ==
    /\ reader = q /\ phase[q] = "enqueue"
    /\ phase' = [phase EXCEPT ![q] = "queued"]
    /\ reader' = None
    /\ handlerQueue' = Append(handlerQueue, q)
    /\ handlerRunning' = TRUE
    /\ UNCHANGED <<connClosing, reading, readErr, writeErr, outgoingCalls,
                   outgoingNotifications, incoming, incomingByID, bound, call,
                   retired, notify, asCall, cancelled, handler, closing>>
    /\ updateInFlight

EnqueueRequest(q) ==
    /\ reader = q /\ phase[q] = "enqueue"
    /\ IF shuttingDown
       THEN /\ phase' = [phase EXCEPT ![q] = ResultPhase(q)]
            /\ UNCHANGED <<reader, handlerQueue, handlerRunning>>
       ELSE /\ phase' = [phase EXCEPT ![q] = "queued"]
            /\ reader' = None
            /\ handlerQueue' = Append(handlerQueue, q)
            /\ handlerRunning' = TRUE
    /\ UNCHANGED <<connClosing, reading, readErr, writeErr, outgoingCalls,
                   outgoingNotifications, incoming, incomingByID, bound, call,
                   retired, notify, asCall, cancelled, handler, closing>>
    /\ updateInFlight

-----------------------------------------------------------------------------
(***************************************************************************)
(* handleAsync, Respond, Cancel and processResult.                         *)
(***************************************************************************)

\* Faulty: the goroutine ends after one request.
HandlerNextOnce ==
    /\ handlerRunning /\ handler = None
    /\ IF handlerQueue # <<>>
       THEN /\ handler' = Head(handlerQueue)
            /\ handlerQueue' = Tail(handlerQueue)
            /\ phase' = [phase EXCEPT ![Head(handlerQueue)] = "handling"]
       ELSE UNCHANGED <<handler, handlerQueue, phase>>
    /\ handlerRunning' = FALSE
    /\ UNCHANGED <<connClosing, reading, readErr, writeErr, outgoingCalls,
                   outgoingNotifications, incoming, incomingByID, bound, call,
                   retired, notify, asCall, cancelled, reader, closing>>
    /\ updateInFlight

\* The next request, or the goroutine ends.
HandlerNext ==
    /\ handlerRunning /\ handler = None
    /\ IF handlerQueue # <<>>
       THEN /\ handler' = Head(handlerQueue)
            /\ handlerQueue' = Tail(handlerQueue)
            /\ phase' = [phase EXCEPT ![Head(handlerQueue)] = "handling"]
            /\ UNCHANGED handlerRunning
       ELSE /\ handlerRunning' = FALSE
            /\ UNCHANGED <<handler, handlerQueue, phase>>
    /\ UNCHANGED <<connClosing, reading, readErr, writeErr, outgoingCalls,
                   outgoingNotifications, incoming, incomingByID, bound, call,
                   retired, notify, asCall, cancelled, reader, closing>>
    /\ updateInFlight

\* Handle returns a result, or is skipped because the request is cancelled.
HandleResult(q) ==
    /\ handler = q /\ phase[q] = "handling"
    /\ phase' = [phase EXCEPT ![q] = ResultPhase(q)]
    /\ UNCHANGED <<inFlight, bound, call, retired, notify, asCall, cancelled,
                   reader, handler, closing>>

\* Handle passes a call on to another goroutine ...
HandleAsync(q) ==
    /\ handler = q /\ phase[q] = "handling"
    /\ q \in asCall \ cancelled
    /\ phase' = [phase EXCEPT ![q] = "async"]
    /\ UNCHANGED <<inFlight, bound, call, retired, notify, asCall, cancelled,
                   reader, handler, closing>>

\* ... and returns ErrAsyncResponse, maybe after the response was sent.
HandleReturnsAsync ==
    /\ handler # None
    /\ phase[handler] \in {"async", "asyncResult", "asyncReply", "asyncFinish", "done"}
    /\ handler' = None
    /\ UNCHANGED <<inFlight, bound, call, retired, notify, phase, asCall,
                   cancelled, reader, closing>>

\* Respond finds the request by its ID.
Respond(q) ==
    /\ phase[q] = "async"
    /\ incomingByID[IdOf[q]] = q
    /\ phase' = [phase EXCEPT ![q] = "asyncResult"]
    /\ UNCHANGED <<connClosing, reading, readErr, writeErr, outgoingCalls,
                   outgoingNotifications, incoming, incomingByID, handlerQueue,
                   handlerRunning, bound, call, retired, notify, asCall,
                   cancelled, reader, handler, closing>>
    /\ updateInFlight

Cancel(i) ==
    /\ incomingByID[i] # None
    /\ cancelled' = cancelled \cup {incomingByID[i]}
    /\ UNCHANGED <<connClosing, reading, readErr, writeErr, outgoingCalls,
                   outgoingNotifications, incoming, incomingByID, handlerQueue,
                   handlerRunning, bound, call, retired, notify, phase, asCall,
                   reader, handler, closing>>
    /\ updateInFlight

\* processResult: the ID may be reused as soon as the response is sent.
RemoveID(q) ==
    /\ phase[q] \in {"result", "asyncResult"}
    /\ phase' = [phase EXCEPT ![q] = IF @ = "result" THEN "reply" ELSE "asyncReply"]
    /\ incomingByID' = [incomingByID EXCEPT ![IdOf[q]] = None]
    /\ UNCHANGED <<connClosing, reading, readErr, writeErr, outgoingCalls,
                   outgoingNotifications, incoming, handlerQueue,
                   handlerRunning, bound, call, retired, notify, asCall,
                   cancelled, reader, handler, closing>>
    /\ updateInFlight

NextPhase(p) == IF p = "reply" THEN "finish" ELSE "asyncFinish"

\* The response is written, or cannot be built.
ReplyWritten(q) ==
    /\ phase[q] \in {"reply", "asyncReply"}
    /\ phase' = [phase EXCEPT ![q] = NextPhase(@)]
    /\ UNCHANGED <<inFlight, bound, call, retired, notify, asCall, cancelled,
                   reader, handler, closing>>

ReplyFails(q) ==
    /\ phase[q] \in {"reply", "asyncReply"}
    /\ phase' = [phase EXCEPT ![q] = NextPhase(@)]
    /\ WriteFails
    /\ UNCHANGED <<connClosing, reading, readErr, outgoingCalls,
                   outgoingNotifications, incoming, incomingByID, handlerQueue,
                   handlerRunning, bound, call, retired, notify, asCall, reader,
                   handler, closing>>
    /\ updateInFlight

\* The end of processResult; the goroutine that ran it goes on.
FinishRequest(q) ==
    /\ phase[q] \in {"finish", "asyncFinish"}
    /\ phase' = [phase EXCEPT ![q] = "done"]
    /\ cancelled' = cancelled \cup {q}
    /\ incoming' = incoming - 1
    /\ reader' = IF phase[q] = "finish" /\ reader = q THEN None ELSE reader
    /\ handler' = IF phase[q] = "finish" /\ handler = q THEN None ELSE handler
    /\ UNCHANGED <<connClosing, reading, readErr, writeErr, outgoingCalls,
                   outgoingNotifications, incomingByID, handlerQueue,
                   handlerRunning, bound, call, retired, notify, asCall, closing>>
    /\ updateInFlight

Close ==
    /\ closing = "no"
    /\ closing' = "waiting"
    /\ connClosing' = TRUE
    /\ UNCHANGED <<reading, readErr, writeErr, outgoingCalls,
                   outgoingNotifications, incoming, incomingByID, handlerQueue,
                   handlerRunning, bound, call, retired, notify, phase, asCall,
                   cancelled, reader, handler>>
    /\ updateInFlight

\* Wait: the channel done is closed.
CloseReturns ==
    /\ closing = "waiting"
    /\ done
    /\ closing' = "closed"
    /\ UNCHANGED <<connClosing, reading, readErr, writeErr, outgoingCalls,
                   outgoingNotifications, incoming, incomingByID, handlerQueue,
                   handlerRunning, bound, call, retired, notify, phase, asCall,
                   cancelled, reader, handler>>
    /\ updateInFlight

-----------------------------------------------------------------------------
CallStep(c) ==
    \/ CallRejected(c) \/ CallWritten(c)
    \/ CallWriteCancelled(c) \/ CallWriteFails(c) \/ CallFailed(c)

NotifyStep(n) == NotifyWritten(n) \/ NotifyWriteFails(n) \/ NotifyDone(n)

RequestStep(q) ==
    \/ Preempt(q) \/ EnqueueRequest(q)
    \/ HandleResult(q) \/ HandleAsync(q)
    \/ Respond(q) \/ RemoveID(q) \/ ReplyWritten(q) \/ ReplyFails(q)
    \/ FinishRequest(q)

Next ==
    \/ StartReading
    \/ \E c \in Calls : CallMalformed(c) \/ CallStart(c) \/ CallStep(c) \/ ReadResponse(c)
    \/ \E n \in Notifs : NotifyStart(n) \/ NotifyStep(n)
    \/ \E q \in Reqs : AcceptRequest(q) \/ RequestStep(q)
    \/ \E i \in IDs : Cancel(i)
    \/ ReadError
    \/ HandlerNext
    \/ HandleReturnsAsync
    \/ Close
    \/ CloseReturns

Spec == Init /\ [][Next]_vars
(***************************************************************************)
(* Goroutines run, handlers and preempters return, a promised response is  *)
(* delivered, writes end, the peer answers the calls that are in flight,   *)
(* and closing the stream interrupts the read (updateInFlight says so).    *)
(***************************************************************************)
Fairness ==
    /\ WF_vars(StartReading)
    /\ \A c \in Calls : /\ WF_vars(CallStep(c))
                        /\ WF_vars(c \in outgoingCalls /\ ReadResponse(c))
    /\ \A n \in Notifs : WF_vars(NotifyStep(n))
    /\ \A q \in Reqs : WF_vars(RequestStep(q))
    /\ WF_vars(~closer /\ ReadError)
    /\ WF_vars(HandlerNext)
    /\ WF_vars(HandleReturnsAsync)
    /\ WF_vars(CloseReturns)

FairSpec == Spec /\ Fairness

-----------------------------------------------------------------------------
(***************************************************************************)
(* Properties.                                                             *)
(***************************************************************************)
Phases == {"unread", "preempt", "enqueue", "queued", "handling", "async",
           "result", "reply", "finish",
           "asyncResult", "asyncReply", "asyncFinish", "done"}

\* The type of the state: the counters of incoming requests and of outgoing
\* notifications never go below zero, whichever goroutine ends last.
TypeOK ==
    /\ {connClosing, reading, readErr, writeErr, closer, done} \subseteq BOOLEAN
    /\ outgoingCalls \subseteq Calls
    /\ outgoingNotifications \in Nat /\ incoming \in Nat
    /\ incomingByID \in [IDs -> Reqs \cup {None}]
    /\ handlerQueue \in Seq(Reqs) /\ handlerRunning \in BOOLEAN
    /\ bound \in BOOLEAN
    /\ call \in [Calls -> {"new", "rejected", "writing", "failed", "returned"}]
    /\ retired \in [Calls -> Nat]
    /\ notify \in [Notifs -> {"new", "writing", "attempted", "returned"}]
    /\ phase \in [Reqs -> Phases]
    /\ asCall \subseteq Reqs /\ cancelled \subseteq Reqs
    /\ reader \in Reqs \cup {None} /\ handler \in Reqs \cup {None}
    /\ closing \in {"no", "waiting", "closed"}

\* The requests that are being worked on.
InFlightReqs == {q \in Reqs : phase[q] \notin {"unread", "done"}}

(***************************************************************************)
(* The counter of incoming requests is exact, whichever goroutine finishes *)
(* a request and whatever ID it came with: processResult never finds it at *)
(* zero (the panic at conn.go:756) and it never keeps the connection open. *)
(* And once done is closed nothing starts again: the panic of              *)
(* updateInFlight (conn.go:133) is unreachable, readIncoming has ended and *)
(* the stream is closed.                                                   *)
(***************************************************************************)
InFlightExact ==
    /\ incoming = Cardinality(InFlightReqs)
    /\ done => idle /\ ~reading /\ ~closer

(***************************************************************************)
(* An outgoing call is retired at most once (the panic at conn.go:403),    *)
(* though Call, a response and the end of the stream race for it; and when *)
(* Call returns "either ac is retired, or the request has been written     *)
(* successfully and the call is awaiting a response" (conn.go:330).        *)
(***************************************************************************)
CallsRetiredOnce ==
    \A c \in Calls :
        /\ retired[c] <= 1
        /\ call[c] = "returned" => (retired[c] = 1 <=> c \notin outgoingCalls)

(***************************************************************************)
(* A registered ID belongs to a call that is in flight and not answered:   *)
(* Respond and Cancel never reach an answered request or another one that  *)
(* has come with the same ID; and a request never waits in the queue       *)
(* without a goroutine to handle it (handleAsync).                         *)
(***************************************************************************)
RequestsServed ==
    /\ \A i \in IDs : incomingByID[i] # None =>
          /\ incomingByID[i] \in asCall /\ IdOf[incomingByID[i]] = i
          /\ phase[incomingByID[i]] \in
                {"preempt", "enqueue", "queued", "handling", "async", "result",
                 "asyncResult"}
    /\ handlerQueue # <<>> \/ handler # None => handlerRunning

(***************************************************************************)
(* During the shutdown no outgoing call is started and nothing is added to *)
(* the handler queue (the comments of Close and of acceptRequest).         *)
(***************************************************************************)
ShutdownDrains ==
    [][shuttingDown => /\ outgoingCalls' \subseteq outgoingCalls
                       /\ Len(handlerQueue') <= Len(handlerQueue)]_vars

(***************************************************************************)
(* The connection implements RpcCalls: a call that leaves outgoingCalls is *)
(* retired in the same critical section, never dropped and never retired   *)
(* before it began or again.                                               *)
(***************************************************************************)
Abs == INSTANCE RpcCalls WITH
    status <- [c \in Calls |-> CASE retired[c] > 0       -> "retired"
                                 [] c \in outgoingCalls -> "pending"
                                 [] OTHER               -> "idle"],
    conn   <- IF done THEN "done" ELSE IF shuttingDown THEN "shut" ELSE "open"

ImplementsRpcCalls == Abs!Spec

\* Close waits for the requests in flight and then returns.
CloseCompletes == closing = "waiting" ~> closing = "closed"
=============================================================================
