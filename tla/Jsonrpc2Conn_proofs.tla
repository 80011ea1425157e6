------------------------ MODULE Jsonrpc2Conn_proofs ------------------------
(***************************************************************************)
(* Proofs about Jsonrpc2Conn, for any number of outgoing calls and         *)
(* notifications and any finite set of requests, with any IDs.             *)
(***************************************************************************)
EXTENDS Jsonrpc2Conn, FiniteSetTheorems, TLAPS

\* Notify has counted these notifications and not yet uncounted them.
ActiveNotifs == {n \in Notifs : notify[n] \in {"writing", "attempted"}}

\* The phases of a call that has not been answered.
Unanswered == {"preempt", "enqueue", "queued", "handling", "async", "result",
               "asyncResult"}

\* Both counters are exact.
Counted ==
    /\ incoming = Cardinality(InFlightReqs)
    /\ outgoingNotifications = Cardinality(ActiveNotifs)

\* A call is in flight or retired from the moment it is registered.
CallOnce(c) ==
    /\ retired[c] \in {0, 1}
    /\ call[c] \in {"new", "rejected"} => retired[c] = 0 /\ c \notin outgoingCalls
    /\ call[c] \in {"writing", "failed", "returned"} =>
          (retired[c] = 1 <=> c \notin outgoingCalls)

CallsOnce == \A c \in Calls : CallOnce(c)

\* incomingByID holds the unanswered calls that kept their IDs, and no others.
Registered ==
    /\ \A i \in IDs : incomingByID[i] # None =>
          /\ incomingByID[i] \in asCall /\ IdOf[incomingByID[i]] = i
          /\ phase[incomingByID[i]] \in Unanswered
    /\ \A q \in asCall : phase[q] \in Unanswered => incomingByID[IdOf[q]] = q
    /\ \A q \in asCall : IsCall(q)
    /\ \A q \in Reqs : phase[q] = "unread" /\ IsCall(q) => q \in asCall
    /\ \A q \in Reqs : phase[q] \in {"async", "result", "asyncResult"} => q \in asCall

\* The queue holds different requests, all waiting for the handler.
Queued ==
    /\ \A k \in 1..Len(handlerQueue) : phase[handlerQueue[k]] = "queued"
    /\ \A j, k \in 1..Len(handlerQueue) :
          handlerQueue[j] = handlerQueue[k] => j = k

Running == handlerQueue # <<>> \/ handler # None => handlerRunning

\* Once done is closed, nothing is in flight and nothing starts.
Finished == done => idle /\ ~reading /\ ~closer /\ shuttingDown

ConnInv ==
    /\ TypeOK /\ Counted /\ CallsOnce /\ Registered /\ Queued /\ Running
    /\ Finished

-----------------------------------------------------------------------------
(***************************************************************************)
(* Which steps change what.                                                *)
(***************************************************************************)

\* The steps of Call, of a response and of the end of the stream.
LEMMA CallFrame ==
    ASSUME [Next]_vars
    PROVE  \/ UNCHANGED <<call, retired, outgoingCalls>>
           \/ ReadError
           \/ \E c \in Calls : \/ CallMalformed(c) \/ CallStart(c)
                               \/ CallStep(c) \/ ReadResponse(c)
<1>1. CASE UNCHANGED vars
  BY <1>1 DEF vars, inFlight, procs
<1>2. CASE StartReading \/ HandlerNext \/ HandleReturnsAsync \/ Close \/ CloseReturns
  BY <1>2 DEF StartReading, HandlerNext, HandleReturnsAsync, Close, CloseReturns,
              inFlight
<1>3. CASE \E n \in Notifs : NotifyStart(n) \/ NotifyStep(n)
  BY <1>3 DEF NotifyStart, NotifyStep, NotifyWritten, NotifyWriteFails,
              NotifyDone, inFlight
<1>4. CASE \E q \in Reqs : AcceptRequest(q) \/ RequestStep(q)
  BY <1>4 DEF AcceptRequest, RequestStep, Preempt, EnqueueRequest, HandleResult,
              HandleAsync, Respond, RemoveID, ReplyWritten, ReplyFails,
              FinishRequest, inFlight
<1>5. CASE \E i \in IDs : Cancel(i)
  BY <1>5 DEF Cancel
<1> QED
  BY <1>1, <1>2, <1>3, <1>4, <1>5 DEF Next

\* The steps of Notify.
LEMMA NotifyFrame ==
    ASSUME [Next]_vars
    PROVE  \/ UNCHANGED <<notify, outgoingNotifications>>
           \/ \E n \in Notifs : NotifyStart(n) \/ NotifyStep(n)
<1>1. CASE UNCHANGED vars
  BY <1>1 DEF vars, inFlight, procs
<1>2. CASE \/ StartReading \/ HandlerNext \/ HandleReturnsAsync \/ Close
           \/ CloseReturns \/ ReadError
  BY <1>2 DEF StartReading, HandlerNext, HandleReturnsAsync, Close, CloseReturns,
              ReadError, inFlight
<1>3. CASE \E c \in Calls : CallMalformed(c) \/ CallStart(c) \/ CallStep(c) \/ ReadResponse(c)
  BY <1>3 DEF CallMalformed, CallStart, CallStep, CallRejected, CallWritten,
              CallWriteCancelled, CallWriteFails, CallFailed, ReadResponse, inFlight
<1>4. CASE \E q \in Reqs : AcceptRequest(q) \/ RequestStep(q)
  BY <1>4 DEF AcceptRequest, RequestStep, Preempt, EnqueueRequest, HandleResult,
              HandleAsync, Respond, RemoveID, ReplyWritten, ReplyFails,
              FinishRequest, inFlight
<1>5. CASE \E i \in IDs : Cancel(i)
  BY <1>5 DEF Cancel
<1> QED
  BY <1>1, <1>2, <1>3, <1>4, <1>5 DEF Next

\* The steps of incoming requests.
LEMMA RequestFrame ==
    ASSUME [Next]_vars
    PROVE  \/ UNCHANGED <<incoming, incomingByID, handlerQueue, handlerRunning,
                          phase, asCall, handler, reader>>
           \/ HandlerNext \/ HandleReturnsAsync
           \/ \E q \in Reqs : AcceptRequest(q) \/ RequestStep(q)
<1>1. CASE UNCHANGED vars
  BY <1>1 DEF vars, inFlight, procs
<1>2. CASE StartReading \/ Close \/ CloseReturns \/ ReadError
  BY <1>2 DEF StartReading, Close, CloseReturns, ReadError
<1>3. CASE \E c \in Calls : CallMalformed(c) \/ CallStart(c) \/ CallStep(c) \/ ReadResponse(c)
  BY <1>3 DEF CallMalformed, CallStart, CallStep, CallRejected, CallWritten,
              CallWriteCancelled, CallWriteFails, CallFailed, ReadResponse, inFlight
<1>4. CASE \E n \in Notifs : NotifyStart(n) \/ NotifyStep(n)
  BY <1>4 DEF NotifyStart, NotifyStep, NotifyWritten, NotifyWriteFails,
              NotifyDone, inFlight
<1>5. CASE \E i \in IDs : Cancel(i)
  BY <1>5 DEF Cancel
<1> QED
  BY <1>1, <1>2, <1>3, <1>4, <1>5 DEF Next

\* Every step that touches the connection ends in updateInFlight.
LEMMA UpdateFrame ==
    ASSUME [Next]_vars
    PROVE  UNCHANGED inFlight \/ updateInFlight
<1>1. CASE UNCHANGED vars
  BY <1>1 DEF vars
<1>2. CASE \/ StartReading \/ HandlerNext \/ HandleReturnsAsync \/ Close
           \/ CloseReturns \/ ReadError
  BY <1>2 DEF StartReading, HandlerNext, HandleReturnsAsync, Close, CloseReturns,
              ReadError
<1>3. CASE \E c \in Calls : CallMalformed(c) \/ CallStart(c) \/ CallStep(c) \/ ReadResponse(c)
  BY <1>3 DEF CallMalformed, CallStart, CallStep, CallRejected, CallWritten,
              CallWriteCancelled, CallWriteFails, CallFailed, ReadResponse
<1>4. CASE \E n \in Notifs : NotifyStart(n) \/ NotifyStep(n)
  BY <1>4 DEF NotifyStart, NotifyStep, NotifyWritten, NotifyWriteFails, NotifyDone
<1>5. CASE \E q \in Reqs : AcceptRequest(q) \/ RequestStep(q)
  BY <1>5 DEF AcceptRequest, RequestStep, Preempt, EnqueueRequest, HandleResult,
              HandleAsync, Respond, RemoveID, ReplyWritten, ReplyFails, FinishRequest
<1>6. CASE \E i \in IDs : Cancel(i)
  BY <1>6 DEF Cancel
<1> QED
  BY <1>1, <1>2, <1>3, <1>4, <1>5, <1>6 DEF Next

\* A connection that is shutting down keeps shutting down, and the stream is
\* read again only by StartReading.
LEMMA ShutdownFrame ==
    ASSUME [Next]_vars
    PROVE  /\ shuttingDown => shuttingDown'
           /\ \/ reading' = reading
              \/ StartReading \/ ReadError
<1>1. CASE UNCHANGED vars
  BY <1>1 DEF vars, inFlight, shuttingDown
<1>2. CASE \/ StartReading \/ HandlerNext \/ HandleReturnsAsync \/ Close
           \/ CloseReturns \/ ReadError
  BY <1>2 DEF StartReading, HandlerNext, HandleReturnsAsync, Close, CloseReturns,
              ReadError, inFlight, shuttingDown
<1>3. CASE \E c \in Calls : CallMalformed(c) \/ CallStart(c) \/ CallStep(c) \/ ReadResponse(c)
  BY <1>3 DEF CallMalformed, CallStart, CallStep, CallRejected, CallWritten,
              CallWriteCancelled, CallWriteFails, CallFailed, ReadResponse,
              WriteFails, inFlight, shuttingDown
<1>4. CASE \E n \in Notifs : NotifyStart(n) \/ NotifyStep(n)
  BY <1>4 DEF NotifyStart, NotifyStep, NotifyWritten, NotifyWriteFails,
              NotifyDone, WriteFails, inFlight, shuttingDown
<1>5. CASE \E q \in Reqs : AcceptRequest(q) \/ RequestStep(q)
  BY <1>5 DEF AcceptRequest, RequestStep, Preempt, EnqueueRequest, HandleResult,
              HandleAsync, Respond, RemoveID, ReplyWritten, ReplyFails,
              FinishRequest, WriteFails, inFlight, shuttingDown
<1>6. CASE \E i \in IDs : Cancel(i)
  BY <1>6 DEF Cancel, shuttingDown
<1> QED
  BY <1>1, <1>2, <1>3, <1>4, <1>5, <1>6 DEF Next

-----------------------------------------------------------------------------
(***************************************************************************)
(* The parts of the invariant, one by one.                                 *)
(***************************************************************************)

LEMMA CallsOncePreserved ==
    ASSUME ConnInv, [Next]_vars
    PROVE  CallsOnce'
<1>0. /\ outgoingCalls \subseteq Calls
      /\ call \in [Calls -> {"new", "rejected", "writing", "failed", "returned"}]
      /\ retired \in [Calls -> Nat]
      /\ CallsOnce
  BY DEF ConnInv, TypeOK
<1>1. CASE UNCHANGED <<call, retired, outgoingCalls>>
  BY <1>0, <1>1 DEF CallsOnce, CallOnce
<1>2. CASE ReadError
  <2>1. /\ outgoingCalls' = {} /\ call' = call
        /\ retired' = [c \in Calls |-> IF c \in outgoingCalls THEN retired[c] + 1
                                       ELSE retired[c]]
    BY <1>2 DEF ReadError, Retire
  <2> QED
    BY <1>0, <2>1 DEF CallsOnce, CallOnce
<1>3. ASSUME NEW c \in Calls, CallMalformed(c) \/ CallStart(c)
      PROVE  CallsOnce'
  BY <1>0, <1>3 DEF CallMalformed, CallStart, CallsOnce, CallOnce, Retire, inFlight
<1>4. ASSUME NEW c \in Calls, CallRejected(c) \/ CallWritten(c) \/ CallWriteCancelled(c)
      PROVE  CallsOnce'
  BY <1>0, <1>4 DEF CallRejected, CallWritten, CallWriteCancelled, CallsOnce,
                    CallOnce, Retire, inFlight
<1>5. ASSUME NEW c \in Calls, CallWriteFails(c)
      PROVE  CallsOnce'
  BY <1>0, <1>5 DEF CallWriteFails, CallsOnce, CallOnce
<1>6. ASSUME NEW c \in Calls, CallFailed(c)
      PROVE  CallsOnce'
  BY <1>0, <1>6 DEF CallFailed, CallsOnce, CallOnce, Retire
<1>7. ASSUME NEW c \in Calls, ReadResponse(c)
      PROVE  CallsOnce'
  BY <1>0, <1>7 DEF ReadResponse, CallsOnce, CallOnce, Retire
<1> QED
  BY <1>1, <1>2, <1>3, <1>4, <1>5, <1>6, <1>7, CallFrame DEF CallStep

LEMMA RunningPreserved ==
    ASSUME ConnInv, [Next]_vars
    PROVE  Running'
<1>0. Running
  BY DEF ConnInv
<1>1. CASE UNCHANGED <<incoming, incomingByID, handlerQueue, handlerRunning,
                       phase, asCall, handler, reader>>
  BY <1>0, <1>1 DEF Running
<1>2. CASE HandlerNext \/ HandleReturnsAsync
  BY <1>0, <1>2 DEF HandlerNext, HandleReturnsAsync, Running, inFlight
<1>3. ASSUME NEW q \in Reqs, AcceptRequest(q)
      PROVE  Running'
  BY <1>0, <1>3 DEF AcceptRequest, Running
<1>4. ASSUME NEW q \in Reqs, RequestStep(q)
      PROVE  Running'
  BY <1>0, <1>4 DEF RequestStep, Preempt, EnqueueRequest, HandleResult,
                    HandleAsync, Respond, RemoveID, ReplyWritten, ReplyFails,
                    FinishRequest, Running, inFlight
<1> QED
  BY <1>1, <1>2, <1>3, <1>4, RequestFrame

\* The request that the handler takes from the queue.
LEMMA HeadOfQueue ==
    ASSUME TypeOK, Queued, handlerQueue # <<>>
    PROVE  /\ Head(handlerQueue) \in Reqs
           /\ phase[Head(handlerQueue)] = "queued"
           /\ Len(handlerQueue) \in Nat \ {0}
           /\ Len(Tail(handlerQueue)) = Len(handlerQueue) - 1
           /\ \A k \in 1..Len(Tail(handlerQueue)) :
                 Tail(handlerQueue)[k] = handlerQueue[k + 1]
<1>1. handlerQueue \in Seq(Reqs)
  BY DEF TypeOK
<1>2. Len(handlerQueue) \in Nat \ {0} /\ Head(handlerQueue) = handlerQueue[1]
  BY <1>1
<1> QED
  BY <1>1, <1>2 DEF Queued

LEMMA QueuedPreserved ==
    ASSUME ConnInv, [Next]_vars
    PROVE  Queued'
<1>0. /\ TypeOK /\ Queued /\ handlerQueue \in Seq(Reqs) /\ phase \in [Reqs -> Phases]
      /\ \A k \in 1..Len(handlerQueue) : handlerQueue[k] \in Reqs
  BY DEF ConnInv, TypeOK
<1>1. CASE UNCHANGED <<handlerQueue, phase>>
  BY <1>0, <1>1 DEF Queued
<1>2. CASE HandlerNext
  <2>1. CASE handlerQueue # <<>>
    <3>1. /\ handlerQueue' = Tail(handlerQueue)
          /\ phase' = [phase EXCEPT ![Head(handlerQueue)] = "handling"]
      BY <1>2, <2>1 DEF HandlerNext
    <3>2. /\ Len(handlerQueue) \in Nat /\ Head(handlerQueue) = handlerQueue[1]
          /\ Len(handlerQueue') = Len(handlerQueue) - 1
          /\ \A k \in 1..Len(handlerQueue') : /\ handlerQueue'[k] = handlerQueue[k + 1]
                                              /\ k + 1 \in 1..Len(handlerQueue)
                                              /\ 1 \in 1..Len(handlerQueue)
      BY <1>0, <2>1, <3>1, HeadOfQueue
    <3>3. \A k \in 1..Len(handlerQueue') : phase'[handlerQueue'[k]] = "queued"
      <4> SUFFICES ASSUME NEW k \in 1..Len(handlerQueue')
                   PROVE  phase'[handlerQueue'[k]] = "queued"
        OBVIOUS
      <4>1. handlerQueue[k + 1] # handlerQueue[1]
        BY <1>0, <3>2 DEF Queued
      <4>2. phase[handlerQueue[k + 1]] = "queued" /\ handlerQueue[k + 1] \in Reqs
        BY <1>0, <3>2 DEF Queued
      <4> QED
        BY <1>0, <3>1, <3>2, <4>1, <4>2
    <3> QED
      BY <1>0, <3>2, <3>3 DEF Queued
  <2>2. CASE handlerQueue = <<>>
    BY <1>0, <1>2, <2>2 DEF HandlerNext, Queued
  <2> QED
    BY <2>1, <2>2
<1>3. ASSUME NEW q \in Reqs, EnqueueRequest(q)
      PROVE  Queued'
  <2>0. phase[q] = "enqueue"
    BY <1>3 DEF EnqueueRequest
  <2>1. CASE shuttingDown
    <3>1. /\ handlerQueue' = handlerQueue
          /\ phase' = [phase EXCEPT ![q] = ResultPhase(q)]
      BY <1>3, <2>1 DEF EnqueueRequest
    <3> QED
      BY <1>0, <2>0, <3>1 DEF Queued
  <2>2. CASE ~shuttingDown
    <3>1. /\ handlerQueue' = Append(handlerQueue, q)
          /\ phase' = [phase EXCEPT ![q] = "queued"]
      BY <1>3, <2>2 DEF EnqueueRequest
    <3>2. /\ Len(handlerQueue) \in Nat
          /\ Len(handlerQueue') = Len(handlerQueue) + 1
          /\ handlerQueue'[Len(handlerQueue) + 1] = q
          /\ \A k \in 1..Len(handlerQueue) : handlerQueue'[k] = handlerQueue[k]
      BY <1>0, <3>1
    <3>3. \A k \in 1..Len(handlerQueue) : handlerQueue[k] # q
      BY <1>0, <2>0 DEF Queued
    <3> QED
      BY <1>0, <3>1, <3>2, <3>3 DEF Queued
  <2> QED
    BY <2>1, <2>2
<1>4. ASSUME NEW q \in Reqs, AcceptRequest(q) \/ (RequestStep(q) /\ ~EnqueueRequest(q))
      PROVE  Queued'
  <2>1. handlerQueue' = handlerQueue
    BY <1>4 DEF AcceptRequest, RequestStep, Preempt, HandleResult, HandleAsync,
                Respond, RemoveID, ReplyWritten, ReplyFails, FinishRequest, inFlight
  <2>2. phase[q] # "queued" /\ \A p \in Reqs \ {q} : phase'[p] = phase[p]
    BY <1>0, <1>4 DEF AcceptRequest, RequestStep, Preempt, HandleResult, HandleAsync,
                Respond, RemoveID, ReplyWritten, ReplyFails, FinishRequest
  <2> QED
    BY <1>0, <2>1, <2>2 DEF Queued
<1>5. HandleReturnsAsync => UNCHANGED <<handlerQueue, phase>>
  BY DEF HandleReturnsAsync, inFlight
<1> QED
  BY <1>1, <1>2, <1>3, <1>4, <1>5, RequestFrame

\* A call gets its ID registered, keeps it until the answer, and loses it then.
LEMMA RegisteredPreserved ==
    ASSUME ConnInv, [Next]_vars
    PROVE  Registered'
<1>0. /\ TypeOK /\ Queued /\ Registered
      /\ phase \in [Reqs -> Phases] /\ asCall \subseteq Reqs
      /\ incomingByID \in [IDs -> Reqs \cup {None}]
      /\ None \notin Reqs /\ NoID \notin IDs /\ IdOf \in [Reqs -> IDs \cup {NoID}]
  BY ConnAssumption DEF ConnInv, TypeOK
<1>1. CASE UNCHANGED <<incomingByID, phase, asCall>>
  BY <1>0, <1>1 DEF Registered
<1>2. CASE HandlerNext
  <2>1. CASE handlerQueue # <<>>
    <3>1. /\ incomingByID' = incomingByID /\ asCall' = asCall
          /\ phase' = [phase EXCEPT ![Head(handlerQueue)] = "handling"]
      BY <1>2, <2>1 DEF HandlerNext
    <3>2. Head(handlerQueue) \in Reqs /\ phase[Head(handlerQueue)] = "queued"
      BY <1>0, <2>1, HeadOfQueue
    <3> QED
      BY <1>0, <3>1, <3>2 DEF Registered, Unanswered
  <2>2. CASE handlerQueue = <<>>
    BY <1>0, <1>2, <2>2 DEF HandlerNext, Registered
  <2> QED
    BY <2>1, <2>2
<1>3. ASSUME NEW q \in Reqs, AcceptRequest(q)
      PROVE  Registered'
  <2>0. phase[q] = "unread"
    BY <1>3 DEF AcceptRequest
  <2>1. CASE IsCall(q) /\ incomingByID[IdOf[q]] # None
    <3>1. /\ incomingByID' = incomingByID /\ asCall' = asCall \ {q}
          /\ phase' = [phase EXCEPT ![q] = "finish"]
      BY <1>3, <2>1 DEF AcceptRequest
    <3> QED
      BY <1>0, <2>0, <3>1 DEF Registered, Unanswered
  <2>2. CASE IsCall(q) /\ incomingByID[IdOf[q]] = None
    <3>1. /\ incomingByID' = [incomingByID EXCEPT ![IdOf[q]] = q]
          /\ asCall' = asCall
          /\ \/ phase' = [phase EXCEPT ![q] = "result"]
             \/ phase' = [phase EXCEPT ![q] = "preempt"]
      BY <1>3, <2>2 DEF AcceptRequest
    <3>2. q \in asCall /\ IdOf[q] \in IDs
      BY <1>0, <2>0, <2>2 DEF Registered, IsCall
    <3> QED
      BY <1>0, <2>0, <2>2, <3>1, <3>2 DEF Registered, Unanswered, IsCall
  <2>3. CASE ~IsCall(q)
    <3>1. /\ incomingByID' = incomingByID /\ asCall' = asCall
          /\ phase' = [phase EXCEPT ![q] = "preempt"]
      BY <1>3, <2>3 DEF AcceptRequest
    <3>2. q \notin asCall
      BY <1>0, <2>3 DEF Registered
    <3> QED
      BY <1>0, <2>0, <3>1, <3>2 DEF Registered, Unanswered
  <2> QED
    BY <2>1, <2>2, <2>3
<1>4. ASSUME NEW q \in Reqs, RemoveID(q)
      PROVE  Registered'
  <2>1. /\ phase[q] \in {"result", "asyncResult"}
        /\ incomingByID' = [incomingByID EXCEPT ![IdOf[q]] = None]
        /\ asCall' = asCall
        /\ \/ phase' = [phase EXCEPT ![q] = "reply"]
           \/ phase' = [phase EXCEPT ![q] = "asyncReply"]
    BY <1>4 DEF RemoveID
  <2>2. q \in asCall /\ IdOf[q] \in IDs /\ incomingByID[IdOf[q]] = q
    BY <1>0, <2>1 DEF Registered, IsCall, Unanswered
  <2> QED
    BY <1>0, <2>1, <2>2 DEF Registered, Unanswered, IsCall
<1>5. ASSUME NEW q \in Reqs, RequestStep(q), ~RemoveID(q)
      PROVE  Registered'
  <2>1. /\ incomingByID' = incomingByID /\ asCall' = asCall
        /\ \E p \in Phases :
              /\ phase' = [phase EXCEPT ![q] = p]
              /\ p # "unread"
              /\ p \in Unanswered <=> phase[q] \in Unanswered /\ p # "finish"
              /\ p = "finish" => q \notin asCall \/ phase[q] \notin Unanswered
              /\ p \in {"async", "result", "asyncResult"} => q \in asCall
    <3>1. ASSUME Preempt(q) \/ EnqueueRequest(q) PROVE <2>1
      BY <1>0, <3>1 DEF Preempt, EnqueueRequest, ResultPhase, inFlight, Phases,
                        Unanswered
    <3>2. ASSUME HandleResult(q) \/ HandleAsync(q) PROVE <2>1
      BY <1>0, <3>2 DEF HandleResult, HandleAsync, ResultPhase, inFlight, Phases,
                        Unanswered
    <3>3. ASSUME Respond(q) PROVE <2>1
      BY <1>0, <3>3 DEF Respond, Registered, Phases, Unanswered
    <3>4. ASSUME ReplyWritten(q) \/ ReplyFails(q) PROVE <2>1
      BY <1>0, <3>4 DEF ReplyWritten, ReplyFails, NextPhase, inFlight, Phases,
                        Unanswered
    <3>5. ASSUME FinishRequest(q) PROVE <2>1
      BY <1>0, <3>5 DEF FinishRequest, Phases, Unanswered
    <3> QED
      BY <1>5, <3>1, <3>2, <3>3, <3>4, <3>5 DEF RequestStep
  <2> QED
    BY <1>0, <2>1 DEF Registered
<1>6. HandleReturnsAsync => UNCHANGED <<incomingByID, phase, asCall>>
  BY DEF HandleReturnsAsync, inFlight
<1> QED
  BY <1>1, <1>2, <1>3, <1>4, <1>5, <1>6, RequestFrame

\* The sets behind the counters are finite.
LEMMA CountedSets ==
    /\ IsFiniteSet(InFlightReqs) /\ Cardinality(InFlightReqs) \in Nat
    /\ IsFiniteSet(ActiveNotifs) /\ Cardinality(ActiveNotifs) \in Nat
<1>1. InFlightReqs \in SUBSET Reqs /\ ActiveNotifs \in SUBSET Notifs
  BY DEF InFlightReqs, ActiveNotifs
<1>2. IsFiniteSet(InFlightReqs) /\ IsFiniteSet(ActiveNotifs)
  BY <1>1, FS_Subset, ConnAssumption
<1> QED
  BY <1>2, FS_CardinalityType

\* incoming counts the requests in flight, whoever moves them on.
LEMMA IncomingPreserved ==
    ASSUME ConnInv, [Next]_vars
    PROVE  incoming' = Cardinality(InFlightReqs')
<1>0. /\ TypeOK /\ Queued /\ phase \in [Reqs -> Phases]
      /\ incoming = Cardinality(InFlightReqs)
      /\ IsFiniteSet(InFlightReqs) /\ Cardinality(InFlightReqs) \in Nat
  BY CountedSets DEF ConnInv, TypeOK, Counted
<1>1. CASE UNCHANGED <<incoming, phase>>
  BY <1>0, <1>1 DEF InFlightReqs
<1>2. CASE HandlerNext
  <2>1. CASE handlerQueue # <<>>
    <3>1. /\ incoming' = incoming
          /\ phase' = [phase EXCEPT ![Head(handlerQueue)] = "handling"]
      BY <1>2, <2>1 DEF HandlerNext
    <3>2. InFlightReqs' = InFlightReqs
      BY <1>0, <2>1, <3>1, HeadOfQueue DEF InFlightReqs
    <3> QED
      BY <1>0, <3>1, <3>2
  <2>2. CASE handlerQueue = <<>>
    BY <1>0, <1>1, <1>2, <2>2 DEF HandlerNext
  <2> QED
    BY <2>1, <2>2
<1>3. ASSUME NEW q \in Reqs, AcceptRequest(q)
      PROVE  incoming' = Cardinality(InFlightReqs')
  <2>1. /\ incoming' = incoming + 1 /\ phase[q] = "unread"
        /\ \E p \in {"finish", "result", "preempt"} : phase' = [phase EXCEPT ![q] = p]
    BY <1>3 DEF AcceptRequest
  <2>2. InFlightReqs' = InFlightReqs \cup {q} /\ q \notin InFlightReqs
    BY <1>0, <2>1 DEF InFlightReqs
  <2> QED
    BY <1>0, <2>1, <2>2, FS_AddElement
<1>4. ASSUME NEW q \in Reqs, FinishRequest(q)
      PROVE  incoming' = Cardinality(InFlightReqs')
  <2>1. /\ incoming' = incoming - 1 /\ phase[q] \in {"finish", "asyncFinish"}
        /\ phase' = [phase EXCEPT ![q] = "done"]
    BY <1>4 DEF FinishRequest
  <2>2. InFlightReqs' = InFlightReqs \ {q} /\ q \in InFlightReqs
    BY <1>0, <2>1 DEF InFlightReqs
  <2> QED
    BY <1>0, <2>1, <2>2, FS_RemoveElement
<1>5. ASSUME NEW q \in Reqs, RequestStep(q), ~FinishRequest(q)
      PROVE  incoming' = Cardinality(InFlightReqs')
  <2>1. /\ incoming' = incoming /\ phase[q] \notin {"unread", "done"}
        /\ \E p : phase' = [phase EXCEPT ![q] = p] /\ p \notin {"unread", "done"}
    <3>1. CASE Preempt(q) \/ EnqueueRequest(q) \/ HandleResult(q) \/ HandleAsync(q)
      BY <3>1 DEF Preempt, EnqueueRequest, HandleResult, HandleAsync, ResultPhase,
                  inFlight
    <3>2. CASE Respond(q) \/ RemoveID(q)
      BY <3>2 DEF Respond, RemoveID
    <3>3. CASE ReplyWritten(q) \/ ReplyFails(q)
      BY <3>3 DEF ReplyWritten, ReplyFails, NextPhase, inFlight
    <3> QED
      BY <1>5, <3>1, <3>2, <3>3 DEF RequestStep
  <2>2. InFlightReqs' = InFlightReqs
    BY <1>0, <2>1 DEF InFlightReqs
  <2> QED
    BY <1>0, <2>1, <2>2
<1>6. HandleReturnsAsync => UNCHANGED <<incoming, phase>>
  BY DEF HandleReturnsAsync, inFlight
<1> QED
  BY <1>1, <1>2, <1>3, <1>4, <1>5, <1>6, RequestFrame

\* outgoingNotifications counts the calls of Notify that are under way.
LEMMA NotificationsPreserved ==
    ASSUME ConnInv, [Next]_vars
    PROVE  outgoingNotifications' = Cardinality(ActiveNotifs')
<1>0. /\ notify \in [Notifs -> {"new", "writing", "attempted", "returned"}]
      /\ outgoingNotifications = Cardinality(ActiveNotifs)
      /\ IsFiniteSet(ActiveNotifs) /\ Cardinality(ActiveNotifs) \in Nat
  BY CountedSets DEF ConnInv, TypeOK, Counted
<1>1. CASE UNCHANGED <<notify, outgoingNotifications>>
  BY <1>0, <1>1 DEF ActiveNotifs
<1>2. ASSUME NEW n \in Notifs, NotifyStart(n)
      PROVE  outgoingNotifications' = Cardinality(ActiveNotifs')
  <2>0. notify[n] = "new"
    BY <1>2 DEF NotifyStart
  <2>1. CASE /\ notify' = [notify EXCEPT ![n] = "returned"]
             /\ outgoingNotifications' = outgoingNotifications
    <3>1. ActiveNotifs' = ActiveNotifs
      BY <1>0, <2>0, <2>1 DEF ActiveNotifs
    <3> QED
      BY <1>0, <2>1, <3>1
  <2>2. CASE /\ notify' = [notify EXCEPT ![n] = "writing"]
             /\ outgoingNotifications' = outgoingNotifications + 1
    <3>1. ActiveNotifs' = ActiveNotifs \cup {n} /\ n \notin ActiveNotifs
      BY <1>0, <2>0, <2>2 DEF ActiveNotifs
    <3> QED
      BY <1>0, <2>2, <3>1, FS_AddElement
  <2> QED
    BY <1>2, <2>1, <2>2 DEF NotifyStart
<1>3. ASSUME NEW n \in Notifs, NotifyWritten(n) \/ NotifyWriteFails(n)
      PROVE  outgoingNotifications' = Cardinality(ActiveNotifs')
  <2>1. /\ notify[n] = "writing" /\ notify' = [notify EXCEPT ![n] = "attempted"]
        /\ outgoingNotifications' = outgoingNotifications
    BY <1>3 DEF NotifyWritten, NotifyWriteFails, inFlight
  <2>2. ActiveNotifs' = ActiveNotifs
    BY <1>0, <2>1 DEF ActiveNotifs
  <2> QED
    BY <1>0, <2>1, <2>2
<1>4. ASSUME NEW n \in Notifs, NotifyDone(n)
      PROVE  outgoingNotifications' = Cardinality(ActiveNotifs')
  <2>1. /\ notify[n] = "attempted" /\ notify' = [notify EXCEPT ![n] = "returned"]
        /\ outgoingNotifications' = outgoingNotifications - 1
    BY <1>4 DEF NotifyDone
  <2>2. ActiveNotifs' = ActiveNotifs \ {n} /\ n \in ActiveNotifs
    BY <1>0, <2>1 DEF ActiveNotifs
  <2> QED
    BY <1>0, <2>1, <2>2, FS_RemoveElement
<1> QED
  BY <1>1, <1>2, <1>3, <1>4, NotifyFrame DEF NotifyStep

\* When done is closed, no request is in flight and no ID is registered.
LEMMA NothingInFlight ==
    ASSUME ConnInv, done
    PROVE  /\ outgoingCalls = {} /\ outgoingNotifications = 0 /\ incoming = 0
           /\ ~handlerRunning /\ ~reading /\ ~closer /\ shuttingDown
           /\ InFlightReqs = {} /\ ActiveNotifs = {}
           /\ \A i \in IDs : incomingByID[i] = None
<1>1. /\ outgoingCalls = {} /\ outgoingNotifications = 0 /\ incoming = 0
      /\ ~handlerRunning /\ ~reading /\ ~closer /\ shuttingDown
  BY DEF ConnInv, Finished, idle
<1>2. InFlightReqs = {} /\ ActiveNotifs = {}
  BY <1>1, CountedSets, FS_EmptySet DEF ConnInv, Counted
<1>3. ASSUME NEW i \in IDs, incomingByID[i] # None
      PROVE  FALSE
  <2>1. incomingByID[i] \in Reqs /\ phase[incomingByID[i]] \in Unanswered
    BY <1>3 DEF ConnInv, TypeOK, Registered
  <2>2. incomingByID[i] \in InFlightReqs
    BY <2>1 DEF InFlightReqs, Unanswered
  <2> QED
    BY <1>2, <2>2
<1> QED
  BY <1>1, <1>2, <1>3

\* Nothing starts again once done is closed.
LEMMA StaysIdle ==
    ASSUME ConnInv, done, [Next]_vars
    PROVE  idle' /\ ~reading'
<1>0. /\ outgoingCalls = {} /\ outgoingNotifications = 0 /\ incoming = 0
      /\ ~handlerRunning /\ ~reading /\ shuttingDown
      /\ InFlightReqs = {} /\ ActiveNotifs = {}
      /\ \A i \in IDs : incomingByID[i] = None
  BY NothingInFlight
<1>1. outgoingCalls' = {}
  <2>1. ASSUME NEW c \in Calls, CallMalformed(c) \/ CallStart(c) \/ CallStep(c) \/ ReadResponse(c)
        PROVE  outgoingCalls' = {}
    BY <1>0, <2>1 DEF CallMalformed, CallStart, CallStep, CallRejected, CallWritten,
          CallWriteCancelled, CallWriteFails, CallFailed, ReadResponse, inFlight
  <2>2. ReadError => outgoingCalls' = {}
    BY DEF ReadError
  <2> QED
    BY <1>0, <2>1, <2>2, CallFrame
<1>2. outgoingNotifications' = 0
  <2>1. ASSUME NEW n \in Notifs, NotifyStart(n) PROVE outgoingNotifications' = 0
    BY <1>0, <2>1 DEF NotifyStart
  <2>2. ASSUME NEW n \in Notifs, NotifyStep(n) PROVE FALSE
    <3>1. n \in ActiveNotifs
      BY <2>2 DEF NotifyStep, NotifyWritten, NotifyWriteFails, NotifyDone, ActiveNotifs
    <3> QED
      BY <1>0, <3>1
  <2> QED
    BY <1>0, <2>1, <2>2, NotifyFrame
<1>3. incoming' = 0 /\ ~handlerRunning'
  <2>1. ASSUME NEW q \in Reqs, AcceptRequest(q) PROVE FALSE
    BY <1>0, <2>1 DEF AcceptRequest
  <2>2. ASSUME NEW q \in Reqs, RequestStep(q) PROVE FALSE
    <3>1. q \in InFlightReqs
      BY <2>2 DEF RequestStep, Preempt, EnqueueRequest, HandleResult, HandleAsync,
            Respond, RemoveID, ReplyWritten, ReplyFails, FinishRequest, InFlightReqs
    <3> QED
      BY <1>0, <3>1
  <2>3. HandlerNext => FALSE
    BY <1>0 DEF HandlerNext
  <2>4. HandleReturnsAsync => incoming' = 0 /\ ~handlerRunning'
    BY <1>0 DEF HandleReturnsAsync, inFlight
  <2> QED
    BY <1>0, <2>1, <2>2, <2>3, <2>4, RequestFrame
<1>4. ~reading'
  BY <1>0, ShutdownFrame DEF StartReading, ReadError
<1> QED
  BY <1>1, <1>2, <1>3, <1>4 DEF idle

LEMMA FinishedPreserved ==
    ASSUME ConnInv, [Next]_vars
    PROVE  Finished'
<1>1. CASE UNCHANGED inFlight
  BY <1>1 DEF ConnInv, Finished, inFlight, idle, shuttingDown
<1>2. CASE updateInFlight
  <2>1. CASE done
    <3>1. idle' /\ ~reading' /\ ~closer /\ shuttingDown
      BY <2>1, StaysIdle, NothingInFlight
    <3> QED
      BY <1>2, <3>1, ShutdownFrame DEF Finished, updateInFlight
  <2>2. CASE ~done
    BY <1>2, <2>2 DEF Finished, updateInFlight
  <2> QED
    BY <2>1, <2>2
<1> QED
  BY <1>1, <1>2, UpdateFrame

\* The flags stay flags.
LEMMA FlagsPreserved ==
    ASSUME TypeOK, [Next]_vars
    PROVE  {connClosing, reading, readErr, writeErr, closer, done}' \subseteq BOOLEAN
<1>0. {connClosing, reading, readErr, writeErr, closer, done} \subseteq BOOLEAN
  BY DEF TypeOK
<1>1. closer' \in BOOLEAN /\ done' \in BOOLEAN
  BY <1>0, UpdateFrame DEF updateInFlight, inFlight
<1>2. /\ connClosing' \in BOOLEAN /\ reading' \in BOOLEAN
      /\ readErr' \in BOOLEAN /\ writeErr' \in BOOLEAN
  <2>1. CASE UNCHANGED vars
    BY <1>0, <2>1 DEF vars, inFlight
  <2>2. CASE \/ StartReading \/ HandlerNext \/ HandleReturnsAsync \/ Close
             \/ CloseReturns \/ ReadError
    BY <1>0, <2>2 DEF StartReading, HandlerNext, HandleReturnsAsync, Close,
                      CloseReturns, ReadError, inFlight
  <2>3. CASE \E c \in Calls : \/ CallMalformed(c) \/ CallStart(c) \/ CallStep(c)
                              \/ ReadResponse(c)
    BY <1>0, <2>3 DEF CallMalformed, CallStart, CallStep, CallRejected, CallWritten,
          CallWriteCancelled, CallWriteFails, CallFailed, ReadResponse, WriteFails,
          inFlight
  <2>4. CASE \E n \in Notifs : NotifyStart(n) \/ NotifyStep(n)
    BY <1>0, <2>4 DEF NotifyStart, NotifyStep, NotifyWritten, NotifyWriteFails,
          NotifyDone, WriteFails, inFlight
  <2>5. CASE \E q \in Reqs : AcceptRequest(q) \/ RequestStep(q)
    BY <1>0, <2>5 DEF AcceptRequest, RequestStep, Preempt, EnqueueRequest,
          HandleResult, HandleAsync, Respond, RemoveID, ReplyWritten, ReplyFails,
          FinishRequest, WriteFails, inFlight
  <2>6. CASE \E i \in IDs : Cancel(i)
    BY <1>0, <2>6 DEF Cancel
  <2> QED
    BY <2>1, <2>2, <2>3, <2>4, <2>5, <2>6 DEF Next
<1> QED
  BY <1>1, <1>2

\* So do the variables of one goroutine each: bound, closing and cancelled.
LEMMA GoroutinesPreserved ==
    ASSUME TypeOK, [Next]_vars
    PROVE  /\ bound' \in BOOLEAN /\ closing' \in {"no", "waiting", "closed"}
           /\ cancelled' \subseteq Reqs
<1>0. /\ bound \in BOOLEAN /\ closing \in {"no", "waiting", "closed"}
      /\ cancelled \subseteq Reqs
      /\ incomingByID \in [IDs -> Reqs \cup {None}]
  BY DEF TypeOK
<1>1. CASE UNCHANGED vars
  BY <1>0, <1>1 DEF vars, procs
<1>2. CASE \/ StartReading \/ HandlerNext \/ HandleReturnsAsync \/ Close
           \/ CloseReturns \/ ReadError
  BY <1>0, <1>2 DEF StartReading, HandlerNext, HandleReturnsAsync, Close,
                    CloseReturns, ReadError
<1>3. CASE \E c \in Calls : CallMalformed(c) \/ CallStart(c) \/ CallStep(c) \/ ReadResponse(c)
  BY <1>0, <1>3 DEF CallMalformed, CallStart, CallStep, CallRejected, CallWritten,
        CallWriteCancelled, CallWriteFails, CallFailed, ReadResponse, WriteFails
<1>4. CASE \E n \in Notifs : NotifyStart(n) \/ NotifyStep(n)
  BY <1>0, <1>4 DEF NotifyStart, NotifyStep, NotifyWritten, NotifyWriteFails,
        NotifyDone, WriteFails
<1>5. CASE \E q \in Reqs : AcceptRequest(q) \/ RequestStep(q)
  BY <1>0, <1>5 DEF AcceptRequest, RequestStep, Preempt, EnqueueRequest,
        HandleResult, HandleAsync, Respond, RemoveID, ReplyWritten, ReplyFails,
        FinishRequest, WriteFails
<1>6. CASE \E i \in IDs : Cancel(i)
  BY <1>0, <1>6 DEF Cancel
<1> QED
  BY <1>1, <1>2, <1>3, <1>4, <1>5, <1>6 DEF Next

LEMMA TypePreserved ==
    ASSUME ConnInv, [Next]_vars
    PROVE  TypeOK'
<1>0. /\ TypeOK /\ Queued
      /\ outgoingCalls \subseteq Calls
      /\ incomingByID \in [IDs -> Reqs \cup {None}]
      /\ handlerQueue \in Seq(Reqs) /\ handlerRunning \in BOOLEAN
      /\ call \in [Calls -> {"new", "rejected", "writing", "failed", "returned"}]
      /\ retired \in [Calls -> Nat]
      /\ notify \in [Notifs -> {"new", "writing", "attempted", "returned"}]
      /\ phase \in [Reqs -> Phases] /\ asCall \subseteq Reqs
      /\ reader \in Reqs \cup {None} /\ handler \in Reqs \cup {None}
  BY DEF ConnInv, TypeOK
<1>1. /\ outgoingCalls' \subseteq Calls /\ retired' \in [Calls -> Nat]
      /\ call' \in [Calls -> {"new", "rejected", "writing", "failed", "returned"}]
  <2>1. ASSUME NEW S, Retire(S) PROVE retired' \in [Calls -> Nat]
    BY <1>0, <2>1 DEF Retire
  <2>2. CASE UNCHANGED <<call, retired, outgoingCalls>>
    BY <1>0, <2>2
  <2>3. CASE ReadError
    BY <1>0, <2>1, <2>3 DEF ReadError
  <2>4. ASSUME NEW c \in Calls, CallMalformed(c) \/ CallStart(c) \/ CallRejected(c)
        PROVE  <1>1
    BY <1>0, <2>1, <2>4 DEF CallMalformed, CallStart, CallRejected, inFlight
  <2>5. ASSUME NEW c \in Calls,
               CallWritten(c) \/ CallWriteCancelled(c) \/ CallWriteFails(c)
        PROVE  <1>1
    BY <1>0, <2>5 DEF CallWritten, CallWriteCancelled, CallWriteFails, inFlight
  <2>6. ASSUME NEW c \in Calls, CallFailed(c) \/ ReadResponse(c)
        PROVE  <1>1
    BY <1>0, <2>1, <2>6 DEF CallFailed, ReadResponse
  <2> QED
    BY <2>2, <2>3, <2>4, <2>5, <2>6, CallFrame DEF CallStep
<1>2. notify' \in [Notifs -> {"new", "writing", "attempted", "returned"}]
  BY <1>0, NotifyFrame DEF NotifyStart, NotifyStep, NotifyWritten,
        NotifyWriteFails, NotifyDone
<1>3. /\ incomingByID' \in [IDs -> Reqs \cup {None}]
      /\ handlerQueue' \in Seq(Reqs) /\ handlerRunning' \in BOOLEAN
      /\ phase' \in [Reqs -> Phases] /\ asCall' \subseteq Reqs
      /\ reader' \in Reqs \cup {None} /\ handler' \in Reqs \cup {None}
  <2>1. CASE UNCHANGED <<incoming, incomingByID, handlerQueue, handlerRunning,
                         phase, asCall, handler, reader>>
    BY <1>0, <2>1
  <2>2. CASE HandlerNext
    <3>1. CASE handlerQueue # <<>>
      <4>1. Head(handlerQueue) \in Reqs /\ Tail(handlerQueue) \in Seq(Reqs)
        BY <1>0, <3>1
      <4> QED
        BY <1>0, <2>2, <3>1, <4>1 DEF HandlerNext, Phases
    <3>2. CASE handlerQueue = <<>>
      BY <1>0, <2>2, <3>2 DEF HandlerNext
    <3> QED
      BY <3>1, <3>2
  <2>3. CASE HandleReturnsAsync
    BY <1>0, <2>3 DEF HandleReturnsAsync, inFlight
  <2>4. ASSUME NEW q \in Reqs, AcceptRequest(q) PROVE <1>3
    BY <1>0, <2>4 DEF AcceptRequest, Phases
  <2>5. ASSUME NEW q \in Reqs, Preempt(q) \/ EnqueueRequest(q) PROVE <1>3
    <3>1. Append(handlerQueue, q) \in Seq(Reqs)
      BY <1>0
    <3>2. ResultPhase(q) \in Phases
      BY DEF ResultPhase, Phases
    <3>3. CASE Preempt(q)
      BY <1>0, <3>2, <3>3 DEF Preempt, Phases, inFlight
    <3>4. CASE EnqueueRequest(q)
      BY <1>0, <3>1, <3>2, <3>4 DEF EnqueueRequest, Phases
    <3> QED
      BY <2>5, <3>3, <3>4
  <2>6. ASSUME NEW q \in Reqs, HandleResult(q) \/ HandleAsync(q) \/ Respond(q)
        PROVE  <1>3
    BY <1>0, <2>6 DEF HandleResult, HandleAsync, Respond, ResultPhase, Phases, inFlight
  <2>7. ASSUME NEW q \in Reqs, RemoveID(q) \/ ReplyWritten(q) \/ ReplyFails(q)
        PROVE  <1>3
    BY <1>0, <2>7 DEF RemoveID, ReplyWritten, ReplyFails, NextPhase, Phases, inFlight
  <2>8. ASSUME NEW q \in Reqs, FinishRequest(q) PROVE <1>3
    BY <1>0, <2>8 DEF FinishRequest, Phases
  <2> QED
    BY <2>1, <2>2, <2>3, <2>4, <2>5, <2>6, <2>7, <2>8, RequestFrame DEF RequestStep
<1>4. incoming' \in Nat /\ outgoingNotifications' \in Nat
  <2>1. InFlightReqs' \in SUBSET Reqs /\ ActiveNotifs' \in SUBSET Notifs
    BY DEF InFlightReqs, ActiveNotifs
  <2>2. IsFiniteSet(InFlightReqs') /\ IsFiniteSet(ActiveNotifs')
    BY <2>1, FS_Subset, ConnAssumption
  <2>3. Cardinality(InFlightReqs') \in Nat /\ Cardinality(ActiveNotifs') \in Nat
    BY <2>2, FS_CardinalityType
  <2> QED
    BY <2>3, IncomingPreserved, NotificationsPreserved
<1> QED
  BY <1>0, <1>1, <1>2, <1>3, <1>4, FlagsPreserved, GoroutinesPreserved DEF TypeOK

LEMMA InitConnInv == Init => ConnInv
<1> SUFFICES ASSUME Init PROVE ConnInv
  OBVIOUS
<1>1. InFlightReqs = {} /\ ActiveNotifs = {}
  BY DEF Init, InFlightReqs, ActiveNotifs
<1>2. TypeOK
  <2>1. incomingByID \in [IDs -> Reqs \cup {None}] /\ phase \in [Reqs -> Phases]
    BY DEF Init, Phases
  <2>2. /\ call \in [Calls -> {"new", "rejected", "writing", "failed", "returned"}]
        /\ retired \in [Calls -> Nat]
        /\ notify \in [Notifs -> {"new", "writing", "attempted", "returned"}]
    BY DEF Init
  <2>3. {connClosing, reading, readErr, writeErr, closer, done} \subseteq BOOLEAN
    BY DEF Init
  <2>4. handlerQueue \in Seq(Reqs)
    BY DEF Init
  <2> QED
    BY <2>1, <2>2, <2>3, <2>4 DEF Init, TypeOK
<1>3. Counted
  BY <1>1, FS_EmptySet DEF Init, Counted
<1>4. CallsOnce /\ Queued /\ Running /\ Finished
  BY DEF Init, CallsOnce, CallOnce, Queued, Running, Finished
<1>5. Registered
  BY ConnAssumption DEF Init, Registered, Unanswered, IsCall
<1> QED
  BY <1>2, <1>3, <1>4, <1>5 DEF ConnInv

LEMMA NextConnInv == ConnInv /\ [Next]_vars => ConnInv'
<1> SUFFICES ASSUME ConnInv, [Next]_vars PROVE ConnInv'
  OBVIOUS
<1>1. Counted'
  BY IncomingPreserved, NotificationsPreserved DEF Counted
<1> QED
  BY <1>1, TypePreserved, CallsOncePreserved, RegisteredPreserved, QueuedPreserved,
     RunningPreserved, FinishedPreserved DEF ConnInv

LEMMA ConnInvariant == Spec => []ConnInv
  BY InitConnInv, NextConnInv, PTL DEF Spec

-----------------------------------------------------------------------------
(***************************************************************************)
(* The theorems.                                                           *)
(***************************************************************************)

\* The state of a connection stays in its type; in particular neither counter
\* of inFlightState goes below zero.
THEOREM TypeCorrect == Spec => []TypeOK
<1>1. ConnInv => TypeOK
  BY DEF ConnInv
<1> QED
  BY <1>1, ConnInvariant, PTL

\* incoming counts the requests in flight, and once the channel done is closed
\* the connection stays idle: the panics of processResult and of
\* updateInFlight are unreachable.
THEOREM CountersExact == Spec => []InFlightExact
<1>1. ConnInv => InFlightExact
  BY DEF ConnInv, Counted, Finished, InFlightExact
<1> QED
  BY <1>1, ConnInvariant, PTL

\* A registered ID belongs to an unanswered call, and queued requests have a
\* goroutine that handles them.
THEOREM Served == Spec => []RequestsServed
<1>1. ConnInv => RequestsServed
  BY DEF ConnInv, Registered, Running, Unanswered, RequestsServed
<1> QED
  BY <1>1, ConnInvariant, PTL

\* No AsyncCall is retired twice, and a Call that has returned is retired or
\* in flight, though Call, readIncoming and the end of the stream race.
THEOREM RetiredOnce == Spec => []CallsRetiredOnce
<1>1. ConnInv => CallsRetiredOnce
  BY DEF ConnInv, CallsOnce, CallOnce, CallsRetiredOnce
<1> QED
  BY <1>1, ConnInvariant, PTL

\* During the shutdown no outgoing call begins and the queue does not grow.
THEOREM Drains == Spec => ShutdownDrains
<1>1. ConnInv /\ [Next]_vars =>
        [shuttingDown => /\ outgoingCalls' \subseteq outgoingCalls
                         /\ Len(handlerQueue') <= Len(handlerQueue)]_vars
  <2> SUFFICES ASSUME ConnInv, [Next]_vars, shuttingDown
               PROVE  /\ outgoingCalls' \subseteq outgoingCalls
                      /\ Len(handlerQueue') <= Len(handlerQueue)
    OBVIOUS
  <2>0. TypeOK /\ Queued /\ handlerQueue \in Seq(Reqs) /\ Len(handlerQueue) \in Nat
    BY DEF ConnInv, TypeOK
  <2>1. outgoingCalls' \subseteq outgoingCalls
    BY CallFrame DEF ReadError, CallMalformed, CallStart, CallStep, CallRejected,
          CallWritten, CallWriteCancelled, CallWriteFails, CallFailed, ReadResponse,
          inFlight
  <2>2. CASE UNCHANGED handlerQueue
    BY <2>0, <2>1, <2>2
  <2>3. CASE HandlerNext
    <3>1. CASE handlerQueue # <<>>
      <4>1. handlerQueue' = Tail(handlerQueue)
        BY <2>3, <3>1 DEF HandlerNext
      <4> QED
        BY <2>0, <2>1, <3>1, <4>1, HeadOfQueue
    <3>2. CASE handlerQueue = <<>>
      BY <2>2, <2>3, <3>2 DEF HandlerNext
    <3> QED
      BY <3>1, <3>2
  <2>4. ASSUME NEW q \in Reqs, AcceptRequest(q) \/ RequestStep(q)
        PROVE  UNCHANGED handlerQueue
    BY <2>4 DEF AcceptRequest, RequestStep, Preempt, EnqueueRequest, HandleResult,
          HandleAsync, Respond, RemoveID, ReplyWritten, ReplyFails, FinishRequest,
          inFlight
  <2>5. HandleReturnsAsync => UNCHANGED handlerQueue
    BY DEF HandleReturnsAsync, inFlight
  <2> QED
    BY <2>2, <2>3, <2>4, <2>5, RequestFrame
<1> QED
  BY <1>1, ConnInvariant, PTL DEF Spec, ShutdownDrains

-----------------------------------------------------------------------------
(***************************************************************************)
(* The connection implements RpcCalls.                                     *)
(***************************************************************************)

\* The status of a call and the state of the connection, as RpcCalls sees them.
Status == [c \in Calls |-> CASE retired[c] > 0       -> "retired"
                             [] c \in outgoingCalls -> "pending"
                             [] OTHER               -> "idle"]

ConnState == IF done THEN "done" ELSE IF shuttingDown THEN "shut" ELSE "open"

\* The connection never goes back: it shuts down, and then it is done.
LEMMA ConnForward ==
    ASSUME ConnInv, [Next]_vars
    PROVE  /\ ConnState' \in Abs!Later(ConnState)
           /\ ConnState' = "done" => done' /\ outgoingCalls' = {}
<1>1. done => done'
  BY UpdateFrame DEF updateInFlight, inFlight
<1>2. done => shuttingDown
  BY DEF ConnInv, Finished
<1>3. done' => outgoingCalls' = {}
  BY FinishedPreserved DEF Finished, idle
<1>4. shuttingDown => shuttingDown'
  BY ShutdownFrame
<1>5. ConnState' = "done" => done'
  BY DEF ConnState
<1>6. ConnState' \in Abs!Later(ConnState)
  BY <1>1, <1>2, <1>4 DEF ConnState, Abs!Later
<1> QED
  BY <1>3, <1>5, <1>6

\* A step that retires the calls it removes from outgoingCalls is a Settle.
LEMMA SettleStep ==
    ASSUME ConnInv, [Next]_vars, NEW S \in SUBSET outgoingCalls,
           outgoingCalls' = outgoingCalls \ S,
           retired' = [c \in Calls |-> IF c \in S THEN retired[c] + 1 ELSE retired[c]]
    PROVE  Abs!Next
<1>0. /\ outgoingCalls \subseteq Calls /\ retired \in [Calls -> Nat] /\ CallsOnce
      /\ \A c \in outgoingCalls : retired[c] = 0
  BY DEF ConnInv, TypeOK, CallsOnce, CallOnce
<1>1. Abs!Pending = outgoingCalls
  BY <1>0 DEF Abs!Pending
<1>2. Status' = [c \in Calls |-> IF c \in S THEN "retired" ELSE Status[c]]
  <2>1. ASSUME NEW c \in Calls
        PROVE  Status'[c] = IF c \in S THEN "retired" ELSE Status[c]
    BY <1>0, <2>1 DEF Status
  <2> QED
    BY <2>1 DEF Status
<1>3. ConnState' = "done" => S = outgoingCalls
  BY ConnForward
<1>4. Abs!Settle(S)
  BY <1>1, <1>2, <1>3, ConnForward DEF Abs!Settle, Status, ConnState
<1> QED
  BY <1>1, <1>4 DEF Abs!Next

LEMMA RefineStep == ConnInv /\ [Next]_vars => [Abs!Next]_(Abs!vars)
<1> SUFFICES ASSUME ConnInv, [Next]_vars PROVE Abs!Next \/ UNCHANGED Abs!vars
  OBVIOUS
<1>0. /\ outgoingCalls \subseteq Calls /\ retired \in [Calls -> Nat] /\ CallsOnce
      /\ call \in [Calls -> {"new", "rejected", "writing", "failed", "returned"}]
  BY DEF ConnInv, TypeOK
<1>1. CASE UNCHANGED <<retired, outgoingCalls>>
  <2>1. /\ {} \in SUBSET outgoingCalls /\ outgoingCalls' = outgoingCalls \ {}
        /\ retired' = [c \in Calls |-> IF c \in {} THEN retired[c] + 1 ELSE retired[c]]
    BY <1>0, <1>1
  <2> QED
    BY <2>1, SettleStep
<1>2. CASE ReadError
  BY <1>0, <1>2, SettleStep DEF ReadError, Retire
<1>3. ASSUME NEW c \in Calls, CallFailed(c) \/ ReadResponse(c)
      PROVE  Abs!Next
  <2>1. /\ {c} \intersect outgoingCalls \in SUBSET outgoingCalls
        /\ outgoingCalls' = outgoingCalls \ ({c} \intersect outgoingCalls)
        /\ Retire({c} \intersect outgoingCalls)
    BY <1>3 DEF CallFailed, ReadResponse
  <2> QED
    BY <2>1, SettleStep DEF Retire
<1>4. ASSUME NEW c \in Calls, CallMalformed(c) \/ CallRejected(c)
      PROVE  Abs!Next
  <2>1. /\ UNCHANGED inFlight /\ call[c] \in {"new", "rejected"}
        /\ retired' = [d \in Calls |-> IF d \in {c} THEN retired[d] + 1 ELSE retired[d]]
    BY <1>4 DEF CallMalformed, CallRejected, Retire
  <2>2. retired[c] = 0 /\ c \notin outgoingCalls
    BY <1>0, <2>1 DEF CallsOnce, CallOnce
  <2>3. Status[c] = "idle" /\ Status' = [Status EXCEPT ![c] = "retired"]
    <3>0. retired'[c] = 1 /\ outgoingCalls' = outgoingCalls
      BY <1>0, <2>1, <2>2 DEF inFlight
    <3>1. Status[c] = "idle" /\ Status'[c] = "retired"
      BY <2>2, <3>0 DEF Status
    <3>2. ASSUME NEW d \in Calls, d # c PROVE Status'[d] = Status[d]
      BY <1>0, <2>1, <3>2 DEF Status, inFlight
    <3> QED
      BY <3>1, <3>2 DEF Status
  <2>4. ConnState' = ConnState
    BY <2>1 DEF ConnState, inFlight, shuttingDown
  <2>5. Abs!Refuse(c)
    BY <2>3, <2>4 DEF Abs!Refuse, Status, ConnState
  <2> QED
    BY <2>5 DEF Abs!Next
<1>5. ASSUME NEW c \in Calls, CallStart(c), ~shuttingDown
      PROVE  Abs!Next
  <2>1. /\ call[c] = "new" /\ outgoingCalls' = outgoingCalls \cup {c}
        /\ retired' = retired /\ shuttingDown' = shuttingDown
        /\ updateInFlight
    BY <1>5 DEF CallStart, shuttingDown
  <2>2. retired[c] = 0 /\ c \notin outgoingCalls
    BY <1>0, <2>1 DEF CallsOnce, CallOnce
  <2>3. Status[c] = "idle" /\ Status' = [Status EXCEPT ![c] = "pending"]
    <3>1. Status[c] = "idle" /\ Status'[c] = "pending"
      BY <1>0, <2>1, <2>2 DEF Status
    <3>2. ASSUME NEW d \in Calls, d # c PROVE Status'[d] = Status[d]
      BY <1>0, <2>1, <3>2 DEF Status
    <3> QED
      BY <3>1, <3>2 DEF Status
  <2>4. ~done /\ ~done'
    BY <1>5, <2>1 DEF ConnInv, Finished, updateInFlight, idle
  <2>5. ConnState = "open" /\ ConnState' = "open"
    BY <1>5, <2>1, <2>4 DEF ConnState
  <2>6. Abs!Begin(c)
    BY <2>3, <2>5 DEF Abs!Begin, Status, ConnState
  <2> QED
    BY <2>6 DEF Abs!Next
<1>6. ASSUME NEW c \in Calls, CallStart(c), shuttingDown
      PROVE  UNCHANGED <<retired, outgoingCalls>>
  BY <1>6 DEF CallStart
<1>7. ASSUME NEW c \in Calls, CallWritten(c) \/ CallWriteCancelled(c) \/ CallWriteFails(c)
      PROVE  UNCHANGED <<retired, outgoingCalls>>
  BY <1>7 DEF CallWritten, CallWriteCancelled, CallWriteFails, inFlight
<1> QED
  BY <1>1, <1>2, <1>3, <1>4, <1>5, <1>6, <1>7, CallFrame DEF CallStep

\* The connection implements RpcCalls: every call that begins gets exactly one
\* outcome, in the critical section that forgets it, and the connection is
\* done only when no call is pending.
THEOREM Refinement == Spec => ImplementsRpcCalls
<1>1. Init => Abs!Init
  BY DEF Init, Abs!Init, shuttingDown
<1> QED
  BY <1>1, RefineStep, ConnInvariant, PTL DEF Spec, ImplementsRpcCalls, Abs!Spec
=============================================================================
