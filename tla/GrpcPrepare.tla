----------------------------- MODULE GrpcPrepare -----------------------------
(***************************************************************************)
(* Progress of Prepare over gRPC: Prepare of the client (provider/grpc/    *)
(* service_client.go) opens a stream, calls Prepare and cancels the        *)
(* stream; StreamPrepareProgress of the server (provider/server.go) ranges *)
(* over the channel of the one ChannelReporter of the server               *)
(* (progress/reporter/channel_reporter.go), which all streams share, and   *)
(* learns that its client went away only when it sends.                    *)
(*                                                                         *)
(* Calls are made one after the other (FullPrepareResponse), each by a     *)
(* service client with a collector of its own; the events of a call are    *)
(* numbered on from those of the calls before.  An event of the provider   *)
(* passes its own Progress and may reach the reporter late.  All events    *)
(* are of the stage provider-prepare, the only one that the service        *)
(* clients of this repository report there.                                *)
(*                                                                         *)
(* Prepare cancels the stream and does not wait for the goroutine that     *)
(* receives from it: until it notices it may receive what has arrived, and *)
(* report late.  Init of the client unsubscribed the collector when it     *)
(* returned (provider/grpc/provider.go): the goroutine that forwards from  *)
(* it is there until it notices, and nobody reads the collector then.      *)
(***************************************************************************)
EXTENDS Naturals, Sequences, SequencesExt, FiniteSets

CONSTANTS
    Calls,          \* the number of calls of Prepare
    Events,         \* bound on the events of a call
    ReporterCap     \* the buffer of the reporter (100 in the code)

(* At least one call is made.                                              *)
ASSUME PrepareBounds ==
    Calls \in Nat \ {0} /\ Events \in Nat /\ ReporterCap \in Nat

VARIABLES
    call,           \* the call that is made
    phase,          \* "idle", "open", "called", or "over" after the last one
    stream,         \* call -> "none", "on", "cancelled" (by the client), "ended"
    hand,           \* call -> what its server side took and did not send
    wire,           \* call -> sent and not received
    receiver,       \* call -> its streamPrepareProgress: "none", "on", "ended"
    received,       \* call -> what that received and did not report
    buffer,         \* the channel of the reporter
    events,         \* the number of events given to Report
    dropped,        \* those that the full channel dropped
    lost,           \* those that nobody receives any more
    got,            \* call -> what the collector of its client was given
    forwarder,      \* call -> Progress still forwards from that collector
    shown           \* call -> how many of them it has forwarded

serverVars == <<buffer, events, dropped>>
prepareVars == <<call, phase, stream, hand, wire, receiver, received, serverVars, lost, got,
                 forwarder, shown>>

C == 1..Calls
Empty == 0

PrepareInit ==
    /\ call = 1 /\ phase = "idle"
    /\ stream = [c \in C |-> "none"] /\ hand = [c \in C |-> Empty] /\ wire = [c \in C |-> <<>>]
    /\ receiver = [c \in C |-> "none"] /\ received = [c \in C |-> Empty]
    /\ buffer = <<>> /\ events = 0 /\ dropped = {} /\ lost = {}
    /\ got = [c \in C |-> <<>>] /\ forwarder = [c \in C |-> TRUE] /\ shown = [c \in C |-> 0]
-----------------------------------------------------------------------------
(* Client                                                                  *)

(* The stream is opened before Prepare is called; that it cannot be opened *)
(* is not an error.                                                        *)
Open(ok) ==
    /\ phase = "idle"
    /\ phase' = "open"
    /\ stream' = [stream EXCEPT ![call] = IF ok THEN "on" ELSE "ended"]
    /\ receiver' = [receiver EXCEPT ![call] = IF ok THEN "on" ELSE "ended"]
    /\ UNCHANGED <<call, hand, wire, received, serverVars, lost, got, forwarder, shown>>

CallPrepare ==
    /\ phase = "open"
    /\ phase' = "called"
    /\ UNCHANGED <<call, stream, hand, wire, receiver, received, serverVars, lost, got,
                   forwarder, shown>>

(* Prepare returned: streamCancel, and the next client is called.          *)
Return ==
    /\ phase = "called"
    /\ stream' = [stream EXCEPT ![call] = IF @ = "on" THEN "cancelled" ELSE @]
    /\ IF call = Calls THEN phase' = "over" /\ UNCHANGED call
       ELSE phase' = "idle" /\ call' = call + 1
    /\ UNCHANGED <<hand, wire, receiver, received, serverVars, lost, got, forwarder, shown>>

(* stream.Recv returns an event, also one that arrived before the end.     *)
Recv(c) ==
    /\ receiver[c] = "on" /\ received[c] = Empty /\ wire[c] # <<>>
    /\ received' = [received EXCEPT ![c] = Head(wire[c])]
    /\ wire' = [wire EXCEPT ![c] = Tail(@)]
    /\ UNCHANGED <<call, phase, stream, hand, receiver, serverVars, lost, got, forwarder, shown>>

(* ... or, on a cancelled stream, an error: what is on the wire is gone.   *)
RecvFails(c) ==
    /\ receiver[c] = "on" /\ received[c] = Empty /\ stream[c] # "on"
    /\ receiver' = [receiver EXCEPT ![c] = "ended"]
    /\ lost' = lost \cup ToSet(wire[c])
    /\ wire' = [wire EXCEPT ![c] = <<>>]
    /\ UNCHANGED <<call, phase, stream, hand, received, serverVars, got, forwarder, shown>>

(* The event is given to the collector, perhaps after Prepare returned.    *)
GiveEvent(c) ==
    /\ received[c] # Empty
    /\ got' = [got EXCEPT ![c] = Append(@, received[c])]
    /\ received' = [received EXCEPT ![c] = Empty]
    /\ UNCHANGED <<call, phase, stream, hand, wire, receiver, serverVars, lost, forwarder, shown>>

(* The goroutine of Subscribe forwards an event; unsubscribed it may       *)
(* return instead, at any time.                                            *)
ShowEvent(c) ==
    /\ forwarder[c] /\ shown[c] < Len(got[c])
    /\ shown' = [shown EXCEPT ![c] = @ + 1]
    /\ UNCHANGED <<call, phase, stream, hand, wire, receiver, received, serverVars, lost, got,
                   forwarder>>

ForwarderReturns(c) ==
    /\ forwarder[c]
    /\ forwarder' = [forwarder EXCEPT ![c] = FALSE]
    /\ UNCHANGED <<call, phase, stream, hand, wire, receiver, received, serverVars, lost, got,
                   shown>>
-----------------------------------------------------------------------------
(* Server                                                                  *)

(* ChannelReporter.Report: an event is dropped if the channel is full.     *)
ReportEvent ==
    /\ events < Events * (IF phase \in {"called", "over"} THEN call ELSE call - 1)
    /\ events' = events + 1
    /\ IF Len(buffer) < ReporterCap
       THEN buffer' = Append(buffer, events + 1) /\ UNCHANGED dropped
       ELSE dropped' = dropped \cup {events + 1} /\ UNCHANGED buffer
    /\ UNCHANGED <<call, phase, stream, hand, wire, receiver, received, lost, got, forwarder,
                   shown>>

(* StreamPrepareProgress of any call that has not ended takes an event.    *)
TakeEvent(c) ==
    /\ stream[c] \in {"on", "cancelled"} /\ hand[c] = Empty /\ buffer # <<>>
    /\ hand' = [hand EXCEPT ![c] = Head(buffer)]
    /\ buffer' = Tail(buffer)
    /\ UNCHANGED <<call, phase, stream, wire, receiver, received, events, dropped, lost, got,
                   forwarder, shown>>

\* Mutant: an event that could not be sent is put back.
SendPutsBack(c, fate) ==
    /\ hand[c] # Empty
    /\ hand' = [hand EXCEPT ![c] = Empty]
    /\ \/ /\ fate = "arrives" /\ receiver[c] = "on"
          /\ wire' = [wire EXCEPT ![c] = Append(@, hand[c])]
          /\ UNCHANGED <<lost, stream, buffer>>
       \/ /\ fate = "fails" /\ stream[c] = "cancelled"
          /\ buffer' = Append(buffer, hand[c])
          /\ stream' = [stream EXCEPT ![c] = "ended"]
          /\ UNCHANGED <<wire, lost>>
    /\ UNCHANGED <<call, phase, receiver, received, events, dropped, got, forwarder, shown>>

(* Send: an event arrives while the client receives.  Once the client      *)
(* cancelled, it may also succeed although nobody receives the event, or   *)
(* fail, which ends the stream.                                            *)
SendEvent(c, fate) ==
    /\ hand[c] # Empty
    /\ hand' = [hand EXCEPT ![c] = Empty]
    /\ \/ /\ fate = "arrives" /\ receiver[c] = "on"
          /\ wire' = [wire EXCEPT ![c] = Append(@, hand[c])]
          /\ UNCHANGED <<lost, stream>>
       \/ /\ fate \in {"is lost", "fails"} /\ stream[c] = "cancelled"
          /\ lost' = lost \cup {hand[c]}
          /\ stream' = IF fate = "fails" THEN [stream EXCEPT ![c] = "ended"] ELSE stream
          /\ UNCHANGED wire
    /\ UNCHANGED <<call, phase, receiver, received, serverVars, got, forwarder, shown>>

PrepareNext ==
    \/ CallPrepare \/ Return \/ ReportEvent
    \/ \E ok \in BOOLEAN : Open(ok)
    \/ \E c \in C : \/ Recv(c) \/ RecvFails(c) \/ GiveEvent(c) \/ ShowEvent(c)
                    \/ ForwarderReturns(c) \/ TakeEvent(c)
                    \/ \E fate \in {"arrives", "is lost", "fails"} : SendEvent(c, fate)

PrepareSpec == PrepareInit /\ [][PrepareNext]_prepareVars
-----------------------------------------------------------------------------
(* Properties                                                              *)

(* What came to the client with a call, in the order in which it came.     *)
Arrived(c) == got[c] \o (IF received[c] = Empty THEN <<>> ELSE <<received[c]>>) \o wire[c]

(* The collector of a client gets the events that its call brings in the   *)
(* order in which the provider reported them, and no event comes twice,    *)
(* with whichever call, although several streams may take from one channel *)
(* at the same time.  No event disappears otherwise than by a full channel *)
(* or a stream that its client had cancelled; so while the first call runs *)
(* nothing but a full channel loses one.                                   *)
PrepareEventsInOrder ==
    /\ \A c \in C : \A i, k \in 1..Len(Arrived(c)) : i < k => Arrived(c)[i] < Arrived(c)[k]
    /\ \A c, d \in C : c # d => ToSet(Arrived(c)) \cap ToSet(Arrived(d)) = {}
    /\ LET held == {hand[c] : c \in C} \ {Empty}
           came == UNION {ToSet(Arrived(c)) : c \in C}
       IN  /\ 1..events = ToSet(buffer) \cup held \cup came \cup dropped \cup lost
           /\ came \cap (ToSet(buffer) \cup held \cup dropped \cup lost) = {}
           /\ (ToSet(buffer) \cup held) \cap (dropped \cup lost) = {} /\ dropped \cap lost = {}
    /\ lost # {} => call > 1 \/ phase = "over"
    /\ dropped # {} => events > ReporterCap

(* No event that the channel of the reporter took is missed: it is         *)
(* received, and Progress forwards it ("Start progress streaming BEFORE    *)
(* calling the function so we don't miss any events",                      *)
(* provider/grpc/service_client.go:227).                                   *)
NoneMissed ==
    /\ lost = {}
    /\ \A c \in C : ~forwarder[c] => shown[c] = Len(got[c])
=============================================================================
